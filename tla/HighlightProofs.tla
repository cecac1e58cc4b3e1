--------------------------- MODULE HighlightProofs ---------------------------
(***************************************************************************)
(* Proofs about EpubHighlights, for any highlights, chapters and number of *)
(* scripts and callbacks under way: a row is filed under the chapter its   *)
(* highlight was made in, and with nothing under way the marks on screen   *)
(* and the rows of the chapter are the same highlights, in the same style. *)
(***************************************************************************)
EXTENDS EpubHighlights, SequenceTheorems, FiniteSetTheorems, TLAPS

Makers == {"highlight", "note"}
Menu == {"remove", "restyle", "edit"}
Notes == {"note", "ask"}
\* A highlight is being made: its script, its callback or the reading of its text.
Making == {"highlight", "note", "keep", "ask"}

JobRecords ==
  [do : Scripts, page : Pages, id : Ids \union {NoId}, style : Styles \union {"none"}, ran : BOOLEAN]

-----------------------------------------------------------------------------
(* The inductive invariant. *)

\* A script names the highlight it makes, reads or unlists; the others find
\* theirs when they run.  What has run knows the style that is stored.
JobOK(j) ==
  /\ j \in JobRecords
  /\ j.do \in Making \union {"unlist"} => j.id \in Ids
  /\ j.ran => j.id \in Ids /\ j.do \notin {"unmark", "unlist"}
  /\ (j.do \in Makers /\ ~j.ran) \/ (j.do \in {"keep", "ask"} /\ j.ran) => j.style \in Styles
  /\ ~j.ran /\ j.do \in Menu \union {"unmark"} => j.id = NoId
  /\ ~j.ran /\ j.do = "restyle" => j.style \in Styles
  /\ ~j.ran /\ j.do = "remove" => j.style = "none"

JobsOK == jobs \in Seq(JobRecords) /\ \A i \in DOMAIN jobs : JobOK(jobs[i])

\* Outside the reader nothing is under way; a sheet and the list exclude each other.
ScreenOK ==
  /\ view = NoPage => jobs = <<>> /\ sheet = NoSheet /\ ~list.up /\ ~due
  /\ view # NoPage => currentPageNumber \in Pages /\ view \in live
  /\ ~due => currentPageNumber = view
  /\ sheet # NoSheet => ~list.up

\* In one web view, what has run comes before what has not.
InOrder ==
  \A i, k \in DOMAIN jobs :
    k < i /\ jobs[k].page = jobs[i].page /\ jobs[i].ran => jobs[k].ran

\* The note of a new highlight is asked for; job i makes highlight h.
Noted(h) == sheet.id = h /\ ~sheet.edit
Makes(i, h) == jobs[i].id = h /\ jobs[i].do \in Making
UnderWay(h) == Noted(h) \/ \E i \in DOMAIN jobs : Makes(i, h)

\* Marks, and whatever names a highlight, are in the chapter it was made in.
AtHome ==
  /\ \A h \in Ids : \A q \in Pages :
       doc[q].marks[h] # "none" \/ file[q][h] # "none" \/ doc[q].this = h => home[h] = q
  /\ \A h \in Ids : Stored(h) \/ sheet.id = h => home[h] # NoPage
  /\ \A i \in DOMAIN jobs : jobs[i].id # NoId =>
       /\ home[jobs[i].id] # NoPage
       /\ jobs[i].do # "unlist" => home[jobs[i].id] = jobs[i].page

\* A highlight is made once, and is not stored before it is made.
MadeOnce ==
  /\ \A h \in Ids : \A i, k \in DOMAIN jobs : Makes(i, h) /\ Makes(k, h) => i = k
  /\ \A h \in Ids : \A i \in DOMAIN jobs : Makes(i, h) => ~Noted(h)
  /\ \A h \in Ids : UnderWay(h) => ~Stored(h) /\ \A q \in Pages : file[q][h] = "none"
  /\ \A h \in Ids : \A i \in DOMAIN jobs :
       jobs[i].do = "unlist" /\ jobs[i].id = h => ~Stored(h) /\ ~UnderWay(h)

\* A file that shows a highlight shows it in the style it was made in.
FileStyle ==
  \A p \in Pages, h \in Ids :
    file[p][h] # "none" /\ Stored(h) /\ store[h].type \in Styles => file[p][h] = store[h].type

\* Before its script has run, a highlight cannot be tapped.
NotYetMade ==
  \A i \in DOMAIN jobs : jobs[i].do \in Makers /\ ~jobs[i].ran =>
    /\ doc[jobs[i].page].marks[jobs[i].id] = "none"
    /\ doc[jobs[i].page].this # jobs[i].id
    /\ \A k \in DOMAIN jobs : jobs[k].do \in Menu => jobs[k].id # jobs[i].id

\* The highlight job i deals with.
Subject(i) == IF jobs[i].id = NoId THEN doc[jobs[i].page].this ELSE jobs[i].id

\* Highlights that were not crossed are dealt with on screen only.
OnView ==
  /\ \A i \in DOMAIN jobs : jobs[i].page # view /\ jobs[i].do \notin {"unmark", "unlist"} =>
       Subject(i) \in crossed \union {NoId}
  /\ \A i \in DOMAIN jobs : jobs[i].do \in Making /\ jobs[i].id \notin crossed => ~due
  /\ \A h \in Ids \ crossed : Noted(h) => ~due /\ home[h] = view /\ sheet.page = view

\* A note that no tap overtakes is alone: only taps made before it come first.
NotesAlone ==
  /\ \A i, k \in DOMAIN jobs : jobs[i].do \in Notes /\ jobs[i].id \notin crossed /\ i # k =>
       /\ jobs[k].do \notin Notes \union {"unmark"}
       /\ jobs[k].do \in Makers \union Menu /\ jobs[k].page = jobs[i].page =>
            jobs[i].do = "note" /\ k < i
  /\ \A i \in DOMAIN jobs :
       jobs[i].do \in Notes /\ jobs[i].id \notin crossed => sheet = NoSheet \/ sheet.edit
  /\ \A i \in DOMAIN jobs :
       jobs[i].do = "highlight" /\ ~jobs[i].ran /\ jobs[i].id \notin crossed =>
         /\ sheet = NoSheet \/ sheet.edit
         /\ \A k \in DOMAIN jobs : jobs[k].do \in Notes \union {"unmark"} =>
              jobs[k].do = "note" /\ ~jobs[k].ran /\ i < k /\ jobs[k].page = jobs[i].page
  /\ \A h \in Ids \ crossed : Noted(h) => \A k \in DOMAIN jobs :
       /\ jobs[k].do \notin Notes \union {"unmark"}
       /\ jobs[k].page = view => jobs[k].do \notin Makers \union Menu

\* The sheet of a highlight with a note is to come: its script has run, or runs
\* in a chapter that is not on screen any more.
NoteDue(i) == jobs[i].do = "ask" \/ (jobs[i].do = "note" /\ (jobs[i].ran \/ jobs[i].page # view))

\* thisHighlight of the chapter on screen is the highlight whose note is asked
\* for; when a note was given up, it is a highlight that was never stored.
NotesThis ==
  view # NoPage => \A h \in Ids \ crossed :
    /\ doc[view].this = h =>
         /\ \A i \in DOMAIN jobs : NoteDue(i) => jobs[i].id = h
         /\ sheet # NoSheet /\ ~sheet.edit => sheet.id = h
         /\ \A i \in DOMAIN jobs : jobs[i].do = "unmark" /\ jobs[i].page = view =>
              /\ ~Stored(h) /\ ~UnderWay(h)
              /\ \A k \in DOMAIN jobs : jobs[k].page = view /\ jobs[k].do \in Makers => jobs[k].ran
    /\ \A i \in DOMAIN jobs : NoteDue(i) /\ jobs[i].id = h => doc[view].this = h
    /\ Noted(h) => doc[view].this = h

\* A callback of kind d for highlight h is under way, later than job n.
Pending(d, h, n) ==
  \E i \in DOMAIN jobs : i > n /\ jobs[i].do = d /\ jobs[i].id = h /\ jobs[i].ran

\* Job i will take the mark of h away.
Clears(i, h) ==
  /\ jobs[i].page = view
  /\ \/ jobs[i].do = "unlist" /\ jobs[i].id = h
     \/ jobs[i].do = "unmark" /\ doc[view].this = h

\* A mark and its row differ only while the callback that makes them equal is
\* under way, or if the loading did not find the text or marked it again.
StoredMark(h) == Stored(h) =>
  /\ doc[view].marks[h] = "none" => Pending("remove", h, 0) \/ h \in doc[view].lost
  /\ doc[view].marks[h] \notin {"none", store[h].type} /\ store[h].type \in Styles =>
       Pending("restyle", h, 0) \/ (h \in doc[view].many /\ Pending("remove", h, 0))
KeptMark(h) == \A k \in DOMAIN jobs : jobs[k].id = h /\ jobs[k].do = "keep" /\ jobs[k].ran =>
  /\ doc[view].marks[h] = "none" => Pending("remove", h, k)
  /\ doc[view].marks[h] \notin {"none", jobs[k].style} => Pending("restyle", h, k)
NotedMark(h) ==
  /\ \A k \in DOMAIN jobs : jobs[k].id = h /\ jobs[k].do = "ask" /\ jobs[k].ran =>
       doc[view].marks[h] = jobs[k].style
  /\ Noted(h) => doc[view].marks[h] = sheet.type
ClearedMark(h) ==
  /\ Pending("remove", h, 0) => doc[view].marks[h] = "none" \/ h \in doc[view].many
  /\ doc[view].marks[h] # "none" =>
       \/ Stored(h) \/ h \in doc[view].ghosts \union doc[view].many \/ UnderWay(h)
       \/ \E i \in DOMAIN jobs : Clears(i, h)
MarkOK(h) == StoredMark(h) /\ KeptMark(h) /\ NotedMark(h) /\ ClearedMark(h)
MarksOK == view # NoPage => \A h \in Ids \ crossed : home[h] = view => MarkOK(h)

JobsInv == HighlightTypeOK /\ JobsOK /\ ScreenOK /\ InOrder
MakingInv == AtHome /\ MadeOnce /\ FileStyle /\ NotYetMade
NoteInv == OnView /\ NotesAlone /\ NotesThis
HighlightInv == JobsInv /\ MakingInv /\ NoteInv /\ MarksOK /\ RowInItsChapter

\* What loading the chapter found of its highlights.
Found(d) == <<d.ghosts, d.lost, d.many>>

\* What is marked more than once was marked in the file.
ManyInFile == \A p \in Pages : \A h \in doc[p].many : view # NoPage /\ file[p][h] # "none"

-----------------------------------------------------------------------------
(* What happens to the scripts and callbacks under way. *)

\* The jobs s are some of those under way, in their order: number i was old[i].
Picked(s, old) ==
  /\ old \in [DOMAIN s -> DOMAIN jobs]
  /\ \A i, k \in DOMAIN s : i < k => old[i] < old[k]
  /\ \A i \in DOMAIN s : s[i] = jobs[old[i]]

LEMMA Places ==
  ASSUME NEW S, NEW s \in Seq(S)
  PROVE  /\ Len(s) \in Nat /\ DOMAIN s = 1 .. Len(s) /\ DOMAIN s \subseteq Nat \ {0}
         /\ \A i \in DOMAIN s : s[i] \in S
  OBVIOUS

\* A job is sent: it is number n.
LEMMA Sent ==
  ASSUME NEW s \in Seq(JobRecords), NEW j \in JobRecords
  PROVE  /\ Append(s, j) \in Seq(JobRecords) /\ Len(Append(s, j)) = Len(s) + 1
         /\ \E n \in Nat \ DOMAIN s :
              /\ DOMAIN Append(s, j) = DOMAIN s \union {n} /\ Append(s, j)[n] = j
              /\ \A i \in DOMAIN s : i < n /\ Append(s, j)[i] = s[i]
<1>1. /\ Append(s, j) \in Seq(JobRecords) /\ Len(Append(s, j)) = Len(s) + 1
      /\ \A i \in 1 .. Len(s) : Append(s, j)[i] = s[i]
      /\ Append(s, j)[Len(s) + 1] = j
  BY AppendProperties
<1>2. /\ Len(s) \in Nat /\ DOMAIN s = 1 .. Len(s)
      /\ DOMAIN Append(s, j) = 1 .. Len(s) + 1
  BY <1>1, Places
<1>3. DOMAIN Append(s, j) = DOMAIN s \union {Len(s) + 1}
  BY <1>2
<1> QED
  BY <1>1, <1>2, <1>3

\* A job is taken out.
LEMMA TakenOut ==
  ASSUME jobs \in Seq(JobRecords), NEW i \in DOMAIN jobs
  PROVE  /\ Without(i) \in Seq(JobRecords) /\ Len(Without(i)) = Len(jobs) - 1
         /\ \E old : /\ Picked(Without(i), old) /\ \A k \in DOMAIN Without(i) : old[k] # i
                     /\ \A m \in DOMAIN jobs \ {i} : \E k \in DOMAIN Without(i) : old[k] = m
<1>1. Len(jobs) \in Nat /\ DOMAIN jobs = 1 .. Len(jobs) /\ i \in 1 .. Len(jobs)
  BY Places
<1> DEFINE n == Len(jobs) - 1
           old == [k \in 1 .. n |-> IF k < i THEN k ELSE k + 1]
<1>2. n \in Nat /\ \A k \in 1 .. n : k \in DOMAIN jobs /\ k + 1 \in DOMAIN jobs
  BY <1>1
<1>3. DOMAIN Without(i) = 1 .. n
  BY DEF Without
<1>4. \A k \in 1 .. n : Without(i)[k] = jobs[old[k]] /\ Without(i)[k] \in JobRecords
  BY <1>2, Places DEF Without
<1>5. Without(i) \in Seq(JobRecords)
  <2>1. Without(i) \in [1 .. n -> JobRecords]
    BY <1>3, <1>4 DEF Without
  <2> QED
    BY <1>2, <2>1, IsASeq
<1>6. Len(Without(i)) = n
  BY <1>2, <1>3, <1>5, Places
<1>7. Picked(Without(i), old)
  <2>1. old \in [1 .. n -> DOMAIN jobs]
    BY <1>2
  <2>2. \A j, k \in 1 .. n : j < k => old[j] < old[k]
    BY <1>1
  <2> QED
    BY <1>3, <1>4, <2>1, <2>2 DEF Picked
<1>8. \A k \in DOMAIN Without(i) : old[k] # i
  BY <1>1, <1>3
<1>9. ASSUME NEW m \in DOMAIN jobs \ {i} PROVE \E k \in DOMAIN Without(i) : old[k] = m
  <2>1. CASE m < i
    <3>1. m \in 1 .. n /\ old[m] = m
      BY <1>1, <2>1
    <3> QED
      BY <1>3, <3>1
  <2>2. CASE i < m
    <3>1. m - 1 \in 1 .. n /\ old[m - 1] = m
      BY <1>1, <2>2
    <3> QED
      BY <1>3, <3>1
  <2>3. m < i \/ i < m
    BY <1>1
  <2> QED
    BY <2>1, <2>2, <2>3
<1> QED
  BY <1>5, <1>6, <1>7, <1>8, <1>9

\* The last of several: none under way.
LEMMA NoneUnderWay ==
  /\ <<>> \in Seq(JobRecords) /\ Len(<<>>) = 0 /\ DOMAIN <<>> = {}
  /\ \A s \in Seq(JobRecords) : s # <<>> <=> DOMAIN s # {}
<1>1. <<>> \in Seq(JobRecords) /\ Len(<<>>) = 0 /\ DOMAIN <<>> = {}
  BY EmptySeq
<1>2. \A s \in Seq(JobRecords) : s = <<>> <=> Len(s) = 0
  BY EmptySeq
<1>3. \A s \in Seq(JobRecords) : Len(s) = 0 <=> DOMAIN s = {}
  BY Places
<1> QED
  BY <1>1, <1>2, <1>3

\* A selection is no longer than what it is taken from.
LEMMA SelectionLen ==
  ASSUME jobs \in Seq(JobRecords), NEW kept \in SUBSET DOMAIN jobs
  PROVE  Cardinality(kept) \in Nat /\ Cardinality(kept) <= Len(jobs)
<1>1. Len(jobs) \in Nat /\ DOMAIN jobs = 1 .. Len(jobs)
  BY Places
<1>2. IsFiniteSet(1 .. Len(jobs)) /\ Cardinality(1 .. Len(jobs)) = Len(jobs)
  <2>1. /\ IsFiniteSet(1 .. Len(jobs))
        /\ Cardinality(1 .. Len(jobs)) = IF 1 > Len(jobs) THEN 0 ELSE Len(jobs) - 1 + 1
    BY <1>1, FS_Interval
  <2> QED
    BY <1>1, <2>1
<1> QED
  BY <1>1, <1>2, FS_Subset, FS_CardinalityType

\* A step that only picks from the jobs keeps their types and their order.
LEMMA PickedJobs ==
  ASSUME JobsOK, InOrder, jobs' \in Seq(JobRecords), NEW old, Picked(jobs', old)
  PROVE  JobsOK' /\ InOrder'
<1>1. JobsOK'
  BY DEF JobsOK, Picked, JobOK
<1>2. InOrder'
  BY DEF InOrder, Picked
<1> QED
  BY <1>1, <1>2

-----------------------------------------------------------------------------
(* Steps that send nothing: each part of the invariant, and what the step  *)
(* may change for it to be kept.                                           *)

LEMMA OldOrder ==
  ASSUME jobs \in Seq(JobRecords), NEW s \in Seq(JobRecords), NEW old, Picked(s, old)
  PROVE  /\ \A i, k \in DOMAIN s : old[i] < old[k] => i < k
         /\ \A i, k \in DOMAIN s : i # k => old[i] # old[k]
<1>1. DOMAIN s \subseteq Nat /\ DOMAIN jobs \subseteq Nat
  BY Places
<1>2. \A i \in DOMAIN s : old[i] \in Nat
  BY <1>1 DEF Picked
<1>3. \A i, k \in DOMAIN s : i < k => old[i] < old[k]
  BY DEF Picked
<1>4. \A i, k \in DOMAIN s : i = k \/ i < k \/ k < i
  BY <1>1
<1> QED
  BY <1>2, <1>3, <1>4

\* No sheet asks for the note of another new highlight.
NoNewSheet == sheet' = sheet \/ sheet' = NoSheet \/ sheet'.edit

LEMMA SheetKept ==
  ASSUME NoNewSheet, NEW h \in Ids, Noted(h)'
  PROVE  Noted(h) /\ sheet' = sheet
  BY HighlightAssumption DEF NoNewSheet, Noted, NoSheet

LEMMA PickedHome ==
  ASSUME AtHome, NEW old, Picked(jobs', old), UNCHANGED home,
         \A h \in Ids, q \in Pages :
           doc'[q].marks[h] # "none" \/ file'[q][h] # "none" \/ doc'[q].this = h => home[h] = q,
         \A h \in Ids : Stored(h)' \/ sheet'.id = h => home[h] # NoPage
  PROVE  AtHome'
<1>1. ASSUME NEW i \in DOMAIN jobs', jobs'[i].id # NoId
      PROVE  /\ home[jobs'[i].id] # NoPage
             /\ jobs'[i].do # "unlist" => home[jobs'[i].id] = jobs'[i].page
  BY <1>1 DEF Picked, AtHome
<1> QED
  BY <1>1 DEF AtHome

LEMMA PickedMaking ==
  ASSUME MadeOnce, NEW old, Picked(jobs', old), NoNewSheet, JobsOK,
         jobs' \in Seq(JobRecords),
         \A h \in Ids : Stored(h)' => Stored(h),
         \A h \in Ids : ~Stored(h) => \A q \in Pages : file[q][h] = "none" => file'[q][h] = "none"
  PROVE  MadeOnce'
<1>1. \A h \in Ids : \A i \in DOMAIN jobs' : Makes(i, h)' => Makes(old[i], h) /\ old[i] \in DOMAIN jobs
  BY DEF Picked, Makes
<1>2. \A h \in Ids : UnderWay(h)' => UnderWay(h)
  BY <1>1, SheetKept DEF UnderWay
<1>3. \A h \in Ids : \A i, k \in DOMAIN jobs' : Makes(i, h)' /\ Makes(k, h)' => i = k
  <2> SUFFICES ASSUME NEW h \in Ids, NEW i \in DOMAIN jobs', NEW k \in DOMAIN jobs',
                      Makes(i, h)', Makes(k, h)', i # k
               PROVE  FALSE
    OBVIOUS
  <2>1. old[i] = old[k]
    BY <1>1 DEF MadeOnce
  <2> QED
    BY <2>1, OldOrder DEF JobsOK
<1>4. \A h \in Ids : \A i \in DOMAIN jobs' : Makes(i, h)' => ~Noted(h)'
  BY <1>1, SheetKept DEF MadeOnce
<1>5. \A h \in Ids : UnderWay(h)' => ~Stored(h)' /\ \A q \in Pages : file'[q][h] = "none"
  BY <1>2 DEF MadeOnce
<1>6. \A h \in Ids : \A i \in DOMAIN jobs' :
        jobs'[i].do = "unlist" /\ jobs'[i].id = h => ~Stored(h)' /\ ~UnderWay(h)'
  <2> SUFFICES ASSUME NEW h \in Ids, NEW i \in DOMAIN jobs', jobs'[i].do = "unlist", jobs'[i].id = h
               PROVE  ~Stored(h)' /\ ~UnderWay(h)'
    OBVIOUS
  <2>1. old[i] \in DOMAIN jobs /\ jobs'[i] = jobs[old[i]]
    BY DEF Picked
  <2> QED
    BY <1>2, <2>1 DEF MadeOnce
<1> QED
  BY <1>3, <1>4, <1>5, <1>6 DEF MadeOnce

LEMMA PickedNotYet ==
  ASSUME NotYetMade, NEW old, Picked(jobs', old),
         \A k \in DOMAIN jobs' : jobs'[k].do \in Makers /\ ~jobs'[k].ran =>
           LET q == jobs'[k].page
               h == jobs'[k].id
           IN /\ doc[q].marks[h] = "none" => doc'[q].marks[h] = "none"
              /\ doc[q].this # h => doc'[q].this # h
  PROVE  NotYetMade'
  BY DEF NotYetMade, Picked

LEMMA PickedView ==
  ASSUME OnView, JobsOK, NEW old, Picked(jobs', old), NoNewSheet,
         view' = view, due' = due, home' = home, crossed \subseteq crossed',
         \A q \in Pages : doc'[q].this = doc[q].this
  PROVE  OnView'
<1>1. ASSUME NEW i \in DOMAIN jobs', jobs'[i].page # view', jobs'[i].do \notin {"unmark", "unlist"}
      PROVE  Subject(i)' \in crossed' \union {NoId}
  <2>1. old[i] \in DOMAIN jobs /\ jobs'[i] = jobs[old[i]] /\ jobs'[i].page \in Pages
    BY DEF Picked, JobsOK, JobOK, JobRecords
  <2>2. Subject(i)' = Subject(old[i])
    BY <2>1 DEF Subject
  <2> QED
    BY <1>1, <2>1, <2>2 DEF OnView
<1>2. \A i \in DOMAIN jobs' : jobs'[i].do \in Making /\ jobs'[i].id \notin crossed' => ~due'
  BY DEF OnView, Picked
<1>3. \A h \in Ids \ crossed' : Noted(h)' => ~due' /\ home'[h] = view' /\ sheet'.page = view'
  BY SheetKept DEF OnView
<1> QED
  BY <1>1, <1>2, <1>3 DEF OnView

LEMMA PickedAlone ==
  ASSUME NotesAlone, jobs \in Seq(JobRecords), jobs' \in Seq(JobRecords),
         NEW old, Picked(jobs', old), NoNewSheet, crossed \subseteq crossed',
         view' = view \/ sheet' = NoSheet
  PROVE  NotesAlone'
<1>1. \A i, k \in DOMAIN jobs' : old[i] < old[k] => i < k
  BY OldOrder
<1>2. \A i \in DOMAIN jobs' : old[i] \in DOMAIN jobs /\ jobs'[i] = jobs[old[i]]
  BY DEF Picked
<1>3. \A i, k \in DOMAIN jobs' : i # k => old[i] # old[k]
  BY OldOrder
<1>4. \A i, k \in DOMAIN jobs' : jobs'[i].do \in Notes /\ jobs'[i].id \notin crossed' /\ i # k =>
        /\ jobs'[k].do \notin Notes \union {"unmark"}
        /\ jobs'[k].do \in Makers \union Menu /\ jobs'[k].page = jobs'[i].page =>
             jobs'[i].do = "note" /\ k < i
  BY <1>1, <1>2, <1>3 DEF NotesAlone
<1>5. \A i \in DOMAIN jobs' :
        jobs'[i].do \in Notes /\ jobs'[i].id \notin crossed' => sheet' = NoSheet \/ sheet'.edit
  BY <1>2 DEF NotesAlone, NoNewSheet
<1>6. \A i \in DOMAIN jobs' :
        jobs'[i].do = "highlight" /\ ~jobs'[i].ran /\ jobs'[i].id \notin crossed' =>
          /\ sheet' = NoSheet \/ sheet'.edit
          /\ \A k \in DOMAIN jobs' : jobs'[k].do \in Notes \union {"unmark"} =>
               jobs'[k].do = "note" /\ ~jobs'[k].ran /\ i < k /\ jobs'[k].page = jobs'[i].page
  BY <1>1, <1>2 DEF NotesAlone, NoNewSheet
<1>7. \A h \in Ids \ crossed' : Noted(h)' => \A k \in DOMAIN jobs' :
        /\ jobs'[k].do \notin Notes \union {"unmark"}
        /\ jobs'[k].page = view' => jobs'[k].do \notin Makers \union Menu
  <2> SUFFICES ASSUME NEW h \in Ids \ crossed', Noted(h)', NEW k \in DOMAIN jobs'
               PROVE  /\ jobs'[k].do \notin Notes \union {"unmark"}
                      /\ jobs'[k].page = view' => jobs'[k].do \notin Makers \union Menu
    OBVIOUS
  <2>1. Noted(h) /\ h \notin crossed /\ view' = view
    BY SheetKept, HighlightAssumption DEF Noted, NoSheet
  <2> QED
    BY <1>2, <2>1 DEF NotesAlone
<1> QED
  BY <1>4, <1>5, <1>6, <1>7 DEF NotesAlone

LEMMA PickedThis ==
  ASSUME NotesThis, NEW old, Picked(jobs', old), NoNewSheet, crossed \subseteq crossed',
         view' = view, doc'[view].this = doc[view].this,
         \A h \in Ids : Stored(h)' => Stored(h)
  PROVE  NotesThis'
<1> SUFFICES ASSUME view # NoPage, NEW h \in Ids \ crossed'
             PROVE  /\ doc[view].this = h =>
                         /\ \A i \in DOMAIN jobs' : NoteDue(i)' => jobs'[i].id = h
                         /\ sheet' # NoSheet /\ ~sheet'.edit => sheet'.id = h
                         /\ \A i \in DOMAIN jobs' : jobs'[i].do = "unmark" /\ jobs'[i].page = view =>
                              /\ ~Stored(h)' /\ ~UnderWay(h)'
                              /\ \A k \in DOMAIN jobs' :
                                   jobs'[k].page = view /\ jobs'[k].do \in Makers => jobs'[k].ran
                    /\ \A i \in DOMAIN jobs' : NoteDue(i)' /\ jobs'[i].id = h => doc[view].this = h
                    /\ Noted(h)' => doc[view].this = h
  BY DEF NotesThis
<1>1. \A i \in DOMAIN jobs' : /\ old[i] \in DOMAIN jobs /\ jobs'[i] = jobs[old[i]]
                              /\ NoteDue(i)' <=> NoteDue(old[i])
  BY DEF Picked, NoteDue
<1>2. UnderWay(h)' => UnderWay(h)
  BY <1>1, SheetKept DEF UnderWay, Makes
<1>3. Noted(h)' => Noted(h)
  BY SheetKept
<1>4. sheet' # NoSheet /\ ~sheet'.edit => sheet # NoSheet /\ ~sheet.edit /\ sheet'.id = sheet.id
  BY DEF NoNewSheet
<1>5. h \in Ids \ crossed
  OBVIOUS
<1> QED
  BY <1>1, <1>2, <1>3, <1>4, <1>5 DEF NotesThis

\* Job i matters to the mark of highlight h.
Concerns(i, h) == (jobs[i].id = h /\ jobs[i].do # "unlist") \/ Clears(i, h)

\* A step that does not deal with highlight h keeps what its mark promises: the
\* jobs E are the same as before, job k was old[k], and they are all that matter.
LEMMA MarkKept ==
  ASSUME NEW h \in Ids, MarkOK(h), view' = view,
         jobs \in Seq(JobRecords), jobs' \in Seq(JobRecords),
         doc'[view].marks[h] = doc[view].marks[h], Found(doc'[view]) = Found(doc[view]),
         store'[h] = store[h], Noted(h)' <=> Noted(h), Noted(h) => sheet'.type = sheet.type,
         NEW E \in SUBSET DOMAIN jobs', NEW old \in [E -> DOMAIN jobs],
         \A k \in E : jobs'[k] = jobs[old[k]],
         \A i, k \in E : i < k => old[i] < old[k],
         \A i \in DOMAIN jobs : Concerns(i, h) => \E k \in E : old[k] = i,
         \A k \in DOMAIN jobs' : jobs'[k].id = h => k \in E,
         \A i \in DOMAIN jobs :
           jobs[i].do = "unmark" /\ jobs[i].page = view /\ doc[view].this = h => doc'[view].this = h
  PROVE  MarkOK(h)'
<1>1. DOMAIN jobs \subseteq Nat \ {0} /\ DOMAIN jobs' \subseteq Nat \ {0}
  BY Places
<1>2. \A i, k \in E : old[i] < old[k] => i < k
  <2>1. \A i, k \in E : i = k \/ i < k \/ k < i
    BY <1>1
  <2>2. \A i \in E : old[i] \in Nat
    BY <1>1
  <2> QED
    BY <2>1, <2>2
<1>3. ASSUME NEW d \in {"remove", "restyle"}, NEW k \in E, Pending(d, h, old[k]) PROVE Pending(d, h, k)'
  <2>1. PICK i \in DOMAIN jobs :
          i > old[k] /\ jobs[i].do = d /\ jobs[i].id = h /\ jobs[i].ran
    BY <1>3 DEF Pending
  <2>2. PICK l \in E : old[l] = i
    BY <2>1 DEF Concerns
  <2>3. k < l /\ l > k
    BY <1>1, <1>2, <2>1, <2>2
  <2> QED
    BY <2>1, <2>2, <2>3 DEF Pending
<1>4. ASSUME NEW d \in {"remove", "restyle"}, Pending(d, h, 0) PROVE Pending(d, h, 0)'
  <2>1. PICK i \in DOMAIN jobs : jobs[i].do = d /\ jobs[i].id = h /\ jobs[i].ran
    BY <1>4 DEF Pending
  <2>2. PICK l \in E : old[l] = i
    BY <2>1 DEF Concerns
  <2>3. l > 0
    BY <1>1
  <2> QED
    BY <2>1, <2>2, <2>3 DEF Pending
<1>5. ASSUME Pending("remove", h, 0)' PROVE Pending("remove", h, 0)
  <2>1. PICK l \in DOMAIN jobs' : jobs'[l].do = "remove" /\ jobs'[l].id = h /\ jobs'[l].ran
    BY <1>5 DEF Pending
  <2>2. l \in E /\ old[l] > 0
    BY <1>1, <2>1
  <2> QED
    BY <2>1, <2>2 DEF Pending
<1>6. UnderWay(h) => UnderWay(h)'
  BY DEF UnderWay, Makes, Concerns, Making
<1>7. (\E i \in DOMAIN jobs : Clears(i, h)) => \E i \in DOMAIN jobs' : Clears(i, h)'
  BY DEF Clears, Concerns
<1>8. StoredMark(h)'
  BY <1>4 DEF MarkOK, StoredMark, Stored, Found
<1>9. KeptMark(h)'
  BY <1>3 DEF MarkOK, KeptMark
<1>10. NotedMark(h)'
  BY DEF MarkOK, NotedMark
<1>11. ClearedMark(h)'
  BY <1>5, <1>6, <1>7 DEF MarkOK, ClearedMark, Stored, Found
<1> QED
  BY <1>8, <1>9, <1>10, <1>11 DEF MarkOK

-----------------------------------------------------------------------------
(* The jobs as they are, and none. *)

LEMMA SameJobs ==
  ASSUME jobs \in Seq(JobRecords), UNCHANGED jobs
  PROVE  \E old : Picked(jobs', old)
<1> DEFINE old == [k \in DOMAIN jobs |-> k]
<1>1. Picked(jobs', old)
  BY DEF Picked
<1> QED
  BY <1>1

LEMMA NoJobs ==
  ASSUME jobs' = <<>>
  PROVE  jobs' \in Seq(JobRecords) /\ DOMAIN jobs' = {} /\ \E old : Picked(jobs', old)
<1> DEFINE old == [k \in {} |-> k]
<1>1. DOMAIN jobs' = {} /\ jobs' \in Seq(JobRecords)
  BY NoneUnderWay
<1>2. Picked(jobs', old)
  BY <1>1 DEF Picked
<1> QED
  BY <1>1, <1>2

\* What matters to a mark does not change with the jobs and the sheet.
LEMMA MarkSame ==
  ASSUME NEW h \in Ids, MarkOK(h), jobs \in Seq(JobRecords), UNCHANGED <<view, jobs>>,
         doc'[view].marks[h] = doc[view].marks[h], Found(doc'[view]) = Found(doc[view]),
         store'[h] = store[h], Noted(h)' <=> Noted(h), Noted(h) => sheet'.type = sheet.type,
         \A i \in DOMAIN jobs :
           jobs[i].do = "unmark" /\ jobs[i].page = view /\ doc[view].this = h => doc'[view].this = h
  PROVE  MarkOK(h)'
<1> DEFINE old == [k \in DOMAIN jobs |-> k]
<1>1. /\ old \in [DOMAIN jobs -> DOMAIN jobs] /\ \A k \in DOMAIN jobs : jobs'[k] = jobs[old[k]]
      /\ \A i, k \in DOMAIN jobs : i < k => old[i] < old[k]
      /\ \A i \in DOMAIN jobs : old[i] = i
  OBVIOUS
<1>2. /\ DOMAIN jobs \in SUBSET DOMAIN jobs' /\ jobs' \in Seq(JobRecords)
      /\ \A k \in DOMAIN jobs' : jobs'[k].id = h => k \in DOMAIN jobs
  OBVIOUS
<1> HIDE DEF old
<1>3. \A i \in DOMAIN jobs : Concerns(i, h) => \E k \in DOMAIN jobs : old[k] = i
  BY <1>1
<1> QED
  BY <1>1, <1>2, <1>3, MarkKept, Zenon

\* What a tap mixes up.
LEMMA DealtWith == \A i \in DOMAIN jobs : Subject(i) # NoId => Subject(i) \in Dealt
  BY DEF Subject, Dealt

LEMMA Mixed ==
  ASSUME NEW h, NEW i \in DOMAIN jobs, jobs[i].do \in Notes \union {"unmark"}
  PROVE  /\ h \in MixedUp(h) /\ Dealt \subseteq MixedUp(h)
         /\ \A k \in DOMAIN jobs : Subject(k) # NoId => Subject(k) \in MixedUp(h)
<1>1. h \in MixedUp(h) /\ Dealt \subseteq MixedUp(h)
  BY DEF MixedUp, Notes
<1> QED
  BY <1>1, DealtWith

\* Any highlight a job names is one of those it deals with.
LEMMA Named ==
  ASSUME HighlightAssumption, NEW i \in DOMAIN jobs, jobs[i].id \in Ids PROVE Subject(i) = jobs[i].id
  BY DEF HighlightAssumption, Subject

-----------------------------------------------------------------------------
(* Steps that leave the jobs as they are. *)

\* The invariant holds before a reader is opened for the first time.
LEMMA HighlightInitInv == HighlightInit => HighlightInv
<1> SUFFICES ASSUME HighlightInit PROVE HighlightInv
  OBVIOUS
<1>1. jobs = <<>> /\ jobs \in Seq(JobRecords) /\ DOMAIN jobs = {} /\ Len(jobs) = 0
  BY NoneUnderWay DEF HighlightInit
<1>2. /\ \A h \in Ids : store[h] = NoRow /\ home[h] = NoPage /\ ~Stored(h)
      /\ \A q \in Pages : file[q] = NoMarks /\ doc[q] = NoDoc
  BY DEF HighlightInit, Stored
<1>3. \A h \in Ids : NoMarks[h] = "none" /\ NoDoc.marks[h] = "none" /\ NoDoc.this # h
  BY HighlightAssumption DEF NoMarks, NoDoc
<1>4. \A h \in Ids : ~Noted(h) /\ sheet.id # h
  BY HighlightAssumption DEF HighlightInit, Noted, NoSheet
<1>5. NoMarks \in Marks /\ NoDoc \in Doc
  BY DEF NoMarks, NoDoc, Marks, Doc
<1>6. HighlightTypeOK
  <2>1. /\ store \in [Ids -> Row \union {NoRow}] /\ file \in [Pages -> Marks] /\ doc \in [Pages -> Doc]
        /\ live \subseteq Pages /\ view \in Pages \union {NoPage} /\ due \in BOOLEAN
        /\ currentPageNumber \in Pages \union {NoPage}
    BY <1>5 DEF HighlightInit
  <2>2. /\ sheet = NoSheet /\ list \in [up : BOOLEAN, rows : SUBSET Ids]
        /\ home \in [Ids -> Pages \union {NoPage}] /\ crossed \subseteq Ids
    BY DEF HighlightInit, NoList
  <2>3. Len(jobs) <= MaxJobs
    BY <1>1, HighlightAssumption
  <2> QED
    BY <1>1, <2>1, <2>2, <2>3 DEF HighlightTypeOK, Doc
<1>7. JobsOK /\ ScreenOK /\ InOrder
  BY <1>1 DEF HighlightInit, JobsOK, ScreenOK, InOrder, NoList
<1>8. AtHome /\ MadeOnce /\ FileStyle /\ NotYetMade
  BY <1>1, <1>2, <1>3, <1>4 DEF AtHome, MadeOnce, FileStyle, NotYetMade, UnderWay
<1>9. OnView /\ NotesAlone
  BY <1>1, <1>4 DEF OnView, NotesAlone
<1>10. NotesThis /\ MarksOK
  BY DEF HighlightInit, NotesThis, MarksOK
<1>11. RowInItsChapter
  BY <1>2 DEF RowInItsChapter
<1> QED
  BY <1>6, <1>7, <1>8, <1>9, <1>10, <1>11 DEF HighlightInv, JobsInv, MakingInv, NoteInv

\* Nothing that the parts about highlights and jobs read is changed.
LEMMA RestSame ==
  ASSUME HighlightInv, UNCHANGED <<store, file, doc, view, due, jobs, sheet, home, crossed>>
  PROVE  /\ JobsOK' /\ InOrder' /\ MakingInv' /\ NoteInv' /\ MarksOK' /\ RowInItsChapter'
<1> USE DEF HighlightInv, JobsInv, MakingInv, NoteInv
<1>1. JobsOK' /\ InOrder'
  BY DEF JobsOK, InOrder
<1>2. \A h \in Ids : /\ Stored(h)' <=> Stored(h)
                     /\ Noted(h)' <=> Noted(h)
                     /\ UnderWay(h)' <=> UnderWay(h)
                     /\ \A i \in DOMAIN jobs : Makes(i, h)' <=> Makes(i, h)
  BY DEF Stored, Noted, UnderWay, Makes
<1>3. AtHome' /\ MadeOnce' /\ FileStyle' /\ NotYetMade'
  BY <1>2 DEF AtHome, MadeOnce, FileStyle, NotYetMade
<1>4. PICK old : Picked(jobs', old)
  BY SameJobs DEF JobsOK
<1>5. OnView' /\ NotesAlone' /\ NotesThis'
  BY <1>1, <1>2, <1>4, PickedView, PickedAlone, PickedThis DEF JobsOK, NoNewSheet
<1>6. MarksOK'
  BY <1>2, MarkSame DEF MarksOK, JobsOK
<1>7. RowInItsChapter'
  BY <1>2 DEF RowInItsChapter
<1> QED
  BY <1>1, <1>3, <1>5, <1>6, <1>7

\* The list comes up, and is closed.
LEMMA ListSteps == ASSUME HighlightInv, OpenList \/ CloseList PROVE HighlightInv'
<1>1. /\ UNCHANGED <<store, file, doc, live, view, currentPageNumber, due, jobs, sheet, home, crossed>>
      /\ list' \in [up : BOOLEAN, rows : SUBSET Ids]
      /\ list'.up => view # NoPage /\ sheet = NoSheet
  <2>1. CASE OpenList
    BY <2>1 DEF OpenList, screenVars, Reading
  <2>2. CASE CloseList
    BY <2>2 DEF CloseList, screenVars, NoList
  <2> QED
    BY <2>1, <2>2
<1>2. HighlightTypeOK' /\ ScreenOK'
  BY <1>1 DEF HighlightInv, JobsInv, HighlightTypeOK, ScreenOK
<1> QED
  BY <1>1, <1>2, RestSame DEF HighlightInv, JobsInv

\* The caches are emptied.
LEMMA PurgeStep == ASSUME HighlightInv, PurgeCaches PROVE HighlightInv'
<1> USE DEF HighlightInv, JobsInv, MakingInv, NoteInv
<1>1. /\ UNCHANGED <<store, doc, live, view, currentPageNumber, due, jobs, sheet, list, home, crossed>>
      /\ view = NoPage /\ file' = [p \in Pages |-> NoMarks]
  BY DEF PurgeCaches, screenVars, modalVars
<1>2. \A q \in Pages, h \in Ids : file'[q][h] = "none"
  BY <1>1 DEF NoMarks
<1>3. jobs = <<>> /\ DOMAIN jobs = {} /\ jobs' = jobs /\ \A h \in Ids : ~Noted(h)'
  BY <1>1, NoneUnderWay, HighlightAssumption DEF ScreenOK, Noted, NoSheet
<1>4. HighlightTypeOK'
  BY <1>1 DEF HighlightTypeOK, NoMarks, Marks
<1>5. JobsOK' /\ InOrder' /\ ScreenOK'
  BY <1>1, <1>3 DEF JobsOK, InOrder, ScreenOK
<1>6. AtHome' /\ MadeOnce' /\ FileStyle' /\ NotYetMade'
  BY <1>1, <1>2, <1>3 DEF AtHome, MadeOnce, FileStyle, NotYetMade, Stored, UnderWay
<1>7. OnView' /\ NotesAlone' /\ NotesThis' /\ MarksOK' /\ RowInItsChapter'
  BY <1>1, <1>3 DEF OnView, NotesAlone, NotesThis, MarksOK, RowInItsChapter, Stored
<1> QED
  BY <1>4, <1>5, <1>6, <1>7

\* The reader is closed.
LEMMA CloseStep == ASSUME HighlightInv, CloseReader PROVE HighlightInv'
<1> USE DEF HighlightInv, JobsInv, MakingInv, NoteInv
<1>1. /\ UNCHANGED <<store, file, home, crossed>> /\ view' = NoPage /\ currentPageNumber' = NoPage
      /\ due' = FALSE /\ doc' = [p \in Pages |-> NoDoc] /\ live' = {} /\ jobs' = <<>>
      /\ sheet' = NoSheet /\ list' = NoList
  BY DEF CloseReader
<1>2. jobs' \in Seq(JobRecords) /\ DOMAIN jobs' = {} /\ Len(jobs') = 0
  BY <1>1, NoneUnderWay
<1>3. \A h \in Ids : ~Noted(h)' /\ sheet'.id # h
  BY <1>1, HighlightAssumption DEF Noted, NoSheet
<1>4. \A q \in Pages, h \in Ids : doc'[q].marks[h] = "none" /\ doc'[q].this # h
  BY <1>1, HighlightAssumption DEF NoDoc, NoMarks
<1>5. HighlightTypeOK'
  <2>1. NoDoc \in Doc /\ NoList \in [up : BOOLEAN, rows : SUBSET Ids]
    BY DEF NoDoc, NoMarks, Marks, Doc, NoList
  <2>2. doc' \in [Pages -> Doc] /\ Len(jobs') <= MaxJobs
    BY <1>1, <1>2, <2>1, HighlightAssumption
  <2> QED
    BY <1>1, <1>2, <2>1, <2>2 DEF HighlightTypeOK, Doc
<1>6. JobsOK' /\ InOrder' /\ ScreenOK'
  BY <1>1, <1>2 DEF JobsOK, InOrder, ScreenOK, NoList
<1>7. AtHome' /\ MadeOnce' /\ FileStyle' /\ NotYetMade'
  <2>1. AtHome'
    BY <1>1, <1>2, <1>3, <1>4 DEF AtHome, Stored
  <2>2. MadeOnce'
    BY <1>2, <1>3 DEF MadeOnce, UnderWay
  <2>3. FileStyle' /\ NotYetMade'
    BY <1>1, <1>2 DEF FileStyle, NotYetMade, Stored
  <2> QED
    BY <2>1, <2>2, <2>3
<1>8. OnView' /\ NotesAlone' /\ NotesThis' /\ MarksOK' /\ RowInItsChapter'
  BY <1>1, <1>2, <1>3 DEF OnView, NotesAlone, NotesThis, MarksOK, RowInItsChapter, Stored
<1> QED
  BY <1>5, <1>6, <1>7, <1>8

\* updateCurrentPage: what is under way is crossed, a note is not waiting.
LEMMA UpdateStep == ASSUME HighlightInv, updateCurrentPage PROVE HighlightInv'
<1> USE DEF HighlightInv, JobsInv, MakingInv, NoteInv
<1>1. /\ UNCHANGED <<store, file, doc, live, view, jobs, sheet, list, home>>
      /\ due /\ due' = FALSE /\ currentPageNumber' = view /\ crossed' = crossed \union Dealt
  BY DEF updateCurrentPage, modalVars
<1>2. /\ crossed \subseteq crossed' /\ crossed' \subseteq Ids /\ view # NoPage /\ view \in Pages
      /\ jobs \in Seq(JobRecords)
  <2>1. Dealt \subseteq Ids
    BY DEF Dealt, HighlightTypeOK, Doc, JobsOK, JobOK, JobRecords
  <2> QED
    BY <1>1, <2>1 DEF ScreenOK, HighlightTypeOK, JobsOK
<1>3. \A h \in Ids : /\ Stored(h)' <=> Stored(h)
                     /\ Noted(h)' <=> Noted(h)
                     /\ UnderWay(h)' <=> UnderWay(h)
                     /\ \A i \in DOMAIN jobs : Makes(i, h)' <=> Makes(i, h)
  BY <1>1 DEF Stored, Noted, UnderWay, Makes
<1>4. HighlightTypeOK' /\ JobsOK' /\ InOrder' /\ ScreenOK'
  BY <1>1, <1>2 DEF HighlightTypeOK, JobsOK, InOrder, ScreenOK
<1>5. AtHome' /\ MadeOnce' /\ FileStyle' /\ NotYetMade'
  BY <1>1, <1>3 DEF AtHome, MadeOnce, FileStyle, NotYetMade
<1>6. PICK old : Picked(jobs', old)
  BY <1>1, <1>2, SameJobs
<1>7. NotesAlone' /\ NotesThis'
  BY <1>1, <1>2, <1>3, <1>6, PickedAlone, PickedThis DEF NoNewSheet
<1>8. OnView'
  <2>1. \A i \in DOMAIN jobs : Subject(i)' = Subject(i)
    BY <1>1 DEF Subject
  <2> QED
    BY <1>1, <1>2, <1>3, <2>1 DEF OnView
<1>9. MarksOK'
  BY <1>1, <1>2, <1>3, MarkSame DEF MarksOK
<1>10. RowInItsChapter'
  BY <1>1, <1>2, <1>3 DEF RowInItsChapter
<1> QED
  BY <1>4, <1>5, <1>7, <1>8, <1>9, <1>10

\* A mark is tapped: with a note under way, both are crossed.
LEMMA TapMarkStep == ASSUME HighlightInv, NEW m \in Ids, TapMark(m) PROVE HighlightInv'
<1> USE DEF HighlightInv, JobsInv, MakingInv, NoteInv
<1>1. /\ UNCHANGED <<store, file, live, view, due, currentPageNumber, jobs, sheet, list, home>>
      /\ view \in Pages /\ view # NoPage /\ sheet = NoSheet /\ doc[view].marks[m] # "none"
      /\ doc' = [doc EXCEPT ![view].this = m] /\ crossed' = crossed \union MixedUp(m)
  BY DEF TapMark, modalVars, screenVars, Reading, HighlightTypeOK
<1>2. doc \in [Pages -> Doc] /\ jobs \in Seq(JobRecords)
  BY DEF HighlightTypeOK, Doc, JobsOK
<1>3. /\ doc'[view].this = m
      /\ \A q \in Pages : doc'[q].marks = doc[q].marks /\ Found(doc'[q]) = Found(doc[q])
      /\ \A q \in Pages : q # view => doc'[q].this = doc[q].this
      /\ doc' \in [Pages -> Doc]
  BY <1>1, <1>2 DEF Doc, Found
<1>4. crossed \subseteq crossed' /\ crossed' \subseteq Ids
  <2>1. Dealt \subseteq Ids
    BY DEF Dealt, HighlightTypeOK, Doc, JobsOK, JobOK, JobRecords
  <2> QED
    BY <1>1, <2>1 DEF MixedUp, HighlightTypeOK
<1>5. \A h \in Ids : ~Noted(h) /\ ~Noted(h)' /\ (Stored(h)' <=> Stored(h))
  BY <1>1, HighlightAssumption DEF Noted, NoSheet, Stored
<1>6. PICK old : Picked(jobs', old)
  BY <1>1, <1>2, SameJobs
<1>7. HighlightTypeOK' /\ JobsOK' /\ InOrder' /\ ScreenOK'
  <2>1. HighlightTypeOK'
    BY <1>1, <1>3, <1>4 DEF HighlightTypeOK, Doc
  <2> QED
    BY <1>1, <2>1 DEF JobsOK, InOrder, ScreenOK
<1>8. home[m] = view
  BY <1>1 DEF AtHome
<1>9. AtHome'
  <2>1. \A h \in Ids, q \in Pages :
          doc'[q].marks[h] # "none" \/ file'[q][h] # "none" \/ doc'[q].this = h => home[h] = q
    BY <1>1, <1>3, <1>8 DEF AtHome
  <2> QED
    BY <1>1, <1>5, <2>1 DEF AtHome
<1>10. MadeOnce' /\ FileStyle'
  <2>1. MadeOnce'
    BY <1>1, <1>2, <1>5, <1>6, PickedMaking DEF NoNewSheet
  <2> QED
    BY <1>1, <1>5, <2>1 DEF FileStyle
<1>11. NotYetMade'
  <2>1. \A i \in DOMAIN jobs : jobs[i].page \in Pages
    BY DEF JobsOK, JobOK, JobRecords
  <2> QED
    BY <1>1, <1>3, <2>1 DEF NotYetMade
<1>12. \A i \in DOMAIN jobs : jobs[i].do \in Notes \union {"unmark"} =>
         /\ m \in crossed'
         /\ \A k \in DOMAIN jobs : Subject(k) # NoId => Subject(k) \in crossed'
         /\ \A k \in DOMAIN jobs : jobs[k].id \in Ids => jobs[k].id \in crossed'
  <2>1. \A k \in DOMAIN jobs : jobs[k].id \in Ids => Subject(k) = jobs[k].id /\ Subject(k) # NoId
    BY Named, HighlightAssumption
  <2> QED
    BY <1>1, <2>1, Mixed
<1>13. OnView'
  <2>1. \A i \in DOMAIN jobs : jobs[i].page # view => Subject(i)' = Subject(i)
    BY <1>1, <1>3 DEF Subject, JobsOK, JobOK, JobRecords
  <2> QED
    BY <1>1, <1>4, <1>5, <2>1 DEF OnView
<1>14. NotesAlone'
  BY <1>1, <1>2, <1>4, <1>6, PickedAlone DEF NoNewSheet
<1>15. NotesThis'
  <2>1. \A i \in DOMAIN jobs : NoteDue(i)' <=> NoteDue(i)
    BY <1>1 DEF NoteDue
  <2>2. \A i \in DOMAIN jobs : NoteDue(i) => jobs[i].do \in Notes /\ jobs[i].id \in Ids
    BY DEF NoteDue, Notes, JobsOK, JobOK, Making
  <2>3. ASSUME NEW h \in Ids \ crossed', doc'[view].this = h
        PROVE  \A i \in DOMAIN jobs : ~NoteDue(i) /\ jobs[i].do # "unmark"
    BY <1>3, <1>12, <2>2, <2>3
  <2>4. ASSUME NEW h \in Ids \ crossed', NEW i \in DOMAIN jobs, NoteDue(i), jobs[i].id = h
        PROVE  FALSE
    BY <1>12, <2>2, <2>4
  <2> QED
    BY <1>1, <1>5, <2>1, <2>3, <2>4 DEF NotesThis
<1>16. MarksOK'
  <2> SUFFICES ASSUME NEW h \in Ids \ crossed', home[h] = view PROVE MarkOK(h)'
    BY <1>1 DEF MarksOK
  <2>1. MarkOK(h)
    BY <1>1, <1>4 DEF MarksOK
  <2>2. ASSUME doc[view].this = h, NEW i \in DOMAIN jobs, jobs[i].do = "unmark", jobs[i].page = view
        PROVE  FALSE
    <3>1. jobs[i].id = NoId
      <4>1. ~jobs[i].ran
        BY <2>2 DEF JobsOK, JobOK
      <4> QED
        BY <2>2, <4>1 DEF JobsOK, JobOK
    <3>3. Subject(i) = h
      BY <2>2, <3>1 DEF Subject
    <3> QED
      BY <1>12, <2>2, <3>3, HighlightAssumption
  <2> QED
    BY <1>1, <1>2, <1>3, <1>5, <2>1, <2>2, MarkSame
<1>17. RowInItsChapter'
  BY <1>1, <1>4, <1>5 DEF RowInItsChapter
<1> QED
  BY <1>7, <1>9, <1>10, <1>11, <1>13, <1>14, <1>15, <1>16, <1>17

\* The note sheet is closed with a text: a new highlight is stored, and shown as
\* it is stored.
LEMMA SaveStep == ASSUME HighlightInv, SaveNote PROVE HighlightInv'
<1> USE DEF HighlightInv, JobsInv, MakingInv, NoteInv
<1>1. /\ UNCHANGED <<file, doc, live, view, due, currentPageNumber, jobs, list, home, crossed>>
      /\ sheet # NoSheet /\ sheet' = NoSheet
      /\ store' = IF sheet.edit THEN store
                  ELSE [store EXCEPT ![sheet.id] = [page |-> sheet.page, type |-> sheet.type]]
  BY DEF SaveNote, screenVars
<1>2. /\ sheet.id \in Ids /\ sheet.page \in Pages /\ sheet.type \in Styles \union {"hash"}
      /\ sheet.edit \in BOOLEAN /\ view # NoPage /\ jobs \in Seq(JobRecords)
      /\ store \in [Ids -> Row \union {NoRow}]
  BY <1>1 DEF HighlightTypeOK, ScreenOK, JobsOK
<1> DEFINE s == sheet.id
           row == [page |-> sheet.page, type |-> sheet.type]
<1>3. row \in Row /\ row # NoRow
  BY <1>2, HighlightAssumption DEF Row, NoRow
<1>4. /\ \A h \in Ids : ~sheet.edit /\ h = s => store'[h] = row /\ Stored(h)' /\ Noted(h)
      /\ \A h \in Ids : sheet.edit \/ h # s =>
           store'[h] = store[h] /\ ~Noted(h) /\ (Stored(h)' <=> Stored(h))
      /\ \A h \in Ids : ~Noted(h)' /\ sheet'.id # h
  BY <1>1, <1>2, <1>3, HighlightAssumption DEF Stored, Noted, NoSheet
<1>5. /\ \A h \in Ids : UnderWay(h)' => UnderWay(h)
      /\ \A h \in Ids : Noted(h) => ~UnderWay(h)'
      /\ \A h \in Ids : \A i \in DOMAIN jobs : Makes(i, h)' <=> Makes(i, h)
  BY <1>1, <1>4 DEF UnderWay, Makes, MadeOnce
<1>6. HighlightTypeOK' /\ JobsOK' /\ InOrder' /\ ScreenOK'
  <2>1. store' \in [Ids -> Row \union {NoRow}]
    BY <1>1, <1>2, <1>3
  <2> QED
    BY <1>1, <2>1 DEF HighlightTypeOK, JobsOK, InOrder, ScreenOK
<1>7. AtHome'
  BY <1>1, <1>4 DEF AtHome
<1>8. MadeOnce'
  <2>1. \A h \in Ids : Noted(h) => \A i \in DOMAIN jobs : ~(jobs[i].do = "unlist" /\ jobs[i].id = h)
    BY DEF MadeOnce, UnderWay
  <2>2. \A h \in Ids : UnderWay(h)' => UnderWay(h) /\ ~Stored(h)'
    BY <1>4, <1>5 DEF MadeOnce
  <2> QED
    BY <1>1, <1>4, <1>5, <2>1, <2>2 DEF MadeOnce
<1>9. FileStyle'
  <2> SUFFICES ASSUME NEW p \in Pages, NEW h \in Ids, file[p][h] # "none", Stored(h)',
                      store'[h].type \in Styles
               PROVE  file[p][h] = store'[h].type
    BY <1>1 DEF FileStyle
  <2>1. ~Noted(h)
    BY DEF MadeOnce, UnderWay
  <2> QED
    BY <1>4, <2>1 DEF FileStyle
<1>10. NotYetMade'
  BY <1>1 DEF NotYetMade
<1>11. PICK old : Picked(jobs', old)
  BY <1>1, <1>2, SameJobs
<1>12. OnView' /\ NotesAlone'
  BY <1>1, <1>2, <1>11, PickedView, PickedAlone DEF NoNewSheet
<1>13. NotesThis'
  <2> SUFFICES ASSUME NEW h \in Ids \ crossed
               PROVE  /\ doc[view].this = h =>
                           /\ \A i \in DOMAIN jobs : NoteDue(i)' => jobs[i].id = h
                           /\ \A i \in DOMAIN jobs : jobs[i].do = "unmark" /\ jobs[i].page = view =>
                                /\ ~Stored(h)' /\ ~UnderWay(h)'
                                /\ \A k \in DOMAIN jobs :
                                     jobs[k].page = view /\ jobs[k].do \in Makers => jobs[k].ran
                      /\ \A i \in DOMAIN jobs : NoteDue(i)' /\ jobs[i].id = h => doc[view].this = h
    BY <1>1, <1>4 DEF NotesThis
  <2>1. \A i \in DOMAIN jobs : NoteDue(i)' <=> NoteDue(i)
    BY <1>1 DEF NoteDue
  <2>2. Noted(h) => \A i \in DOMAIN jobs : jobs[i].do # "unmark"
    BY DEF NotesAlone
  <2>3. ~Noted(h) => (Stored(h)' <=> Stored(h))
    BY <1>4
  <2> QED
    BY <1>2, <1>5, <2>1, <2>2, <2>3 DEF NotesThis
<1>14. MarksOK'
  <2> SUFFICES ASSUME NEW h \in Ids \ crossed, home[h] = view PROVE MarkOK(h)'
    BY <1>1 DEF MarksOK
  <2>1. MarkOK(h)
    BY <1>2 DEF MarksOK
  <2>2. CASE sheet.edit \/ h # s
    BY <1>1, <1>2, <1>4, <2>1, <2>2, MarkSame
  <2>3. CASE ~sheet.edit /\ h = s
    <3>1. Noted(h) /\ store'[h] = row /\ Stored(h)'
      BY <1>4, <2>3
    <3>2. doc[view].marks[h] = sheet.type
      BY <2>1, <3>1 DEF MarkOK, NotedMark
    <3>3. sheet.type # "none" /\ row.type = sheet.type
      BY <1>2 DEF Styles
    <3>4. StoredMark(h)'
      BY <1>1, <3>1, <3>2, <3>3 DEF StoredMark
    <3>5. \A i \in DOMAIN jobs : ~Makes(i, h)
      BY <3>1 DEF MadeOnce
    <3>6. KeptMark(h)' /\ NotedMark(h)'
      BY <1>1, <1>4, <3>5 DEF KeptMark, NotedMark, Makes, Making
    <3>7. Pending("remove", h, 0)' <=> Pending("remove", h, 0)
      BY <1>1 DEF Pending
    <3>8. ClearedMark(h)'
      BY <1>1, <2>1, <3>1, <3>7 DEF MarkOK, ClearedMark
    <3> QED
      BY <3>4, <3>6, <3>8 DEF MarkOK
  <2> QED
    BY <2>2, <2>3
<1>15. RowInItsChapter'
  <2> SUFFICES ASSUME NEW h \in Ids \ crossed, Stored(h)' PROVE store'[h].page = home[h]
    BY <1>1 DEF RowInItsChapter
  <2>1. CASE Noted(h)
    BY <1>4, <2>1 DEF OnView, Noted
  <2>2. CASE ~Noted(h)
    BY <1>4, <2>2 DEF RowInItsChapter
  <2> QED
    BY <2>1, <2>2
<1> QED
  BY <1>6, <1>7, <1>8, <1>9, <1>10, <1>12, <1>13, <1>14, <1>15

-----------------------------------------------------------------------------
(* Steps that send a script. *)

\* Script j was sent as job n.
SentAs(j, n) ==
  /\ n \in Nat \ DOMAIN jobs /\ DOMAIN jobs' = DOMAIN jobs \union {n} /\ jobs'[n] = j
  /\ \A i \in DOMAIN jobs : i < n /\ jobs'[i] = jobs[i]

LEMMA SentJobs ==
  ASSUME JobsOK, InOrder, NEW j, JobOK(j), ~j.ran, jobs' = Append(jobs, j)
  PROVE  /\ jobs' \in Seq(JobRecords) /\ Len(jobs') = Len(jobs) + 1 /\ JobsOK' /\ InOrder'
         /\ \E n : SentAs(j, n)
<1>1. jobs \in Seq(JobRecords) /\ j \in JobRecords
  BY DEF JobsOK, JobOK
<1>2. /\ jobs' \in Seq(JobRecords) /\ Len(jobs') = Len(jobs) + 1
      /\ \E n : SentAs(j, n)
  BY <1>1, Sent DEF SentAs
<1>3. PICK n : SentAs(j, n)
  BY <1>2
<1>4. JobsOK'
  BY <1>2, <1>3 DEF JobsOK, SentAs, JobOK
<1>5. InOrder'
  <2>1. \A i \in DOMAIN jobs : ~(n < i)
    BY <1>1, <1>3, Places DEF SentAs
  <2> QED
    BY <1>3, <2>1 DEF InOrder, SentAs
<1> QED
  BY <1>2, <1>4, <1>5

\* The script is not about highlight h.
LEMMA MarkSent ==
  ASSUME NEW h \in Ids, MarkOK(h), view' = view,
         jobs \in Seq(JobRecords), jobs' \in Seq(JobRecords), NEW j, NEW n, SentAs(j, n), j.id # h,
         UNCHANGED doc, store'[h] = store[h], Noted(h)' <=> Noted(h), Noted(h) => sheet'.type = sheet.type
  PROVE  MarkOK(h)'
<1> DEFINE old == [k \in DOMAIN jobs |-> k]
<1>1. /\ old \in [DOMAIN jobs -> DOMAIN jobs] /\ \A k \in DOMAIN jobs : jobs'[k] = jobs[old[k]]
      /\ \A i, k \in DOMAIN jobs : i < k => old[i] < old[k]
      /\ \A i \in DOMAIN jobs : Concerns(i, h) => \E k \in DOMAIN jobs : old[k] = i
  BY DEF SentAs
<1>2. /\ DOMAIN jobs \in SUBSET DOMAIN jobs'
      /\ \A k \in DOMAIN jobs' : jobs'[k].id = h => k \in DOMAIN jobs
  BY DEF SentAs
<1> HIDE DEF old
<1> QED
  BY <1>1, <1>2, MarkKept, Zenon

\* A script that was sent is no callback yet.
LEMMA PendingSent ==
  ASSUME NEW j, NEW n, SentAs(j, n), ~j.ran, NEW d, NEW h, NEW m
  PROVE  Pending(d, h, m)' <=> Pending(d, h, m)
  BY DEF SentAs, Pending

\* A tap on the menu of a mark.
LEMMA TapMenuStep ==
  ASSUME HighlightInv, NEW d \in Menu, NEW s \in Styles \union {"none"},
         d = "restyle" => s \in Styles, d = "remove" => s = "none", TapMenu(d, s)
  PROVE  HighlightInv'
<1> USE DEF HighlightInv, JobsInv, MakingInv, NoteInv
<1> DEFINE j == Job(d, view, NoId, s)
<1>1. /\ UNCHANGED <<store, file, doc, live, view, due, currentPageNumber, sheet, list, home>>
      /\ view \in Pages /\ view # NoPage /\ sheet = NoSheet /\ doc[view].this # NoId
      /\ Len(jobs) < MaxJobs /\ jobs' = Append(jobs, j)
      /\ crossed' = crossed \union MixedUp(doc[view].this)
  BY DEF TapMenu, Send, modalVars, screenVars, Reading, HighlightTypeOK
<1>2. /\ JobOK(j) /\ ~j.ran /\ j.id = NoId /\ j.page = view /\ j.do \in Menu /\ jobs \in Seq(JobRecords)
      /\ j.do \notin Making \union {"unlist", "unmark"}
  BY <1>1 DEF Job, JobOK, JobRecords, Menu, Scripts, Making, Makers, JobsOK
<1>3. PICK n : SentAs(j, n)
  BY <1>1, <1>2, SentJobs
<1>4. JobsOK' /\ InOrder' /\ jobs' \in Seq(JobRecords) /\ Len(jobs') = Len(jobs) + 1
  BY <1>1, <1>2, SentJobs
<1> HIDE DEF j
<1>5. crossed \subseteq crossed' /\ crossed' \subseteq Ids
  <2>1. Dealt \subseteq Ids
    BY DEF Dealt, HighlightTypeOK, Doc, JobsOK, JobOK, JobRecords
  <2> QED
    BY <1>1, <2>1 DEF MixedUp, HighlightTypeOK, Doc
<1>6. \A h \in Ids : /\ ~Noted(h) /\ ~Noted(h)' /\ (Stored(h)' <=> Stored(h))
                     /\ \A i \in DOMAIN jobs : Makes(i, h)' <=> Makes(i, h)
                     /\ ~Makes(n, h)' /\ (UnderWay(h)' <=> UnderWay(h))
  BY <1>1, <1>2, <1>3, HighlightAssumption DEF Noted, NoSheet, Stored, Makes, SentAs, UnderWay
<1>7. HighlightTypeOK' /\ ScreenOK'
  <2>1. \A i \in DOMAIN jobs' : jobs'[i] \in JobRecords
    BY <1>4 DEF JobsOK, JobOK
  <2>2. Len(jobs') <= MaxJobs
    BY <1>1, <1>2, <1>4, HighlightAssumption, Places
  <2>3. HighlightTypeOK'
    BY <1>1, <1>5, <2>1, <2>2 DEF HighlightTypeOK, JobRecords
  <2> QED
    BY <1>1, <2>3 DEF ScreenOK
<1>8. AtHome'
  BY <1>1, <1>2, <1>3, <1>6 DEF AtHome, SentAs
<1>9. MadeOnce'
  BY <1>1, <1>2, <1>3, <1>6 DEF MadeOnce, SentAs
<1>10. FileStyle'
  BY <1>1, <1>6 DEF FileStyle
<1>11. NotYetMade'
  <2>1. \A i \in DOMAIN jobs : jobs[i].do \in Makers => jobs[i].id # NoId
    BY HighlightAssumption DEF JobsOK, JobOK, Makers, Making
  <2>2. j.do \notin Makers
    BY <1>2 DEF Makers, Making
  <2> QED
    BY <1>1, <1>2, <1>3, <2>1, <2>2 DEF NotYetMade, SentAs
<1>12. OnView'
  <2>1. \A i \in DOMAIN jobs : Subject(i)' = Subject(i)
    BY <1>1, <1>3 DEF Subject, SentAs
  <2> QED
    BY <1>1, <1>2, <1>3, <1>5, <1>6, <2>1 DEF OnView, SentAs
<1>13. \A i \in DOMAIN jobs : jobs[i].do \in Notes \union {"unmark"} =>
         \A k \in DOMAIN jobs : jobs[k].id \in Ids => jobs[k].id \in crossed'
  <2>1. \A k \in DOMAIN jobs : jobs[k].id \in Ids => Subject(k) = jobs[k].id /\ Subject(k) # NoId
    BY Named, HighlightAssumption
  <2> QED
    BY <1>1, <2>1, Mixed
<1>14. NotesAlone'
  <2>1. \A i \in DOMAIN jobs : jobs[i].do \in Notes => jobs[i].id \in crossed'
    BY <1>13 DEF JobsOK, JobOK, Notes, Making
  <2>2. j.do \notin Notes /\ j.do # "highlight" /\ j.do # "unmark"
    BY <1>2 DEF Notes, Making
  <2> QED
    BY <1>1, <1>3, <1>5, <1>6, <2>1, <2>2 DEF NotesAlone, SentAs
<1>15. NotesThis'
  <2>1. /\ \A i \in DOMAIN jobs : NoteDue(i)' <=> NoteDue(i)
        /\ ~NoteDue(n)' /\ j.do \notin Makers /\ j.do # "unmark"
    BY <1>1, <1>2, <1>3 DEF NoteDue, SentAs, Making, Makers
  <2> QED
    BY <1>1, <1>3, <1>5, <1>6, <2>1 DEF NotesThis, SentAs
<1>16. MarksOK'
  <2> SUFFICES ASSUME NEW h \in Ids \ crossed', home[h] = view PROVE MarkOK(h)'
    BY <1>1 DEF MarksOK
  <2>1. MarkOK(h) /\ j.id # h
    BY <1>1, <1>2, <1>5, HighlightAssumption DEF MarksOK
  <2> QED
    BY <1>1, <1>2, <1>3, <1>4, <1>6, <2>1, MarkSent
<1>17. RowInItsChapter'
  BY <1>1, <1>5, <1>6 DEF RowInItsChapter
<1> QED
  BY <1>4, <1>7, <1>8, <1>9, <1>10, <1>11, <1>12, <1>14, <1>15, <1>16, <1>17

\* The note sheet is closed without a text.
LEMMA CancelStep == ASSUME HighlightInv, CancelNote PROVE HighlightInv'
<1> USE DEF HighlightInv, JobsInv, MakingInv, NoteInv
<1> DEFINE j == Job("unmark", currentPageNumber, NoId, "none")
<1>1. /\ UNCHANGED <<store, file, doc, live, view, due, currentPageNumber, list, home, crossed>>
      /\ sheet # NoSheet /\ sheet' = NoSheet
  BY DEF CancelNote, screenVars
<1>2. /\ view # NoPage /\ view \in live /\ currentPageNumber \in Pages /\ jobs \in Seq(JobRecords)
      /\ sheet.id \in Ids /\ sheet.edit \in BOOLEAN
  BY <1>1 DEF ScreenOK, JobsOK, HighlightTypeOK
<1>3. \A h \in Ids : ~Noted(h)' /\ (Stored(h)' <=> Stored(h)) /\ sheet'.id # h
  BY <1>1, HighlightAssumption DEF Noted, NoSheet, Stored
<1>4. \A h \in Ids \ crossed : Noted(h) =>
        /\ ~sheet.edit /\ currentPageNumber \in live /\ currentPageNumber = view /\ doc[view].this = h
  BY <1>2 DEF OnView, ScreenOK, Noted, NotesThis
<1>5. CASE UNCHANGED jobs /\ (sheet.edit \/ currentPageNumber \notin live)
  <2>1. \A h \in Ids \ crossed : ~Noted(h)
    BY <1>4, <1>5 DEF Noted
  <2>2. PICK old : Picked(jobs', old)
    BY <1>2, <1>5, SameJobs
  <2>3. HighlightTypeOK' /\ JobsOK' /\ InOrder' /\ ScreenOK'
    BY <1>1, <1>5 DEF HighlightTypeOK, JobsOK, InOrder, ScreenOK
  <2>4. AtHome'
    BY <1>1, <1>3, <1>5 DEF AtHome
  <2>5. MadeOnce'
    BY <1>1, <1>2, <1>3, <1>5, <2>2, PickedMaking DEF NoNewSheet
  <2>6. FileStyle' /\ NotYetMade'
    BY <1>1, <1>3, <1>5 DEF FileStyle, NotYetMade
  <2>7. OnView' /\ NotesAlone' /\ NotesThis'
    BY <1>1, <1>2, <1>3, <1>5, <2>2, PickedView, PickedAlone, PickedThis DEF NoNewSheet
  <2>8. MarksOK'
    BY <1>1, <1>2, <1>3, <1>5, <2>1, MarkSame DEF MarksOK
  <2>9. RowInItsChapter'
    BY <1>1, <1>3 DEF RowInItsChapter
  <2> QED
    BY <2>3, <2>4, <2>5, <2>6, <2>7, <2>8, <2>9
<1>6. CASE ~sheet.edit /\ Len(jobs) < MaxJobs /\ jobs' = Append(jobs, j)
  <2>1. JobOK(j) /\ ~j.ran /\ j.id = NoId /\ j.page = currentPageNumber /\ j.do = "unmark"
    BY <1>2 DEF Job, JobOK, JobRecords, Menu, Scripts, Making, Makers
  <2>2. PICK n : SentAs(j, n)
    BY <1>6, <2>1, SentJobs
  <2>3. JobsOK' /\ InOrder' /\ jobs' \in Seq(JobRecords) /\ Len(jobs') = Len(jobs) + 1
    BY <1>6, <2>1, SentJobs
  <2> HIDE DEF j
  <2>4. \A h \in Ids : /\ \A i \in DOMAIN jobs : Makes(i, h)' <=> Makes(i, h)
                       /\ ~Makes(n, h)' /\ (UnderWay(h)' => UnderWay(h))
                       /\ Noted(h) => ~UnderWay(h)'
    <3>1. \A h \in Ids : /\ \A i \in DOMAIN jobs : Makes(i, h)' <=> Makes(i, h)
                         /\ ~Makes(n, h)'
      BY <2>1, <2>2 DEF SentAs, Makes, Making
    <3> QED
      BY <1>3, <2>2, <3>1 DEF UnderWay, SentAs, MadeOnce
  <2>5. HighlightTypeOK' /\ ScreenOK'
    <3>1. \A i \in DOMAIN jobs' : jobs'[i] \in JobRecords
      BY <2>3 DEF JobsOK, JobOK
    <3>2. Len(jobs') <= MaxJobs
      BY <1>2, <1>6, <2>3, HighlightAssumption, Places
    <3>3. HighlightTypeOK'
      BY <1>1, <3>1, <3>2 DEF HighlightTypeOK, JobRecords
    <3> QED
      BY <1>1, <1>2, <3>3 DEF ScreenOK
  <2>6. AtHome'
    BY <1>1, <1>3, <2>1, <2>2 DEF AtHome, SentAs
  <2>7. MadeOnce'
    BY <1>1, <1>3, <2>1, <2>2, <2>4 DEF MadeOnce, SentAs
  <2>8. FileStyle'
    BY <1>1, <1>3 DEF FileStyle
  <2>9. NotYetMade'
    BY <1>1, <2>1, <2>2 DEF NotYetMade, SentAs, Makers, Menu
  <2>10. OnView'
    <3>1. \A i \in DOMAIN jobs : Subject(i)' = Subject(i)
      BY <1>1, <2>2 DEF Subject, SentAs
    <3> QED
      BY <1>1, <1>3, <2>1, <2>2, <3>1 DEF OnView, SentAs, Making
  <2>11. /\ \A i \in DOMAIN jobs : jobs[i].do \in Notes => jobs[i].id \in crossed
         /\ \A i \in DOMAIN jobs : jobs[i].do = "highlight" /\ ~jobs[i].ran => jobs[i].id \in crossed
    BY <1>1, <1>6 DEF NotesAlone
  <2>12. NotesAlone'
    BY <1>1, <1>3, <2>1, <2>2, <2>11 DEF NotesAlone, SentAs, Notes
  <2>13. NotesThis'
    <3>1. /\ \A i \in DOMAIN jobs : NoteDue(i)' <=> NoteDue(i)
          /\ ~NoteDue(n)' /\ j.do \notin Makers
      BY <1>1, <2>1, <2>2 DEF NoteDue, SentAs, Makers
    <3>2. ASSUME NEW h \in Ids \ crossed, doc[view].this = h
          PROVE  /\ ~Stored(h) /\ ~UnderWay(h)'
                 /\ \A k \in DOMAIN jobs : jobs[k].page = view => jobs[k].do \notin Makers
      <4>1. Noted(h)
        BY <1>1, <1>2, <1>6, <3>2 DEF NotesThis, Noted
      <4> QED
        BY <2>4, <4>1 DEF MadeOnce, UnderWay, NotesAlone
    <3> QED
      BY <1>1, <1>2, <1>3, <2>2, <2>4, <3>1, <3>2 DEF NotesThis, SentAs
  <2>14. MarksOK'
    <3> SUFFICES ASSUME NEW h \in Ids \ crossed, home[h] = view PROVE MarkOK(h)'
      BY <1>1 DEF MarksOK
    <3>1. MarkOK(h) /\ j.id # h
      BY <1>2, <2>1, HighlightAssumption DEF MarksOK
    <3>2. CASE ~Noted(h)
      BY <1>1, <1>2, <1>3, <2>2, <2>3, <3>1, <3>2, MarkSent
    <3>3. CASE Noted(h)
      <4>1. currentPageNumber = view /\ doc[view].this = h
        BY <1>4, <3>3
      <4>2. Clears(n, h)' /\ n \in DOMAIN jobs'
        BY <1>1, <2>1, <2>2, <4>1 DEF Clears, SentAs
      <4>3. ~Stored(h)' /\ \A i \in DOMAIN jobs' : ~Makes(i, h)'
        BY <1>3, <2>4, <3>3 DEF MadeOnce, UnderWay
      <4>4. Pending("remove", h, 0)' <=> Pending("remove", h, 0)
        BY <2>1, <2>2, PendingSent
      <4>5. StoredMark(h)' /\ KeptMark(h)' /\ NotedMark(h)'
        BY <1>3, <4>3 DEF StoredMark, KeptMark, NotedMark, Makes, Making
      <4>6. ClearedMark(h)'
        BY <1>1, <3>1, <4>2, <4>4 DEF MarkOK, ClearedMark
      <4> QED
        BY <4>5, <4>6 DEF MarkOK
    <3> QED
      BY <3>2, <3>3
  <2>15. RowInItsChapter'
    BY <1>1, <1>3 DEF RowInItsChapter
  <2> QED
    BY <2>3, <2>5, <2>6, <2>7, <2>8, <2>9, <2>10, <2>12, <2>13, <2>14, <2>15
<1> QED
  BY <1>5, <1>6 DEF CancelNote, Send

\* A row of the list is deleted.
LEMMA DeleteStep == ASSUME HighlightInv, NEW m \in Ids, DeleteRow(m) PROVE HighlightInv'
<1> USE DEF HighlightInv, JobsInv, MakingInv, NoteInv
<1> DEFINE j == Job("unlist", currentPageNumber, m, "none")
<1>1. /\ UNCHANGED <<file, doc, live, view, due, currentPageNumber, sheet, home>>
      /\ list.up /\ Stored(m) /\ list' = [list EXCEPT !.rows = @ \ {m}]
      /\ store' = [store EXCEPT ![m] = NoRow]
      /\ crossed' = IF due THEN crossed \union {m} ELSE crossed
  BY DEF DeleteRow, screenVars
<1>2. /\ view # NoPage /\ view \in Pages /\ currentPageNumber \in Pages /\ sheet = NoSheet
      /\ jobs \in Seq(JobRecords) /\ store \in [Ids -> Row \union {NoRow}]
  BY <1>1 DEF ScreenOK, JobsOK, HighlightTypeOK
<1>3. /\ crossed \subseteq crossed' /\ crossed' \subseteq Ids
      /\ m \notin crossed' => ~due /\ m \notin crossed
  BY <1>1 DEF HighlightTypeOK
<1>4. /\ ~Stored(m)' /\ store'[m] = NoRow
      /\ \A h \in Ids : ~Noted(h) /\ ~Noted(h)' /\ (Stored(h)' => Stored(h))
      /\ \A h \in Ids : h # m => store'[h] = store[h]
  BY <1>1, <1>2, HighlightAssumption DEF Stored, Noted, NoSheet
<1>5. ~UnderWay(m)
  BY <1>1 DEF MadeOnce
<1>6. list' \in [up : BOOLEAN, rows : SUBSET Ids] /\ list'.up
  BY <1>1 DEF HighlightTypeOK
<1>7. store' \in [Ids -> Row \union {NoRow}]
  BY <1>1, <1>2
<1>8. FileStyle' /\ RowInItsChapter'
  <2>1. FileStyle'
    BY <1>1, <1>4 DEF FileStyle
  <2>2. RowInItsChapter'
    BY <1>1, <1>3, <1>4 DEF RowInItsChapter
  <2> QED
    BY <2>1, <2>2
<1>9. CASE UNCHANGED jobs /\ store[m].page # currentPageNumber
  <2>1. PICK old : Picked(jobs', old)
    BY <1>2, <1>9, SameJobs
  <2>2. HighlightTypeOK' /\ JobsOK' /\ InOrder' /\ ScreenOK'
    BY <1>1, <1>2, <1>3, <1>6, <1>7, <1>9 DEF HighlightTypeOK, JobsOK, InOrder, ScreenOK
  <2>3. AtHome' /\ MadeOnce' /\ NotYetMade'
    <3>1. AtHome'
      BY <1>1, <1>4, <1>9 DEF AtHome
    <3>2. MadeOnce'
      BY <1>1, <1>2, <1>4, <1>9, <2>1, PickedMaking DEF NoNewSheet
    <3>3. NotYetMade'
      BY <1>1, <1>9 DEF NotYetMade
    <3> QED
      BY <3>1, <3>2, <3>3
  <2>4. OnView' /\ NotesAlone' /\ NotesThis'
    <3>1. OnView'
      BY <1>1, <1>2, <1>3, <1>9, <2>1, PickedView DEF NoNewSheet
    <3>2. NotesAlone'
      BY <1>1, <1>2, <1>3, <1>9, <2>1, PickedAlone DEF NoNewSheet
    <3>3. NotesThis'
      BY <1>1, <1>2, <1>3, <1>4, <1>9, <2>1, PickedThis DEF NoNewSheet
    <3> QED
      BY <3>1, <3>2, <3>3
  <2>5. MarksOK'
    <3> SUFFICES ASSUME NEW h \in Ids \ crossed', home[h] = view PROVE MarkOK(h)'
      BY <1>1 DEF MarksOK
    <3>1. h # m
      BY <1>1, <1>3, <1>9 DEF RowInItsChapter, ScreenOK
    <3>2. MarkOK(h)
      BY <1>2, <1>3 DEF MarksOK
    <3> QED
      BY <1>1, <1>2, <1>4, <1>9, <3>1, <3>2, MarkSame
  <2> QED
    BY <1>8, <2>2, <2>3, <2>4, <2>5
<1>10. CASE store[m].page = currentPageNumber /\ Len(jobs) < MaxJobs /\ jobs' = Append(jobs, j)
  <2>1. JobOK(j) /\ ~j.ran /\ j.id = m /\ j.page = currentPageNumber /\ j.do = "unlist"
    BY <1>2 DEF Job, JobOK, JobRecords, Menu, Scripts, Making, Makers
  <2>2. PICK n : SentAs(j, n)
    BY <1>10, <2>1, SentJobs
  <2>3. JobsOK' /\ InOrder' /\ jobs' \in Seq(JobRecords) /\ Len(jobs') = Len(jobs) + 1
    BY <1>10, <2>1, SentJobs
  <2> HIDE DEF j
  <2>4. \A h \in Ids : /\ \A i \in DOMAIN jobs : Makes(i, h)' <=> Makes(i, h)
                       /\ ~Makes(n, h)' /\ (UnderWay(h)' <=> UnderWay(h))
    <3>1. \A h \in Ids : /\ \A i \in DOMAIN jobs : Makes(i, h)' <=> Makes(i, h)
                         /\ ~Makes(n, h)'
      BY <2>1, <2>2 DEF SentAs, Makes, Making
    <3> QED
      BY <1>4, <2>2, <3>1 DEF UnderWay, SentAs
  <2>5. HighlightTypeOK' /\ ScreenOK'
    <3>1. \A i \in DOMAIN jobs' : jobs'[i] \in JobRecords
      BY <2>3 DEF JobsOK, JobOK
    <3>2. Len(jobs') <= MaxJobs
      BY <1>2, <1>10, <2>3, HighlightAssumption, Places
    <3>3. HighlightTypeOK'
      BY <1>1, <1>3, <1>6, <1>7, <3>1, <3>2 DEF HighlightTypeOK, JobRecords
    <3> QED
      BY <1>1, <1>2, <3>3 DEF ScreenOK
  <2>6. AtHome'
    BY <1>1, <1>4, <2>1, <2>2 DEF AtHome, SentAs
  <2>7. MadeOnce'
    BY <1>1, <1>4, <1>5, <2>1, <2>2, <2>4 DEF MadeOnce, SentAs
  <2>8. NotYetMade'
    BY <1>1, <2>1, <2>2 DEF NotYetMade, SentAs, Makers, Menu
  <2>9. OnView'
    <3>1. \A i \in DOMAIN jobs : Subject(i)' = Subject(i)
      BY <1>1, <2>2 DEF Subject, SentAs
    <3> QED
      BY <1>1, <1>3, <1>4, <2>1, <2>2, <3>1 DEF OnView, SentAs, Making
  <2>10. NotesAlone'
    BY <1>1, <1>3, <1>4, <2>1, <2>2 DEF NotesAlone, SentAs, Notes, Makers, Menu
  <2>11. NotesThis'
    <3>1. /\ \A i \in DOMAIN jobs : NoteDue(i)' <=> NoteDue(i)
          /\ ~NoteDue(n)' /\ j.do \notin Makers /\ j.do # "unmark"
      BY <1>1, <2>1, <2>2 DEF NoteDue, SentAs, Makers
    <3> QED
      BY <1>1, <1>2, <1>3, <1>4, <2>2, <2>4, <3>1 DEF NotesThis, SentAs
  <2>12. MarksOK'
    <3> SUFFICES ASSUME NEW h \in Ids \ crossed', home[h] = view PROVE MarkOK(h)'
      BY <1>1 DEF MarksOK
    <3>1. MarkOK(h)
      BY <1>2, <1>3 DEF MarksOK
    <3>2. CASE h # m
      BY <1>1, <1>2, <1>4, <2>1, <2>2, <2>3, <3>1, <3>2, MarkSent
    <3>3. CASE h = m
      <4>1. currentPageNumber = view
        BY <1>3, <3>3 DEF ScreenOK
      <4>2. Clears(n, h)' /\ n \in DOMAIN jobs'
        BY <1>1, <2>1, <2>2, <3>3, <4>1 DEF Clears, SentAs
      <4>3. ~Stored(h)' /\ \A i \in DOMAIN jobs' : ~Makes(i, h)'
        BY <1>4, <1>5, <2>4, <3>3 DEF UnderWay
      <4>4. Pending("remove", h, 0)' <=> Pending("remove", h, 0)
        BY <2>1, <2>2, PendingSent
      <4>5. StoredMark(h)' /\ KeptMark(h)' /\ NotedMark(h)'
        BY <1>4, <4>3 DEF StoredMark, KeptMark, NotedMark, Makes, Making
      <4>6. ClearedMark(h)'
        BY <1>1, <3>1, <4>2, <4>4 DEF MarkOK, ClearedMark
      <4> QED
        BY <4>5, <4>6 DEF MarkOK
    <3> QED
      BY <3>2, <3>3
  <2> QED
    BY <1>8, <2>3, <2>5, <2>6, <2>7, <2>8, <2>9, <2>10, <2>11, <2>12
<1> QED
  BY <1>9, <1>10 DEF DeleteRow, Send

\* A highlight is made, with a note or without.
LEMMA MakeStep ==
  ASSUME HighlightInv, NEW d \in Makers, NEW m \in Ids, NEW s \in Styles, Make(d, m, s)
  PROVE  HighlightInv'
<1> USE DEF HighlightInv, JobsInv, MakingInv, NoteInv
<1> DEFINE j == Job(d, view, m, s)
<1>1. /\ UNCHANGED <<store, file, doc, live, view, due, currentPageNumber, sheet, list>>
      /\ view \in Pages /\ view # NoPage /\ sheet = NoSheet /\ ~list.up /\ home[m] = NoPage
      /\ Len(jobs) < MaxJobs /\ jobs' = Append(jobs, j) /\ home' = [home EXCEPT ![m] = view]
      /\ crossed' = crossed \union (IF due THEN {m} ELSE {}) \union MixedUp(m)
  BY DEF Make, Send, modalVars, screenVars, Reading, HighlightTypeOK
<1>2. /\ JobOK(j) /\ ~j.ran /\ j.id = m /\ j.page = view /\ j.do \in Makers /\ j.do \in Making
      /\ j.do \notin Menu \union {"unlist", "unmark", "ask"} /\ jobs \in Seq(JobRecords)
  BY <1>1 DEF Job, JobOK, JobRecords, Menu, Scripts, Making, Makers, JobsOK
<1>3. PICK n : SentAs(j, n)
  BY <1>1, <1>2, SentJobs
<1>4. JobsOK' /\ InOrder' /\ jobs' \in Seq(JobRecords) /\ Len(jobs') = Len(jobs) + 1
  BY <1>1, <1>2, SentJobs
<1> HIDE DEF j
<1>5. /\ crossed \subseteq crossed' /\ crossed' \subseteq Ids /\ (m \notin crossed' => ~due)
  <2>1. Dealt \subseteq Ids
    BY DEF Dealt, HighlightTypeOK, Doc, JobsOK, JobOK, JobRecords
  <2> QED
    BY <1>1, <2>1 DEF MixedUp, HighlightTypeOK
<1>6. /\ home' \in [Ids -> Pages \union {NoPage}] /\ home'[m] = view
      /\ \A h \in Ids : h # m => home'[h] = home[h]
  BY <1>1 DEF HighlightTypeOK
<1>7. /\ \A q \in Pages : doc[q].marks[m] = "none" /\ file[q][m] = "none" /\ doc[q].this # m
      /\ ~Stored(m) /\ \A i \in DOMAIN jobs : jobs[i].id # m
  BY <1>1, HighlightAssumption DEF AtHome
<1>8. \A h \in Ids : /\ ~Noted(h) /\ ~Noted(h)' /\ (Stored(h)' <=> Stored(h))
                     /\ \A i \in DOMAIN jobs : Makes(i, h)' <=> Makes(i, h)
                     /\ Makes(n, h)' <=> h = m
                     /\ ~Makes(n, h)' => (UnderWay(h)' <=> UnderWay(h))
                     /\ \A i \in DOMAIN jobs : ~Makes(i, m)
  BY <1>1, <1>2, <1>3, <1>7, HighlightAssumption DEF Noted, NoSheet, Stored, Makes, SentAs, UnderWay
<1>9. HighlightTypeOK' /\ ScreenOK'
  <2>1. \A i \in DOMAIN jobs' : jobs'[i] \in JobRecords
    BY <1>4 DEF JobsOK, JobOK
  <2>2. Len(jobs') <= MaxJobs
    BY <1>1, <1>2, <1>4, HighlightAssumption, Places
  <2>3. HighlightTypeOK'
    BY <1>1, <1>5, <1>6, <2>1, <2>2 DEF HighlightTypeOK, JobRecords
  <2> QED
    BY <1>1, <2>3 DEF ScreenOK
<1>10. AtHome'
  <2>1. \A h \in Ids, q \in Pages :
          doc'[q].marks[h] # "none" \/ file'[q][h] # "none" \/ doc'[q].this = h => home'[h] = q
    BY <1>1, <1>6, <1>7 DEF AtHome
  <2>2. \A h \in Ids : Stored(h)' \/ sheet'.id = h => home'[h] # NoPage
    BY <1>1, <1>6, <1>8, HighlightAssumption DEF AtHome, NoSheet
  <2>3. \A i \in DOMAIN jobs : jobs[i].id # NoId => jobs[i].id \in Ids /\ jobs[i].id # m
    BY <1>7 DEF JobsOK, JobOK, JobRecords
  <2> QED
    BY <1>1, <1>2, <1>3, <1>6, <2>1, <2>2, <2>3 DEF AtHome, SentAs
<1>11. MadeOnce'
  <2>1. \A h \in Ids : UnderWay(h)' => ~Stored(h)' /\ \A q \in Pages : file'[q][h] = "none"
    BY <1>1, <1>7, <1>8 DEF MadeOnce
  <2>2. \A h \in Ids : \A i, k \in DOMAIN jobs' : Makes(i, h)' /\ Makes(k, h)' => i = k
    BY <1>3, <1>8 DEF MadeOnce, SentAs
  <2>3. \A h \in Ids : \A i \in DOMAIN jobs' :
          jobs'[i].do = "unlist" /\ jobs'[i].id = h => ~Stored(h)' /\ ~UnderWay(h)'
    BY <1>2, <1>3, <1>7, <1>8 DEF MadeOnce, SentAs
  <2> QED
    BY <1>8, <2>1, <2>2, <2>3 DEF MadeOnce
<1>12. FileStyle'
  BY <1>1, <1>8 DEF FileStyle
<1>13. NotYetMade'
  BY <1>1, <1>2, <1>3, <1>7 DEF NotYetMade, SentAs
<1>14. OnView'
  <2>1. \A i \in DOMAIN jobs : Subject(i)' = Subject(i)
    BY <1>1, <1>3 DEF Subject, SentAs
  <2> QED
    BY <1>1, <1>2, <1>3, <1>5, <1>8, <2>1 DEF OnView, SentAs
<1>15. \A i \in DOMAIN jobs : jobs[i].do \in Notes \union {"unmark"} =>
         /\ m \in crossed'
         /\ \A k \in DOMAIN jobs : Subject(k) # NoId => Subject(k) \in crossed'
         /\ \A k \in DOMAIN jobs : jobs[k].id \in Ids => jobs[k].id \in crossed'
  <2>1. \A k \in DOMAIN jobs : jobs[k].id \in Ids => Subject(k) = jobs[k].id /\ Subject(k) # NoId
    BY Named, HighlightAssumption
  <2> QED
    BY <1>1, <2>1, Mixed
<1>16. NotesAlone'
  <2>1. \A i \in DOMAIN jobs : jobs[i].do \in Notes => jobs[i].id \in crossed'
    BY <1>15 DEF JobsOK, JobOK, Notes, Making
  <2>2. \A i \in DOMAIN jobs' : jobs'[i].do \in Notes /\ jobs'[i].id \notin crossed' =>
          i = n /\ \A k \in DOMAIN jobs : jobs[k].do \notin Notes \union {"unmark"}
    BY <1>2, <1>3, <1>15, <2>1 DEF SentAs
  <2>3. j.do \in Notes => j.do = "note"
    BY <1>2 DEF Notes
  <2>4. \A i, k \in DOMAIN jobs' : jobs'[i].do \in Notes /\ jobs'[i].id \notin crossed' /\ i # k =>
          /\ jobs'[k].do \notin Notes \union {"unmark"}
          /\ jobs'[k].do \in Makers \union Menu /\ jobs'[k].page = jobs'[i].page =>
               jobs'[i].do = "note" /\ k < i
    BY <1>2, <1>3, <2>2, <2>3 DEF SentAs
  <2>5. \A i \in DOMAIN jobs' : jobs'[i].do = "highlight" /\ ~jobs'[i].ran /\ jobs'[i].id \notin crossed' =>
          \A k \in DOMAIN jobs' : jobs'[k].do \in Notes \union {"unmark"} =>
            jobs'[k].do = "note" /\ ~jobs'[k].ran /\ i < k /\ jobs'[k].page = jobs'[i].page
    <3> SUFFICES ASSUME NEW i \in DOMAIN jobs',
                        jobs'[i].do = "highlight", ~jobs'[i].ran, jobs'[i].id \notin crossed',
                        NEW k \in DOMAIN jobs', jobs'[k].do \in Notes \union {"unmark"}
                 PROVE  jobs'[k].do = "note" /\ ~jobs'[k].ran /\ i < k /\ jobs'[k].page = jobs'[i].page
      OBVIOUS
    <3>1. CASE i \in DOMAIN jobs /\ k \in DOMAIN jobs
      BY <1>3, <1>5, <3>1 DEF NotesAlone, SentAs
    <3>2. CASE i = n
      <4>1. k \in DOMAIN jobs /\ jobs'[k] = jobs[k]
        BY <1>3, <3>2 DEF SentAs, Notes
      <4> QED
        BY <1>2, <1>3, <1>15, <3>2, <4>1 DEF SentAs
    <3>3. CASE i \in DOMAIN jobs /\ k = n
      <4>1. jobs[i].page = view
        <5>1. jobs[i] = jobs'[i] /\ jobs[i].id \in Ids
          BY <1>3, <3>3 DEF SentAs, JobsOK, JobOK, Making
        <5>2. Subject(i) = jobs[i].id
          BY <3>3, <5>1, Named, HighlightAssumption
        <5> QED
          BY <1>5, <3>3, <5>1, <5>2, HighlightAssumption DEF OnView
      <4> QED
        BY <1>2, <1>3, <2>3, <3>3, <4>1 DEF SentAs
    <3> QED
      BY <1>3, <3>1, <3>2, <3>3 DEF SentAs
  <2> QED
    BY <1>1, <1>8, <2>4, <2>5 DEF NotesAlone
<1>17. NotesThis'
  <2>1. /\ \A i \in DOMAIN jobs : NoteDue(i)' <=> NoteDue(i)
        /\ ~NoteDue(n)' /\ j.do # "unmark"
    BY <1>1, <1>2, <1>3 DEF NoteDue, SentAs
  <2>2. ASSUME NEW h \in Ids \ crossed', doc[view].this = h
        PROVE  \A i \in DOMAIN jobs : jobs[i].do = "unmark" /\ jobs[i].page = view => FALSE
    <3> SUFFICES ASSUME NEW i \in DOMAIN jobs, jobs[i].do = "unmark", jobs[i].page = view PROVE FALSE
      OBVIOUS
    <3>1. jobs[i].id = NoId
      <4>1. ~jobs[i].ran
        BY DEF JobsOK, JobOK
      <4> QED
        BY <4>1 DEF JobsOK, JobOK
    <3>2. Subject(i) = h /\ h # NoId
      BY <2>2, <3>1, HighlightAssumption DEF Subject
    <3> QED
      BY <1>15, <3>2
  <2> QED
    BY <1>1, <1>3, <1>5, <1>8, <2>1, <2>2 DEF NotesThis, SentAs
<1>18. MarksOK'
  <2> SUFFICES ASSUME NEW h \in Ids \ crossed', home'[h] = view PROVE MarkOK(h)'
    BY <1>1 DEF MarksOK
  <2>1. CASE h # m
    <3>1. MarkOK(h) /\ j.id # h
      BY <1>1, <1>2, <1>5, <1>6, <2>1 DEF MarksOK
    <3> QED
      BY <1>1, <1>2, <1>3, <1>4, <1>8, <3>1, MarkSent
  <2>2. CASE h = m
    <3>1. \A i \in DOMAIN jobs' : jobs'[i].id = h => i = n /\ ~jobs'[i].ran
      BY <1>2, <1>3, <1>7, <2>2 DEF SentAs
    <3>2. ~Stored(h)' /\ ~Noted(h)' /\ doc'[view].marks[h] = "none"
      BY <1>1, <1>7, <1>8, <2>2
    <3> QED
      BY <1>1, <3>1, <3>2 DEF MarkOK, StoredMark, KeptMark, NotedMark, ClearedMark
  <2> QED
    BY <2>1, <2>2
<1>19. RowInItsChapter'
  <2>1. \A h \in Ids \ crossed' : Stored(h) => h # m
    BY <1>7
  <2> QED
    BY <1>1, <1>5, <1>6, <1>8, <2>1 DEF RowInItsChapter
<1> QED
  BY <1>4, <1>9, <1>10, <1>11, <1>12, <1>13, <1>14, <1>16, <1>17, <1>18, <1>19

-----------------------------------------------------------------------------
(* Scripts. *)

\* The script of job i has run, with h as its highlight and s as its style.
RanAs(i, h, s) ==
  /\ DOMAIN jobs' = DOMAIN jobs
  /\ jobs'[i].do = jobs[i].do /\ jobs'[i].page = jobs[i].page
  /\ jobs'[i].id = h /\ jobs'[i].style = s /\ jobs'[i].ran
  /\ \A k \in DOMAIN jobs \ {i} : jobs'[k] = jobs[k]

\* The script of job i is the next to run in its web view.
NextScript(i) == ~jobs[i].ran /\ \A k \in 1..i - 1 : jobs[k].page = jobs[i].page => jobs[k].ran

LEMMA RunOrder ==
  ASSUME JobsOK, InOrder, NEW i \in DOMAIN jobs, NextScript(i)
  PROVE  \A k \in DOMAIN jobs \ {i} : jobs[k].page = jobs[i].page =>
           /\ jobs[k].ran => k < i
           /\ ~jobs[k].ran => i < k
<1>1. DOMAIN jobs = 1..Len(jobs) /\ Len(jobs) \in Nat
  BY Places DEF JobsOK
<1> SUFFICES ASSUME NEW k \in DOMAIN jobs \ {i}, jobs[k].page = jobs[i].page
             PROVE  (jobs[k].ran => k < i) /\ (~jobs[k].ran => i < k)
  OBVIOUS
<1>2. k < i \/ i < k
  BY <1>1
<1>3. k < i => k \in 1..i - 1
  BY <1>1
<1> QED
  BY <1>2, <1>3 DEF NextScript, InOrder

LEMMA RanJobs ==
  ASSUME JobsOK, InOrder, NEW i \in DOMAIN jobs, NextScript(i), NEW h \in Ids,
         NEW s \in Styles \union {"none"}, jobs[i].do \notin {"unmark", "unlist"},
         jobs[i].do \in {"keep", "ask"} => s \in Styles,
         jobs' = [jobs EXCEPT ![i].ran = TRUE, ![i].id = h, ![i].style = s]
  PROVE  jobs' \in Seq(JobRecords) /\ Len(jobs') = Len(jobs) /\ RanAs(i, h, s) /\ JobsOK' /\ InOrder'
<1>1. /\ jobs \in Seq(JobRecords) /\ jobs[i] \in JobRecords
      /\ DOMAIN jobs = 1..Len(jobs) /\ Len(jobs) \in Nat
  BY Places DEF JobsOK
<1> DEFINE j == [jobs[i] EXCEPT !.ran = TRUE, !.id = h, !.style = s]
<1>2. jobs' = [jobs EXCEPT ![i] = j]
  BY <1>1 DEF JobRecords
<1>3. /\ j \in JobRecords /\ j.do = jobs[i].do /\ j.page = jobs[i].page /\ j.id = h
      /\ j.style = s /\ j.ran
  BY <1>1 DEF JobRecords
<1> HIDE DEF j
<1>4. jobs' \in Seq(JobRecords) /\ Len(jobs') = Len(jobs) /\ DOMAIN jobs' = DOMAIN jobs
  <2>1. /\ [jobs EXCEPT ![i] = j] \in Seq(JobRecords)
        /\ Len([jobs EXCEPT ![i] = j]) = Len(jobs)
    BY <1>1, <1>3, ExceptSeq
  <2>2. DOMAIN [jobs EXCEPT ![i] = j] = DOMAIN jobs
    OBVIOUS
  <2> QED
    BY <1>2, <2>1, <2>2
<1>5. jobs'[i] = j /\ \A k \in DOMAIN jobs \ {i} : jobs'[k] = jobs[k]
  BY <1>2
<1>6. RanAs(i, h, s)
  BY <1>3, <1>4, <1>5 DEF RanAs
<1>7. JobOK(j)
  BY <1>3 DEF JobsOK, JobOK, Making, Makers, Menu
<1>8. JobsOK'
  <2> SUFFICES ASSUME NEW k \in DOMAIN jobs' PROVE JobOK(jobs'[k])
    BY <1>4 DEF JobsOK, JobOK
  <2> QED
    BY <1>4, <1>5, <1>7 DEF JobsOK
<1>9. InOrder'
  BY <1>3, <1>4, <1>5, RunOrder DEF InOrder
<1> QED
  BY <1>4, <1>6, <1>8, <1>9

\* The job that ran is not about highlight h.
LEMMA MarkRan ==
  ASSUME NEW h \in Ids, MarkOK(h), view' = view,
         jobs \in Seq(JobRecords), jobs' \in Seq(JobRecords),
         NEW i \in DOMAIN jobs, NEW t, NEW s, RanAs(i, t, s), t # h, ~Concerns(i, h),
         doc'[view].marks[h] = doc[view].marks[h], Found(doc'[view]) = Found(doc[view]),
         store'[h] = store[h], Noted(h)' <=> Noted(h), Noted(h) => sheet'.type = sheet.type,
         \A k \in DOMAIN jobs :
           jobs[k].do = "unmark" /\ jobs[k].page = view /\ doc[view].this = h => doc'[view].this = h
  PROVE  MarkOK(h)'
<1> DEFINE E == DOMAIN jobs \ {i}
           old == [k \in E |-> k]
<1>1. /\ old \in [E -> DOMAIN jobs] /\ \A k \in E : jobs'[k] = jobs[old[k]]
      /\ \A k, l \in E : k < l => old[k] < old[l]
      /\ \A k \in DOMAIN jobs : Concerns(k, h) => \E l \in E : old[l] = k
  BY DEF RanAs
<1>2. E \in SUBSET DOMAIN jobs' /\ \A k \in DOMAIN jobs' : jobs'[k].id = h => k \in E
  BY DEF RanAs
<1> HIDE DEF old, E
<1> QED
  BY <1>1, <1>2, MarkKept, Zenon

\* Nor is the job that is gone.
LEMMA MarkWithout ==
  ASSUME NEW h \in Ids, MarkOK(h), view' = view, jobs \in Seq(JobRecords),
         NEW i \in DOMAIN jobs, jobs' = Without(i), ~Concerns(i, h),
         doc'[view].marks[h] = doc[view].marks[h], Found(doc'[view]) = Found(doc[view]),
         store'[h] = store[h], Noted(h)' <=> Noted(h), Noted(h) => sheet'.type = sheet.type,
         doc'[view].this = doc[view].this
  PROVE  MarkOK(h)'
<1>1. PICK old : /\ Picked(Without(i), old) /\ \A k \in DOMAIN Without(i) : old[k] # i
                 /\ \A m \in DOMAIN jobs \ {i} : \E k \in DOMAIN Without(i) : old[k] = m
  BY TakenOut
<1> DEFINE E == DOMAIN jobs'
<1>2. jobs' \in Seq(JobRecords) /\ E \in SUBSET DOMAIN jobs'
  BY TakenOut
<1>3. /\ old \in [E -> DOMAIN jobs] /\ \A k \in E : jobs'[k] = jobs[old[k]]
      /\ \A k, l \in E : k < l => old[k] < old[l]
  BY <1>1 DEF Picked
<1>4. /\ \A k \in DOMAIN jobs : Concerns(k, h) => \E l \in E : old[l] = k
      /\ \A k \in DOMAIN jobs' : jobs'[k].id = h => k \in E
      /\ \A k \in DOMAIN jobs :
           jobs[k].do = "unmark" /\ jobs[k].page = view /\ doc[view].this = h => doc'[view].this = h
  BY <1>1
<1> HIDE DEF E
<1> QED
  BY <1>2, <1>3, <1>4, MarkKept, Zenon

\* What all jobs that are taken out leave as it is.
LEMMA WithoutJob ==
  ASSUME JobsOK, InOrder, NEW i \in DOMAIN jobs, jobs' = Without(i)
  PROVE  /\ jobs' \in Seq(JobRecords) /\ Len(jobs') <= Len(jobs) /\ JobsOK' /\ InOrder'
         /\ \A k \in DOMAIN jobs' : jobs'[k] \in JobRecords
         /\ \E old : Picked(jobs', old)
<1>1. /\ jobs' \in Seq(JobRecords) /\ Len(jobs') = Len(jobs) - 1 /\ Len(jobs) \in Nat
      /\ \E old : Picked(jobs', old)
  BY TakenOut, Places DEF JobsOK
<1>2. JobsOK' /\ InOrder'
  BY <1>1, PickedJobs
<1> QED
  BY <1>1, <1>2, Places

\* Where a page's document is changed, the others are not.
LEMMA DocChanged ==
  ASSUME doc \in [Pages -> Doc], NEW p \in Pages, NEW m \in Marks,
         NEW t \in Ids \union {NoId},
         doc' = [doc EXCEPT ![p].marks = m, ![p].this = t]
  PROVE  /\ doc' \in [Pages -> Doc] /\ doc'[p].marks = m /\ doc'[p].this = t
         /\ Found(doc'[p]) = Found(doc[p]) /\ \A q \in Pages \ {p} : doc'[q] = doc[q]
<1>1. doc[p] \in Doc
  OBVIOUS
<1> DEFINE d == [doc[p] EXCEPT !.marks = m, !.this = t]
<1>2. doc' = [doc EXCEPT ![p] = d]
  BY <1>1 DEF Doc
<1>3. d \in Doc /\ d.marks = m /\ d.this = t /\ Found(d) = Found(doc[p])
  BY <1>1 DEF Doc, Found
<1> QED
  BY <1>2, <1>3

LEMMA MarksChanged ==
  ASSUME doc \in [Pages -> Doc], NEW p \in Pages, NEW m \in Marks,
         doc' = [doc EXCEPT ![p].marks = m]
  PROVE  /\ doc' \in [Pages -> Doc] /\ doc'[p].marks = m /\ doc'[p].this = doc[p].this
         /\ Found(doc'[p]) = Found(doc[p]) /\ \A q \in Pages \ {p} : doc'[q] = doc[q]
<1>1. doc[p] \in Doc
  OBVIOUS
<1> DEFINE d == [doc[p] EXCEPT !.marks = m]
<1>2. doc' = [doc EXCEPT ![p] = d]
  OBVIOUS
<1>3. d \in Doc /\ d.marks = m /\ d.this = doc[p].this /\ Found(d) = Found(doc[p])
  BY <1>1 DEF Doc, Found
<1> QED
  BY <1>2, <1>3

\* What no script changes.
scriptVars == <<store, file, live, view, currentPageNumber, due, sheet, list, home, crossed>>

\* The parts that read neither the jobs nor the documents.
LEMMA ScriptRest ==
  ASSUME HighlightInv, UNCHANGED scriptVars, doc' \in [Pages -> Doc],
         jobs' \in Seq(JobRecords), Len(jobs') <= Len(jobs)
  PROVE  /\ HighlightTypeOK' /\ (jobs' = <<>> \/ jobs # <<>> => ScreenOK') /\ FileStyle' /\ RowInItsChapter'
         /\ \A h \in Ids : (Stored(h)' <=> Stored(h)) /\ (Noted(h)' <=> Noted(h))
         /\ NoNewSheet /\ jobs \in Seq(JobRecords) /\ doc \in [Pages -> Doc]
<1> USE DEF HighlightInv, JobsInv, MakingInv, scriptVars
<1>1. \A h \in Ids : (Stored(h)' <=> Stored(h)) /\ (Noted(h)' <=> Noted(h))
  BY DEF Stored, Noted
<1>2. /\ jobs \in Seq(JobRecords) /\ doc \in [Pages -> Doc]
      /\ Len(jobs) \in Nat /\ Len(jobs') \in Nat /\ \A k \in DOMAIN jobs' : jobs'[k] \in JobRecords
  BY Places DEF JobsOK, HighlightTypeOK, Doc
<1>3. HighlightTypeOK'
  <2>1. Len(jobs') <= MaxJobs
    BY <1>2, HighlightAssumption DEF HighlightTypeOK
  <2> QED
    BY <1>2, <2>1 DEF HighlightTypeOK, Doc, JobRecords
<1>4. (jobs' = <<>> \/ jobs # <<>> => ScreenOK') /\ FileStyle' /\ RowInItsChapter' /\ NoNewSheet
  BY <1>1 DEF ScreenOK, FileStyle, RowInItsChapter, NoNewSheet
<1> QED
  BY <1>1, <1>2, <1>3, <1>4

\* With a job under way, a reader is open.
LEMMA ReaderOpen ==
  ASSUME HighlightInv, NEW i \in DOMAIN jobs
  PROVE  /\ view # NoPage /\ view \in Pages /\ jobs # <<>> /\ i > 0
         /\ jobs[i].page \in Pages /\ jobs[i].style \in Styles \union {"none"} /\ jobs[i].do \in Scripts
         /\ jobs[i].id \in Ids \union {NoId} /\ jobs[i].ran \in BOOLEAN
         /\ doc[jobs[i].page] \in Doc /\ doc[jobs[i].page].marks \in Marks
<1> USE DEF HighlightInv, JobsInv
<1>1. jobs \in Seq(JobRecords) /\ jobs[i] \in JobRecords /\ i > 0
  BY Places DEF JobsOK
<1>2. jobs # <<>>
  BY NoneUnderWay
<1> QED
  BY <1>1, <1>2 DEF ScreenOK, HighlightTypeOK, JobRecords, Doc

\* highlightString: the mark is put into the document.
LEMMA MakerRuns ==
  ASSUME HighlightInv, UNCHANGED scriptVars, NEW i \in DOMAIN jobs, NextScript(i),
         jobs[i].do \in Makers,
         Ran(i, jobs[i].id, "none",
             [doc[jobs[i].page].marks EXCEPT ![jobs[i].id] = jobs[i].style], jobs[i].id)
  PROVE  HighlightInv'
<1> USE DEF HighlightInv, JobsInv, MakingInv, NoteInv, scriptVars
<1> DEFINE m == jobs[i].id
           q == jobs[i].page
           s == jobs[i].style
           marks == [doc[q].marks EXCEPT ![m] = s]
<1>1. /\ m \in Ids /\ m # NoId /\ s \in Styles /\ s # "none" /\ q \in Pages /\ ~jobs[i].ran
      /\ jobs[i].do \in Making \ {"keep", "ask"} /\ jobs[i].do \notin {"unmark", "unlist"} \union Menu
      /\ view # NoPage /\ view \in Pages /\ jobs # <<>>
  BY ReaderOpen, HighlightAssumption DEF JobsOK, JobOK, Makers, Making, Menu, Styles, NextScript
<1>2. doc \in [Pages -> Doc] /\ marks \in Marks
  <2>1. doc \in [Pages -> Doc] /\ doc[q].marks \in Marks
    BY ReaderOpen DEF HighlightTypeOK, Doc
  <2> QED
    BY <1>1, <2>1 DEF Marks
<1>3. /\ doc' \in [Pages -> Doc] /\ doc'[q].marks = marks /\ doc'[q].this = m
      /\ Found(doc'[q]) = Found(doc[q]) /\ \A p \in Pages \ {q} : doc'[p] = doc[p]
  BY <1>1, <1>2, DocChanged DEF Ran
<1>4. /\ jobs' \in Seq(JobRecords) /\ Len(jobs') = Len(jobs) /\ RanAs(i, m, "none") /\ JobsOK' /\ InOrder'
  BY <1>1, RanJobs DEF Ran
<1>5. marks[m] = s /\ \A h \in Ids : h # m => marks[h] = doc[q].marks[h]
  BY <1>1, ReaderOpen DEF Marks
<1> HIDE DEF marks
<1>6. /\ HighlightTypeOK' /\ ScreenOK' /\ FileStyle' /\ RowInItsChapter'
      /\ \A h \in Ids : (Stored(h)' <=> Stored(h)) /\ (Noted(h)' <=> Noted(h))
      /\ jobs \in Seq(JobRecords)
  <2>1. Len(jobs') <= Len(jobs) /\ jobs \in Seq(JobRecords)
    BY <1>4, Places DEF JobsOK
  <2> QED
    BY <1>1, <1>3, <1>4, <2>1, ScriptRest
<1>7. /\ DOMAIN jobs' = DOMAIN jobs
      /\ \A k \in DOMAIN jobs : /\ jobs'[k].do = jobs[k].do /\ jobs'[k].id = jobs[k].id
                                /\ jobs'[k].page = jobs[k].page
      /\ \A k \in DOMAIN jobs \ {i} : jobs'[k] = jobs[k]
      /\ jobs'[i].ran
  BY <1>4 DEF RanAs
<1>8. \A h \in Ids : /\ \A k \in DOMAIN jobs : Makes(k, h)' <=> Makes(k, h)
                     /\ UnderWay(h)' <=> UnderWay(h)
  BY <1>6, <1>7 DEF Makes, UnderWay
<1>9. Makes(i, m) /\ \A k \in DOMAIN jobs \ {i} : ~Makes(k, m)
  BY <1>1 DEF Makes, MadeOnce
<1>10. AtHome'
  <2>1. \A h \in Ids, p \in Pages :
          doc'[p].marks[h] # "none" \/ file'[p][h] # "none" \/ doc'[p].this = h => home[h] = p
    BY <1>1, <1>3, <1>5 DEF AtHome
  <2> QED
    BY <1>6, <1>7, <2>1 DEF AtHome
<1>11. MadeOnce'
  BY <1>6, <1>7, <1>8 DEF MadeOnce
<1>12. NotYetMade'
  <2> SUFFICES ASSUME NEW k \in DOMAIN jobs', jobs'[k].do \in Makers, ~jobs'[k].ran
               PROVE  /\ doc'[jobs'[k].page].marks[jobs'[k].id] = "none"
                      /\ doc'[jobs'[k].page].this # jobs'[k].id
                      /\ \A l \in DOMAIN jobs' : jobs'[l].do \in Menu => jobs'[l].id # jobs'[k].id
    BY DEF NotYetMade
  <2>1. k \in DOMAIN jobs \ {i} /\ jobs'[k] = jobs[k] /\ jobs[k].id \in Ids /\ jobs[k].page \in Pages
    BY <1>7 DEF JobsOK, JobOK, Makers, Making, JobRecords
  <2>2. jobs[k].id # m
    BY <1>9, <2>1 DEF Makes, Makers, Making
  <2> QED
    BY <1>3, <1>5, <1>7, <2>1, <2>2 DEF NotYetMade
<1>13. q = view \/ m \in crossed
  <2>1. Subject(i) = m
    BY <1>1, Named, HighlightAssumption
  <2> QED
    BY <1>1, <2>1 DEF OnView
<1>14. OnView'
  <2>1. ASSUME NEW k \in DOMAIN jobs, jobs[k].page # view, jobs[k].do \notin {"unmark", "unlist"}
        PROVE  Subject(k)' \in crossed \union {NoId}
    <3>1. Subject(k)' = Subject(k) \/ (Subject(k)' = m /\ jobs[k].page = q)
      BY <1>3, <1>7 DEF Subject, JobsOK, JobOK, JobRecords
    <3> QED
      BY <1>13, <2>1, <3>1 DEF OnView
  <2> QED
    BY <1>6, <1>7, <2>1 DEF OnView
<1>15. NotesAlone'
  <2>1. ASSUME NEW k \in DOMAIN jobs, jobs[k].do = "highlight", ~jobs'[k].ran, jobs[k].id \notin crossed,
               jobs[i].do \in Notes \union {"unmark"}
        PROVE  FALSE
    <3>1. k \in DOMAIN jobs \ {i} /\ ~jobs[k].ran
      BY <1>7, <2>1
    <3>2. k < i /\ jobs[k].page = q
      BY <2>1, <3>1 DEF NotesAlone
    <3>3. i < k
      BY <3>1, <3>2, RunOrder
    <3> QED
      BY <3>2, <3>3, <1>6, Places
  <2> QED
    BY <1>6, <1>7, <2>1 DEF NotesAlone
<1>16. \A k \in DOMAIN jobs \ {i} : NoteDue(k)' <=> NoteDue(k)
  BY <1>7 DEF NoteDue
<1>17. NotesThis'
  <2>1. CASE q = view
    <3>1. ASSUME m \notin crossed
          PROVE  /\ \A k \in DOMAIN jobs \ {i} : ~NoteDue(k) /\ jobs[k].do # "unmark"
                 /\ sheet = NoSheet \/ sheet.edit
      <4>1. CASE jobs[i].do = "note"
        BY <3>1, <4>1 DEF NotesAlone, NoteDue, Notes
      <4>2. CASE jobs[i].do = "highlight"
        BY <1>1, <2>1, <3>1, <4>2 DEF NotesAlone, NoteDue, Notes
      <4> QED
        BY <4>1, <4>2 DEF Makers
    <3>2. ASSUME NEW h \in Ids \ crossed, h # m, NEW k \in DOMAIN jobs \ {i}, NoteDue(k), jobs[k].id = h
          PROVE  FALSE
      <4>1. jobs[k].do \in Notes /\ jobs[k].do \notin {"unmark", "unlist"}
        BY <3>2 DEF NoteDue, Notes
      <4>2. jobs[k].page = view
        <5>1. Subject(k) = h /\ h # NoId
          BY <3>2, HighlightAssumption DEF Subject
        <5> QED
          BY <3>2, <4>1, <5>1 DEF OnView
      <4>3. jobs[k].do = "note" /\ i < k /\ jobs[k].ran
        BY <2>1, <3>2, <4>1, <4>2 DEF NotesAlone, NoteDue
      <4> QED
        BY <1>1, <2>1, <4>2, <4>3 DEF InOrder
    <3>3. ASSUME NEW h \in Ids \ crossed, Noted(h) PROVE FALSE
      BY <2>1, <3>3 DEF NotesAlone
    <3>4. doc'[view].this = m
      BY <1>3, <2>1
    <3>5. \A k \in DOMAIN jobs' : NoteDue(k)' => k = i \/ NoteDue(k)
      BY <1>7, <1>16
    <3>6. jobs'[i].id = m /\ jobs[i].do # "unmark"
      BY <1>1, <1>7
    <3> QED
      BY <1>6, <1>7, <3>1, <3>2, <3>3, <3>4, <3>5, <3>6 DEF NotesThis
  <2>2. CASE q # view
    <3>1. doc'[view] = doc[view]
      BY <1>1, <1>3, <2>2
    <3>2. \A k \in DOMAIN jobs : NoteDue(k)' <=> NoteDue(k)
      BY <1>7, <1>16, <2>2 DEF NoteDue
    <3> QED
      BY <1>6, <1>7, <1>8, <3>1, <3>2 DEF NotesThis
  <2> QED
    BY <2>1, <2>2
<1>18. MarksOK'
  <2> SUFFICES ASSUME NEW h \in Ids \ crossed, home[h] = view PROVE MarkOK(h)'
    BY DEF MarksOK
  <2>1. MarkOK(h)
    BY <1>1 DEF MarksOK
  <2>2. CASE h # m
    <3>1. doc'[view].marks[h] = doc[view].marks[h] /\ Found(doc'[view]) = Found(doc[view])
      BY <1>1, <1>3, <1>5, <2>2
    <3>2. ~Concerns(i, h)
      BY <1>1, <2>2 DEF Concerns, Clears
    <3>3. \A k \in DOMAIN jobs :
            jobs[k].do = "unmark" /\ jobs[k].page = view /\ doc[view].this = h => doc'[view].this = h
      BY <1>1, <1>3 DEF NotesThis
    <3> QED
      BY <1>4, <1>6, <2>1, <2>2, <3>1, <3>2, <3>3, MarkRan
  <2>3. CASE h = m
    <3>1. q = view
      BY <1>13, <2>3
    <3>2. ~Stored(h)' /\ ~Noted(h)' /\ UnderWay(h)'
      BY <1>6, <1>8, <1>9, <2>3 DEF MadeOnce, UnderWay
    <3>3. \A k \in DOMAIN jobs' : jobs'[k].id = h => jobs'[k].do \notin {"keep", "ask"} \union Menu
      <4>1. \A k \in DOMAIN jobs : jobs[k].do \in Menu => jobs[k].id # h
        BY <1>1, <2>3 DEF NotYetMade
      <4> QED
        BY <1>1, <1>7, <1>9, <2>3, <4>1 DEF Makes, Making
    <3> QED
      BY <3>2, <3>3 DEF MarkOK, StoredMark, KeptMark, NotedMark, ClearedMark, Pending, Menu
  <2> QED
    BY <2>2, <2>3
<1> QED
  BY <1>4, <1>6, <1>10, <1>11, <1>12, <1>14, <1>15, <1>17, <1>18

\* getHTML: the style that the mark has becomes known.
LEMMA ReaderRuns ==
  ASSUME HighlightInv, UNCHANGED scriptVars, NEW i \in DOMAIN jobs, NextScript(i),
         jobs[i].do \in {"keep", "ask"}, doc[jobs[i].page].marks[jobs[i].id] # "none",
         Ran(i, jobs[i].id, doc[jobs[i].page].marks[jobs[i].id], doc[jobs[i].page].marks,
             doc[jobs[i].page].this)
  PROVE  HighlightInv'
<1> USE DEF HighlightInv, JobsInv, MakingInv, NoteInv, scriptVars
<1> DEFINE m == jobs[i].id
           q == jobs[i].page
           s == doc[q].marks[m]
<1>1. /\ m \in Ids /\ q \in Pages /\ ~jobs[i].ran /\ view # NoPage /\ view \in Pages /\ jobs # <<>>
      /\ jobs[i].do \in Making \ Makers /\ jobs[i].do \notin {"unmark", "unlist", "note"} \union Menu
      /\ doc[q].marks \in Marks /\ doc[q].this \in Ids \union {NoId}
  BY ReaderOpen DEF JobsOK, JobOK, Makers, Making, Menu, NextScript, Doc
<1>2. s \in Styles /\ doc \in [Pages -> Doc]
  BY <1>1 DEF Marks, HighlightTypeOK, Doc
<1>3. /\ doc' \in [Pages -> Doc] /\ doc'[q].marks = doc[q].marks /\ doc'[q].this = doc[q].this
      /\ Found(doc'[q]) = Found(doc[q]) /\ \A p \in Pages \ {q} : doc'[p] = doc[p]
  <2> DEFINE d == [doc[q] EXCEPT !.marks = doc[q].marks, !.this = doc[q].this]
  <2>1. doc[q] \in Doc
    BY <1>1, <1>2
  <2>2. d = doc[q]
    BY <2>1 DEF Doc
  <2>3. doc' = [doc EXCEPT ![q] = d]
    BY <1>1, <1>2, <2>1 DEF Ran, Doc
  <2> HIDE DEF d
  <2>4. doc' = doc
    BY <1>1, <1>2, <2>2, <2>3
  <2> QED
    BY <1>2, <2>4
<1>4. /\ jobs' \in Seq(JobRecords) /\ Len(jobs') = Len(jobs) /\ RanAs(i, m, s) /\ JobsOK' /\ InOrder'
  BY <1>1, <1>2, RanJobs DEF Ran
<1>5. \A p \in Pages : /\ doc'[p].marks = doc[p].marks /\ doc'[p].this = doc[p].this
                       /\ Found(doc'[p]) = Found(doc[p])
  BY <1>1, <1>3
<1>6. /\ HighlightTypeOK' /\ ScreenOK' /\ FileStyle' /\ RowInItsChapter'
      /\ \A h \in Ids : (Stored(h)' <=> Stored(h)) /\ (Noted(h)' <=> Noted(h))
      /\ jobs \in Seq(JobRecords)
  <2>1. Len(jobs') <= Len(jobs) /\ jobs \in Seq(JobRecords)
    BY <1>4, Places DEF JobsOK
  <2> QED
    BY <1>1, <1>3, <1>4, <2>1, ScriptRest
<1>7. /\ DOMAIN jobs' = DOMAIN jobs
      /\ \A k \in DOMAIN jobs : /\ jobs'[k].do = jobs[k].do /\ jobs'[k].id = jobs[k].id
                                /\ jobs'[k].page = jobs[k].page
      /\ \A k \in DOMAIN jobs \ {i} : jobs'[k] = jobs[k]
      /\ jobs'[i].ran /\ jobs'[i].style = s
  BY <1>4 DEF RanAs
<1>8. \A h \in Ids : /\ \A k \in DOMAIN jobs : Makes(k, h)' <=> Makes(k, h)
                     /\ UnderWay(h)' <=> UnderWay(h)
  BY <1>6, <1>7 DEF Makes, UnderWay
<1>9. AtHome' /\ MadeOnce'
  <2>1. AtHome'
    BY <1>5, <1>6, <1>7 DEF AtHome
  <2> QED
    BY <1>6, <1>7, <1>8, <2>1 DEF MadeOnce
<1>10. NotYetMade'
  BY <1>1, <1>5, <1>7 DEF NotYetMade, JobsOK, JobOK, JobRecords
<1>11. OnView'
  <2>1. \A k \in DOMAIN jobs : Subject(k)' = Subject(k)
    BY <1>5, <1>7 DEF Subject, JobsOK, JobOK, JobRecords
  <2> QED
    BY <1>6, <1>7, <2>1 DEF OnView
<1>12. NotesAlone'
  BY <1>1, <1>6, <1>7 DEF NotesAlone
<1>13. NotesThis'
  <2>1. \A k \in DOMAIN jobs : NoteDue(k)' <=> NoteDue(k)
    BY <1>1, <1>7 DEF NoteDue
  <2>2. \A k \in DOMAIN jobs : jobs[k].do \in Makers => jobs'[k] = jobs[k]
    BY <1>1, <1>7
  <2> QED
    BY <1>1, <1>5, <1>6, <1>7, <1>8, <2>1, <2>2 DEF NotesThis
<1>14. MarksOK'
  <2> SUFFICES ASSUME NEW h \in Ids \ crossed, home[h] = view PROVE MarkOK(h)'
    BY DEF MarksOK
  <2>1. MarkOK(h) /\ doc'[view].marks[h] = doc[view].marks[h]
    BY <1>1, <1>5 DEF MarksOK
  <2>2. CASE h # m
    <3>1. ~Concerns(i, h)
      BY <1>1, <2>2 DEF Concerns, Clears
    <3> QED
      BY <1>1, <1>4, <1>5, <1>6, <2>1, <2>2, <3>1, MarkRan
  <2>3. CASE h = m
    <3>1. Makes(i, h) /\ \A k \in DOMAIN jobs \ {i} : ~Makes(k, h)
      BY <1>1, <2>3 DEF Makes, MadeOnce
    <3>2. ~Stored(h)' /\ ~Noted(h)' /\ UnderWay(h)'
      BY <1>6, <1>8, <3>1 DEF MadeOnce, UnderWay
    <3>3. q = view
      BY <1>1, <2>3, HighlightAssumption DEF AtHome
    <3>4. Pending("remove", h, 0)' => Pending("remove", h, 0)
      BY <1>1, <1>7 DEF Pending, Menu
    <3>5. StoredMark(h)' /\ ClearedMark(h)'
      BY <1>1, <1>5, <2>1, <3>2, <3>4 DEF StoredMark, MarkOK, ClearedMark, Found
    <3>6. \A k \in DOMAIN jobs' : jobs'[k].id = h /\ jobs'[k].do \in {"keep", "ask"} => k = i
      BY <1>7, <3>1 DEF Makes, Making
    <3>7. s = doc'[view].marks[h] /\ s # "none"
      BY <1>2, <2>1, <2>3, <3>3 DEF Styles
    <3>8. KeptMark(h)' /\ NotedMark(h)'
      BY <1>7, <3>2, <3>6, <3>7 DEF KeptMark, NotedMark
    <3> QED
      BY <3>5, <3>8 DEF MarkOK
  <2> QED
    BY <2>2, <2>3
<1> QED
  BY <1>4, <1>6, <1>9, <1>10, <1>11, <1>12, <1>13, <1>14

\* A script without a callback has run: it may have taken marks away, or changed
\* one of several, but of highlights only that were not stored.
LEMMA ScriptEnds ==
  ASSUME HighlightInv, UNCHANGED scriptVars, NEW i \in DOMAIN jobs, NEW m \in Marks, Ended(i, m),
         \A h \in Ids : doc[jobs[i].page].marks[h] = "none" => m[h] = "none",
         \A h \in Ids \ crossed :
           home[h] = view /\ (Concerns(i, h) \/ (jobs[i].page = view /\ m[h] # doc[view].marks[h])) =>
             /\ jobs[i].page = view /\ (m[h] = "none" \/ h \in doc[view].many)
             /\ ~Stored(h) /\ ~Noted(h) /\ \A k \in DOMAIN jobs \ {i} : ~Makes(k, h)
  PROVE  HighlightInv'
<1> USE DEF HighlightInv, JobsInv, MakingInv, NoteInv, scriptVars
<1> DEFINE q == jobs[i].page
<1>1. q \in Pages /\ view # NoPage /\ view \in Pages /\ jobs # <<>> /\ doc \in [Pages -> Doc]
  BY ReaderOpen DEF HighlightTypeOK, Doc
<1>2. /\ doc' \in [Pages -> Doc] /\ doc'[q].marks = m /\ doc'[q].this = doc[q].this
      /\ Found(doc'[q]) = Found(doc[q]) /\ \A p \in Pages \ {q} : doc'[p] = doc[p]
  BY <1>1, MarksChanged DEF Ended
<1>3. /\ jobs' \in Seq(JobRecords) /\ Len(jobs') <= Len(jobs) /\ JobsOK' /\ InOrder'
      /\ \E old : Picked(jobs', old)
  BY WithoutJob DEF Ended
<1>4. PICK old : Picked(jobs', old)
  BY <1>3
<1>5. /\ HighlightTypeOK' /\ ScreenOK' /\ FileStyle' /\ RowInItsChapter'
      /\ \A h \in Ids : (Stored(h)' <=> Stored(h)) /\ (Noted(h)' <=> Noted(h))
      /\ NoNewSheet /\ jobs \in Seq(JobRecords)
  BY <1>1, <1>2, <1>3, ScriptRest
<1>6. \A p \in Pages : /\ doc'[p].this = doc[p].this /\ Found(doc'[p]) = Found(doc[p])
                       /\ \A h \in Ids : doc[p].marks[h] = "none" => doc'[p].marks[h] = "none"
  BY <1>1, <1>2
<1>7. AtHome'
  <2>1. \A h \in Ids, p \in Pages :
          doc'[p].marks[h] # "none" \/ file'[p][h] # "none" \/ doc'[p].this = h => home[h] = p
    BY <1>6 DEF AtHome
  <2>2. \A h \in Ids : Stored(h)' \/ sheet'.id = h => home[h] # NoPage
    BY <1>5 DEF AtHome
  <2> QED
    BY <1>4, <2>1, <2>2, PickedHome
<1>8. MadeOnce'
  BY <1>3, <1>4, <1>5, PickedMaking
<1>9. NotYetMade'
  <2>1. \A k \in DOMAIN jobs' : jobs'[k].page \in Pages /\ (jobs'[k].do \in Makers => jobs'[k].id \in Ids)
    BY <1>3 DEF JobsOK, JobOK, JobRecords, Makers, Making
  <2> QED
    BY <1>4, <1>6, <2>1, PickedNotYet
<1>10. OnView' /\ NotesAlone' /\ NotesThis'
  <2>1. OnView'
    BY <1>4, <1>5, <1>6, PickedView
  <2>2. NotesAlone'
    BY <1>3, <1>4, <1>5, PickedAlone
  <2>3. NotesThis'
    BY <1>1, <1>4, <1>5, <1>6, PickedThis
  <2> QED
    BY <2>1, <2>2, <2>3
<1>11. MarksOK'
  <2> SUFFICES ASSUME NEW h \in Ids \ crossed, home[h] = view PROVE MarkOK(h)'
    BY DEF MarksOK
  <2>1. MarkOK(h)
    BY <1>1 DEF MarksOK
  <2>2. CASE Concerns(i, h) \/ (q = view /\ m[h] # doc[view].marks[h])
    <3>1. /\ q = view /\ (m[h] = "none" \/ h \in doc[view].many)
          /\ ~Stored(h) /\ ~Noted(h) /\ \A k \in DOMAIN jobs \ {i} : ~Makes(k, h)
      BY <2>2
    <3>2. /\ doc'[view].marks[h] = "none" \/ h \in doc'[view].many
          /\ ~Stored(h)' /\ ~Noted(h)'
      BY <1>1, <1>2, <1>5, <3>1 DEF Found
    <3>3. PICK old2 : Picked(Without(i), old2) /\ \A k \in DOMAIN Without(i) : old2[k] # i
      BY <1>5, TakenOut
    <3>4. \A k \in DOMAIN jobs' : old2[k] \in DOMAIN jobs \ {i} /\ jobs'[k] = jobs[old2[k]]
      BY <3>3 DEF Picked, Ended
    <3>5. \A k \in DOMAIN jobs' : ~(jobs'[k].id = h /\ jobs'[k].do \in {"keep", "ask"})
      BY <3>1, <3>4 DEF Makes, Making
    <3> QED
      BY <3>2, <3>5 DEF MarkOK, StoredMark, KeptMark, NotedMark, ClearedMark
  <2>3. CASE ~Concerns(i, h) /\ (q # view \/ m[h] = doc[view].marks[h])
    <3>1. doc'[view].marks[h] = doc[view].marks[h]
      BY <1>1, <1>2, <2>3
    <3>2. store'[h] = store[h] /\ Found(doc'[view]) = Found(doc[view]) /\ doc'[view].this = doc[view].this
      BY <1>1, <1>6
    <3> QED
      BY <1>5, <2>1, <2>3, <3>1, <3>2, MarkWithout DEF Ended
  <2> QED
    BY <2>2, <2>3
<1> QED
  BY <1>3, <1>5, <1>7, <1>8, <1>9, <1>10, <1>11

\* A script of the menu has run, on thisHighlight.
LEMMA MenuRuns ==
  ASSUME HighlightInv, ManyInFile, UNCHANGED scriptVars, NEW i \in DOMAIN jobs, NextScript(i),
         jobs[i].do \in Menu, doc[jobs[i].page].this # NoId, NEW s \in Styles \union {"none"},
         NEW m \in Marks, Ran(i, doc[jobs[i].page].this, s, m, doc[jobs[i].page].this),
         \A h \in Ids : h # doc[jobs[i].page].this => m[h] = doc[jobs[i].page].marks[h],
         LET old == doc[jobs[i].page].marks[doc[jobs[i].page].this]
             new == m[doc[jobs[i].page].this]
         IN \/ /\ jobs[i].do = "remove"
               /\ new = "none" \/ (old # "none" /\ doc[jobs[i].page].this \in doc[jobs[i].page].many)
            \/ jobs[i].do = "restyle" /\ (old = "none" <=> new = "none")
            \/ jobs[i].do = "edit" /\ new = old
  PROVE  HighlightInv'
<1> USE DEF HighlightInv, JobsInv, MakingInv, NoteInv, scriptVars
<1> DEFINE q == jobs[i].page
           t == doc[q].this
<1>1. /\ t \in Ids /\ q \in Pages /\ ~jobs[i].ran /\ jobs[i].id = NoId
      /\ view # NoPage /\ view \in Pages /\ jobs # <<>> /\ i > 0
      /\ jobs[i].do \notin Making \union {"unmark", "unlist"} \union Makers
      /\ doc[q].marks \in Marks /\ doc \in [Pages -> Doc]
  BY ReaderOpen DEF JobsOK, JobOK, Makers, Making, Menu, NextScript, Doc, HighlightTypeOK
<1>2. /\ doc' \in [Pages -> Doc] /\ doc'[q].marks = m /\ doc'[q].this = t
      /\ Found(doc'[q]) = Found(doc[q]) /\ \A p \in Pages \ {q} : doc'[p] = doc[p]
  BY <1>1, DocChanged DEF Ran
<1>3. /\ jobs' \in Seq(JobRecords) /\ Len(jobs') = Len(jobs) /\ RanAs(i, t, s) /\ JobsOK' /\ InOrder'
  BY <1>1, RanJobs DEF Ran
<1>4. \A p \in Pages : doc'[p].this = doc[p].this /\ Found(doc'[p]) = Found(doc[p])
  BY <1>1, <1>2
<1>5. \A h \in Ids : \A p \in Pages :
        /\ doc[p].marks[h] = "none" => doc'[p].marks[h] = "none"
        /\ p # q \/ h # t => doc'[p].marks[h] = doc[p].marks[h]
  BY <1>1, <1>2
<1>6. /\ HighlightTypeOK' /\ ScreenOK' /\ FileStyle' /\ RowInItsChapter'
      /\ \A h \in Ids : (Stored(h)' <=> Stored(h)) /\ (Noted(h)' <=> Noted(h))
      /\ jobs \in Seq(JobRecords)
  <2>1. Len(jobs') <= Len(jobs) /\ jobs \in Seq(JobRecords)
    BY <1>3, Places DEF JobsOK
  <2> QED
    BY <1>1, <1>2, <1>3, <2>1, ScriptRest
<1>7. /\ DOMAIN jobs' = DOMAIN jobs
      /\ \A k \in DOMAIN jobs : jobs'[k].do = jobs[k].do /\ jobs'[k].page = jobs[k].page
      /\ \A k \in DOMAIN jobs \ {i} : jobs'[k] = jobs[k]
      /\ jobs'[i].ran /\ jobs'[i].id = t
  BY <1>3 DEF RanAs
<1>8. \A h \in Ids : /\ \A k \in DOMAIN jobs : Makes(k, h)' <=> Makes(k, h)
                     /\ UnderWay(h)' <=> UnderWay(h)
  BY <1>1, <1>6, <1>7 DEF Makes, UnderWay
<1>9. home[t] = q
  BY <1>1 DEF AtHome
<1>10. AtHome'
  <2>1. \A h \in Ids, p \in Pages :
          doc'[p].marks[h] # "none" \/ file'[p][h] # "none" \/ doc'[p].this = h => home[h] = p
    BY <1>4, <1>5 DEF AtHome
  <2> QED
    BY <1>1, <1>6, <1>7, <1>9, <2>1, HighlightAssumption DEF AtHome
<1>11. MadeOnce'
  BY <1>1, <1>6, <1>7, <1>8 DEF MadeOnce
<1>12. NotYetMade'
  <2> SUFFICES ASSUME NEW k \in DOMAIN jobs', jobs'[k].do \in Makers, ~jobs'[k].ran
               PROVE  /\ doc'[jobs'[k].page].marks[jobs'[k].id] = "none"
                      /\ doc'[jobs'[k].page].this # jobs'[k].id
                      /\ \A l \in DOMAIN jobs' : jobs'[l].do \in Menu => jobs'[l].id # jobs'[k].id
    BY DEF NotYetMade
  <2>1. k \in DOMAIN jobs \ {i} /\ jobs'[k] = jobs[k] /\ jobs[k].id \in Ids /\ jobs[k].page \in Pages
    BY <1>7 DEF JobsOK, JobOK, Makers, Making, JobRecords
  <2>2. jobs[k].id # t
    <3>1. doc[jobs[k].page].this # jobs[k].id
      BY <2>1 DEF NotYetMade
    <3>2. home[jobs[k].id] = jobs[k].page
      BY <2>1, HighlightAssumption DEF AtHome, Makers
    <3> QED
      BY <1>9, <3>1, <3>2
  <2> QED
    BY <1>4, <1>5, <1>7, <2>1, <2>2 DEF NotYetMade
<1>13. OnView'
  <2>1. \A k \in DOMAIN jobs : Subject(k)' = Subject(k)
    BY <1>1, <1>4, <1>7, HighlightAssumption DEF Subject, JobsOK, JobOK, JobRecords
  <2> QED
    BY <1>1, <1>6, <1>7, <2>1 DEF OnView
<1>14. NotesAlone'
  <2>1. \A k \in DOMAIN jobs : jobs[k].do \in Notes \/ jobs[k].do = "highlight" => jobs'[k] = jobs[k]
    BY <1>1, <1>7 DEF Notes, Makers, Making
  <2> QED
    BY <1>6, <1>7, <2>1 DEF NotesAlone, Notes
<1>15. NotesThis'
  <2>1. \A k \in DOMAIN jobs : NoteDue(k)' <=> NoteDue(k)
    BY <1>1, <1>7 DEF NoteDue, Makers, Making
  <2>2. \A k \in DOMAIN jobs : NoteDue(k) \/ jobs[k].do \in Makers => jobs'[k] = jobs[k]
    BY <1>1, <1>7 DEF NoteDue, Makers, Making
  <2> QED
    BY <1>1, <1>4, <1>6, <1>7, <1>8, <2>1, <2>2 DEF NotesThis
<1>16. MarksOK'
  <2> SUFFICES ASSUME NEW h \in Ids \ crossed, home[h] = view PROVE MarkOK(h)'
    BY DEF MarksOK
  <2>1. MarkOK(h)
    BY <1>1 DEF MarksOK
  <2>2. CASE h # t
    <3>1. ~Concerns(i, h)
      BY <1>1, HighlightAssumption DEF Concerns, Clears
    <3>2. doc'[view].marks[h] = doc[view].marks[h]
      BY <1>1, <1>5, <2>2
    <3> QED
      BY <1>1, <1>3, <1>4, <1>6, <2>1, <2>2, <3>1, <3>2, MarkRan
  <2>3. CASE h = t
    <3>1. q = view /\ doc'[view].marks = m
      BY <1>2, <1>9, <2>3
    <3>2. /\ \A d, n : Pending(d, h, n) => Pending(d, h, n)'
          /\ \A d, n : Pending(d, h, n)' => Pending(d, h, n) \/ d = jobs[i].do
          /\ \A d, n : d = jobs[i].do /\ i > n => Pending(d, h, n)'
      BY <1>1, <1>7, <2>3 DEF Pending
    <3>3. \A k \in DOMAIN jobs : /\ jobs[k].id = h /\ jobs[k].do = "keep" /\ jobs[k].ran => i > k
                                 /\ ~(jobs[k].id = h /\ jobs[k].do = "ask")
      <4> SUFFICES ASSUME NEW k \in DOMAIN jobs, jobs[k].id = h, jobs[k].do \in {"keep", "ask"}
                   PROVE  /\ jobs[k].do = "keep" /\ jobs[k].ran => i > k
                          /\ jobs[k].do # "ask"
        OBVIOUS
      <4>1. k # i /\ jobs[k].page = view
        BY <1>1, HighlightAssumption DEF AtHome, Making
      <4>2. jobs[k].ran => k < i
        BY <3>1, <4>1, RunOrder
      <4>3. jobs[k].do # "ask"
        BY <3>1, <4>1 DEF NotesAlone, Notes
      <4> QED
        BY <4>2, <4>3
    <3>4. ~Noted(h)
      BY <3>1 DEF NotesAlone
    <3>5. \A k \in DOMAIN jobs : jobs[k].do \in {"keep", "ask"} => jobs'[k] = jobs[k]
      BY <1>1, <1>7 DEF Making
    <3>6. jobs'[i].do \notin {"keep", "ask"}
      BY <1>1, <1>7 DEF Making
    <3>7. NotedMark(h)'
      BY <1>6, <1>7, <3>3, <3>4, <3>5, <3>6 DEF NotedMark
    <3>8. StoredMark(h)' /\ KeptMark(h)'
      <4>1. CASE jobs[i].do = "remove" /\ (m[h] = "none" \/ h \in doc[view].many)
        <5>1. StoredMark(h)'
          <6>1. Pending("remove", h, 0)'
            BY <1>1, <3>2, <4>1
          <6> QED
            BY <1>1, <1>4, <3>1, <4>1, <6>1 DEF StoredMark, Found
        <5>2. CASE m[h] = "none"
          <6>1. KeptMark(h)'
            BY <1>7, <3>1, <3>2, <3>3, <3>5, <3>6, <4>1, <5>2 DEF KeptMark
          <6> QED
            BY <5>1, <6>1
        <5>3. CASE h \in doc[view].many
          <6>1. ~UnderWay(h)
            BY <1>1, <5>3 DEF ManyInFile, MadeOnce
          <6>2. \A k \in DOMAIN jobs' : ~(jobs'[k].id = h /\ jobs'[k].do = "keep")
            BY <1>7, <3>5, <3>6, <6>1 DEF UnderWay, Makes, Making
          <6>3. KeptMark(h)'
            BY <6>2 DEF KeptMark
          <6> QED
            BY <5>1, <6>3
        <5> QED
          BY <4>1, <5>2, <5>3
      <4>2. CASE jobs[i].do = "restyle" /\ (doc[view].marks[h] = "none" <=> m[h] = "none")
        <5>1. StoredMark(h)'
          <6>1. Pending("restyle", h, 0)'
            BY <1>1, <3>2, <4>2
          <6>2. Pending("remove", h, 0) => Pending("remove", h, 0)'
            BY <3>2
          <6> QED
            BY <1>1, <1>4, <1>6, <2>1, <3>1, <4>2, <6>1, <6>2 DEF MarkOK, StoredMark, Found
        <5>2. KeptMark(h)'
          BY <1>7, <2>1, <3>1, <3>2, <3>3, <3>5, <3>6, <4>2 DEF MarkOK, KeptMark
        <5> QED
          BY <5>1, <5>2
      <4>3. CASE jobs[i].do = "edit" /\ m[h] = doc[view].marks[h]
        <5>1. StoredMark(h)'
          BY <1>1, <1>4, <1>6, <2>1, <3>1, <3>2, <4>3 DEF MarkOK, StoredMark, Found
        <5>2. KeptMark(h)'
          BY <1>7, <2>1, <3>1, <3>2, <3>5, <3>6, <4>3 DEF MarkOK, KeptMark
        <5> QED
          BY <5>1, <5>2
      <4> QED
        BY <2>3, <3>1, <4>1, <4>2, <4>3
    <3>9. ClearedMark(h)'
      <4>1. Pending("remove", h, 0)' => m[h] = "none" \/ h \in doc[view].many
        BY <2>1, <2>3, <3>1, <3>2 DEF MarkOK, ClearedMark
      <4>2. m[h] # "none" => doc[view].marks[h] # "none"
        BY <2>3, <3>1
      <4>3. \A k \in DOMAIN jobs : Clears(k, h) => Clears(k, h)'
        BY <1>1, <1>4, <1>7 DEF Clears
      <4> QED
        BY <1>1, <1>4, <1>6, <1>7, <1>8, <2>1, <3>1, <4>1, <4>2, <4>3 DEF MarkOK, ClearedMark, Found
    <3> QED
      BY <3>7, <3>8, <3>9 DEF MarkOK
  <2> QED
    BY <2>2, <2>3
<1> QED
  BY <1>3, <1>6, <1>10, <1>11, <1>12, <1>13, <1>14, <1>15, <1>16

\* What a script may leave of the marks.
LEMMA PutMarks ==
  ASSUME NEW d \in Doc, NEW h \in Ids, NEW s \in Styles \union {"none"}, NEW m \in Put(d, h, s)
  PROVE  /\ m \in Marks /\ \A g \in Ids : g # h => m[g] = d.marks[g]
         /\ d.marks[h] = "none" => m[h] = "none"
         /\ d.marks[h] # "none" => m[h] = s \/ (h \in d.many /\ m[h] \in Styles)
<1>1. d.marks \in Marks
  BY DEF Doc
<1>2. CASE d.marks[h] = "none"
  BY <1>1, <1>2 DEF Put
<1>3. CASE d.marks[h] # "none"
  <2>1. PICK t \in {s} \union (IF h \in d.many THEN Styles ELSE {}) : m = [d.marks EXCEPT ![h] = t]
    BY <1>3 DEF Put
  <2> QED
    BY <1>1, <1>3, <2>1 DEF Marks
<1> QED
  BY <1>2, <1>3

\* A script runs in the web view of its chapter.
LEMMA RunScriptStep ==
  ASSUME HighlightInv, ManyInFile, NEW i \in DOMAIN jobs, RunScript(i)
  PROVE  HighlightInv'
<1> DEFINE q == jobs[i].page
           id == jobs[i].id
           marks == doc[q].marks
           t == doc[q].this
<1>1. NextScript(i) /\ ~jobs[i].ran /\ UNCHANGED scriptVars
  BY DEF RunScript, NextScript, scriptVars, screenVars, modalVars
<1>2. /\ q \in Pages /\ view # NoPage /\ doc[q] \in Doc /\ marks \in Marks /\ t \in Ids \union {NoId}
      /\ jobs[i].do \in Scripts /\ jobs[i].style \in Styles \union {"none"}
      /\ JobOK(jobs[i])
  BY ReaderOpen DEF HighlightInv, JobsInv, JobsOK, Doc
<1>3. CASE jobs[i].do \in {"highlight", "note"} /\ Ran(i, id, "none", [marks EXCEPT ![id] = jobs[i].style], id)
  BY <1>1, <1>3, MakerRuns DEF Makers
<1>4. CASE jobs[i].do \in {"keep", "ask"} /\ marks[id] = "none" /\ Ended(i, marks)
  <2>1. ASSUME NEW h \in Ids \ crossed, home[h] = view, Concerns(i, h)
        PROVE  /\ q = view /\ (marks[h] = "none" \/ h \in doc[view].many)
               /\ ~Stored(h) /\ ~Noted(h) /\ \A k \in DOMAIN jobs \ {i} : ~Makes(k, h)
    <3>1. id = h /\ h # NoId
      BY <1>4, <2>1, HighlightAssumption DEF Concerns, Clears
    <3>2. Makes(i, h)
      BY <1>4, <3>1 DEF Makes, Making
    <3>3. home[h] = q
      BY <1>4, <3>1 DEF HighlightInv, MakingInv, AtHome
    <3> QED
      BY <1>4, <2>1, <3>1, <3>2, <3>3 DEF HighlightInv, MakingInv, MadeOnce, UnderWay
  <2> QED
    BY <1>1, <1>2, <1>4, <2>1, ScriptEnds
<1>5. CASE jobs[i].do \in Menu \union {"unmark"} /\ t = NoId /\ Ended(i, marks)
  <2>1. ASSUME NEW h \in Ids \ crossed PROVE ~Concerns(i, h)
    BY <1>1, <1>2, <1>5, HighlightAssumption DEF Concerns, Clears, JobOK, Menu
  <2> QED
    BY <1>1, <1>2, <1>5, <2>1, ScriptEnds
<1>6. CASE jobs[i].do = "unmark" /\ t # NoId /\ \E m \in Put(doc[q], t, "none") : Ended(i, m)
  <2>1. PICK m \in Put(doc[q], t, "none") : Ended(i, m)
    BY <1>6
  <2>2. /\ m \in Marks /\ \A h \in Ids : h # t => m[h] = marks[h]
        /\ m[t] = "none" \/ (t \in doc[q].many /\ marks[t] # "none")
    BY <1>2, <1>6, PutMarks
  <2>3. ASSUME NEW h \in Ids \ crossed, home[h] = view, Concerns(i, h) \/ (q = view /\ m[h] # marks[h])
        PROVE  /\ q = view /\ (m[h] = "none" \/ h \in doc[view].many)
               /\ ~Stored(h) /\ ~Noted(h) /\ \A k \in DOMAIN jobs \ {i} : ~Makes(k, h)
    <3>1. q = view /\ t = h
      BY <1>1, <1>2, <1>6, <2>2, <2>3, HighlightAssumption DEF Concerns, Clears, JobOK, Menu
    <3>2. ~Stored(h) /\ ~UnderWay(h)
      BY <1>2, <1>6, <3>1 DEF HighlightInv, NoteInv, NotesThis
    <3> QED
      BY <2>2, <3>1, <3>2 DEF UnderWay
  <2>4. \A h \in Ids : marks[h] = "none" => m[h] = "none"
    BY <2>2
  <2> QED
    BY <1>1, <2>1, <2>2, <2>3, <2>4, ScriptEnds
<1>7. CASE jobs[i].do = "unlist" /\ \E m \in Put(doc[q], id, "none") : Ended(i, m)
  <2>1. PICK m \in Put(doc[q], id, "none") : Ended(i, m)
    BY <1>7
  <2>2. /\ m \in Marks /\ \A h \in Ids : h # id => m[h] = marks[h]
        /\ m[id] = "none" \/ (id \in doc[q].many /\ marks[id] # "none")
    <3>1. id \in Ids
      BY <1>2, <1>7 DEF JobOK
    <3> QED
      BY <1>2, <3>1, PutMarks
  <2>3. ASSUME NEW h \in Ids \ crossed, home[h] = view, Concerns(i, h) \/ (q = view /\ m[h] # marks[h])
        PROVE  /\ q = view /\ (m[h] = "none" \/ h \in doc[view].many)
               /\ ~Stored(h) /\ ~Noted(h) /\ \A k \in DOMAIN jobs \ {i} : ~Makes(k, h)
    <3>1. q = view /\ id = h
      BY <1>7, <2>2, <2>3 DEF Concerns, Clears
    <3>2. ~Stored(h) /\ ~UnderWay(h)
      BY <1>7, <3>1 DEF HighlightInv, MakingInv, MadeOnce
    <3> QED
      BY <2>2, <3>1, <3>2 DEF UnderWay
  <2>4. \A h \in Ids : marks[h] = "none" => m[h] = "none"
    BY <2>2
  <2> QED
    BY <1>1, <2>1, <2>2, <2>3, <2>4, ScriptEnds
<1>8. CASE /\ t # NoId /\ jobs[i].do \in {"remove", "restyle"}
           /\ \E m \in Put(doc[q], t, jobs[i].style) : Ran(i, t, "none", m, t)
  <2>1. PICK m \in Put(doc[q], t, jobs[i].style) : Ran(i, t, "none", m, t)
    BY <1>8
  <2>2. /\ m \in Marks /\ \A h \in Ids : h # t => m[h] = marks[h]
        /\ marks[t] = "none" => m[t] = "none"
        /\ marks[t] # "none" => m[t] = jobs[i].style \/ (t \in doc[q].many /\ m[t] \in Styles)
    BY <1>2, <1>8, PutMarks
  <2>3. CASE jobs[i].do = "restyle"
    <3>1. jobs[i].style # "none" /\ "none" \notin Styles
      BY <1>1, <1>2, <2>3 DEF JobOK, Styles
    <3>2. marks[t] = "none" <=> m[t] = "none"
      BY <2>2, <3>1
    <3> QED
      BY <1>1, <1>8, <2>1, <2>2, <2>3, <3>2, MenuRuns DEF Menu
  <2>4. CASE jobs[i].do = "remove"
    <3>1. jobs[i].style = "none"
      BY <1>1, <1>2, <2>4 DEF JobOK
    <3>2. m[t] = "none" \/ (marks[t] # "none" /\ t \in doc[q].many)
      BY <2>2, <3>1
    <3> QED
      BY <1>1, <1>8, <2>1, <2>2, <2>4, <3>2, MenuRuns DEF Menu
  <2> QED
    BY <1>8, <2>3, <2>4
<1>10. CASE t # NoId /\ jobs[i].do = "edit" /\ Ran(i, t, "none", marks, t)
  BY <1>1, <1>2, <1>10, MenuRuns DEF Menu
<1>11. CASE jobs[i].do \in {"keep", "ask"} /\ marks[id] # "none" /\ Ran(i, id, marks[id], marks, t)
  BY <1>1, <1>11, ReaderRuns
<1> QED
  BY <1>3, <1>4, <1>5, <1>6, <1>7, <1>8, <1>10, <1>11 DEF RunScript, Menu

-----------------------------------------------------------------------------
(* Callbacks. *)

\* The callback that is called is the first of what is under way on its chapter.
LEMMA FirstOnPage ==
  ASSUME JobsOK, InOrder, NEW i \in DOMAIN jobs, NextCallback(i)
  PROVE  \A k \in DOMAIN jobs : jobs[k].page = jobs[i].page => k = i \/ i < k
<1>1. DOMAIN jobs = 1..Len(jobs) /\ Len(jobs) \in Nat
  BY Places DEF JobsOK
<1> SUFFICES ASSUME NEW k \in DOMAIN jobs, jobs[k].page = jobs[i].page, k < i PROVE FALSE
  BY <1>1
<1>2. k \in 1..i - 1
  BY <1>1
<1> QED
  BY <1>2 DEF NextCallback, InOrder

\* Job i is gone: number k was old[k].
Gone(i, old) ==
  /\ Picked(jobs', old) /\ \A k \in DOMAIN jobs' : old[k] # i
  /\ \A m \in DOMAIN jobs \ {i} : \E k \in DOMAIN jobs' : old[k] = m

LEMMA GoneJob ==
  ASSUME jobs \in Seq(JobRecords), NEW i \in DOMAIN jobs, jobs' = Without(i)
  PROVE  jobs' \in Seq(JobRecords) /\ \E old : Gone(i, old)
  BY TakenOut DEF Gone

\* What the callbacks that are left still promise.
LEMMA PendingWithout ==
  ASSUME jobs \in Seq(JobRecords), jobs' \in Seq(JobRecords), NEW i \in DOMAIN jobs,
         NEW old, Gone(i, old), NEW h, NEW d \in {"remove", "restyle"}
  PROVE  /\ Pending(d, h, 0)' => Pending(d, h, 0)
         /\ Pending(d, h, 0) /\ jobs[i].do # d => Pending(d, h, 0)'
         /\ Pending(d, h, i) => Pending(d, h, 0)'
         /\ \A k \in DOMAIN jobs' :
              Pending(d, h, old[k]) /\ (jobs[i].do # d \/ i < old[k]) => Pending(d, h, k)'
<1>1. /\ DOMAIN jobs \subseteq Nat \ {0} /\ DOMAIN jobs' \subseteq Nat \ {0} /\ i \in Nat \ {0}
      /\ \A k, l \in DOMAIN jobs' : old[k] < old[l] => k < l
      /\ \A k \in DOMAIN jobs' : old[k] \in DOMAIN jobs \ {i} /\ jobs'[k] = jobs[old[k]]
  BY Places, OldOrder DEF Picked, Gone
<1>2. ASSUME Pending(d, h, 0)' PROVE Pending(d, h, 0)
  <2>1. PICK k \in DOMAIN jobs' : jobs'[k].do = d /\ jobs'[k].id = h /\ jobs'[k].ran
    BY <1>2 DEF Pending
  <2>2. old[k] \in DOMAIN jobs /\ old[k] > 0
    BY <1>1
  <2> QED
    BY <1>1, <2>1, <2>2 DEF Pending
<1>3. ASSUME NEW k \in DOMAIN jobs \ {i}, jobs[k].do = d, jobs[k].id = h, jobs[k].ran
      PROVE  \E l \in DOMAIN jobs' : old[l] = k /\ l > 0 /\ jobs'[l].do = d /\ jobs'[l].id = h /\ jobs'[l].ran
  <2>1. PICK l \in DOMAIN jobs' : old[l] = k
    BY DEF Gone
  <2> QED
    BY <1>1, <1>3, <2>1
<1>4. ASSUME Pending(d, h, 0), jobs[i].do # d PROVE Pending(d, h, 0)'
  <2>1. PICK k \in DOMAIN jobs : jobs[k].do = d /\ jobs[k].id = h /\ jobs[k].ran
    BY <1>4 DEF Pending
  <2> QED
    BY <1>3, <1>4, <2>1 DEF Pending
<1>5. ASSUME Pending(d, h, i) PROVE Pending(d, h, 0)'
  <2>1. PICK k \in DOMAIN jobs : k > i /\ jobs[k].do = d /\ jobs[k].id = h /\ jobs[k].ran
    BY <1>5 DEF Pending
  <2> QED
    BY <1>1, <1>3, <2>1 DEF Pending
<1>6. ASSUME NEW n \in DOMAIN jobs', Pending(d, h, old[n]), jobs[i].do # d \/ i < old[n]
      PROVE  Pending(d, h, n)'
  <2>1. PICK k \in DOMAIN jobs : k > old[n] /\ jobs[k].do = d /\ jobs[k].id = h /\ jobs[k].ran
    BY <1>6 DEF Pending
  <2>2. k # i
    BY <1>1, <1>6, <2>1
  <2>3. PICK l \in DOMAIN jobs' : old[l] = k /\ jobs'[l].do = d /\ jobs'[l].id = h /\ jobs'[l].ran
    BY <1>3, <2>1, <2>2
  <2>4. old[n] < old[l]
    BY <1>1, <2>1, <2>3
  <2>5. l > n
    BY <1>1, <2>4
  <2> QED
    BY <2>3, <2>5 DEF Pending
<1> QED
  BY <1>2, <1>4, <1>5, <1>6

\* What the other callbacks for the highlight of a callback say of its mark: only
\* removeById and updateById fulfil a promise, and only one made before.
LEMMA KeptWithout ==
  ASSUME JobsOK, InOrder, AtHome, NEW i \in DOMAIN jobs, NextCallback(i), jobs' = Without(i),
         NEW h \in Ids, h = jobs[i].id, jobs[i].do # "unlist", UNCHANGED <<view, doc>>,
         KeptMark(h), HighlightAssumption
  PROVE  KeptMark(h)'
<1> SUFFICES ASSUME NEW k \in DOMAIN jobs', jobs'[k].id = h, jobs'[k].do = "keep", jobs'[k].ran
             PROVE  /\ doc[view].marks[h] = "none" => Pending("remove", h, k)'
                    /\ doc[view].marks[h] \notin {"none", jobs'[k].style} => Pending("restyle", h, k)'
  BY DEF KeptMark
<1>1. jobs \in Seq(JobRecords) /\ jobs' \in Seq(JobRecords)
  BY GoneJob DEF JobsOK
<1>2. PICK old : Gone(i, old)
  BY <1>1, GoneJob
<1>3. old[k] \in DOMAIN jobs \ {i} /\ jobs'[k] = jobs[old[k]]
  BY <1>2 DEF Gone, Picked
<1>4. i < old[k]
  <2>1. jobs[old[k]].page = jobs[i].page
    BY <1>3, HighlightAssumption DEF AtHome
  <2> QED
    BY <1>3, <2>1, FirstOnPage
<1>5. ASSUME NEW d \in {"remove", "restyle"}, Pending(d, h, old[k]) PROVE Pending(d, h, k)'
  BY <1>1, <1>2, <1>4, <1>5, PendingWithout
<1> QED
  BY <1>3, <1>5 DEF KeptMark

callbackVars == <<file, doc, live, view, currentPageNumber, due, list, home>>
Sheets == [id : Ids, page : Pages, type : Styles \union {"hash"}, edit : BOOLEAN] \union {NoSheet}

\* What every callback that ends its job keeps and knows.
LEMMA Answered ==
  ASSUME HighlightInv, NEW i \in DOMAIN jobs, NextCallback(i), jobs' = Without(i), UNCHANGED callbackVars
  PROVE  /\ jobs \in Seq(JobRecords) /\ jobs' \in Seq(JobRecords) /\ JobsOK' /\ InOrder' /\ NotYetMade'
         /\ (store' \in [Ids -> Row \union {NoRow}] /\ sheet' \in Sheets /\ crossed' \subseteq Ids) =>
              HighlightTypeOK'
         /\ view # NoPage /\ view \in Pages /\ currentPageNumber \in Pages
         /\ jobs[i].id \in Ids /\ jobs[i].ran /\ jobs[i].do \notin {"unmark", "unlist"}
         /\ jobs[i].page \in Pages /\ home[jobs[i].id] = jobs[i].page
         /\ jobs[i].page # view => jobs[i].id \in crossed
         /\ \A k \in DOMAIN jobs : jobs[k].page = jobs[i].page => k = i \/ i < k
<1> USE DEF HighlightInv, JobsInv, MakingInv, NoteInv
<1>1. jobs \in Seq(JobRecords) /\ Len(jobs) \in Nat
  BY Places DEF JobsOK
<1>2. /\ jobs' \in Seq(JobRecords) /\ Len(jobs') <= Len(jobs) /\ JobsOK' /\ InOrder'
      /\ \A k \in DOMAIN jobs' : jobs'[k] \in JobRecords
      /\ \E old : Picked(jobs', old)
  BY WithoutJob
<1>3. NotYetMade'
  <2>1. PICK old : Picked(jobs', old)
    BY <1>2
  <2>2. UNCHANGED doc
    BY DEF callbackVars
  <2> QED
    BY <2>1, <2>2, PickedNotYet
<1>4. ASSUME store' \in [Ids -> Row \union {NoRow}], sheet' \in Sheets, crossed' \subseteq Ids
      PROVE  HighlightTypeOK'
  <2>1. Len(jobs') <= MaxJobs
    <3>1. Len(jobs') \in Nat
      BY <1>2, Places
    <3> QED
      BY <1>1, <1>2, <3>1, HighlightAssumption DEF HighlightTypeOK
  <2> QED
    BY <1>2, <1>4, <2>1 DEF HighlightTypeOK, JobRecords, Sheets, callbackVars
<1>5. /\ view # NoPage /\ view \in Pages /\ currentPageNumber \in Pages /\ jobs[i].page \in Pages
  BY ReaderOpen DEF ScreenOK
<1>6. /\ jobs[i].id \in Ids /\ jobs[i].ran /\ jobs[i].do \notin {"unmark", "unlist"}
  BY DEF JobsOK, JobOK, NextCallback
<1>7. home[jobs[i].id] = jobs[i].page
  BY <1>6, HighlightAssumption DEF AtHome
<1>8. jobs[i].page # view => jobs[i].id \in crossed
  BY <1>6, Named, HighlightAssumption DEF OnView
<1>9. \A k \in DOMAIN jobs : jobs[k].page = jobs[i].page => k = i \/ i < k
  BY FirstOnPage
<1> QED
  BY <1>1, <1>2, <1>3, <1>4, <1>5, <1>6, <1>7, <1>8, <1>9

\* The marks of the other highlights.
LEMMA OtherMarks ==
  ASSUME HighlightInv, NEW i \in DOMAIN jobs, NextCallback(i), jobs' = Without(i), UNCHANGED callbackVars,
         NEW h \in Ids \ crossed, home[h] = view, h # jobs[i].id,
         store'[h] = store[h], Noted(h)' <=> Noted(h), Noted(h) => sheet'.type = sheet.type
  PROVE  MarkOK(h)'
<1>1. MarkOK(h)
  BY Answered DEF HighlightInv, MarksOK
<1>2. ~Concerns(i, h)
  BY Answered DEF Concerns, Clears
<1>3. UNCHANGED <<doc, view>> /\ jobs \in Seq(JobRecords)
  BY Answered DEF callbackVars
<1> QED
  BY <1>1, <1>2, <1>3, MarkWithout

\* The second callback of a highlight stores it, under the number of the chapter
\* it is in.
LEMMA PersistStep == ASSUME HighlightInv, NEW i \in DOMAIN jobs, Persist(i) PROVE HighlightInv'
<1> USE DEF HighlightInv, JobsInv, MakingInv, NoteInv
<1> DEFINE row == [page |-> currentPageNumber, type |-> jobs[i].style]
<1>0. PICK m \in Ids : m = jobs[i].id
  BY DEF Persist, NextCallback, JobsOK, JobOK
<1>1. /\ NextCallback(i) /\ jobs[i].do = "keep" /\ store' = [store EXCEPT ![m] = row]
      /\ jobs' = Without(i) /\ UNCHANGED callbackVars /\ UNCHANGED <<sheet, crossed>>
  BY <1>0 DEF Persist, callbackVars, screenVars, modalVars
<1>2. /\ jobs \in Seq(JobRecords) /\ jobs' \in Seq(JobRecords) /\ JobsOK' /\ InOrder' /\ NotYetMade'
      /\ (store' \in [Ids -> Row \union {NoRow}] /\ sheet' \in Sheets /\ crossed' \subseteq Ids) =>
           HighlightTypeOK'
      /\ view # NoPage /\ view \in Pages /\ currentPageNumber \in Pages
      /\ m \in Ids /\ jobs[i].ran
      /\ jobs[i].page \in Pages /\ home[m] = jobs[i].page
      /\ jobs[i].page # view => m \in crossed
  BY <1>0, <1>1, Answered
<1>3. /\ UNCHANGED <<file, doc, live, view, currentPageNumber, due, list, home>>
      /\ jobs[i].style \in Styles
  BY <1>1, <1>2 DEF callbackVars, JobsOK, JobOK
<1>4. row \in Row /\ row # NoRow /\ row.page = currentPageNumber /\ row.type = jobs[i].style
  BY <1>2, <1>3, HighlightAssumption DEF Row, NoRow
<1> HIDE DEF row
<1>5. /\ store' \in [Ids -> Row \union {NoRow}] /\ store'[m] = row /\ \A h \in Ids : h # m => store'[h] = store[h]
  BY <1>1, <1>2, <1>4 DEF HighlightTypeOK
<1>6. HighlightTypeOK'
  BY <1>1, <1>2, <1>5 DEF HighlightTypeOK, Sheets
<1>7. PICK old : Gone(i, old)
  BY <1>1, <1>2, GoneJob
<1>8. /\ Picked(jobs', old)
      /\ \A k \in DOMAIN jobs' : old[k] \in DOMAIN jobs \ {i} /\ jobs'[k] = jobs[old[k]]
  BY <1>7 DEF Gone, Picked
<1>9. /\ UnderWay(m) /\ ~Stored(m) /\ ~Noted(m)
      /\ \A k \in DOMAIN jobs \ {i} : ~Makes(k, m)
      /\ \A k \in DOMAIN jobs : ~(jobs[k].do = "unlist" /\ jobs[k].id = m)
      /\ \A q \in Pages : file[q][m] = "none"
  <2>1. Makes(i, m)
    BY <1>0, <1>1 DEF Makes, Making
  <2> QED
    BY <1>2, <2>1 DEF MadeOnce, UnderWay
<1>10. /\ \A h \in Ids : /\ h # m => (Stored(h)' <=> Stored(h))
                         /\ Noted(h)' <=> Noted(h)
                         /\ UnderWay(h)' => UnderWay(h)
                         /\ \A k \in DOMAIN jobs' : Makes(k, h)' => Makes(old[k], h)
       /\ Stored(m)' /\ ~UnderWay(m)'
  <2>1. /\ \A h \in Ids : (h # m => (Stored(h)' <=> Stored(h))) /\ (Noted(h)' <=> Noted(h))
        /\ Stored(m)'
    BY <1>1, <1>4, <1>5 DEF Stored, Noted
  <2>2. \A h \in Ids : \A k \in DOMAIN jobs' : Makes(k, h)' => Makes(old[k], h)
    BY <1>8 DEF Makes
  <2>3. \A h \in Ids : UnderWay(h)' => UnderWay(h)
    BY <1>8, <2>1, <2>2 DEF UnderWay
  <2>4. ~UnderWay(m)'
    BY <1>2, <1>8, <1>9, <2>1, <2>2 DEF UnderWay
  <2> QED
    BY <2>1, <2>2, <2>3, <2>4
<1>11. ScreenOK'
  BY <1>1, <1>2, <1>3 DEF ScreenOK
<1>12. AtHome'
  <2>1. \A h \in Ids : Stored(h)' \/ sheet'.id = h => home[h] # NoPage
    BY <1>1, <1>2, <1>10, HighlightAssumption DEF AtHome
  <2> QED
    BY <1>3, <1>8, <2>1, PickedHome DEF AtHome
<1>13. MadeOnce'
  <2>1. \A h \in Ids : \A k, l \in DOMAIN jobs' : Makes(k, h)' /\ Makes(l, h)' => k = l
    BY <1>2, <1>8, <1>10, OldOrder DEF MadeOnce
  <2>2. \A h \in Ids : \A k \in DOMAIN jobs' :
          jobs'[k].do = "unlist" /\ jobs'[k].id = h => ~Stored(h)' /\ ~UnderWay(h)'
    BY <1>8, <1>9, <1>10 DEF MadeOnce
  <2>3. ASSUME NEW h \in Ids, UnderWay(h)' PROVE ~Stored(h)' /\ \A q \in Pages : file'[q][h] = "none"
    <3>1. h # m
      BY <1>10, <2>3
    <3> QED
      BY <1>3, <1>10, <2>3, <3>1 DEF MadeOnce
  <2>4. \A h \in Ids : \A k \in DOMAIN jobs' : Makes(k, h)' => ~Noted(h)'
    BY <1>8, <1>10 DEF MadeOnce
  <2> QED
    BY <2>1, <2>2, <2>3, <2>4 DEF MadeOnce
<1>14. FileStyle'
  BY <1>3, <1>5, <1>9, <1>10 DEF FileStyle
<1>15. OnView' /\ NotesAlone'
  BY <1>1, <1>2, <1>3, <1>8, PickedView, PickedAlone DEF NoNewSheet
<1>16. NotesThis'
  <2>1. \A k \in DOMAIN jobs' : NoteDue(k)' <=> NoteDue(old[k])
    BY <1>3, <1>8 DEF NoteDue
  <2>2. \A k \in DOMAIN jobs :
          jobs[k].do = "unmark" /\ jobs[k].page = view /\ m \notin crossed => doc[view].this # m
    BY <1>2, <1>9 DEF NotesThis
  <2> QED
    BY <1>1, <1>3, <1>8, <1>10, <2>1, <2>2 DEF NotesThis
<1>17. MarksOK'
  <2> SUFFICES ASSUME NEW h \in Ids \ crossed, home[h] = view PROVE MarkOK(h)'
    BY <1>1, <1>3 DEF MarksOK
  <2>1. CASE h # m
    BY <1>0, <1>1, <1>5, <1>10, <2>1, OtherMarks
  <2>2. CASE h = m
    <3>1. KeptMark(h) /\ ClearedMark(h)
      BY <1>2 DEF MarksOK, MarkOK
    <3>2. \A k \in DOMAIN jobs' : ~(jobs'[k].id = h /\ jobs'[k].do \in {"keep", "ask"})
      BY <1>8, <1>9, <2>2 DEF Makes, Making
    <3>3. /\ Pending("remove", h, 0)' => Pending("remove", h, 0)
          /\ Pending("remove", h, i) => Pending("remove", h, 0)'
          /\ Pending("restyle", h, i) => Pending("restyle", h, 0)'
      BY <1>2, <1>7, PendingWithout
    <3>4. StoredMark(h)'
      BY <1>0, <1>1, <1>2, <1>3, <1>4, <1>5, <2>2, <3>1, <3>3 DEF KeptMark, StoredMark
    <3>5. KeptMark(h)' /\ NotedMark(h)'
      BY <1>9, <1>10, <2>2, <3>2 DEF KeptMark, NotedMark
    <3>6. ClearedMark(h)'
      <4>1. Stored(h)'
        BY <1>10, <2>2
      <4> QED
        BY <1>3, <3>1, <3>3, <4>1 DEF ClearedMark
    <3> QED
      BY <3>4, <3>5, <3>6 DEF MarkOK
  <2> QED
    BY <2>1, <2>2
<1>18. RowInItsChapter'
  <2>1. m \notin crossed => currentPageNumber = home[m]
    BY <1>0, <1>1, <1>2 DEF OnView, ScreenOK, Making
  <2> QED
    BY <1>1, <1>3, <1>4, <1>5, <1>10, <2>1 DEF RowInItsChapter
<1> QED
  BY <1>2, <1>6, <1>11, <1>12, <1>13, <1>14, <1>15, <1>16, <1>17, <1>18

\* A callback that neither stores a new highlight nor asks for its note.
LEMMA AnsweredOnly ==
  ASSUME HighlightInv, NEW i \in DOMAIN jobs, NextCallback(i), jobs' = Without(i), UNCHANGED callbackVars,
         NEW m \in Ids, m = jobs[i].id,
         store' \in [Ids -> Row \union {NoRow}], sheet' \in Sheets,
         crossed \subseteq crossed', crossed' \subseteq Ids,
         \A h \in Ids : Stored(h)' =>
           Stored(h) /\ store'[h].page = store[h].page /\ store'[h].type \in {store[h].type, "hash"},
         \A h \in Ids : h # m => store'[h] = store[h],
         sheet' = sheet \/ (sheet'.edit /\ sheet'.id = m /\ sheet = NoSheet /\ ~list.up),
         m \notin crossed' /\ home[m] = view => MarkOK(m)'
  PROVE  HighlightInv'
<1> USE DEF HighlightInv, JobsInv, MakingInv, NoteInv
<1>1. /\ jobs \in Seq(JobRecords) /\ jobs' \in Seq(JobRecords) /\ JobsOK' /\ InOrder' /\ NotYetMade'
      /\ HighlightTypeOK'
      /\ view # NoPage /\ view \in Pages /\ currentPageNumber \in Pages
      /\ jobs[i].page \in Pages /\ home[m] = jobs[i].page
  BY Answered
<1>2. UNCHANGED <<file, doc, live, view, currentPageNumber, due, list, home>>
  BY DEF callbackVars
<1>3. PICK old : Picked(jobs', old)
  BY <1>1, GoneJob DEF Gone
<1>4. NoNewSheet /\ \A h \in Ids : Noted(h)' <=> Noted(h)
  BY HighlightAssumption DEF NoNewSheet, Noted, NoSheet
<1>5. ScreenOK'
  BY <1>1, <1>2 DEF ScreenOK
<1>6. AtHome'
  <2>1. \A h \in Ids : Stored(h)' \/ sheet'.id = h => home[h] # NoPage
    BY <1>1, HighlightAssumption DEF AtHome
  <2> QED
    BY <1>2, <1>3, <2>1, PickedHome DEF AtHome
<1>7. MadeOnce'
  BY <1>1, <1>2, <1>3, <1>4, PickedMaking
<1>8. FileStyle'
  <2> SUFFICES ASSUME NEW p \in Pages, NEW h \in Ids,
                      file[p][h] # "none", Stored(h)', store'[h].type \in Styles
               PROVE  file[p][h] = store'[h].type
    BY <1>2 DEF FileStyle
  <2>1. Stored(h) /\ store'[h].type = store[h].type
    BY DEF Styles
  <2> QED
    BY <2>1 DEF FileStyle
<1>9. OnView' /\ NotesAlone' /\ NotesThis'
  BY <1>1, <1>2, <1>3, <1>4, PickedView, PickedAlone, PickedThis
<1>10. MarksOK'
  <2> SUFFICES ASSUME NEW h \in Ids \ crossed', home[h] = view PROVE MarkOK(h)'
    BY <1>2 DEF MarksOK
  <2>1. CASE h # m
    <3>1. Noted(h) => sheet'.type = sheet.type
      BY HighlightAssumption DEF Noted, NoSheet
    <3> QED
      BY <1>4, <2>1, <3>1, OtherMarks
  <2> QED
    BY <2>1
<1>11. RowInItsChapter'
  BY <1>2 DEF RowInItsChapter
<1> QED
  BY <1>1, <1>5, <1>6, <1>7, <1>8, <1>9, <1>10, <1>11

\* What the callback of m leaves under way keeps the mark of m as promised.
LEMMA OwnMark ==
  ASSUME HighlightInv, NEW i \in DOMAIN jobs, NextCallback(i), jobs' = Without(i), UNCHANGED callbackVars,
         NEW m \in Ids, m = jobs[i].id, m \notin crossed, home[m] = view, jobs[i].do \in Menu,
         Noted(m)' <=> Noted(m), Noted(m) => sheet'.type = sheet.type, StoredMark(m)',
         Stored(m)' \/ ~Stored(m) \/ doc[view].marks[m] = "none" \/ m \in doc[view].many
  PROVE  MarkOK(m)'
<1>1. /\ jobs \in Seq(JobRecords) /\ jobs' \in Seq(JobRecords) /\ view # NoPage
      /\ UNCHANGED <<doc, view>>
  BY Answered DEF callbackVars
<1>2. MarkOK(m)
  BY <1>1 DEF HighlightInv, MarksOK
<1>3. KeptMark(m)'
  <2>1. JobsOK /\ InOrder /\ AtHome /\ KeptMark(m) /\ jobs[i].do # "unlist"
    BY <1>2 DEF HighlightInv, JobsInv, MakingInv, MarkOK, Menu
  <2> QED
    BY <1>1, <2>1, KeptWithout, HighlightAssumption
<1>4. PICK old : Gone(i, old)
  BY <1>1, GoneJob
<1>5. /\ \A k \in DOMAIN jobs' : old[k] \in DOMAIN jobs \ {i} /\ jobs'[k] = jobs[old[k]]
      /\ \A k \in DOMAIN jobs \ {i} : \E l \in DOMAIN jobs' : jobs'[l] = jobs[k]
  BY <1>4 DEF Gone, Picked
<1>6. NotedMark(m)'
  <2>1. \A k \in DOMAIN jobs' : jobs'[k].id = m /\ jobs'[k].do = "ask" /\ jobs'[k].ran =>
          doc'[view'].marks[m] = jobs'[k].style
    <3> SUFFICES ASSUME NEW k \in DOMAIN jobs', jobs'[k].id = m, jobs'[k].do = "ask", jobs'[k].ran
                 PROVE  doc[view].marks[m] = jobs'[k].style
      BY <1>1
    <3>1. old[k] \in DOMAIN jobs /\ jobs'[k] = jobs[old[k]]
      BY <1>5
    <3> QED
      BY <1>2, <3>1 DEF MarkOK, NotedMark
  <2>2. Noted(m)' => doc'[view'].marks[m] = sheet'.type
    BY <1>1, <1>2 DEF MarkOK, NotedMark
  <2> QED
    BY <2>1, <2>2 DEF NotedMark
<1>7. ClearedMark(m)'
  <2>1. Pending("remove", m, 0)' => Pending("remove", m, 0)
    BY <1>1, <1>4, PendingWithout
  <2>2. UnderWay(m) => UnderWay(m)'
    BY <1>5 DEF UnderWay, Makes, Menu, Making
  <2>3. (\E k \in DOMAIN jobs : Clears(k, m)) => \E k \in DOMAIN jobs' : Clears(k, m)'
    BY <1>1, <1>5 DEF Clears, Menu
  <2> QED
    BY <1>1, <1>2, <2>1, <2>2, <2>3 DEF MarkOK, ClearedMark
<1> QED
  BY <1>3, <1>6, <1>7 DEF MarkOK

\* The callback of updateHighlightNote presents the note of a stored highlight.
LEMMA EditNoteStep == ASSUME HighlightInv, NEW i \in DOMAIN jobs, EditNote(i) PROVE HighlightInv'
<1> USE DEF HighlightInv, JobsInv, MakingInv, NoteInv
<1>1. PICK m \in Ids : m = jobs[i].id
  BY DEF EditNote, NextCallback, JobsOK, JobOK
<1>2. /\ NextCallback(i) /\ jobs[i].do = "edit" /\ jobs' = Without(i)
      /\ UNCHANGED callbackVars /\ UNCHANGED <<store, crossed>>
      /\ sheet' = IF Reading /\ Stored(m)
                  THEN [id |-> m, page |-> store[m].page, type |-> store[m].type, edit |-> TRUE]
                  ELSE sheet
  BY <1>1 DEF EditNote, callbackVars, screenVars
<1>3. store \in [Ids -> Row \union {NoRow}] /\ sheet \in Sheets /\ crossed \subseteq Ids
  BY DEF HighlightTypeOK, Sheets
<1>4. /\ sheet' \in Sheets
      /\ sheet' = sheet \/ (sheet'.edit /\ sheet'.id = m /\ sheet = NoSheet /\ ~list.up)
  <2>1. Stored(m) => store[m] \in Row
    BY <1>3 DEF Stored
  <2> QED
    BY <1>2, <1>3, <2>1 DEF Sheets, Row, Reading
<1>5. ASSUME m \notin crossed, home[m] = view PROVE MarkOK(m)'
  <2>1. jobs \in Seq(JobRecords) /\ view # NoPage /\ UNCHANGED <<doc, view>>
    BY <1>2, Answered DEF callbackVars
  <2>2. MarkOK(m)
    BY <1>5, <2>1 DEF MarksOK
  <2>3. PICK old : Gone(i, old)
    BY <1>2, <2>1, GoneJob
  <2>4. /\ Pending("remove", m, 0) => Pending("remove", m, 0)'
        /\ Pending("restyle", m, 0) => Pending("restyle", m, 0)'
    BY <1>2, <2>1, <2>3, GoneJob, PendingWithout
  <2>5. StoredMark(m)'
    BY <1>2, <2>1, <2>2, <2>4 DEF MarkOK, StoredMark, Stored
  <2>6. (Noted(m)' <=> Noted(m)) /\ (Noted(m) => sheet'.type = sheet.type)
    BY <1>4, HighlightAssumption DEF Noted, NoSheet
  <2>7. Stored(m)' \/ ~Stored(m)
    BY <1>2 DEF Stored
  <2> QED
    BY <1>1, <1>2, <1>5, <2>5, <2>6, <2>7, OwnMark DEF Menu
<1>6. \A h \in Ids : Stored(h)' =>
        Stored(h) /\ store'[h].page = store[h].page /\ store'[h].type \in {store[h].type, "hash"}
  BY <1>2 DEF Stored
<1> QED
  BY <1>1, <1>2, <1>3, <1>4, <1>5, <1>6, AnsweredOnly

\* The callback of remove deletes the row.
LEMMA RemoveByIdStep == ASSUME HighlightInv, NEW i \in DOMAIN jobs, removeById(i) PROVE HighlightInv'
<1> USE DEF HighlightInv, JobsInv, MakingInv, NoteInv
<1>1. PICK m \in Ids : m = jobs[i].id
  BY DEF removeById, NextCallback, JobsOK, JobOK
<1>2. /\ NextCallback(i) /\ jobs[i].do = "remove" /\ jobs' = Without(i)
      /\ UNCHANGED callbackVars /\ UNCHANGED <<sheet, crossed>>
      /\ store' = [store EXCEPT ![m] = NoRow]
  BY <1>1 DEF removeById, callbackVars, screenVars, modalVars
<1>3. store \in [Ids -> Row \union {NoRow}] /\ sheet \in Sheets /\ crossed \subseteq Ids
  BY DEF HighlightTypeOK, Sheets
<1>4. /\ store' \in [Ids -> Row \union {NoRow}] /\ store'[m] = NoRow
      /\ \A h \in Ids : h # m => store'[h] = store[h]
  BY <1>2, <1>3
<1>5. ~Stored(m)' /\ \A h \in Ids : Stored(h)' =>
        Stored(h) /\ store'[h].page = store[h].page /\ store'[h].type \in {store[h].type, "hash"}
  BY <1>4 DEF Stored
<1>6. ASSUME m \notin crossed, home[m] = view PROVE MarkOK(m)'
  <2>1. jobs \in Seq(JobRecords) /\ view # NoPage /\ jobs[i].ran /\ i > 0
    BY <1>2, Answered, ReaderOpen
  <2>2. ClearedMark(m)
    BY <1>6, <2>1 DEF MarksOK, MarkOK
  <2>3. Pending("remove", m, 0)
    BY <1>1, <1>2, <2>1 DEF Pending
  <2>4. doc[view].marks[m] = "none" \/ m \in doc[view].many
    BY <2>2, <2>3 DEF ClearedMark
  <2>5. StoredMark(m)' /\ (Noted(m)' <=> Noted(m)) /\ (Noted(m) => sheet'.type = sheet.type)
    BY <1>2, <1>5 DEF StoredMark, Noted
  <2> QED
    BY <1>1, <1>2, <1>6, <2>4, <2>5, OwnMark DEF Menu
<1> QED
  BY <1>1, <1>2, <1>3, <1>4, <1>5, <1>6, AnsweredOnly

\* The callback of setYellow... gives the row a number that is no style.
LEMMA UpdateByIdStep == ASSUME HighlightInv, NEW i \in DOMAIN jobs, updateById(i) PROVE HighlightInv'
<1> USE DEF HighlightInv, JobsInv, MakingInv, NoteInv
<1>1. PICK m \in Ids : m = jobs[i].id
  BY DEF updateById, NextCallback, JobsOK, JobOK
<1>2. /\ NextCallback(i) /\ jobs[i].do = "restyle" /\ jobs' = Without(i)
      /\ UNCHANGED callbackVars /\ UNCHANGED <<sheet, crossed>>
      /\ store' = IF Stored(m) THEN [store EXCEPT ![m].type = "hash"] ELSE store
  BY <1>1 DEF updateById, callbackVars, screenVars, modalVars
<1>3. store \in [Ids -> Row \union {NoRow}] /\ sheet \in Sheets /\ crossed \subseteq Ids
  BY DEF HighlightTypeOK, Sheets
<1>4. /\ store' \in [Ids -> Row \union {NoRow}]
      /\ Stored(m) => store'[m] \in Row /\ store'[m].page = store[m].page /\ store'[m].type = "hash"
      /\ ~Stored(m) => store'[m] = store[m]
      /\ \A h \in Ids : h # m => store'[h] = store[h]
  <2>1. CASE Stored(m)
    <3> DEFINE row == [store[m] EXCEPT !.type = "hash"]
    <3>1. store[m] \in Row
      BY <1>3, <2>1 DEF Stored
    <3>2. row \in Row /\ row.page = store[m].page /\ row.type = "hash"
      BY <3>1 DEF Row
    <3>3. store' = [store EXCEPT ![m] = row]
      BY <1>2, <2>1
    <3> HIDE DEF row
    <3> QED
      BY <1>3, <2>1, <3>2, <3>3
  <2> QED
    BY <1>2, <1>3, <2>1
<1>5. /\ Stored(m)' <=> Stored(m)
      /\ \A h \in Ids : Stored(h)' =>
        Stored(h) /\ store'[h].page = store[h].page /\ store'[h].type \in {store[h].type, "hash"}
  <2>1. NoRow \notin Row
    BY HighlightAssumption DEF NoRow, Row
  <2> QED
    BY <1>4, <2>1 DEF Stored
<1>6. ASSUME m \notin crossed, home[m] = view PROVE MarkOK(m)'
  <2>1. jobs \in Seq(JobRecords) /\ view # NoPage /\ UNCHANGED <<doc, view>>
    BY <1>2, Answered DEF callbackVars
  <2>2. MarkOK(m)
    BY <1>6, <2>1 DEF MarksOK
  <2>3. PICK old : Gone(i, old)
    BY <1>2, <2>1, GoneJob
  <2>4. Pending("remove", m, 0) => Pending("remove", m, 0)'
    BY <1>2, <2>1, <2>3, GoneJob, PendingWithout
  <2>5. StoredMark(m)'
    BY <1>4, <1>5, <2>1, <2>2, <2>4 DEF MarkOK, StoredMark, Styles
  <2>6. (Noted(m)' <=> Noted(m)) /\ (Noted(m) => sheet'.type = sheet.type)
    BY <1>2 DEF Noted
  <2> QED
    BY <1>1, <1>2, <1>5, <1>6, <2>5, <2>6, OwnMark DEF Menu
<1> QED
  BY <1>1, <1>2, <1>3, <1>4, <1>5, <1>6, AnsweredOnly

\* The second callback of a highlight with a note presents the note sheet, unless
\* another sheet or the list is up.
LEMMA AskNoteStep == ASSUME HighlightInv, NEW i \in DOMAIN jobs, AskNote(i) PROVE HighlightInv'
<1> USE DEF HighlightInv, JobsInv, MakingInv, NoteInv
<1>1. PICK m \in Ids : m = jobs[i].id
  BY DEF AskNote, NextCallback, JobsOK, JobOK
<1> DEFINE new == [id |-> m, page |-> currentPageNumber, type |-> jobs[i].style, edit |-> FALSE]
<1>2. /\ NextCallback(i) /\ jobs[i].do = "ask" /\ jobs' = Without(i)
      /\ UNCHANGED callbackVars /\ UNCHANGED store
      /\ \/ Reading /\ sheet' = new /\ UNCHANGED crossed
         \/ crossed' = crossed \union {m} /\ UNCHANGED sheet
  BY <1>1 DEF AskNote, callbackVars, screenVars
<1>3. store \in [Ids -> Row \union {NoRow}] /\ sheet \in Sheets /\ crossed \subseteq Ids
  BY DEF HighlightTypeOK, Sheets
<1>4. \A h \in Ids : Stored(h)' <=> Stored(h)
  BY <1>2 DEF Stored
<1>5. CASE crossed' = crossed \union {m} /\ UNCHANGED sheet
  <2>1. /\ crossed \subseteq crossed' /\ crossed' \subseteq Ids /\ m \in crossed'
        /\ sheet' \in Sheets /\ store' \in [Ids -> Row \union {NoRow}]
    BY <1>2, <1>3, <1>5
  <2>2. /\ \A h \in Ids : Stored(h)' =>
             Stored(h) /\ store'[h].page = store[h].page /\ store'[h].type \in {store[h].type, "hash"}
        /\ \A h \in Ids : h # m => store'[h] = store[h]
    BY <1>2, <1>4
  <2> QED
    BY <1>1, <1>2, <1>5, <2>1, <2>2, AnsweredOnly
<1>6. CASE Reading /\ sheet' = new /\ UNCHANGED crossed
  <2>1. /\ jobs \in Seq(JobRecords) /\ jobs' \in Seq(JobRecords) /\ JobsOK' /\ InOrder' /\ NotYetMade'
        /\ (store' \in [Ids -> Row \union {NoRow}] /\ sheet' \in Sheets /\ crossed' \subseteq Ids) =>
             HighlightTypeOK'
        /\ view # NoPage /\ view \in Pages /\ currentPageNumber \in Pages
        /\ jobs[i].ran /\ jobs[i].page \in Pages /\ home[m] = jobs[i].page
        /\ jobs[i].page # view => m \in crossed
        /\ \A k \in DOMAIN jobs : jobs[k].page = jobs[i].page => k = i \/ i < k
    BY <1>1, <1>2, Answered
  <2>2. UNCHANGED <<store, file, doc, live, view, currentPageNumber, due, list, home, crossed>>
    BY <1>2, <1>6 DEF callbackVars
  <2>3. jobs[i].style \in Styles
    BY <1>2, <2>1 DEF JobsOK, JobOK
  <2>4. /\ sheet = NoSheet /\ ~list.up /\ sheet' \in Sheets /\ sheet' # NoSheet
        /\ sheet'.id = m /\ ~sheet'.edit /\ sheet'.page = currentPageNumber /\ sheet'.type = jobs[i].style
    BY <1>6, <2>1, <2>3, HighlightAssumption DEF Reading, Sheets, NoSheet
  <2> HIDE DEF new
  <2>5. PICK old : Gone(i, old)
    BY <1>2, <2>1, GoneJob
  <2>6. /\ Picked(jobs', old)
        /\ \A k \in DOMAIN jobs' : old[k] \in DOMAIN jobs \ {i} /\ jobs'[k] = jobs[old[k]]
    BY <2>5 DEF Gone, Picked
  <2>7. /\ UnderWay(m) /\ ~Stored(m)
        /\ \A k \in DOMAIN jobs \ {i} : ~Makes(k, m)
    <3>1. Makes(i, m)
      BY <1>1, <1>2 DEF Makes, Making
    <3> QED
      BY <3>1 DEF MadeOnce, UnderWay
  <2>8. \A h \in Ids : /\ Noted(h)' <=> h = m
                       /\ ~Noted(h)
                       /\ UnderWay(h)' => UnderWay(h)
                       /\ \A k \in DOMAIN jobs' : Makes(k, h)' => Makes(old[k], h)
    <3>1. \A h \in Ids : (Noted(h)' <=> h = m) /\ ~Noted(h)
      BY <2>4, HighlightAssumption DEF Noted, NoSheet
    <3>2. \A h \in Ids : \A k \in DOMAIN jobs' : Makes(k, h)' => Makes(old[k], h)
      BY <2>6 DEF Makes
    <3> QED
      BY <2>6, <2>7, <3>1, <3>2 DEF UnderWay
  <2>9. HighlightTypeOK' /\ ScreenOK'
    <3>1. HighlightTypeOK'
      BY <1>3, <2>1, <2>2, <2>4
    <3> QED
      BY <2>1, <2>2, <2>4, <3>1 DEF ScreenOK
  <2>10. AtHome'
    <3>1. \A h \in Ids : Stored(h)' \/ sheet'.id = h => home[h] # NoPage
      BY <1>4, <2>1, <2>4, HighlightAssumption DEF AtHome
    <3> QED
      BY <2>2, <2>6, <3>1, PickedHome DEF AtHome
  <2>11. MadeOnce'
    <3>1. \A h \in Ids : \A k, l \in DOMAIN jobs' : Makes(k, h)' /\ Makes(l, h)' => k = l
      BY <2>1, <2>6, <2>8, OldOrder DEF MadeOnce
    <3>2. \A h \in Ids : \A k \in DOMAIN jobs' : Makes(k, h)' => ~Noted(h)'
      BY <2>6, <2>7, <2>8
    <3>3. \A h \in Ids : UnderWay(h)' => ~Stored(h)' /\ \A q \in Pages : file'[q][h] = "none"
      BY <1>4, <2>2, <2>8 DEF MadeOnce
    <3>4. \A h \in Ids : \A k \in DOMAIN jobs' :
            jobs'[k].do = "unlist" /\ jobs'[k].id = h => ~Stored(h)' /\ ~UnderWay(h)'
      BY <1>4, <2>6, <2>8 DEF MadeOnce
    <3> QED
      BY <3>1, <3>2, <3>3, <3>4 DEF MadeOnce
  <2>12. FileStyle'
    BY <1>4, <2>2 DEF FileStyle
  <2>13. m \notin crossed => ~due /\ currentPageNumber = view /\ home[m] = view /\ jobs[i].page = view
    BY <1>1, <1>2, <2>1 DEF OnView, ScreenOK, Making
  <2>14. OnView'
    <3>1. \A k \in DOMAIN jobs' : Subject(k)' = Subject(old[k])
      BY <2>2, <2>6 DEF Subject
    <3>2. \A h \in Ids \ crossed' : Noted(h)' => ~due' /\ home'[h] = view' /\ sheet'.page = view'
      BY <2>2, <2>4, <2>8, <2>13
    <3> QED
      BY <2>2, <2>6, <3>1, <3>2 DEF OnView
  <2>15. \A k \in DOMAIN jobs' : jobs'[k].do \in Notes => jobs'[k].id \in crossed
    <3> SUFFICES ASSUME NEW k \in DOMAIN jobs', jobs'[k].do \in Notes, jobs'[k].id \notin crossed
                 PROVE  FALSE
      OBVIOUS
    <3> QED
      BY <1>2, <2>6 DEF NotesAlone, Notes
  <2>16. NotesAlone'
    <3>1. \A k \in DOMAIN jobs' :
            ~(jobs'[k].do = "highlight" /\ ~jobs'[k].ran /\ jobs'[k].id \notin crossed)
      BY <1>2, <2>1, <2>6 DEF NotesAlone, Notes
    <3>2. ASSUME m \notin crossed, NEW k \in DOMAIN jobs'
          PROVE  /\ jobs'[k].do \notin Notes \union {"unmark"}
                 /\ jobs'[k].page = view => jobs'[k].do \notin Makers \union Menu
      BY <1>1, <1>2, <2>6, <2>13, <3>2 DEF NotesAlone, Notes
    <3> QED
      BY <2>2, <2>8, <2>15, <3>1, <3>2 DEF NotesAlone
  <2>17. NotesThis'
    <3>1. NoteDue(i) /\ \A k \in DOMAIN jobs' : NoteDue(k)' <=> NoteDue(old[k])
      BY <1>2, <2>2, <2>6 DEF NoteDue
    <3>2. \A h \in Ids \ crossed : doc[view].this = h => m = h
      BY <1>1, <2>1, <3>1 DEF NotesThis
    <3>3. m \notin crossed => doc[view].this = m
      BY <1>1, <2>1, <3>1 DEF NotesThis
    <3> QED
      BY <1>4, <2>1, <2>2, <2>4, <2>6, <2>8, <3>1, <3>2, <3>3 DEF NotesThis
  <2>18. MarksOK'
    <3> SUFFICES ASSUME NEW h \in Ids \ crossed, home[h] = view PROVE MarkOK(h)'
      BY <2>2 DEF MarksOK
    <3>1. CASE h # m
      BY <1>1, <1>2, <2>2, <2>8, <3>1, OtherMarks
    <3>2. CASE h = m
      <4>1. NotedMark(h) /\ ClearedMark(h)
        BY <2>1 DEF MarksOK, MarkOK
      <4>2. doc[view].marks[h] = jobs[i].style
        BY <1>1, <1>2, <2>1, <3>2, <4>1 DEF NotedMark
      <4>3. \A k \in DOMAIN jobs' : ~(jobs'[k].id = h /\ jobs'[k].do \in {"keep", "ask"})
        BY <2>6, <2>7, <3>2 DEF Makes, Making
      <4>4. ~Stored(h)' /\ UnderWay(h)'
        BY <1>4, <2>7, <2>8, <3>2 DEF UnderWay
      <4>5. StoredMark(h)' /\ KeptMark(h)' /\ NotedMark(h)'
        BY <2>2, <2>4, <4>2, <4>3, <4>4 DEF StoredMark, KeptMark, NotedMark
      <4>6. Pending("remove", h, 0)' => Pending("remove", h, 0)
        BY <2>1, <2>5, PendingWithout
      <4>7. ClearedMark(h)'
        BY <2>2, <4>1, <4>4, <4>6 DEF ClearedMark
      <4> QED
        BY <4>5, <4>7 DEF MarkOK
    <3> QED
      BY <3>1, <3>2
  <2>19. RowInItsChapter'
    BY <1>4, <2>2 DEF RowInItsChapter
  <2> QED
    BY <2>1, <2>9, <2>10, <2>11, <2>12, <2>14, <2>16, <2>17, <2>18, <2>19
<1> QED
  BY <1>2, <1>5, <1>6

\* Job i is gone, and j is sent as job n: number k was old[k].
Follows(i, j, n, old) ==
  /\ n \in DOMAIN jobs' /\ jobs'[n] = j
  /\ old \in [DOMAIN jobs' \ {n} -> DOMAIN jobs \ {i}]
  /\ \A k \in DOMAIN jobs' \ {n} : k < n /\ jobs'[k] = jobs[old[k]]
  /\ \A k, l \in DOMAIN jobs' \ {n} : (k < l => old[k] < old[l]) /\ (old[k] < old[l] => k < l)
                                      /\ (old[k] = old[l] => k = l)
  /\ \A m \in DOMAIN jobs \ {i} : \E k \in DOMAIN jobs' \ {n} : old[k] = m

LEMMA FollowingJob ==
  ASSUME JobsOK, InOrder, NEW i \in DOMAIN jobs, NEW j, JobOK(j), ~j.ran, jobs' = Append(Without(i), j)
  PROVE  /\ jobs' \in Seq(JobRecords) /\ Len(jobs') = Len(jobs) /\ JobsOK' /\ InOrder'
         /\ \E n, old : Follows(i, j, n, old)
<1>1. /\ jobs \in Seq(JobRecords) /\ Len(jobs) \in Nat /\ j \in JobRecords
      /\ Without(i) \in Seq(JobRecords) /\ Len(Without(i)) = Len(jobs) - 1
  BY TakenOut, Places DEF JobsOK, JobOK
<1>2. PICK old : /\ Picked(Without(i), old) /\ \A k \in DOMAIN Without(i) : old[k] # i
                 /\ \A m \in DOMAIN jobs \ {i} : \E k \in DOMAIN Without(i) : old[k] = m
  BY <1>1, TakenOut
<1>3. /\ jobs' \in Seq(JobRecords) /\ Len(jobs') = Len(jobs)
      /\ \E n \in Nat \ DOMAIN Without(i) :
           /\ DOMAIN jobs' = DOMAIN Without(i) \union {n} /\ jobs'[n] = j
           /\ \A k \in DOMAIN Without(i) : k < n /\ jobs'[k] = Without(i)[k]
  <2>1. Len(jobs') = (Len(jobs) - 1) + 1
    BY <1>1, Sent
  <2> QED
    BY <1>1, <2>1, Sent
<1>4. PICK n \in Nat \ DOMAIN Without(i) :
           /\ DOMAIN jobs' = DOMAIN Without(i) \union {n} /\ jobs'[n] = j
           /\ \A k \in DOMAIN Without(i) : k < n /\ jobs'[k] = Without(i)[k]
  BY <1>3
<1>5. DOMAIN jobs' \ {n} = DOMAIN Without(i)
  BY <1>4
<1>6. /\ \A k, l \in DOMAIN Without(i) : old[k] < old[l] => k < l
      /\ \A k, l \in DOMAIN Without(i) : k # l => old[k] # old[l]
  BY <1>1, <1>2, OldOrder
<1>7. old \in [DOMAIN jobs' \ {n} -> DOMAIN jobs \ {i}]
  BY <1>2, <1>5 DEF Picked
<1>8. Follows(i, j, n, old)
  BY <1>2, <1>4, <1>5, <1>6, <1>7 DEF Follows, Picked
<1>9. JobsOK'
  <2>1. \A k \in DOMAIN jobs' : jobs'[k] = j \/ \E l \in DOMAIN jobs : jobs'[k] = jobs[l]
    BY <1>8 DEF Follows
  <2>2. \A k \in DOMAIN jobs' : JobOK(jobs'[k])
    BY <2>1 DEF JobsOK
  <2> QED
    BY <1>3, <2>2 DEF JobsOK, JobOK
<1>10. InOrder'
  <2> SUFFICES ASSUME NEW k \in DOMAIN jobs', NEW l \in DOMAIN jobs',
                      l < k, jobs'[l].page = jobs'[k].page, jobs'[k].ran
               PROVE  jobs'[l].ran
    BY DEF InOrder
  <2>1. k # n
    BY <1>8 DEF Follows
  <2>2. l # n
    <3>1. k < n /\ DOMAIN jobs' \subseteq Nat
      BY <1>3, <1>8, <2>1, Places DEF Follows
    <3> QED
      BY <3>1
  <2>3. old[l] < old[k] /\ old[k] \in DOMAIN jobs /\ old[l] \in DOMAIN jobs
        /\ jobs'[k] = jobs[old[k]] /\ jobs'[l] = jobs[old[l]]
    BY <1>8, <2>1, <2>2 DEF Follows
  <2> QED
    BY <2>3 DEF InOrder
<1> QED
  BY <1>3, <1>8, <1>9, <1>10

\* The first callback of a highlight asks for the HTML of the chapter.
LEMMA AskHTMLStep == ASSUME HighlightInv, NEW i \in DOMAIN jobs, AskHTML(i) PROVE HighlightInv'
<1> USE DEF HighlightInv, JobsInv, MakingInv, NoteInv
<1> DEFINE j == Job(IF jobs[i].do = "note" THEN "ask" ELSE "keep", jobs[i].page, jobs[i].id, "none")
<1>1. PICK m \in Ids : m = jobs[i].id
  BY DEF AskHTML, NextCallback, JobsOK, JobOK
<1>2. /\ NextCallback(i) /\ jobs[i].do \in Makers /\ jobs[i].ran /\ jobs' = Append(Without(i), j)
      /\ UNCHANGED <<store, file, doc, live, view, currentPageNumber, due, sheet, list, home, crossed>>
  BY DEF AskHTML, NextCallback, screenVars, modalVars, Makers
<1>3. /\ j.do = (IF jobs[i].do = "note" THEN "ask" ELSE "keep")
      /\ j.id = m /\ j.page = jobs[i].page /\ j.page \in Pages /\ ~j.ran /\ JobOK(j)
      /\ j.do \notin Makers \union Menu \union {"unmark", "unlist"}
  BY <1>1, <1>2, ReaderOpen, HighlightAssumption DEF Job, JobOK, JobRecords, Scripts, Making, Makers, Menu
<1>4. view # NoPage /\ view \in Pages /\ jobs \in Seq(JobRecords)
  BY ReaderOpen DEF JobsOK
<1>5. /\ jobs' \in Seq(JobRecords) /\ Len(jobs') = Len(jobs) /\ JobsOK' /\ InOrder'
      /\ \E n, old : Follows(i, j, n, old)
  BY <1>2, <1>3, FollowingJob
<1> HIDE DEF j
<1>6. PICK n, old : Follows(i, j, n, old)
  BY <1>5
<1> DEFINE E == DOMAIN jobs' \ {n}
<1>7. /\ n \in DOMAIN jobs' /\ jobs'[n] = j /\ old \in [E -> DOMAIN jobs \ {i}]
      /\ \A k \in E : k < n /\ old[k] \in DOMAIN jobs \ {i} /\ jobs'[k] = jobs[old[k]]
      /\ \A k, l \in E : (old[k] < old[l] => k < l) /\ (old[k] = old[l] => k = l)
      /\ \A k, l \in E : k < l => old[k] < old[l]
      /\ \A k \in DOMAIN jobs \ {i} : \E l \in E : old[l] = k
      /\ \A k \in DOMAIN jobs' : k = n \/ k \in E
      /\ E \subseteq DOMAIN jobs'
  BY <1>6 DEF Follows
<1> HIDE DEF E
<1>8. \A k \in DOMAIN jobs : jobs[k].page = jobs[i].page => k = i \/ i < k
  BY <1>2, FirstOnPage
<1>9. home[m] = jobs[i].page
  BY <1>1, <1>2, HighlightAssumption DEF AtHome, Makers
<1>10. /\ UnderWay(m) /\ ~Stored(m) /\ ~Noted(m) /\ Makes(i, m)
       /\ \A k \in DOMAIN jobs \ {i} : ~Makes(k, m)
  <2>1. Makes(i, m)
    BY <1>1, <1>2 DEF Makes, Making, Makers
  <2> QED
    BY <2>1 DEF MadeOnce, UnderWay
<1>11. \A h \in Ids : /\ Stored(h)' <=> Stored(h)
                      /\ Noted(h)' <=> Noted(h)
                      /\ \A k \in E : Makes(k, h)' <=> Makes(old[k], h)
                      /\ Makes(n, h)' <=> h = m
                      /\ UnderWay(h)' <=> UnderWay(h)
  <2>1. \A h \in Ids : (Stored(h)' <=> Stored(h)) /\ (Noted(h)' <=> Noted(h))
    BY <1>2 DEF Stored, Noted
  <2>2. \A h \in Ids : (\A k \in E : Makes(k, h)' <=> Makes(old[k], h)) /\ (Makes(n, h)' <=> h = m)
    BY <1>3, <1>7 DEF Makes, Making
  <2>3. ASSUME NEW h \in Ids PROVE UnderWay(h)' <=> UnderWay(h)
    <3>1. CASE h = m
      BY <1>7, <1>10, <2>2, <3>1 DEF UnderWay
    <3>2. CASE h # m
      <4>1. ~Makes(i, h)
        BY <1>1, <3>2 DEF Makes
      <4> QED
        BY <1>7, <2>1, <2>2, <3>2, <4>1 DEF UnderWay
    <3> QED
      BY <3>1, <3>2
  <2> QED
    BY <2>1, <2>2, <2>3
<1>12. HighlightTypeOK' /\ ScreenOK'
  <2>1. \A k \in DOMAIN jobs' : jobs'[k] \in JobRecords
    BY <1>5 DEF JobsOK, JobOK
  <2>2. HighlightTypeOK'
    BY <1>2, <1>5, <2>1 DEF HighlightTypeOK, JobRecords
  <2> QED
    BY <1>2, <1>4, <2>2 DEF ScreenOK
<1>13. AtHome'
  <2>1. \A k \in DOMAIN jobs' : jobs'[k].id # NoId =>
          home[jobs'[k].id] # NoPage /\ (jobs'[k].do # "unlist" => home[jobs'[k].id] = jobs'[k].page)
    BY <1>3, <1>7, <1>9, HighlightAssumption DEF AtHome
  <2> QED
    BY <1>2, <1>11, <2>1 DEF AtHome
<1>14. MadeOnce'
  <2>1. \A h \in Ids : \A k, l \in DOMAIN jobs' : Makes(k, h)' /\ Makes(l, h)' => k = l
    <3> SUFFICES ASSUME NEW h \in Ids, NEW k \in DOMAIN jobs', NEW l \in DOMAIN jobs',
                        Makes(k, h)', Makes(l, h)'
                 PROVE  k = l
      OBVIOUS
    <3>1. CASE h = m
      BY <1>7, <1>10, <1>11, <3>1
    <3>2. CASE h # m
      BY <1>7, <1>11, <3>2 DEF MadeOnce
    <3> QED
      BY <3>1, <3>2
  <2>2. \A h \in Ids : \A k \in DOMAIN jobs' : Makes(k, h)' => ~Noted(h)'
    BY <1>7, <1>10, <1>11 DEF MadeOnce
  <2>3. \A h \in Ids : UnderWay(h)' => ~Stored(h)' /\ \A q \in Pages : file'[q][h] = "none"
    BY <1>2, <1>11 DEF MadeOnce
  <2>4. \A h \in Ids : \A k \in DOMAIN jobs' :
          jobs'[k].do = "unlist" /\ jobs'[k].id = h => ~Stored(h)' /\ ~UnderWay(h)'
    BY <1>3, <1>7, <1>11 DEF MadeOnce
  <2> QED
    BY <2>1, <2>2, <2>3, <2>4 DEF MadeOnce
<1>15. FileStyle' /\ RowInItsChapter'
  BY <1>2, <1>11 DEF FileStyle, RowInItsChapter
<1>16. NotYetMade'
  <2> SUFFICES ASSUME NEW k \in DOMAIN jobs', jobs'[k].do \in Makers, ~jobs'[k].ran
               PROVE  /\ doc[jobs'[k].page].marks[jobs'[k].id] = "none"
                      /\ doc[jobs'[k].page].this # jobs'[k].id
                      /\ \A l \in DOMAIN jobs' : jobs'[l].do \in Menu => jobs'[l].id # jobs'[k].id
    BY <1>2 DEF NotYetMade
  <2>1. k \in E
    BY <1>3, <1>7
  <2> QED
    BY <1>3, <1>7, <2>1 DEF NotYetMade
<1>17. OnView'
  <2>1. Subject(n)' = m /\ Subject(i) = m /\ \A k \in E : Subject(k)' = Subject(old[k])
    BY <1>1, <1>2, <1>3, <1>7, HighlightAssumption DEF Subject
  <2>2. \A k \in DOMAIN jobs' : jobs'[k].page # view /\ jobs'[k].do \notin {"unmark", "unlist"} =>
          Subject(k)' \in crossed \union {NoId}
    BY <1>2, <1>3, <1>7, <2>1 DEF OnView, Makers
  <2>3. \A k \in DOMAIN jobs' : jobs'[k].do \in Making /\ jobs'[k].id \notin crossed => ~due
    BY <1>1, <1>2, <1>3, <1>7 DEF OnView, Makers, Making
  <2> QED
    BY <1>2, <1>11, <2>2, <2>3 DEF OnView
<1>18. /\ j.do \in Notes => jobs[i].do = "note"
       /\ j.do \in Notes \union {"unmark"} => jobs[i].do = "note"
       /\ j.do \notin {"highlight", "note"}
  BY <1>2, <1>3 DEF Notes, Makers
<1>19. NotesAlone'
  <2>1. ASSUME NEW k \in DOMAIN jobs', NEW l \in DOMAIN jobs',
               jobs'[k].do \in Notes, jobs'[k].id \notin crossed, k # l
        PROVE  /\ jobs'[l].do \notin Notes \union {"unmark"}
               /\ jobs'[l].do \in Makers \union Menu /\ jobs'[l].page = jobs'[k].page =>
                    jobs'[k].do = "note" /\ l < k
    <3>1. CASE k = n
      <4>1. jobs[i].do = "note" /\ jobs[i].id \notin crossed /\ l \in E
        BY <1>1, <1>3, <1>7, <1>18, <2>1, <3>1
      <4>2. old[l] \in DOMAIN jobs \ {i} /\ jobs'[l] = jobs[old[l]]
        BY <1>7, <4>1
      <4>3. old[l] > i \/ jobs[old[l]].page # jobs[i].page
        BY <1>8, <4>2
      <4>4. DOMAIN jobs \subseteq Nat
        BY <1>4, Places
      <4> QED
        BY <1>3, <1>7, <3>1, <4>1, <4>2, <4>3, <4>4 DEF NotesAlone, Notes
    <3>2. CASE k \in E /\ l \in E
      BY <1>7, <2>1, <3>2 DEF NotesAlone
    <3>3. CASE k \in E /\ l = n
      <4>1. jobs[i].do # "note"
        BY <1>7, <2>1, <3>3 DEF NotesAlone, Notes
      <4> QED
        BY <1>3, <1>7, <1>18, <3>3, <4>1
    <3> QED
      BY <1>7, <2>1, <3>1, <3>2, <3>3
  <2>2. \A k \in DOMAIN jobs' : jobs'[k].do \in Notes /\ jobs'[k].id \notin crossed => sheet = NoSheet \/ sheet.edit
    BY <1>1, <1>3, <1>7, <1>18 DEF NotesAlone, Notes
  <2>3. ASSUME NEW k \in DOMAIN jobs', jobs'[k].do = "highlight", ~jobs'[k].ran, jobs'[k].id \notin crossed
        PROVE  /\ sheet = NoSheet \/ sheet.edit
               /\ \A l \in DOMAIN jobs' : jobs'[l].do \in Notes \union {"unmark"} =>
                    jobs'[l].do = "note" /\ ~jobs'[l].ran /\ k < l /\ jobs'[l].page = jobs'[k].page
    <3>1. k \in E /\ old[k] \in DOMAIN jobs /\ jobs'[k] = jobs[old[k]]
      BY <1>7, <1>18, <2>3
    <3>2. jobs[i].do # "note"
      BY <1>2, <2>3, <3>1 DEF NotesAlone, Notes
    <3> QED
      BY <1>7, <1>18, <2>3, <3>1, <3>2 DEF NotesAlone
  <2>4. ASSUME NEW h \in Ids \ crossed, Noted(h), NEW k \in DOMAIN jobs'
        PROVE  /\ jobs'[k].do \notin Notes \union {"unmark"}
               /\ jobs'[k].page = view => jobs'[k].do \notin Makers \union Menu
    <3>1. jobs[i].do # "note"
      BY <2>4 DEF NotesAlone, Notes
    <3> QED
      BY <1>3, <1>7, <1>18, <2>4, <3>1 DEF NotesAlone
  <2> QED
    BY <1>2, <1>11, <2>1, <2>2, <2>3, <2>4 DEF NotesAlone
<1>20. NotesThis'
  <2>1. /\ \A k \in E : NoteDue(k)' <=> NoteDue(old[k])
        /\ NoteDue(n)' => NoteDue(i)
    BY <1>2, <1>3, <1>7, <1>18 DEF NoteDue
  <2>2. ASSUME NEW h \in Ids \ crossed, doc[view].this = h, NEW k \in DOMAIN jobs',
               jobs'[k].do = "unmark", jobs'[k].page = view
        PROVE  /\ ~Stored(h) /\ ~UnderWay(h)
               /\ \A l \in DOMAIN jobs' : jobs'[l].page = view /\ jobs'[l].do \in Makers => jobs'[l].ran
    BY <1>3, <1>4, <1>7, <2>2 DEF NotesThis
  <2>3. \A k \in DOMAIN jobs' : NoteDue(k)' =>
          \E l \in DOMAIN jobs : NoteDue(l) /\ jobs[l].id = jobs'[k].id
    BY <1>1, <1>3, <1>7, <2>1
  <2> QED
    BY <1>2, <1>4, <1>11, <2>2, <2>3 DEF NotesThis
<1>21. MarksOK'
  <2> SUFFICES ASSUME NEW h \in Ids \ crossed, home[h] = view PROVE MarkOK(h)'
    BY <1>2 DEF MarksOK
  <2>1. MarkOK(h)
    BY <1>4 DEF MarksOK
  <2>2. CASE h # m
    <3>1. ~Concerns(i, h)
      BY <1>1, <1>2, <2>2 DEF Concerns, Clears, Makers
    <3>2. /\ \A k \in DOMAIN jobs : Concerns(k, h) => \E l \in E : old[l] = k
          /\ \A k \in DOMAIN jobs' : jobs'[k].id = h => k \in E
      BY <1>3, <1>7, <2>2, <3>1
    <3>3. /\ doc'[view].marks[h] = doc[view].marks[h] /\ Found(doc'[view]) = Found(doc[view])
          /\ store'[h] = store[h] /\ (Noted(h)' <=> Noted(h)) /\ sheet'.type = sheet.type
          /\ view' = view /\ doc'[view].this = doc[view].this
      BY <1>2, <1>11
    <3>4. /\ E \in SUBSET DOMAIN jobs' /\ old \in [E -> DOMAIN jobs]
          /\ \A k \in E : jobs'[k] = jobs[old[k]]
          /\ \A k, l \in E : k < l => old[k] < old[l]
      BY <1>7
    <3> QED
      BY <1>4, <1>5, <2>1, <3>2, <3>3, <3>4, MarkKept
  <2>3. CASE h = m
    <3>1. ~Stored(h)' /\ ~Noted(h)' /\ UnderWay(h)'
      BY <1>10, <1>11, <2>3
    <3>2. \A k \in DOMAIN jobs' : Makes(k, h)' => k = n
      BY <1>7, <1>10, <1>11, <2>3
    <3>3. \A k \in DOMAIN jobs' : jobs'[k].id = h /\ jobs'[k].do \in {"keep", "ask"} => ~jobs'[k].ran
      BY <1>3, <1>7, <3>2 DEF Makes, Making
    <3>4. StoredMark(h)' /\ KeptMark(h)' /\ NotedMark(h)'
      BY <3>1, <3>3 DEF StoredMark, KeptMark, NotedMark
    <3>5. Pending("remove", h, 0)' => Pending("remove", h, 0)
      <4> SUFFICES ASSUME NEW k \in DOMAIN jobs', jobs'[k].do = "remove", jobs'[k].id = h, jobs'[k].ran
                   PROVE  Pending("remove", h, 0)
        BY DEF Pending
      <4>1. k \in E
        BY <1>3, <1>7
      <4>2. old[k] \in DOMAIN jobs /\ jobs[old[k]] = jobs'[k] /\ old[k] > 0
        BY <1>4, <1>7, <4>1, Places
      <4> QED
        BY <4>2 DEF Pending
    <3>6. ClearedMark(h)'
      BY <1>2, <2>1, <3>1, <3>5 DEF MarkOK, ClearedMark
    <3> QED
      BY <3>4, <3>6 DEF MarkOK
  <2> QED
    BY <2>2, <2>3
<1> QED
  BY <1>5, <1>12, <1>13, <1>14, <1>15, <1>16, <1>17, <1>19, <1>20, <1>21

-----------------------------------------------------------------------------
(* Chapters are loaded. *)

LEMMA OfJobs ==
  ASSUME NEW S, NEW n \in Nat, NEW s \in [1..n -> S]
  PROVE  s \in Seq(S) /\ Len(s) = n
  OBVIOUS

\* What outlives the documents that are gone are jobs under way, in their order.
LEMMA LoadedJobs ==
  ASSUME JobsOK, InOrder, NEW gone,
         \E pick \in [1..Cardinality(Outlive(gone)) -> Outlive(gone)] :
           /\ \A i, k \in DOMAIN pick : i < k => pick[i] < pick[k]
           /\ jobs' = [i \in DOMAIN pick |-> jobs[pick[i]]]
  PROVE  /\ jobs' \in Seq(JobRecords) /\ Len(jobs') <= Len(jobs) /\ JobsOK' /\ InOrder'
         /\ \E old : Picked(jobs', old) /\ \A k \in DOMAIN jobs' : old[k] \in Outlive(gone)
<1>1. Outlive(gone) \in SUBSET DOMAIN jobs /\ jobs \in Seq(JobRecords)
  BY DEF Outlive, JobsOK
<1>2. PICK n \in Nat : n = Cardinality(Outlive(gone)) /\ n <= Len(jobs)
  BY <1>1, SelectionLen
<1>3. PICK pick \in [1..n -> Outlive(gone)] :
           /\ \A i, k \in DOMAIN pick : i < k => pick[i] < pick[k]
           /\ jobs' = [i \in DOMAIN pick |-> jobs[pick[i]]]
  BY <1>2
<1>4. DOMAIN pick = 1..n /\ \A k \in 1..n : pick[k] \in DOMAIN jobs /\ jobs[pick[k]] \in JobRecords
  BY <1>1, <1>3, Places
<1>5. DOMAIN jobs' = 1..n /\ \A k \in 1..n : jobs'[k] = jobs[pick[k]]
  BY <1>3, <1>4
<1>6. jobs' \in Seq(JobRecords)
  <2>1. jobs' \in [1..n -> JobRecords]
    BY <1>3, <1>4
  <2> QED
    BY <2>1, OfJobs
<1>7. Len(jobs') = n
  BY <1>5, <1>6, Places
<1>8. Picked(jobs', pick)
  <2>1. pick \in [1..n -> DOMAIN jobs]
    BY <1>1, <1>3
  <2> QED
    BY <1>3, <1>4, <1>5, <2>1 DEF Picked
<1>9. JobsOK' /\ InOrder'
  BY <1>6, <1>8, PickedJobs
<1> QED
  BY <1>2, <1>3, <1>5, <1>6, <1>7, <1>8, <1>9

\* The marks a chapter is loaded with: those of its file and its rows.
LEMMA LoadedMarks ==
  ASSUME HighlightTypeOK, AtHome, FileStyle, NEW p \in Pages, NEW lost, NEW again, NEW W,
         W = withHighlights(p, lost, again)
  PROVE  /\ W \in Marks
         /\ \A h \in Ids : W[h] # "none" => home[h] = p
         /\ \A h \in Ids : file[p][h] # "none" => W[h] # "none"
         /\ \A h \in Ids : ~Stored(h) => W[h] = file[p][h]
         /\ \A h \in Ids \ lost : Stored(h) /\ store[h].page = p /\ home[h] = p => W[h] # "none"
         /\ \A h \in Ids : W[h] # "none" /\ Stored(h) /\ store[h].type \in Styles =>
              W[h] = store[h].type
<1>1. /\ file[p] \in Marks /\ store \in [Ids -> Row \union {NoRow}]
      /\ \A h \in Ids : classForStyle(store[h].type) \in Styles
      /\ \A h \in Ids : store[h].type \in Styles => classForStyle(store[h].type) = store[h].type
  BY DEF HighlightTypeOK, classForStyle, Styles
<1>2. \A h \in Ids : ~Stored(h) => store[h].page # p
  BY HighlightAssumption DEF Stored, NoRow
<1>3. \A h \in Ids :
        \/ W[h] = file[p][h] /\ (store[h].page # p \/ home[h] # p \/ h \in lost \/ W[h] # "none")
        \/ W[h] = classForStyle(store[h].type) /\ store[h].page = p /\ home[h] = p
  BY DEF withHighlights, Rows, Marked
<1>4. W \in Marks
  BY <1>1 DEF withHighlights, Marks
<1>5. "none" \notin Styles
  BY DEF Styles
<1>6. \A h \in Ids : W[h] # "none" => home[h] = p
  BY <1>3 DEF AtHome
<1>7. \A h \in Ids : W[h] # "none" /\ Stored(h) /\ store[h].type \in Styles => W[h] = store[h].type
  BY <1>1, <1>3 DEF FileStyle
<1> QED
  BY <1>1, <1>2, <1>3, <1>4, <1>5, <1>6, <1>7

\* A chapter comes to the screen, and what was under way is crossed.
LEMMA LoadStep ==
  ASSUME HighlightInv, NEW p \in Pages, NEW lost \in SUBSET Ids, NEW again \in SUBSET Ids,
         Load(p, lost, again), view' = p, UNCHANGED <<store, home>>,
         crossed' = crossed \union Dealt, sheet = NoSheet, sheet' = NoSheet,
         list' \in [up : BOOLEAN, rows : SUBSET Ids], ~list'.up,
         due' \in BOOLEAN, currentPageNumber' \in Pages, due' \/ currentPageNumber' = p
  PROVE  HighlightInv'
<1> USE DEF HighlightInv, JobsInv, MakingInv, NoteInv
<1> DEFINE gone == Pages \ (IF view = p THEN {} ELSE {view})
           W == withHighlights(p, lost, again)
           top == [marks |-> W, this |-> NoId, lost |-> lost, many |-> again,
                   ghosts |-> {h \in Marked(p) : ~Stored(h)}]
<1>1. /\ lost \subseteq Ids /\ again \subseteq Marked(p)
      /\ file' = [file EXCEPT ![p] = W] /\ live' = {p} \union (live \ gone)
      /\ doc' = [q \in Pages |-> IF q = p THEN top ELSE IF q \in gone THEN NoDoc ELSE doc[q]]
      /\ \E pick \in [1..Cardinality(Outlive(gone)) -> Outlive(gone)] :
           /\ \A i, k \in DOMAIN pick : i < k => pick[i] < pick[k]
           /\ jobs' = [i \in DOMAIN pick |-> jobs[pick[i]]]
  BY DEF Load
<1>2. /\ W \in Marks
      /\ \A h \in Ids : W[h] # "none" => home[h] = p
      /\ \A h \in Ids : file[p][h] # "none" => W[h] # "none"
      /\ \A h \in Ids : ~Stored(h) => W[h] = file[p][h]
      /\ \A h \in Ids \ lost : Stored(h) /\ store[h].page = p /\ home[h] = p => W[h] # "none"
      /\ \A h \in Ids : W[h] # "none" /\ Stored(h) /\ store[h].type \in Styles => W[h] = store[h].type
  BY LoadedMarks
<1> HIDE DEF W
<1>3. /\ doc'[p] = top /\ \A q \in Pages : q # p => doc'[q] = NoDoc \/ (q = view /\ q \notin gone /\ doc'[q] = doc[q])
      /\ \A q \in Pages : q \notin gone => q = view /\ q # p /\ doc'[q] = doc[q]
  BY <1>1
<1>4. top \in Doc /\ top.marks = W /\ top.this = NoId /\ NoDoc \in Doc
      /\ top.ghosts = {h \in Marked(p) : ~Stored(h)} /\ top.lost = lost /\ top.many = again
  BY <1>1, <1>2 DEF Doc, NoDoc, NoMarks, Marks, Marked
<1> HIDE DEF top
<1>5. doc \in [Pages -> Doc] /\ file \in [Pages -> Marks] /\ jobs \in Seq(JobRecords)
  BY DEF HighlightTypeOK, Doc, JobsOK
<1>6. doc' \in [Pages -> Doc] /\ file' \in [Pages -> Marks] /\ live' \in SUBSET Pages /\ p \in live'
  BY <1>1, <1>2, <1>4, <1>5 DEF HighlightTypeOK
<1>7. /\ file'[p] = W /\ \A q \in Pages : q # p => file'[q] = file[q]
  BY <1>1, <1>5
<1> HIDE DEF gone
<1>8. /\ jobs' \in Seq(JobRecords) /\ Len(jobs') <= Len(jobs) /\ JobsOK' /\ InOrder'
      /\ \E old : Picked(jobs', old) /\ \A k \in DOMAIN jobs' : old[k] \in Outlive(gone)
  BY <1>1, LoadedJobs
<1>9. PICK old : Picked(jobs', old) /\ \A k \in DOMAIN jobs' : old[k] \in Outlive(gone)
  BY <1>8
<1>10. \A k \in DOMAIN jobs' :
         /\ old[k] \in DOMAIN jobs /\ jobs'[k] = jobs[old[k]] /\ jobs'[k].page \in Pages
         /\ ~jobs'[k].ran => jobs'[k].page = view /\ view # p /\ doc'[view] = doc[view]
  <2> SUFFICES ASSUME NEW k \in DOMAIN jobs'
               PROVE  /\ old[k] \in DOMAIN jobs /\ jobs'[k] = jobs[old[k]] /\ jobs'[k].page \in Pages
                      /\ ~jobs'[k].ran => jobs'[k].page \notin gone
    BY <1>3
  <2> QED
    BY <1>8, <1>9 DEF Picked, Outlive, JobsOK, JobOK, JobRecords
<1>11. crossed \subseteq crossed' /\ crossed' \subseteq Ids
  <2>1. Dealt \subseteq Ids
    BY DEF Dealt, HighlightTypeOK, Doc, JobsOK, JobOK, JobRecords
  <2> QED
    BY <2>1 DEF HighlightTypeOK
<1>12. \A k \in DOMAIN jobs : /\ Subject(k) \in crossed' \union {NoId}
                              /\ jobs[k].id \in Ids => jobs[k].id \in crossed'
  <2>1. \A k \in DOMAIN jobs : jobs[k].id \in Ids => Subject(k) = jobs[k].id /\ Subject(k) # NoId
    BY Named, HighlightAssumption
  <2> QED
    BY <2>1, DealtWith
<1>13. \A k \in DOMAIN jobs' : jobs'[k].id \notin Ids \ crossed'
  BY <1>10, <1>12
<1>14. \A h \in Ids : ~Noted(h) /\ ~Noted(h)' /\ (Stored(h)' <=> Stored(h))
  BY HighlightAssumption DEF Noted, NoSheet, Stored
<1>15. NoMarks = NoDoc.marks /\ NoDoc.this = NoId /\ \A h \in Ids : NoMarks[h] = "none"
  BY DEF NoDoc, NoMarks
<1>16. HighlightTypeOK'
  <2>1. \A k \in DOMAIN jobs' : jobs'[k] \in JobRecords
    BY <1>8, Places
  <2>2. Len(jobs') <= MaxJobs
    <3>1. Len(jobs') \in Nat /\ Len(jobs) \in Nat
      BY <1>5, <1>8, Places
    <3> QED
      BY <1>8, <3>1, HighlightAssumption DEF HighlightTypeOK
  <2> QED
    BY <1>6, <1>11, <2>1, <2>2 DEF HighlightTypeOK, JobRecords, Doc
<1>17. ScreenOK'
  BY <1>6, HighlightAssumption DEF ScreenOK
<1>18. AtHome'
  <2>1. \A h \in Ids, q \in Pages :
          doc'[q].marks[h] # "none" \/ file'[q][h] # "none" \/ doc'[q].this = h => home[h] = q
    BY <1>2, <1>3, <1>4, <1>7, <1>15, HighlightAssumption DEF AtHome
  <2>2. \A h \in Ids : Stored(h)' \/ sheet'.id = h => home[h] # NoPage
    BY <1>14, HighlightAssumption DEF AtHome, NoSheet
  <2> QED
    BY <1>9, <2>1, <2>2, PickedHome
<1>19. MadeOnce'
  <2>1. \A h \in Ids : ~Stored(h) => \A q \in Pages : file[q][h] = "none" => file'[q][h] = "none"
    BY <1>2, <1>7
  <2>2. NoNewSheet
    BY DEF NoNewSheet
  <2> QED
    BY <1>8, <1>9, <1>14, <2>1, <2>2, PickedMaking
<1>20. FileStyle'
  BY <1>2, <1>7, <1>14 DEF FileStyle
<1>21. NotYetMade'
  <2>1. \A k \in DOMAIN jobs' : ~jobs'[k].ran => doc'[jobs'[k].page] = doc[jobs'[k].page]
    BY <1>10
  <2> QED
    BY <1>9, <2>1, PickedNotYet
<1>22. OnView'
  <2>1. \A k \in DOMAIN jobs' : Subject(k)' \in crossed' \union {NoId}
    <3> SUFFICES ASSUME NEW k \in DOMAIN jobs' PROVE Subject(k)' \in crossed' \union {NoId}
      OBVIOUS
    <3>1. CASE jobs'[k].id = NoId
      <4>1. ~jobs'[k].ran
        BY <1>8, <3>1, HighlightAssumption DEF JobsOK, JobOK
      <4>2. doc'[jobs'[k].page] = doc[jobs'[k].page]
        BY <1>10, <4>1
      <4>3. Subject(k)' = Subject(old[k])
        BY <1>10, <3>1, <4>2 DEF Subject
      <4> QED
        BY <1>10, <1>12, <4>3
    <3>2. CASE jobs'[k].id # NoId
      <4>1. Subject(k)' = jobs'[k].id
        BY <3>2 DEF Subject
      <4>2. Subject(old[k]) = jobs'[k].id
        BY <1>10, <3>2 DEF Subject
      <4> QED
        BY <1>10, <1>12, <4>1, <4>2
    <3> QED
      BY <3>1, <3>2
  <2>2. \A k \in DOMAIN jobs' : jobs'[k].do \in Making => jobs'[k].id \in crossed'
    BY <1>8, <1>13 DEF JobsOK, JobOK
  <2> QED
    BY <1>14, <2>1, <2>2 DEF OnView
<1>23. \A k \in DOMAIN jobs' : jobs'[k].do \in Notes \union {"highlight"} => jobs'[k].id \in crossed'
  BY <1>8, <1>13 DEF JobsOK, JobOK, Notes, Making
<1>24. NotesAlone'
  BY <1>14, <1>23 DEF NotesAlone
<1>25. NotesThis'
  <2>1. \A k \in DOMAIN jobs' : NoteDue(k)' => jobs'[k].id \in crossed'
    BY <1>23 DEF NoteDue, Notes
  <2>2. \A h \in Ids : doc'[p].this # h
    BY <1>3, <1>4, HighlightAssumption
  <2> QED
    BY <1>14, <2>1, <2>2 DEF NotesThis
<1>26. RowInItsChapter'
  BY <1>11, <1>14 DEF RowInItsChapter
<1>27. MarksOK'
  <2> SUFFICES ASSUME NEW h \in Ids \ crossed', home[h] = p PROVE MarkOK(h)'
    BY DEF MarksOK
  <2>1. doc'[p].marks[h] = W[h]
    BY <1>3, <1>4
  <2>2. Stored(h) => store[h].page = p
    BY <1>11 DEF RowInItsChapter
  <2>3. StoredMark(h)'
    BY <1>2, <1>3, <1>4, <1>14, <2>1, <2>2 DEF StoredMark
  <2>4. KeptMark(h)' /\ NotedMark(h)' /\ ~Pending("remove", h, 0)'
    BY <1>13, <1>14 DEF KeptMark, NotedMark, Pending
  <2>5. W[h] # "none" => Stored(h)' \/ h \in doc'[p].ghosts
    BY <1>2, <1>3, <1>4, <1>14 DEF Marked
  <2>6. ClearedMark(h)'
    BY <2>1, <2>4, <2>5 DEF ClearedMark
  <2> QED
    BY <2>3, <2>4, <2>6 DEF MarkOK
<1> QED
  BY <1>8, <1>16, <1>17, <1>18, <1>19, <1>20, <1>21, <1>22, <1>24, <1>25, <1>26, <1>27

\* The reader is opened, nothing being under way.
LEMMA OpenStep == ASSUME HighlightInv, NEW p \in Pages, OpenReader(p) PROVE HighlightInv'
<1>1. /\ \E lost, again \in SUBSET Ids : Load(p, lost, again)
      /\ view' = p /\ UNCHANGED <<store, home, crossed, sheet, list, due>> /\ view = NoPage
      /\ currentPageNumber' = p
  BY DEF OpenReader, modalVars
<1>2. jobs = <<>> /\ sheet = NoSheet /\ ~list.up /\ due \in BOOLEAN
      /\ list \in [up : BOOLEAN, rows : SUBSET Ids]
  BY <1>1 DEF HighlightInv, JobsInv, ScreenOK, HighlightTypeOK
<1>3. DOMAIN jobs = {}
  BY <1>2, NoneUnderWay
<1>4. Dealt = {}
  BY <1>3 DEF Dealt
<1> QED
  BY <1>1, <1>2, <1>4, LoadStep

\* A chapter comes to the screen by a swipe, or by a tap in the list.
LEMMA ShowStep ==
  ASSUME HighlightInv, NEW p \in Pages, Show(p), UNCHANGED <<store, currentPageNumber, home, sheet>>,
         view # NoPage, sheet = NoSheet, list' \in [up : BOOLEAN, rows : SUBSET Ids], ~list'.up
  PROVE  HighlightInv'
<1>1. /\ \E lost, again \in SUBSET Ids : Load(p, lost, again)
      /\ view' = p /\ due' = TRUE /\ crossed' = crossed \union Dealt
      /\ currentPageNumber' \in Pages /\ sheet' = NoSheet
  BY DEF Show, HighlightInv, JobsInv, ScreenOK
<1> QED
  BY <1>1, LoadStep

LEMMA TurnStep == ASSUME HighlightInv, NEW p \in Pages, Turn(p) PROVE HighlightInv'
<1>1. /\ Show(p) /\ UNCHANGED <<store, currentPageNumber, home, sheet, list>>
      /\ view # NoPage /\ sheet = NoSheet /\ ~list.up
  BY DEF Turn, Reading, modalVars
<1>2. list \in [up : BOOLEAN, rows : SUBSET Ids]
  BY DEF HighlightInv, JobsInv, HighlightTypeOK
<1> QED
  BY <1>1, <1>2, ShowStep

LEMMA SelectStep == ASSUME HighlightInv, NEW m \in Ids, SelectRow(m) PROVE HighlightInv'
<1>1. list.up /\ Stored(m) /\ list' = NoList /\ UNCHANGED <<store, currentPageNumber, sheet, home>>
  BY DEF SelectRow
<1>2. view # NoPage /\ sheet = NoSheet
  BY <1>1 DEF HighlightInv, JobsInv, ScreenOK
<1>3. NoList \in [up : BOOLEAN, rows : SUBSET Ids] /\ ~NoList.up
  BY DEF NoList
<1>4. store[m].page \in Pages
  BY <1>1 DEF HighlightInv, JobsInv, HighlightTypeOK, Stored, Row
<1>5. CASE Show(store[m].page)
  BY <1>1, <1>2, <1>3, <1>4, <1>5, ShowStep
<1>6. CASE UNCHANGED <<file, doc, live, view, due, jobs, crossed>>
  <2>1. HighlightTypeOK' /\ ScreenOK'
    BY <1>1, <1>3, <1>6 DEF HighlightInv, JobsInv, HighlightTypeOK, ScreenOK
  <2> QED
    BY <1>1, <1>6, <2>1, RestSame DEF HighlightInv, JobsInv
<1> QED
  BY <1>5, <1>6 DEF SelectRow

-----------------------------------------------------------------------------
(* The theorems. *)

\* Nothing but a loading marks a highlight more than once, and the file keeps it.
LEMMA ManySame ==
  ASSUME ManyInFile, UNCHANGED <<view, file>>, \A p \in Pages : doc'[p].many = doc[p].many
  PROVE  ManyInFile'
  BY DEF ManyInFile

LEMMA ManyLoad ==
  ASSUME HighlightInv, ManyInFile, NEW p \in Pages, view' = p,
         \E lost, again \in SUBSET Ids : Load(p, lost, again)
  PROVE  ManyInFile'
<1>1. PICK lost \in SUBSET Ids, again \in SUBSET Ids : Load(p, lost, again)
  OBVIOUS
<1> DEFINE W == withHighlights(p, lost, again)
<1>2. /\ again \subseteq Marked(p) /\ file' = [file EXCEPT ![p] = W] /\ doc'[p].many = again
      /\ \A q \in Pages : q # p => doc'[q] = NoDoc \/ doc'[q] = doc[q]
  BY <1>1 DEF Load
<1>3. \A h \in Ids : file[p][h] # "none" => W[h] # "none"
  BY LoadedMarks DEF HighlightInv, JobsInv, MakingInv
<1> HIDE DEF W
<1>4. file'[p] = W /\ \A q \in Pages : q # p => file'[q] = file[q]
  BY <1>2 DEF HighlightInv, JobsInv, HighlightTypeOK
<1>5. p # NoPage /\ NoDoc.many = {}
  BY HighlightAssumption DEF NoDoc
<1> QED
  BY <1>2, <1>3, <1>4, <1>5 DEF ManyInFile, Marked

LEMMA ManyStep ==
  ASSUME HighlightInv, ManyInFile, [HighlightNext]_vars
  PROVE  ManyInFile'
<1>1. doc \in [Pages -> Doc] /\ \A p \in Pages : DOMAIN doc[p] = {"marks", "this", "ghosts", "lost", "many"}
  BY DEF HighlightInv, JobsInv, HighlightTypeOK, Doc
<1>2. CASE \E p \in Pages : OpenReader(p) \/ Show(p)
  BY <1>2, ManyLoad DEF OpenReader, Show
<1>3. CASE CloseReader
  <2>1. \A p \in Pages : doc'[p].many = {}
    BY <1>3 DEF CloseReader, NoDoc
  <2> QED
    BY <2>1 DEF ManyInFile
<1>4. CASE PurgeCaches
  BY <1>4 DEF PurgeCaches, ManyInFile, screenVars
<1>5. CASE \E h \in Ids : TapMark(h)
  BY <1>1, <1>5, ManySame DEF TapMark, screenVars
<1>6. CASE \E i \in DOMAIN jobs : RunScript(i)
  <2>1. PICK i \in DOMAIN jobs : RunScript(i)
    BY <1>6
  <2>2. UNCHANGED <<view, file>>
    BY <2>1 DEF RunScript, screenVars
  <2>3. \/ \E m : Ended(i, m)
        \/ \E h, s, m, t : Ran(i, h, s, m, t)
    BY <2>1 DEF RunScript
  <2>4. ASSUME NEW m, Ended(i, m) PROVE \A p \in Pages : doc'[p].many = doc[p].many
    BY <1>1, <2>4, ReaderOpen DEF Ended, Doc
  <2>5. ASSUME NEW h, NEW s, NEW m, NEW t, Ran(i, h, s, m, t)
        PROVE  \A p \in Pages : doc'[p].many = doc[p].many
    BY <1>1, <2>5, ReaderOpen DEF Ran, Doc
  <2> QED
    BY <2>2, <2>3, <2>4, <2>5, ManySame
<1>7. CASE UNCHANGED <<view, file, doc>>
  BY <1>7, ManySame
<1>8. ASSUME NEW h \in Ids, SelectRow(h)
      PROVE  UNCHANGED <<view, file, doc>> \/ \E p \in Pages : Show(p)
  <2>1. store[h].page \in Pages
    BY <1>8 DEF SelectRow, HighlightInv, JobsInv, HighlightTypeOK, Stored, Row
  <2> QED
    BY <1>8, <2>1 DEF SelectRow
<1>9. ASSUME NEW i \in DOMAIN jobs
      PROVE  AskHTML(i) \/ Persist(i) \/ AskNote(i) \/ EditNote(i) \/ removeById(i) \/ updateById(i)
               => UNCHANGED <<view, file, doc>>
  BY DEF AskHTML, Persist, AskNote, EditNote, removeById, updateById, screenVars
<1>10. ASSUME NEW h \in Ids, NEW s
       PROVE  highlight(h, s) \/ highlightWithNote(h, s) \/ DeleteRow(h) => UNCHANGED <<view, file, doc>>
  BY DEF highlight, highlightWithNote, Make, DeleteRow, screenVars
<1>11. ASSUME NEW d, NEW s, TapMenu(d, s) PROVE UNCHANGED <<view, file, doc>>
  BY <1>11 DEF TapMenu, screenVars
<1>12. updateCurrentPage \/ SaveNote \/ CancelNote \/ OpenList \/ CloseList => UNCHANGED <<view, file, doc>>
  BY DEF updateCurrentPage, SaveNote, CancelNote, OpenList, CloseList, screenVars
<1>13. UNCHANGED vars => UNCHANGED <<view, file, doc>>
  BY DEF vars, screenVars
<1>14. \A p \in Pages : Turn(p) => Show(p)
  BY DEF Turn
<1> QED
  BY <1>2, <1>3, <1>4, <1>5, <1>6, <1>7, <1>8, <1>9, <1>10, <1>11, <1>12, <1>13, <1>14 DEF HighlightNext

LEMMA HighlightStep ==
  ASSUME HighlightInv, ManyInFile, [HighlightNext]_vars
  PROVE  HighlightInv'
<1>1. CASE \E p \in Pages : OpenReader(p) \/ Turn(p)
  BY <1>1, OpenStep, TurnStep
<1>2. CASE updateCurrentPage \/ CloseReader \/ PurgeCaches
  BY <1>2, UpdateStep, CloseStep, PurgeStep
<1>3. CASE \E h \in Ids, s \in Styles : highlight(h, s) \/ highlightWithNote(h, s)
  BY <1>3, MakeStep DEF highlight, highlightWithNote, Makers
<1>4. CASE \E h \in Ids : TapMark(h) \/ SelectRow(h) \/ DeleteRow(h)
  BY <1>4, TapMarkStep, SelectStep, DeleteStep
<1>5. CASE (\E s \in Styles : TapMenu("restyle", s)) \/ TapMenu("remove", "none") \/ TapMenu("edit", "none")
  BY <1>5, TapMenuStep DEF Menu
<1>6. CASE \E i \in DOMAIN jobs : \/ RunScript(i) \/ AskHTML(i) \/ Persist(i) \/ AskNote(i)
                                  \/ EditNote(i) \/ removeById(i) \/ updateById(i)
  BY <1>6, RunScriptStep, AskHTMLStep, PersistStep, AskNoteStep, EditNoteStep, RemoveByIdStep, UpdateByIdStep
<1>7. CASE SaveNote \/ CancelNote \/ OpenList \/ CloseList
  BY <1>7, SaveStep, CancelStep, ListSteps
<1>8. CASE UNCHANGED vars
  <2>1. /\ UNCHANGED <<store, file, doc, live, view, currentPageNumber, due, jobs, sheet, list, home, crossed>>
        /\ HighlightTypeOK /\ ScreenOK
    BY <1>8 DEF vars, screenVars, modalVars, HighlightInv, JobsInv
  <2>2. HighlightTypeOK' /\ ScreenOK'
    BY <2>1 DEF HighlightTypeOK, ScreenOK
  <2> QED
    BY <2>1, <2>2, RestSame DEF HighlightInv, JobsInv
<1> QED
  BY <1>1, <1>2, <1>3, <1>4, <1>5, <1>6, <1>7, <1>8 DEF HighlightNext

LEMMA HighlightInvariant == HighlightSpec => []HighlightInv
<1>1. HighlightInit => HighlightInv /\ ManyInFile
  BY HighlightInitInv DEF HighlightInit, ManyInFile, NoDoc
<1>2. HighlightInv /\ ManyInFile /\ [HighlightNext]_vars => (HighlightInv /\ ManyInFile)'
  BY HighlightStep, ManyStep
<1> QED
  BY <1>1, <1>2, PTL DEF HighlightSpec

\* Every variable keeps its type, and no more than MaxJobs scripts and callbacks
\* are under way: database, files, documents, web views, note sheet and list.
THEOREM HighlightTypeCorrect == HighlightSpec => []HighlightTypeOK
<1>1. HighlightInv => HighlightTypeOK
  BY DEF HighlightInv, JobsInv
<1> QED
  BY <1>1, HighlightInvariant, PTL

\* A row is filed under the chapter its highlight was made in: when persist and
\* saveNote read the number of the current page, it is the number of that chapter,
\* whatever else was tapped, unless the chapter was changed in between.
THEOREM RowsInTheirChapter == HighlightSpec => []RowInItsChapter
<1>1. HighlightInv => RowInItsChapter
  BY DEF HighlightInv
<1> QED
  BY <1>1, HighlightInvariant, PTL

\* With nothing under way, what is promised to a mark has been done.
LEMMA AtRestNothing ==
  ASSUME HighlightInv, AtRest
  PROVE  /\ view # NoPage /\ \A d, h, n : ~Pending(d, h, n)
         /\ \A h \in Ids : ~UnderWay(h) /\ \A i \in DOMAIN jobs : ~Clears(i, h)
<1>1. view # NoPage /\ sheet = NoSheet /\ DOMAIN jobs = {}
  BY NoneUnderWay DEF AtRest
<1> QED
  BY <1>1, HighlightAssumption DEF Pending, UnderWay, Noted, NoSheet

\* Scripts, callbacks, notes that were given up, and chapters that are loaded leave
\* every row of the chapter on screen its mark, in the style the row names, unless
\* its text was not found when the chapter was loaded.
THEOREM StoredAreMarked == HighlightSpec => []StoredIsMarked
<1>1. ASSUME HighlightInv PROVE StoredIsMarked
  <2> SUFFICES ASSUME AtRest, NEW h \in Ids \ (crossed \union doc[view].lost), store[h].page = view
               PROVE  /\ doc[view].marks[h] # "none"
                      /\ store[h].type \in Styles => doc[view].marks[h] = store[h].type
    BY DEF StoredIsMarked
  <2>1. view # NoPage /\ ~Pending("remove", h, 0) /\ ~Pending("restyle", h, 0)
    BY <1>1, AtRestNothing
  <2>2. Stored(h)
    BY <2>1 DEF Stored, NoRow
  <2>3. home[h] = view
    BY <1>1, <2>2 DEF HighlightInv, RowInItsChapter
  <2>4. StoredMark(h)
    BY <1>1, <2>1, <2>3 DEF HighlightInv, MarksOK, MarkOK
  <2> QED
    BY <2>1, <2>2, <2>4 DEF StoredMark
<1> QED
  BY <1>1, HighlightInvariant, PTL

\* And every mark on screen its row: a highlight that was removed, from the chapter
\* or from the list, or whose note was given up, is gone from the chapter as well,
\* unless its mark was already in the file when the chapter was loaded, without a
\* row, or then got a second one.
THEOREM MarkedAreStored == HighlightSpec => []MarkedIsStored
<1>1. ASSUME HighlightInv PROVE MarkedIsStored
  <2> SUFFICES ASSUME AtRest, NEW h \in Ids \ crossed, doc[view].marks[h] # "none"
               PROVE  Stored(h) \/ h \in doc[view].ghosts \union doc[view].many
    BY DEF MarkedIsStored
  <2>1. view # NoPage /\ view \in Pages /\ ~UnderWay(h) /\ \A i \in DOMAIN jobs : ~Clears(i, h)
    BY <1>1, AtRestNothing DEF HighlightInv, JobsInv, HighlightTypeOK
  <2>2. home[h] = view
    BY <1>1, <2>1 DEF HighlightInv, MakingInv, AtHome
  <2>3. ClearedMark(h)
    BY <1>1, <2>1, <2>2 DEF HighlightInv, MarksOK, MarkOK
  <2> QED
    BY <2>1, <2>3 DEF ClearedMark
<1> QED
  BY <1>1, HighlightInvariant, PTL
=============================================================================
