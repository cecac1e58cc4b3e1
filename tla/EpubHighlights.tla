---------------------------- MODULE EpubHighlights ----------------------------
(***************************************************************************)
(* Highlights in the reader of the iOS application (EpubViewerKit): marks  *)
(* in the document of a chapter, made and changed by scripts the web view  *)
(* runs, rows of the Realm database, written by the callbacks of those     *)
(* scripts, and the file of the chapter, which every loading overwrites    *)
(* with the marks it shows.                                                *)
(*                                                                         *)
(* One book, whose chapters are .html files: the marks of an .xhtml chapter *)
(* are never inserted (the conversion to RTFD fails).  Highlights of one   *)
(* chapter are further apart than the text kept around them, and the text  *)
(* of a highlight is not that of another one.                              *)
(***************************************************************************)
EXTENDS Integers, Sequences, FiniteSets

CONSTANTS Ids,     \* highlights, each made at most once (guid())
          NoId,
          Pages,   \* chapters, known by their numbers
          NoPage,
          MaxJobs, \* Bound: scripts and callbacks under way; one less when a
                   \* highlight is excepted
          MaxExcepted \* Bound: highlights the properties except

ASSUME HighlightAssumption ==
  /\ NoId \notin Ids /\ NoPage \notin Pages
  /\ MaxJobs \in Nat \ {0} /\ MaxExcepted \in Nat

Styles == {"yellow", "green"}

VARIABLES
  store,   \* the Realm database
  file,    \* the marks in the file of each chapter
  doc,     \* the document of each chapter that is in a web view
  live,    \* the chapters that are
  view,    \* the chapter on screen, NoPage: no reader is open
  currentPageNumber,
  due,     \* the number does not follow the screen yet
  jobs,    \* scripts and their callbacks, in the order they were sent
  sheet,   \* the note sheet
  list,    \* the highlight list: whether it is up, and its rows
  \* History, read by the properties only:
  home,    \* the chapter each highlight was made in, NoPage: it was not
  crossed  \* highlights dealt with while the chapter was changed, or whose
           \* note was overtaken by another tap

screenVars == <<view, currentPageNumber, due>>
modalVars == <<sheet, list>>
vars == <<store, file, doc, live, screenVars, jobs, modalVars, home, crossed>>

\* updateById stores type.hashValue, which is not the number of any style.
NoRow == [page |-> NoPage, type |-> "none"]
Row   == [page : Pages, type : Styles \union {"hash"}]
Marks == [Ids -> Styles \union {"none"}]
NoMarks == [h \in Ids |-> "none"]
Doc == [marks : Marks, this : Ids \union {NoId},
        ghosts : SUBSET Ids,  \* in the file when it was loaded, without a row
        lost : SUBSET Ids,    \* not found when it was loaded
        many : SUBSET Ids]    \* marked more than once
NoDoc == [marks |-> NoMarks, this |-> NoId, ghosts |-> {}, lost |-> {}, many |-> {}]
NoSheet == [id |-> NoId, page |-> NoPage, type |-> "none", edit |-> FALSE]
NoList == [up |-> FALSE, rows |-> {}]

Scripts == {"highlight", "note", "keep", "ask", "remove", "restyle", "edit", "unmark", "unlist"}
Job(d, p, h, s) == [do |-> d, page |-> p, id |-> h, style |-> s, ran |-> FALSE]

HighlightTypeOK ==
  /\ store \in [Ids -> Row \union {NoRow}] /\ file \in [Pages -> Marks]
  /\ doc \in [Pages -> Doc]
  /\ live \subseteq Pages /\ view \in Pages \union {NoPage} /\ due \in BOOLEAN
  /\ currentPageNumber \in Pages \union {NoPage}
  /\ Len(jobs) <= MaxJobs
  /\ \A i \in DOMAIN jobs : jobs[i] \in
       [do : Scripts, page : Pages, id : Ids \union {NoId}, style : Styles \union {"none"}, ran : BOOLEAN]
  /\ sheet \in [id : Ids, page : Pages, type : Styles \union {"hash"}, edit : BOOLEAN] \union {NoSheet}
  /\ list \in [up : BOOLEAN, rows : SUBSET Ids]
  /\ home \in [Ids -> Pages \union {NoPage}] /\ crossed \subseteq Ids

HighlightInit ==
  /\ store = [h \in Ids |-> NoRow] /\ file = [p \in Pages |-> NoMarks]
  /\ doc = [p \in Pages |-> NoDoc] /\ live = {} /\ view = NoPage
  /\ currentPageNumber = NoPage /\ due = FALSE /\ jobs = <<>>
  /\ sheet = NoSheet /\ list = NoList
  /\ home = [h \in Ids |-> NoPage] /\ crossed = {}

\* HighlightStyle.classForStyle: an unknown number is the default style.
classForStyle(t) == IF t \in Styles THEN t ELSE "yellow"

Stored(h) == store[h] # NoRow

\* The user can reach the chapter.
Reading == view # NoPage /\ sheet = NoSheet /\ ~list.up

\* Highlights that scripts under way deal with.
Dealt == {IF jobs[i].id = NoId THEN doc[jobs[i].page].this ELSE jobs[i].id : i \in DOMAIN jobs} \ {NoId}

\* Those a tap on highlight h mixes up: a note that is being asked for or given
\* up works on thisHighlight.
MixedUp(h) == IF \E i \in DOMAIN jobs : jobs[i].do \in {"note", "ask", "unmark"}
              THEN {h} \union Dealt ELSE {}

-----------------------------------------------------------------------------
(* Chapters. *)

\* Rows that are asked for when the chapter is loaded, and are of its text.
Rows(p) == {h \in Ids : store[h].page = p /\ home[h] = p}

Marked(p) == {h \in Ids : file[p][h] # "none"}

\* Mutant of withHighlights: the stored highlights are not asked for.
asInFile(p, lost, again) == file[p]

\* htmlContentWithInsertHighlights: a stored highlight of the chapter is put in
\* where its text is found as it was.  It is lost if the source of the file is
\* not written as getHTML() had it.  If it is marked there already, the mark is
\* in the way of its text, unless the text is all there is of an element, or is
\* in the chapter twice: then it is found again, and marked again.
withHighlights(p, lost, again) ==
  [h \in Ids |-> IF h \in Rows(p) \ lost /\ (h \in Marked(p) => h \in again)
                 THEN classForStyle(store[h].type) ELSE file[p][h]]

\* The scripts and callbacks that outlive the documents of the chapters gone:
\* a script that has not run finds nothing of its own in a new document.
Outlive(gone) ==
  {i \in DOMAIN jobs : jobs[i].page \in gone => jobs[i].ran /\ jobs[i].do \notin {"highlight", "note"}}

\* A chapter is loaded, into a cell that showed neither it nor the chapter on
\* screen; jobs keep their order.
Load(p, lost, again) ==
  LET m == withHighlights(p, lost, again)
      gone == Pages \ (IF view = p THEN {} ELSE {view})
      kept == Outlive(gone)
  IN
  /\ lost \subseteq Rows(p) \ Marked(p) /\ again \subseteq Marked(p)
  /\ file' = [file EXCEPT ![p] = m]
  /\ live' = {p} \union (live \ gone)
  /\ doc' = [q \in Pages |->
               IF q = p THEN [marks |-> m, this |-> NoId, lost |-> lost, many |-> again,
                              ghosts |-> {h \in Marked(p) : ~Stored(h)}]
               ELSE IF q \in gone THEN NoDoc ELSE doc[q]]
  /\ \E pick \in [1..Cardinality(kept) -> kept] :
       /\ \A i, k \in DOMAIN pick : i < k => pick[i] < pick[k]
       /\ jobs' = [i \in DOMAIN pick |-> jobs[pick[i]]]

\* presentReader: the first chapter to load becomes the current page.
OpenReader(p) ==
  /\ view = NoPage /\ view' = p /\ currentPageNumber' = p
  /\ (\E lost, again \in SUBSET Ids : Load(p, lost, again))
  /\ UNCHANGED <<store, due, modalVars, home, crossed>>

\* Mutant of Show: updateCurrentPage is not called.
ShowUnnoticed(p) ==
  /\ view' = p /\ (\E lost, again \in SUBSET Ids : Load(p, lost, again))
  /\ crossed' = crossed \union Dealt
  /\ UNCHANGED due

\* A chapter comes to the screen; updateCurrentPage is called later.
Show(p) ==
  /\ view' = p /\ due' = TRUE /\ (\E lost, again \in SUBSET Ids : Load(p, lost, again))
  /\ crossed' = crossed \union Dealt

Turn(p) == Reading /\ p # view /\ Show(p) /\ UNCHANGED <<store, currentPageNumber, modalVars, home>>

updateCurrentPage ==
  /\ due /\ due' = FALSE /\ currentPageNumber' = view
  /\ crossed' = crossed \union Dealt
  /\ UNCHANGED <<store, file, doc, live, view, jobs, modalVars, home>>

-----------------------------------------------------------------------------
(* Taps: each sends a script to the web view on screen. *)

Send(d, p, h, s) == Len(jobs) < MaxJobs /\ jobs' = Append(jobs, Job(d, p, h, s))

\* Highlight, or highlight with a note, in the current style.
Make(d, h, s) ==
  /\ Reading /\ home[h] = NoPage /\ Send(d, view, h, s)
  /\ home' = [home EXCEPT ![h] = view]
  /\ crossed' = crossed \union (IF due THEN {h} ELSE {})
                        \union MixedUp(h)
  /\ UNCHANGED <<store, file, doc, live, screenVars, modalVars>>

highlight(h, s) == Make("highlight", h, s)
highlightWithNote(h, s) == Make("note", h, s)

\* callHighlightURL: a tapped mark becomes thisHighlight, and its menu opens.
TapMark(h) ==
  /\ Reading /\ doc[view].marks[h] # "none"
  /\ doc' = [doc EXCEPT ![view].this = h]
  /\ crossed' = crossed \union MixedUp(h)
  /\ UNCHANGED <<store, file, live, screenVars, jobs, modalVars, home>>

\* The menu of a mark: remove, setYellow..., updateHighlightNote.
TapMenu(d, s) ==
  /\ Reading /\ doc[view].this # NoId /\ Send(d, view, NoId, s)
  /\ crossed' = crossed \union MixedUp(doc[view].this)
  /\ UNCHANGED <<store, file, doc, live, screenVars, modalVars, home>>

-----------------------------------------------------------------------------
(* Scripts and callbacks: one web view runs its scripts in order, and has *)
(* their callbacks called in order.                                       *)

Without(i) == [j \in 1..Len(jobs) - 1 |-> IF j < i THEN jobs[j] ELSE jobs[j + 1]]

\* The script of job i has run, has found the highlight h and the style s for its
\* callback, and has left the document with the marks m and thisHighlight t.
Ran(i, h, s, m, t) ==
  /\ doc' = [doc EXCEPT ![jobs[i].page].marks = m, ![jobs[i].page].this = t]
  /\ jobs' = [jobs EXCEPT ![i].ran = TRUE, ![i].id = h, ![i].style = s]

\* It has run, or has thrown, and there is no callback for it.
Ended(i, m) ==
  /\ doc' = [doc EXCEPT ![jobs[i].page].marks = m]
  /\ jobs' = Without(i)

\* What the marks of document d may be when s has been done to the mark of h, to
\* one of them if there are several.
Put(d, h, s) ==
  IF d.marks[h] = "none" THEN {d.marks}
  ELSE {[d.marks EXCEPT ![h] = t] : t \in {s} \union (IF h \in d.many THEN Styles ELSE {})}

RunScript(i) ==
  LET j == jobs[i]
      d == doc[j.page]
  IN /\ ~j.ran /\ \A k \in 1..i - 1 : jobs[k].page = j.page => jobs[k].ran
     /\ \/ j.do \in {"highlight", "note"}
           /\ Ran(i, j.id, "none", [d.marks EXCEPT ![j.id] = j.style], j.id)
        \/ j.do \in {"keep", "ask"}  \* getHTML(), and matchHighlight on it
           /\ IF d.marks[j.id] = "none" THEN Ended(i, d.marks)
              ELSE Ran(i, j.id, d.marks[j.id], d.marks, d.this)
        \/ j.do \in {"remove", "restyle", "edit", "unmark"}
           /\ IF d.this = NoId THEN Ended(i, d.marks)
              ELSE \/ /\ j.do \in {"remove", "restyle"}
                      /\ \E m \in Put(d, d.this, j.style) : Ran(i, d.this, "none", m, d.this)
                   \/ j.do = "edit" /\ Ran(i, d.this, "none", d.marks, d.this)
                   \/ j.do = "unmark" /\ \E m \in Put(d, d.this, "none") : Ended(i, m)
        \/ j.do = "unlist" /\ \E m \in Put(d, j.id, "none") : Ended(i, m)
     /\ UNCHANGED <<store, file, live, screenVars, modalVars, home, crossed>>

NextCallback(i) == jobs[i].ran /\ \A k \in 1..i - 1 : jobs[k].page = jobs[i].page => ~jobs[k].ran

\* The first callback of a highlight asks for the HTML.
AskHTML(i) ==
  /\ NextCallback(i) /\ jobs[i].do \in {"highlight", "note"}
  /\ jobs' = Append(Without(i), Job(IF jobs[i].do = "note" THEN "ask" ELSE "keep",
                                    jobs[i].page, jobs[i].id, "none"))
  /\ UNCHANGED <<store, file, doc, live, screenVars, modalVars, home, crossed>>

\* persist, with the number the current page has now.
Persist(i) ==
  /\ NextCallback(i) /\ jobs[i].do = "keep"
  /\ store' = [store EXCEPT ![jobs[i].id] = [page |-> currentPageNumber, type |-> jobs[i].style]]
  /\ jobs' = Without(i)
  /\ UNCHANGED <<file, doc, live, screenVars, modalVars, home, crossed>>

\* presentAddHighlightNote; nothing is presented over another sheet.
AskNote(i) ==
  /\ NextCallback(i) /\ jobs[i].do = "ask"
  /\ IF Reading
     THEN /\ sheet' = [id |-> jobs[i].id, page |-> currentPageNumber,
                       type |-> jobs[i].style, edit |-> FALSE]
          /\ UNCHANGED crossed
     ELSE crossed' = crossed \union {jobs[i].id} /\ UNCHANGED sheet
  /\ jobs' = Without(i)
  /\ UNCHANGED <<store, file, doc, live, screenVars, list, home>>

EditNote(i) ==
  /\ NextCallback(i) /\ jobs[i].do = "edit"
  /\ LET h == jobs[i].id IN
     sheet' = IF Reading /\ Stored(h)
              THEN [id |-> h, page |-> store[h].page, type |-> store[h].type, edit |-> TRUE]
              ELSE sheet
  /\ jobs' = Without(i)
  /\ UNCHANGED <<store, file, doc, live, screenVars, list, home, crossed>>

removeById(i) ==
  /\ NextCallback(i) /\ jobs[i].do = "remove"
  /\ store' = [store EXCEPT ![jobs[i].id] = NoRow]
  /\ jobs' = Without(i)
  /\ UNCHANGED <<file, doc, live, screenVars, modalVars, home, crossed>>

updateById(i) ==
  /\ NextCallback(i) /\ jobs[i].do = "restyle"
  /\ store' = IF Stored(jobs[i].id) THEN [store EXCEPT ![jobs[i].id].type = "hash"] ELSE store
  /\ jobs' = Without(i)
  /\ UNCHANGED <<file, doc, live, screenVars, modalVars, home, crossed>>

-----------------------------------------------------------------------------
(* The note sheet. *)

\* saveNote, with a text.  Writing to a row that is gone ends the process.
SaveNote ==
  /\ sheet # NoSheet /\ sheet' = NoSheet
  /\ sheet.edit => Stored(sheet.id)
  /\ store' = IF sheet.edit THEN store
              ELSE [store EXCEPT ![sheet.id] = [page |-> sheet.page, type |-> sheet.type]]
  /\ UNCHANGED <<file, doc, live, screenVars, jobs, list, home, crossed>>

\* Mutant of CancelNote: the mark stays.
CancelNoteQuiet ==
  /\ sheet # NoSheet /\ sheet' = NoSheet
  /\ UNCHANGED <<store, file, doc, live, screenVars, jobs, list, home, crossed>>

\* The sheet is closed without a text: viewWillDisappear takes the mark away.
CancelNote ==
  /\ sheet # NoSheet /\ sheet' = NoSheet
  /\ IF sheet.edit \/ currentPageNumber \notin live THEN UNCHANGED jobs
     ELSE Send("unmark", currentPageNumber, NoId, "none")
  /\ UNCHANGED <<store, file, doc, live, screenVars, list, home, crossed>>

-----------------------------------------------------------------------------
(* The highlight list. *)

OpenList ==
  /\ Reading /\ list' = [up |-> TRUE, rows |-> {h \in Ids : Stored(h)}]
  /\ UNCHANGED <<store, file, doc, live, screenVars, jobs, sheet, home, crossed>>

CloseList ==
  /\ list.up /\ list' = NoList
  /\ UNCHANGED <<store, file, doc, live, screenVars, jobs, sheet, home, crossed>>

\* changePageWith(page:andFragment:).  A row whose highlight a late callback has
\* removed is an invalidated object, and ends the process.
SelectRow(h) ==
  /\ list.up /\ h \in list.rows /\ Stored(h) /\ list' = NoList
  /\ IF store[h].page = currentPageNumber THEN UNCHANGED <<file, doc, live, view, due, jobs, crossed>>
     ELSE Show(store[h].page)
  /\ UNCHANGED <<store, currentPageNumber, sheet, home>>

\* tableView(_:commit:forRowAt:)
DeleteRow(h) ==
  /\ list.up /\ h \in list.rows /\ Stored(h)
  /\ list' = [list EXCEPT !.rows = @ \ {h}]
  /\ IF store[h].page = currentPageNumber THEN Send("unlist", currentPageNumber, h, "none")
     ELSE UNCHANGED jobs
  /\ store' = [store EXCEPT ![h] = NoRow]
  /\ crossed' = IF due THEN crossed \union {h} ELSE crossed
  /\ UNCHANGED <<file, doc, live, screenVars, sheet, home>>

-----------------------------------------------------------------------------

\* The reader is closed, or the process is stopped; database and files stay.
CloseReader ==
  /\ view # NoPage /\ view' = NoPage /\ currentPageNumber' = NoPage /\ due' = FALSE
  /\ doc' = [p \in Pages |-> NoDoc] /\ live' = {} /\ jobs' = <<>>
  /\ sheet' = NoSheet /\ list' = NoList
  /\ UNCHANGED <<store, file, home, crossed>>

\* The system empties Library/Caches; the book is unzipped again.
PurgeCaches ==
  /\ view = NoPage /\ file' = [p \in Pages |-> NoMarks] /\ file' # file
  /\ UNCHANGED <<store, doc, live, screenVars, jobs, modalVars, home, crossed>>

\* The properties say nothing, or less, of these.
Excepted == crossed \union UNION {doc[p].lost \union doc[p].many : p \in Pages}

HighlightNext ==
  /\ \/ \E p \in Pages : OpenReader(p) \/ Turn(p)
     \/ updateCurrentPage \/ CloseReader \/ PurgeCaches
     \/ \E h \in Ids, s \in Styles : highlight(h, s) \/ highlightWithNote(h, s)
     \/ \E h \in Ids : TapMark(h) \/ SelectRow(h) \/ DeleteRow(h)
     \/ \E s \in Styles : TapMenu("restyle", s)
     \/ TapMenu("remove", "none") \/ TapMenu("edit", "none")
     \/ \E i \in DOMAIN jobs :
          RunScript(i) \/ AskHTML(i) \/ Persist(i) \/ AskNote(i) \/ EditNote(i)
            \/ removeById(i) \/ updateById(i)
     \/ SaveNote \/ CancelNote \/ OpenList \/ CloseList
  /\ Cardinality(Excepted') <= MaxExcepted
  /\ Excepted' # {} => Len(jobs') < MaxJobs

HighlightSpec == HighlightInit /\ [][HighlightNext]_vars

-----------------------------------------------------------------------------

\* Nothing is on its way to or from the chapter on screen.
AtRest == view # NoPage /\ jobs = <<>> /\ sheet = NoSheet

\* A highlight is filed under the chapter it was made in, whatever was tapped
\* while its scripts ran, unless the chapter was changed: the number is read in
\* the last callback (FolioReaderWebView.swift 199, 233).
RowInItsChapter == \A h \in Ids \ crossed : Stored(h) => store[h].page = home[h]

\* A highlight of the chapter on screen is marked, in the style it was made in
\* unless the style was changed since: no script, no note that was given up and
\* no loading of the chapter loses it, but one that does not find its text
\* (FolioReaderPage.swift 203).
StoredIsMarked ==
  AtRest => \A h \in Ids \ (crossed \union doc[view].lost) :
    store[h].page = view =>
      /\ doc[view].marks[h] # "none"
      /\ store[h].type \in Styles => doc[view].marks[h] = store[h].type

\* A mark on screen is a highlight of the database: one that was removed, or
\* whose note was given up, is gone from the chapter too.  It comes back when the
\* chapter is loaded again, since the file of the chapter was written with it
\* (FolioReaderPage.swift 165); and of one marked twice a mark may stay (198).
MarkedIsStored ==
  AtRest => \A h \in Ids \ crossed :
    doc[view].marks[h] # "none" => Stored(h) \/ h \in doc[view].ghosts \union doc[view].many
=============================================================================
