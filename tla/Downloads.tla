------------------------------ MODULE Downloads ------------------------------
(***************************************************************************)
(* Downloading a book and deleting it again: the button of the detail page *)
(* (DownloadDetails.downloaded, one flag for the whole application), the   *)
(* steps from the tap to the file (downloadFile, startDownload and their   *)
(* Pdf twins), the modal DownloadPopUp that transfers it, the record kept  *)
(* in the EbookDownload store, and the downloads page that deletes records *)
(* and files.                                                              *)
(*                                                                         *)
(* A file is named by the title of its book, so books of one title share   *)
(* theirs.  A title is written as one of the books that have it.           *)
(***************************************************************************)
EXTENDS StoreClient

CONSTANTS Tasks,    \* taps on "download", each made at most once
          NoTask,   \* not a task
          MaxPages  \* Bound: routes on the navigator below the dialogs

VARIABLES
  routes,      \* the navigator: detail pages, the downloads page, dialogs
  stage,       \* how far each tap on "download" has come
  book,        \* the book it is for
  pageOf,      \* the place of the tapped page on the navigator, 0: it is gone
  title,       \* the title of each book; nothing changes it
  fs,          \* the files of the titles on shared storage
  sole,        \* tasks that alone have written since their file was emptied
  downloaded,  \* DownloadDetails.downloaded
  probing,     \* checks of a record that await File.exists()
  rows,        \* the downloads page's list
  deleting,    \* removals that have returned and await File.exists()
  gone,        \* calls made by a downloads page that has been closed since
  \* History, read by the properties only:
  checked,     \* the check() that wrote downloaded last, as a set
  together,    \* tasks whose dialogs were up at the same time
  received,    \* tasks whose transfer was complete
  crossed      \* a row of the page was swept while another removal went on

pageVars == <<routes, rows, deleting, gone, crossed>>
taskVars == <<title, stage, book, pageOf, fs, sole, together, received>>
flagVars == <<downloaded, probing, checked>>
allVars == <<vars, callerVars, pageVars, taskVars, flagVars>>

DownloadMethods == {"EbookDownload.addDownload", "EbookDownload.remove",
                    "EbookDownload.listAll", "EbookDownload.check"}

\* What follows a call, with what the code has captured: the task whose record
\* is inserted, the row whose record is removed (0: none).
DownloadThens ==
  [do : {"checkDownload"}, task : Tasks, row : {0}]
    \union [do : {"probe", "showList"}, task : {NoTask}, row : {0}]
    \union [do : {"deleteFile"}, task : {NoTask}, row : 1..Cardinality(Calls)]

ASSUME DownloadAssumption ==
  /\ Methods = DownloadMethods /\ Thens = DownloadThens
  /\ NoTask \notin Tasks /\ MaxPages \in Nat \ {0} /\ IsFiniteSet(Calls)

Detail(k) == [page |-> "detail", of |-> k]
Dialog(t) == [page |-> "dialog", of |-> t]
ListPage  == [page |-> "downloads", of |-> "all"]

Top == routes[Len(routes)]
Below == SubSeq(routes, 1, Len(routes) - 1)
Shown(r) == \E i \in DOMAIN routes : routes[i] = r

\* Stages of a task whose code is still running.
Running == {"asking", "locating", "missing", "found", "waiting", "receiving", "received"}
Stages  == Running \union {"unused", "recorded", "failed", "unsized", "broken"}

DownloadTypeOK ==
  /\ TypeOK /\ CallerTypeOK
  /\ routes \in Seq({Detail(k) : k \in Keys} \union {Dialog(t) : t \in Tasks} \union {ListPage})
  /\ stage \in [Tasks -> Stages] /\ book \in [Tasks -> Keys] /\ pageOf \in [Tasks -> Nat]
  /\ title \in [Keys -> Keys] /\ fs \in [Keys -> {"absent", "empty", "partial", "whole"}]
  /\ downloaded \in BOOLEAN /\ probing \in SUBSET Calls
  /\ rows \in Seq(Document) /\ Len(rows) <= Cardinality(Calls) /\ deleting \in SUBSET Calls
  /\ gone \in SUBSET Calls
  /\ checked \in SUBSET Calls
  /\ together \in SUBSET Tasks /\ received \in SUBSET Tasks
  /\ sole \in SUBSET Tasks /\ crossed \in BOOLEAN

\* The title whose file a tap on "download" writes.
TitleOf(t) == title[book[t]]

After(d, t, r) == [do |-> d, task |-> t, row |-> r]

DownInit ==
  /\ Init /\ todo = <<>> /\ then = [c \in Calls |-> After("probe", NoTask, 0)]
  /\ routes = <<>> /\ rows = <<>> /\ deleting = {} /\ gone = {}
  /\ stage = [t \in Tasks |-> "unused"]
  /\ book = [t \in Tasks |-> CHOOSE k \in Keys : TRUE]
  /\ pageOf = [t \in Tasks |-> 0]
  /\ title \in [Keys -> Keys] /\ fs = [k \in Keys |-> "absent"]
  /\ downloaded = FALSE /\ probing = {} /\ checked = {}
  /\ sole = {} /\ together = {} /\ received = {} /\ crossed = FALSE

\* A stretch of code starts; it needs n calls, counting its continuation's.
Starts(n) == Idle /\ Left(n, {t \in Thens : t.do = "checkDownload"})

checkDownload(k) == Request("EbookDownload.check", k, After("probe", NoTask, 0))

-----------------------------------------------------------------------------
(* Navigation. *)

\* pushPage(EbookDetail): after its first frame the page asks for its own flag.
OpenDetail(k) ==
  /\ Starts(1) /\ Len(routes) < MaxPages
  /\ routes # <<>> => Top.page = "detail"
  /\ routes' = Append(routes, Detail(k))
  /\ todo' = <<checkDownload(k)>>
  /\ UNCHANGED <<vars, then, rows, deleting, gone, crossed, taskVars, flagVars>>

\* The drawer opens the downloads page, which loads its list.
OpenList ==
  /\ Starts(1) /\ routes = <<>>
  /\ routes' = <<ListPage>> /\ rows' = <<>>
  /\ crossed' = (deleting # {} \/ \E c \in Calls : pc[c] \in Active /\ then[c].do = "deleteFile")
  /\ todo' = <<Request("EbookDownload.listAll", CHOOSE k \in Keys : TRUE,
                     After("showList", NoTask, 0))>>
  /\ UNCHANGED <<vars, then, deleting, gone, taskVars, flagVars>>

\* Back closes the top page; a DownloadPopUp refuses it.
Back ==
  /\ Idle /\ routes # <<>> /\ Top.page # "dialog"
  /\ routes' = Below
  /\ IF Top.page = "downloads"
     THEN rows' = <<>> /\ gone' = {c \in Calls : pc[c] # "idle" /\ then[c].do \in {"showList", "deleteFile"}}
     ELSE UNCHANGED <<rows, gone>>
  /\ pageOf' = [t \in Tasks |-> IF pageOf[t] = Len(routes) THEN 0 ELSE pageOf[t]]
  /\ UNCHANGED <<vars, callerVars, deleting, crossed, title, stage, book, fs, sole, together, received, flagVars>>

-----------------------------------------------------------------------------
(* From the tap to the dialog. *)

\* The button reads "download": downloadFile awaits the permission.  Nothing
\* disables the button meanwhile.
TapDownload(t) ==
  /\ Idle /\ stage[t] = "unused"
  /\ routes # <<>> /\ Top.page = "detail" /\ ~downloaded
  /\ stage' = [stage EXCEPT ![t] = "asking"]
  /\ book' = [book EXCEPT ![t] = Top.of]
  /\ pageOf' = [pageOf EXCEPT ![t] = Len(routes)]
  /\ UNCHANGED <<vars, callerVars, pageVars, flagVars, title, fs, sole, together, received>>

\* startDownload runs whatever the user answered; without the permission
\* createSync() throws.
Locate(t) ==
  /\ Idle /\ stage[t] = "asking"
  /\ \E s \in {"locating", "broken"} : stage' = [stage EXCEPT ![t] = s]
  /\ UNCHANGED <<vars, callerVars, pageVars, flagVars, title, book, pageOf, fs, sole, together, received>>

\* await file.exists()
LookForFile(t) ==
  /\ Idle /\ stage[t] = "locating"
  /\ stage' = [stage EXCEPT ![t] = IF fs[TitleOf(t)] = "absent" THEN "missing" ELSE "found"]
  /\ UNCHANGED <<vars, callerVars, pageVars, flagVars, title, book, pageOf, fs, sole, together, received>>

\* A file goes; a transfer that has it open writes on where nobody sees it.
Unlink(f) ==
  /\ fs' = [fs EXCEPT ![f] = "absent"]
  /\ sole' = {u \in sole : TitleOf(u) # f}

\* await file.delete(), which throws when another task has deleted the file.
DeleteOld(t) ==
  /\ Idle /\ stage[t] = "found"
  /\ stage' = [stage EXCEPT ![t] = IF fs[TitleOf(t)] = "absent" THEN "broken" ELSE "missing"]
  /\ Unlink(TitleOf(t))
  /\ UNCHANGED <<vars, callerVars, pageVars, flagVars, title, book, pageOf, together, received>>

\* The dialogs that are up.
DialogsUp == {u \in Tasks : Shown(Dialog(u))}

\* await file.create(), which leaves an existing file alone; then showDialog,
\* which needs the context of the page that was tapped to be alive.
CreateFile(t) ==
  /\ Idle /\ stage[t] = "missing"
  /\ fs' = [fs EXCEPT ![TitleOf(t)] = IF @ = "absent" THEN "empty" ELSE @]
  /\ IF pageOf[t] # 0
     THEN /\ stage' = [stage EXCEPT ![t] = "waiting"]
          /\ routes' = Append(routes, Dialog(t))
          /\ together' = IF DialogsUp = {} THEN together ELSE together \union DialogsUp \union {t}
     ELSE /\ stage' = [stage EXCEPT ![t] = "broken"]
          /\ UNCHANGED <<routes, together>>
  /\ UNCHANGED <<vars, callerVars, rows, deleting, gone, crossed, flagVars, title, book, pageOf, sole, received>>

-----------------------------------------------------------------------------
(* The transfer. *)

\* dio.download has its answer and opens the file, which empties it.
Receive(t) ==
  /\ Idle /\ stage[t] = "waiting"
  /\ stage' = [stage EXCEPT ![t] = "receiving"]
  /\ fs' = [fs EXCEPT ![TitleOf(t)] = "partial"]
  /\ sole' = {u \in sole : TitleOf(u) # TitleOf(t)} \union {t}
  /\ UNCHANGED <<vars, callerVars, pageVars, flagVars, title, book, pageOf, together, received>>

\* All bytes are written.  What others did to the file meanwhile decides what
\* it holds: a deleted one stays deleted, two writers may leave gaps.
WrittenOut(t) ==
  \E f \in IF t \in sole THEN {"whole"} ELSE {"whole", "partial", fs[TitleOf(t)]} :
    /\ fs[TitleOf(t)] \in {"absent", "empty"} => f = fs[TitleOf(t)]
    /\ fs' = [fs EXCEPT ![TitleOf(t)] = f]

\* Mutant of Complete: the record is made, the dialog is not closed.
CompleteUnclosed(t) ==
  /\ Starts(2) /\ stage[t] = "receiving" /\ Shown(Dialog(t))
  /\ WrittenOut(t)
  /\ received' = received \union {t}
  /\ todo' = <<Request("EbookDownload.addDownload", book[t], After("checkDownload", t, 0))>>
  /\ stage' = [stage EXCEPT ![t] = "received"]
  /\ UNCHANGED <<vars, then, pageVars, flagVars, title, book, pageOf, sole, together>>

\* The last chunk: Navigator.pop(context, size) closes the TOP route with the
\* size, and the .then of that dialog's showDialog records its book.
Complete(t) ==
  /\ Starts(2) /\ stage[t] = "receiving" /\ Shown(Dialog(t))
  /\ WrittenOut(t)
  /\ received' = received \union {t}
  /\ LET u == Top.of IN
     /\ routes' = Below
     /\ todo' = <<Request("EbookDownload.addDownload", book[u],
                          After("checkDownload", u, 0))>>
     /\ stage' = [stage EXCEPT ![t] = IF u = t THEN "received" ELSE "broken"]
  /\ UNCHANGED <<vars, then, rows, deleting, gone, crossed, flagVars, title, book, pageOf, sole, together>>

\* The dialog of the task was closed by another task: the next chunk calls
\* setState on a disposed state, which throws, and the transfer stalls.
TransferOrphaned(t) ==
  /\ Idle /\ stage[t] = "receiving" /\ ~Shown(Dialog(t))
  /\ WrittenOut(t) \/ UNCHANGED fs
  /\ stage' = [stage EXCEPT ![t] = "broken"]
  /\ UNCHANGED <<vars, callerVars, pageVars, flagVars, title, book, pageOf, sole, together, received>>

\* Mutant of TransferFails: the failure closes the dialog, and the .then records
\* the book whatever the dialog was closed with.
FailureRecorded(t) ==
  /\ Starts(2) /\ stage[t] = "receiving" /\ Top = Dialog(t)
  /\ Unlink(TitleOf(t))
  /\ routes' = Below
  /\ todo' = <<Request("EbookDownload.addDownload", book[t], After("checkDownload", t, 0))>>
  /\ stage' = [stage EXCEPT ![t] = "received"]
  /\ UNCHANGED <<vars, then, rows, deleting, gone, crossed, flagVars, title, book, pageOf, together, received>>

\* The request fails, or the transfer (deleteOnError then removes the file; a
\* request without an answer may leave it).  Nothing closes the dialog.
TransferFails(t) ==
  /\ Idle /\ stage[t] \in {"waiting", "receiving"}
  /\ Unlink(TitleOf(t)) \/ (stage[t] = "waiting" /\ UNCHANGED <<fs, sole>>)
  /\ stage' = [stage EXCEPT ![t] = "failed"]
  /\ UNCHANGED <<vars, callerVars, pageVars, flagVars, title, book, pageOf, together, received>>

\* The server did not announce a length (totalBytes is -1): the transfer ends
\* and no progress report ever has receiverBytes = totalBytes.
TransferUnsized(t) ==
  /\ Idle /\ stage[t] = "receiving" /\ Shown(Dialog(t))
  /\ WrittenOut(t)
  /\ stage' = [stage EXCEPT ![t] = "unsized"]
  /\ UNCHANGED <<vars, callerVars, pageVars, flagVars, title, book, pageOf, sole, together, received>>

-----------------------------------------------------------------------------
(* The downloads page. *)

\* Mutant of Dismiss: the file goes first, then the record.
DismissFileFirst(i) ==
  /\ Starts(1) /\ routes = <<ListPage>> /\ i \in DOMAIN rows
  /\ Unlink(title[rows[i].key])
  /\ todo' = <<Request("EbookDownload.remove", rows[i].key, After("deleteFile", NoTask, i))>>
  /\ UNCHANGED <<vars, then, pageVars, title, stage, book, pageOf, together, received, flagVars>>

\* A row is swept away: _deleteEbook removes every record of its id.  The row
\* itself stays until all is done, so it can be swept again, and so can others.
Dismiss(i) ==
  /\ Starts(1) /\ routes = <<ListPage>> /\ i \in DOMAIN rows
  /\ todo' = <<Request("EbookDownload.remove", rows[i].key, After("deleteFile", NoTask, i))>>
  /\ crossed' = (crossed \/ deleting # {}
                   \/ \E c \in Calls : pc[c] \in Active /\ then[c].do = "deleteFile")
  /\ UNCHANGED <<vars, then, routes, rows, deleting, gone, taskVars, flagVars>>

\* Mutant of RowsWithout: the next row goes.
RowsWithoutNext(i) == [j \in 1..Len(rows) - 1 |-> IF j <= i THEN rows[j] ELSE rows[j + 1]]

RowsWithout(i) == [j \in 1..Len(rows) - 1 |-> IF j < i THEN rows[j] ELSE rows[j + 1]]

\* await file.exists(), the deletion, and setState: the row that now has the
\* index is taken away; removeAt throws when there is none, setState when the
\* page is gone.
DeleteFile(c) ==
  /\ Idle /\ c \in deleting
  /\ deleting' = deleting \ {c}
  /\ Unlink(title[key[c]])
  /\ rows' = IF c \notin gone /\ then[c].row \in DOMAIN rows
             THEN RowsWithout(then[c].row) ELSE rows
  /\ UNCHANGED <<vars, callerVars, routes, gone, crossed, title, stage, book, pageOf, together, received, flagVars>>

-----------------------------------------------------------------------------
(* What follows a store call. *)

\* The documents of S one after the other.
Listings(S) == {q \in [1..Cardinality(S) -> S] : \A d \in S : \E i \in DOMAIN q : q[i] = d}

\* getEbookDownload: the answer is shown if the page is still there (else
\* setState throws).
ListReturned(c) ==
  /\ then[c].do = "showList"
  /\ IF c \notin gone THEN \E q \in Listings(result[c]) : rows' = rows \o q
     ELSE UNCHANGED rows
  /\ UNCHANGED <<todo, routes, deleting, gone, crossed, taskVars, flagVars>>

\* _deleteEbook: the record is gone, its file is next.
RemoveReturned(c) ==
  /\ then[c].do = "deleteFile"
  /\ deleting' = deleting \union {c}
  /\ UNCHANGED <<todo, routes, rows, gone, crossed, taskVars, flagVars>>

\* Mutant of AddReturned: the flag is not asked for.
AddUnchecked(c) ==
  /\ then[c].do = "checkDownload"
  /\ stage' = [stage EXCEPT ![then[c].task] = IF @ = "received" THEN "recorded" ELSE @]
  /\ UNCHANGED <<todo, pageVars, title, book, pageOf, fs, sole, together, received, flagVars>>

\* addDownload of DownloadDetails: the record is in, its flag is asked for.
AddReturned(c) ==
  /\ then[c].do = "checkDownload"
  /\ todo' = <<checkDownload(key[c])>>
  /\ stage' = [stage EXCEPT ![then[c].task] =
                 IF @ = "received" THEN "recorded" ELSE @]
  /\ UNCHANGED <<pageVars, title, book, pageOf, fs, sole, together, received, flagVars>>

\* checkDownload: no record, no download; else the file is looked for.
CheckReturned(c) ==
  /\ then[c].do = "probe"
  /\ IF result[c] = {}
     THEN downloaded' = FALSE /\ checked' = {c} /\ UNCHANGED probing
     ELSE probing' = probing \union {c} /\ UNCHANGED <<downloaded, checked>>
  /\ UNCHANGED <<todo, pageVars, taskVars>>

\* await File(path).exists()
Probe(c) ==
  /\ Idle /\ c \in probing
  /\ probing' = probing \ {c}
  /\ downloaded' = (fs[title[key[c]]] # "absent") /\ checked' = {c}
  /\ UNCHANGED <<vars, callerVars, pageVars, taskVars>>

Return(c) ==
  /\ Idle /\ Close(c)
  /\ ListReturned(c) \/ RemoveReturned(c) \/ AddReturned(c) \/ CheckReturned(c)
  /\ UNCHANGED then

\* The process is stopped; a new one starts on the home page.  Records and files
\* stay, whatever state they are in.
KillApp ==
  /\ KillCaller
  /\ routes' = <<>> /\ rows' = <<>> /\ deleting' = {} /\ gone' = {}
  /\ stage' = [t \in Tasks |-> IF stage[t] \in Running THEN "broken" ELSE stage[t]]
  /\ pageOf' = [t \in Tasks |-> 0]
  /\ downloaded' = FALSE /\ probing' = {} /\ checked' = {}
  /\ crossed' = FALSE /\ sole' = {}
  /\ UNCHANGED <<title, book, fs, together, received>>

-----------------------------------------------------------------------------

\* What the event loop runs by itself.
Proceed ==
  \/ MakeCall /\ UNCHANGED <<pageVars, taskVars, flagVars>>
  \/ \E c \in Calls : \/ Session(c) /\ UNCHANGED <<pageVars, taskVars, flagVars>>
                      \/ Return(c) \/ DeleteFile(c) \/ Probe(c)

\* What the user, the network and the operating system do.
Happen ==
  \/ \E k \in Keys : OpenDetail(k)
  \/ OpenList \/ Back
  \/ \E i \in DOMAIN rows : Dismiss(i)
  \/ \E t \in Tasks :
       \/ TapDownload(t) \/ Locate(t) \/ LookForFile(t) \/ DeleteOld(t) \/ CreateFile(t)
       \/ Receive(t) \/ Complete(t) \/ TransferOrphaned(t)
       \/ TransferFails(t) \/ TransferUnsized(t)
  \/ KillApp

DownNext == Proceed \/ Happen

DownSpec == DownInit /\ [][DownNext]_allVars

-----------------------------------------------------------------------------

\* A tap on "download" for the title of book k that has not come to its record.
UnfinishedTap(k) ==
  \E u \in Tasks : stage[u] \notin {"unused", "recorded"} /\ TitleOf(u) = title[k]

\* A book other than k, of the same title, has been removed: its file is k's.
TwinRemoved(k) ==
  \E m \in Calls : /\ method[m] \in Removing /\ pc[m] # "idle"
                   /\ key[m] # k /\ title[key[m]] = title[k]

\* A removal of the book of document a that does not follow its insertion, or
\* that a tidying session may have undone.
UnsettledRemoval(a) ==
  \E m \in Calls : /\ method[m] \in Removing /\ pc[m] # "idle" /\ key[m] = key[a]
                   /\ a \notin before[m] \/ Overwritable(m)

\* The dialog of a tap for the title of book k was up together with another.
DialogsMet(k) == \E u \in together : TitleOf(u) = title[k]

\* Book k was downloaded again after a removal, whose file is deleted any time
\* later: the file can be the new one.
DownloadedAgain(k) ==
  \E m, a \in Calls : /\ method[m] \in Removing /\ key[m] = k /\ m \in before[a]
                      /\ method[a] \in Inserting /\ key[a] = k

\* A record is inserted only for a transfer that has received every byte, save
\* when two dialogs were up together: the first transfer to complete closes the
\* top one, whichever it is (download_popup.dart 34-36).
RecordOnlyAfterCompletion ==
  \A d \in file : then[d.oid].task \in received \union together

\* The file of a record is there and whole.  The exceptions are a tap on
\* "download" for its title that has not come to a record, since a tap empties
\* the file first; dialogs for its title that were up together with another; a
\* removal that was not made after the record, or that a tidying session may
\* have undone; and the removal of another book of the same title, which takes
\* the file of both (download_details.dart 155).  A stop of the process anywhere
\* is no exception: the record comes after the file and goes before it.
RecordHasFile ==
  \A d \in file :
    \/ fs[title[d.key]] = "whole"
    \/ UnfinishedTap(d.key) \/ DialogsMet(d.key)
    \/ UnsettledRemoval(d.oid) \/ TwinRemoved(d.key)

\* A DownloadPopUp is up only while its transfer runs or when the transfer has
\* failed or has no announced length, in which case nothing ever closes it; or
\* two of them were up together.
DialogHasTransfer ==
  \A t \in Tasks : Shown(Dialog(t)) =>
    stage[t] \in {"waiting", "receiving", "failed", "unsized"} \/ t \in together

\* On a detail page, with nothing in progress, "downloaded" tells whether the
\* book it was last asked about has a record and a file.  Exceptions: a write to
\* that record that overlapped the check, a removal made after it (a check that
\* is slow to find the file can overwrite the answer of a later one), a tidying
\* session that overlapped the write, a tap on "download" for the title that
\* has not come to its record, the removal of another book of the title, and a
\* download that follows a removal (whose File.exists() can take that long).
ButtonIsRight ==
  routes # <<>> /\ Top.page = "detail" /\ Quiet /\ probing = {} =>
    \A f \in checked :
      \/ downloaded <=> (\E d \in file : d.key = key[f]) /\ fs[title[key[f]]] # "absent"
      \/ \E w \in Calls :
           /\ method[w] \in Inserting \union Removing /\ key[w] = key[f]
           /\ \/ Concurrent(w, f) \/ Overwritable(w)
              \/ method[w] \in Removing /\ pc[w] # "idle" /\ w \notin before[f]
      \/ UnfinishedTap(key[f]) \/ TwinRemoved(key[f]) \/ DownloadedAgain(key[f])

\* The downloads page, once its removals are done, shows the records of the
\* store, each once.  Not covered: rows swept while another removal went on (the
\* index removed from the list is the one the row had when it was swept), a book
\* with two records (one sweep removes both, the list loses one row), and
\* records written while the page was loading.
RowsMatchStore ==
  routes = <<ListPage>> /\ Quiet /\ deleting = {} =>
    \/ crossed
    \/ /\ {rows[i].oid : i \in DOMAIN rows} = {d.oid : d \in file}
       /\ Len(rows) = Cardinality(file)
    \/ \E m \in Calls : Cardinality(removed[m]) > 1
    \/ \E w \in Calls : /\ method[w] \in Inserting \union Removing
                        /\ Overwritable(w)
=============================================================================
