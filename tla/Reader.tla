-------------------------------- MODULE Reader --------------------------------
(***************************************************************************)
(* Reading an EPUB book and coming back to the place: the "read" button of *)
(* the detail page (_openEbook) and the rows of the downloads page look    *)
(* the last position up in the EbookLocator store, open the native reader  *)
(* there and listen to the positions it reports, which updateItem stores.  *)
(*                                                                         *)
(* The listener is never cancelled.  It takes the book from the page it    *)
(* was made on, not from the report; and the platform channel has one      *)
(* handler, so the last page that listened gets every report.              *)
(*                                                                         *)
(* epub_viewer and its channel are not part of the repository: readers     *)
(* stack, the top one reports its position when it is closed, and reports  *)
(* arrive in order, some time later.                                       *)
(***************************************************************************)
EXTENDS StoreClient

CONSTANTS Openings,   \* taps on "read" or on a row, each made at most once
          NoOpening,  \* not one of them
          NoKey,      \* the null bookId of reports to the downloads page
          MaxPages    \* Bound: pages on the navigator

ReaderMethods == {"EbookLocator.getLocator", "EbookLocator.updateItem"}
ReaderThens == [do : {"open", "saved"}, by : Openings]

ASSUME ReaderAssumption ==
  /\ Methods = ReaderMethods /\ Thens = ReaderThens
  /\ NoOpening \notin Openings /\ NoKey \in Keys /\ Keys # {NoKey} /\ MaxPages \in Nat \ {0}

Books == Keys \ {NoKey}

VARIABLES
  pages,     \* the navigator: detail pages by book, or the downloads page
  stage,     \* how far each opening has come
  book,      \* the book it is for
  pageOf,    \* the place of the page it was tapped on, 0: it is gone
  fromList,  \* the openings tapped on the downloads page
  start,     \* the updateItem whose position the reader opened at, as a set
  readers,   \* the native readers, the last one on top
  listener,  \* the opening that listened last
  reports,   \* positions reported and not yet delivered, by opening
  overtaken  \* history: openings another reader was opened after, before their
             \* report was delivered

readerVars == <<pages, stage, book, pageOf, fromList, start, readers, listener,
                reports, overtaken>>
allVars == <<vars, callerVars, readerVars>>

Stages == {"unused", "looking", "seeking", "opened", "nothing"}

ReaderTypeOK ==
  /\ TypeOK /\ CallerTypeOK
  /\ pages \in Seq(Books \union {"downloads"}) /\ Len(pages) <= MaxPages
  /\ stage \in [Openings -> Stages] /\ book \in [Openings -> Books]
  /\ pageOf \in [Openings -> 0..MaxPages]
  /\ fromList \in SUBSET Openings
  /\ start \in [Openings -> SUBSET Calls]
  /\ readers \in Seq(Openings) /\ listener \in Openings \union {NoOpening}
  /\ reports \in Seq(Openings) /\ overtaken \in SUBSET Openings

After(d, o) == [do |-> d, by |-> o]

ReaderInit ==
  /\ Init /\ todo = <<>> /\ then = [c \in Calls |-> CHOOSE t \in Thens : TRUE]
  /\ pages = <<>> /\ readers = <<>> /\ reports = <<>>
  /\ stage = [o \in Openings |-> "unused"]
  /\ book = [o \in Openings |-> CHOOSE k \in Books : TRUE]
  /\ pageOf = [o \in Openings |-> 0] /\ fromList = {}
  /\ start = [o \in Openings |-> {}]
  /\ listener = NoOpening /\ overtaken = {}

\* A stretch of code starts that makes one call.
Starts == Idle /\ Left(1, {})

Mounted(o) == pageOf[o] # 0

\* The native reader covers the application.
Uncovered == Idle /\ readers = <<>>

OpenPage(p) ==
  /\ Uncovered /\ Len(pages) < MaxPages
  /\ pages # <<>> => p # "downloads" /\ pages[Len(pages)] # "downloads"
  /\ pages' = Append(pages, p)
  /\ UNCHANGED <<vars, callerVars, stage, book, pageOf, fromList, start, readers,
                 listener, reports, overtaken>>

Back ==
  /\ Uncovered /\ pages # <<>>
  /\ pages' = SubSeq(pages, 1, Len(pages) - 1)
  /\ pageOf' = [o \in Openings |-> IF pageOf[o] = Len(pages) THEN 0 ELSE pageOf[o]]
  /\ UNCHANGED <<vars, callerVars, stage, book, fromList, start, readers, listener,
                 reports, overtaken>>

getLocator(k, o) == Request("EbookLocator.getLocator", k, After("open", o))

\* The button of a detail page: its record in the downloads store is looked up
\* first.  Nothing disables the button meanwhile.
TapRead(o) ==
  /\ Uncovered /\ stage[o] = "unused"
  /\ pages # <<>> /\ pages[Len(pages)] # "downloads"
  /\ stage' = [stage EXCEPT ![o] = "looking"]
  /\ book' = [book EXCEPT ![o] = pages[Len(pages)]]
  /\ pageOf' = [pageOf EXCEPT ![o] = Len(pages)]
  /\ UNCHANGED <<vars, callerVars, pages, fromList, start, readers, listener, reports, overtaken>>

\* The record has been looked up.  If there is one the position is next, also
\* when the page is gone: its state keeps the widget, and widget.id the book.
Looked(o) ==
  /\ Starts /\ stage[o] = "looking"
  /\ \/ /\ stage' = [stage EXCEPT ![o] = "seeking"]
        /\ todo' = <<getLocator(book[o], o)>>
     \/ /\ stage' = [stage EXCEPT ![o] = "nothing"]
        /\ UNCHANGED todo
  /\ UNCHANGED <<vars, then, pages, book, pageOf, fromList, start, readers, listener,
                 reports, overtaken>>

\* A row of the downloads page is tapped.
TapRow(o, k) ==
  /\ Starts /\ readers = <<>> /\ stage[o] = "unused" /\ pages = <<"downloads">>
  /\ stage' = [stage EXCEPT ![o] = "seeking"]
  /\ book' = [book EXCEPT ![o] = k]
  /\ pageOf' = [pageOf EXCEPT ![o] = 1]
  /\ fromList' = fromList \union {o}
  /\ todo' = <<getLocator(k, o)>>
  /\ UNCHANGED <<vars, then, pages, start, readers, listener, reports, overtaken>>

\* Openings whose report is still to come.
Unreported == {readers[i] : i \in DOMAIN readers} \union {reports[i] : i \in DOMAIN reports}

\* Mutant of LocatorReturned: only the first page listens.
LocatorReturnedOnce(c) ==
  /\ then[c].do = "open"
  /\ LET o == then[c].by IN
     /\ Mounted(o) \/ o \in fromList
     /\ stage' = [stage EXCEPT ![o] = "opened"]
     /\ \E s \in IF result[c] = {} THEN {{}} ELSE {{d.by} : d \in result[c]} :
          start' = [start EXCEPT ![o] = s]
     /\ readers' = Append(readers, o)
     /\ listener' = IF listener = NoOpening THEN o ELSE listener
     /\ overtaken' = overtaken \union Unreported
  /\ UNCHANGED <<todo, reports>>

\* The position is known: the theme is read from the page's context, the reader
\* is opened at the first document found, and its reports are listened to.  A
\* detail page that is gone has no context and the lookup throws; the list of
\* the downloads page still has one, whose lookup throws in a debug build and
\* gives the default theme in a release.
LocatorReturned(c) ==
  /\ then[c].do = "open"
  /\ LET o == then[c].by IN
     \/ /\ Mounted(o) \/ o \in fromList
        /\ stage' = [stage EXCEPT ![o] = "opened"]
        /\ \E s \in IF result[c] = {} THEN {{}} ELSE {{d.by} : d \in result[c]} :
             start' = [start EXCEPT ![o] = s]
        /\ readers' = Append(readers, o)
        /\ listener' = o
        /\ overtaken' = overtaken \union Unreported
     \/ /\ ~Mounted(o)
        /\ stage' = [stage EXCEPT ![o] = "nothing"]
        /\ UNCHANGED <<start, readers, listener, overtaken>>
  /\ UNCHANGED <<todo, reports>>

\* The top reader is closed and reports where it was.
CloseReader ==
  /\ readers # <<>>
  /\ reports' = Append(reports, readers[Len(readers)])
  /\ readers' = SubSeq(readers, 1, Len(readers) - 1)
  /\ UNCHANGED <<vars, callerVars, pages, stage, book, pageOf, fromList, start, listener, overtaken>>

\* The key a listener stores a report under: the book of its detail page, which
\* widget.id still names when the page is gone; on the downloads page the 'id'
\* of the report, which shadows the row and has none.
BookOf(l) == IF l \in fromList THEN NoKey ELSE book[l]

updateItem(k, o) == Request("EbookLocator.updateItem", k, After("saved", o))

\* A report reaches the listener, whose page may be gone by then.
Deliver ==
  /\ Starts /\ reports # <<>>
  /\ reports' = Tail(reports)
  /\ todo' = <<updateItem(BookOf(listener), Head(reports))>>
  /\ UNCHANGED <<vars, then, pages, stage, book, pageOf, fromList, start, readers,
                 listener, overtaken>>

Saved(c) ==
  /\ then[c].do = "saved"
  /\ UNCHANGED <<todo, stage, start, readers, listener, reports, overtaken>>

Return(c) ==
  /\ Idle /\ Close(c)
  /\ LocatorReturned(c) \/ Saved(c)
  /\ UNCHANGED <<then, pages, book, pageOf, fromList>>

\* The readers belong to the same process.
KillApp ==
  /\ KillCaller
  /\ pages' = <<>> /\ readers' = <<>> /\ reports' = <<>> /\ listener' = NoOpening
  /\ stage' = [o \in Openings |-> IF stage[o] \in {"looking", "seeking"}
                                  THEN "nothing" ELSE stage[o]]
  /\ pageOf' = [o \in Openings |-> 0]
  /\ UNCHANGED <<book, fromList, start, overtaken>>

ReaderNext ==
  \/ \E p \in Books \union {"downloads"} : OpenPage(p)
  \/ Back \/ CloseReader \/ Deliver
  \/ \E o \in Openings : TapRead(o) \/ Looked(o) \/ \E k \in Books : TapRow(o, k)
  \/ MakeCall /\ UNCHANGED readerVars
  \/ \E c \in Calls : (Session(c) /\ UNCHANGED readerVars) \/ Return(c)
  \/ KillApp

ReaderSpec == ReaderInit /\ [][ReaderNext]_allVars

-----------------------------------------------------------------------------

\* A position stored under a book was reported by a reader of that book, although
\* every reader's reports go to the page that listened last: unless another
\* reader had been opened before the report was delivered.
PositionIsOwn ==
  \A d \in file :
    LET o == then[d.by].by IN d.key # NoKey => book[o] = d.key \/ o \in overtaken

\* A reader opens at the latest position stored for its book: whatever had been
\* stored before the position was asked for is there, or something stored at
\* the same time or later.  (What the readers of the downloads page report
\* never counts, it is stored under no book.)
ResumesWhereLeft ==
  \A c \in Calls :
    pc[c] = "returned" /\ then[c].do = "open" /\ stage[then[c].by] = "opened" =>
      \A v \in before[c] :
        method[v] \in Upserting /\ pc[v] = "returned" /\ key[v] = key[c] =>
          \E u \in start[then[c].by] : u = v \/ v \in before[u] \/ Concurrent(u, v)
=============================================================================
