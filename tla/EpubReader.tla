------------------------------ MODULE EpubReader ------------------------------
(***************************************************************************)
(* The reader of the iOS application (the pod EpubViewerKit): opening a    *)
(* downloaded .epub (FREpubParser.readEpub on a background queue, then     *)
(* reloadData on the main one), turning its chapters, and the place kept   *)
(* for the next opening (saveReaderState, pageDidLoad).                    *)
(*                                                                         *)
(* Archive, unzipped directory and place are all named by the file, which  *)
(* is named by the title of the book.  A title is written as one of the    *)
(* books that have it.  Chapters are the "pages" of the code.              *)
(***************************************************************************)
EXTENDS Integers

CONSTANTS Books, NoBook,
          Chapters,   \* number of chapters of each book
          Rtl,        \* books whose spine runs right to left
          MaxOffset,  \* Bound: the end of a chapter
          MaxDue,     \* Bound: updates of the current page that are due
          MaxOpenings \* Bound: how often a reader is opened

ASSUME EpubAssumption ==
  /\ Books # {} /\ NoBook \notin Books /\ Rtl \subseteq Books
  /\ Chapters \in [Books -> Nat \ {0}]
  /\ MaxOffset \in Nat /\ MaxDue \in Nat \ {0} /\ MaxOpenings \in Nat

VARIABLES
  title,      \* the title of each book; nothing changes it
  form,       \* how its archive is made, when all of it is there; nothing changes it
  archive,    \* the downloaded file of each title
  dir,        \* the directory it was unzipped to, in Library/Caches
  saved,      \* the place kept for each title; page 0: none
  phase,      \* how far the opening of the reader has come
  asked,      \* the book it was opened for
  shouldRemoveEpub,
  openings,   \* how many there have been
  cell,       \* the two cells the collection view shows chapters in
  vis,        \* the cell on screen
  isScrolling,
  currentPage,        \* a cell, 0: nil
  currentPageNumber,
  due,        \* updateCurrentPage() calls that are scheduled
  isFirstLoad,
  \* History, read by the properties only:
  left,       \* the place on screen when saved was written; page 0: not settled
  hasty       \* the chapter was changed before the first one had loaded

fileVars == <<archive, dir>>
viewVars == <<cell, vis, isScrolling, currentPage, currentPageNumber, due, isFirstLoad, hasty>>
vars == <<title, form, fileVars, saved, left, phase, asked, openings, shouldRemoveEpub, viewVars>>

NoFile == [of |-> NoBook, whole |-> FALSE]
File   == [of : Books, whole : BOOLEAN] \union {NoFile}
Pages  == UNION {1..Chapters[b] : b \in Books}
Place  == [page : Pages \union {0}, offset : 0..MaxOffset]
NoPlace == [page |-> 0, offset |-> 0]
Cell    == [page : Pages \union {0}, load : {"none", "loading", "loaded"}, offset : 0..MaxOffset]

\* The parser reads a book, throws (its container or package is missing, is not
\* XML or does not say where the package is), or ends the process (there is no
\* table of contents, or an item of the manifest without a href).
Forms == {"sound", "throws", "traps"}

Opening == {"checking", "unzipping", "parsing", "parsed"}

EpubTypeOK ==
  /\ title \in [Books -> Books] /\ form \in [Books -> Forms]
  /\ archive \in [Books -> File] /\ dir \in [Books -> File]
  /\ saved \in [Books -> Place] /\ left \in [Books -> Place]
  /\ phase \in Opening \union {"closed", "ready", "failed"}
  /\ asked \in Books /\ shouldRemoveEpub \in BOOLEAN /\ openings \in Nat
  /\ cell \in [1..2 -> Cell]
  /\ vis \in 1..2 /\ currentPage \in 0..2 /\ currentPageNumber \in Pages \union {0}
  /\ isScrolling \in BOOLEAN /\ isFirstLoad \in BOOLEAN /\ due \in 0..MaxDue
  /\ hasty \in BOOLEAN

NewCell == [page |-> 0, load |-> "none", offset |-> 0]

EpubInit ==
  /\ title \in [Books -> Books] /\ form \in [Books -> Forms]
  /\ archive = [f \in Books |-> NoFile] /\ dir = [f \in Books |-> NoFile]
  /\ saved = [f \in Books |-> NoPlace] /\ left = [f \in Books |-> NoPlace]
  /\ phase = "closed" /\ asked = (CHOOSE b \in Books : TRUE) /\ shouldRemoveEpub = FALSE /\ openings = 0
  /\ cell = [c \in 1..2 |-> NewCell] /\ vis = 1 /\ isScrolling = FALSE
  /\ currentPage = 0 /\ currentPageNumber = 0 /\ due = 0
  /\ isFirstLoad = TRUE /\ hasty = FALSE

F == title[asked]  \* book.name

\* Mutant of bookBasePath: the name of the book is not appended.
cacheBasePath == CHOOSE f \in Books : TRUE

bookBasePath == F  \* its directory

Shown == dir[bookBasePath].of  \* the book the reader reads
totalPages == Chapters[Shown]
Other == 3 - vis

-----------------------------------------------------------------------------
(* The files, while no reader is up and one may still be opened. *)

Between == phase = "closed" /\ openings < MaxOpenings

\* A download writes the title's file, or is cut off in the middle.
Download(b) ==
  /\ Between
  /\ \E w \in BOOLEAN : archive' = [archive EXCEPT ![title[b]] = [of |-> b, whole |-> w]]
  /\ UNCHANGED <<title, form, dir, saved, left, phase, asked, openings, shouldRemoveEpub, viewVars>>

\* The downloads page deletes the file, and knows nothing of the directory.
Delete(b) ==
  /\ Between /\ archive[title[b]] # NoFile
  /\ archive' = [archive EXCEPT ![title[b]] = NoFile]
  /\ UNCHANGED <<title, form, dir, saved, left, phase, asked, openings, shouldRemoveEpub, viewVars>>

\* The system empties Library/Caches.
PurgeCaches ==
  /\ Between /\ dir' = [f \in Books |-> NoFile] /\ dir' # dir
  /\ UNCHANGED <<title, form, archive, saved, left, phase, asked, openings, shouldRemoveEpub, viewVars>>

-----------------------------------------------------------------------------
(* Opening: the background queue. *)

\* presentReader and viewDidLoad.  The caller, which is not part of the
\* repository, says whether the archive is to be removed.
Open(b) ==
  /\ Between /\ openings' = openings + 1
  /\ phase' = "checking" /\ asked' = b
  /\ shouldRemoveEpub' \in BOOLEAN
  /\ UNCHANGED <<title, form, fileVars, saved, left, viewVars>>

\* readEpub: the archive must be there even when it has been unzipped before;
\* it is unzipped if its directory is not there.
NotAvailable == archive[F] = NoFile
NeedsUnzip   == dir[bookBasePath] = NoFile

\* An archive that is cut cannot be opened: no directory is made, and
\* addSkipBackupAttributeToItemAtURL throws.
CheckFails ==
  /\ phase = "checking"
  /\ NotAvailable \/ (NeedsUnzip /\ ~archive[F].whole)
  /\ phase' = "failed"
  /\ UNCHANGED <<title, form, fileVars, saved, left, asked, openings, shouldRemoveEpub, viewVars>>

CheckUnzipped ==
  /\ phase = "checking" /\ ~NotAvailable /\ ~NeedsUnzip
  /\ phase' = "parsing"
  /\ UNCHANGED <<title, form, fileVars, saved, left, asked, openings, shouldRemoveEpub, viewVars>>

\* zipArchiveWillUnzipArchive removes the archive; the extraction goes on.
StartUnzip ==
  /\ phase = "checking" /\ ~NotAvailable /\ NeedsUnzip /\ archive[F].whole
  /\ phase' = "unzipping"
  /\ dir' = [dir EXCEPT ![bookBasePath] = [of |-> archive[F].of, whole |-> FALSE]]
  /\ archive' = IF shouldRemoveEpub THEN [archive EXCEPT ![F] = NoFile] ELSE archive
  /\ UNCHANGED <<title, form, saved, left, asked, openings, shouldRemoveEpub, viewVars>>

\* What an extraction leaves when it ends or is stopped: none of the directory,
\* part of it, or all (EpubUnzip says when).
Extracts ==
  \E d \in {NoFile, dir[bookBasePath], [of |-> Shown, whole |-> TRUE]} :
    dir' = [dir EXCEPT ![bookBasePath] = d]

\* unzipFile returns; readEpub ignores whether it has written everything.
Unzip ==
  /\ phase = "unzipping" /\ phase' = "parsing" /\ Extracts
  /\ UNCHANGED <<title, form, archive, saved, left, asked, openings, shouldRemoveEpub, viewVars>>

\* readContainer and readOpf read the book.  isReaderOpen is "parsed" or later.
Parse ==
  /\ phase = "parsing" /\ phase' = "parsed"
  /\ dir[bookBasePath] # NoFile /\ form[Shown] = "sound"
  /\ UNCHANGED <<title, form, fileVars, saved, left, asked, openings, shouldRemoveEpub, viewVars>>

\* Mutant of ParseThrows: what addSkipBackupAttributeToItemAtURL throws is not caught.
ParseThrowsUncaught ==
  /\ phase = "parsing" /\ phase' = "failed"
  /\ dir[bookBasePath] # NoFile
  /\ dir[bookBasePath].whole => form[Shown] = "throws"
  /\ UNCHANGED <<title, form, fileVars, saved, left, asked, openings, shouldRemoveEpub, viewVars>>

\* They throw; in a part of a directory what they need may be missing or not.
\* Without one, addSkipBackupAttributeToItemAtURL has thrown before.
ParseThrows ==
  /\ phase = "parsing" /\ phase' = "failed"
  /\ dir[bookBasePath].whole => form[Shown] = "throws"
  /\ UNCHANGED <<title, form, fileVars, saved, left, asked, openings, shouldRemoveEpub, viewVars>>

\* The container goes; the next one starts anew.
Gone ==
  /\ phase' = "closed" /\ asked' = (CHOOSE b \in Books : TRUE) /\ shouldRemoveEpub' = FALSE
  /\ cell' = [c \in 1..2 |-> NewCell] /\ vis' = 1 /\ isScrolling' = FALSE
  /\ currentPage' = 0 /\ currentPageNumber' = 0 /\ due' = 0
  /\ isFirstLoad' = TRUE /\ hasty' = FALSE

\* The precondition of readOpf, or a nil href: the process ends.  An item that was
\* damaged when it was extracted may lead there too.
ParseTraps ==
  /\ phase = "parsing" /\ Gone
  /\ dir[bookBasePath] # NoFile
  /\ dir[bookBasePath].whole => form[Shown] = "traps"
  /\ UNCHANGED <<title, form, fileVars, saved, left, openings>>

\* The alert's "OK", or viewDidAppear.
DismissFailed == phase = "failed" /\ Gone /\ UNCHANGED <<title, form, fileVars, saved, left, openings>>

-----------------------------------------------------------------------------
(* Reading: the main queue. *)

\* configure: the cell is given a chapter, and its web view starts to load it;
\* until then it is scrolled as it was.  A chapter whose file is missing never
\* loads.
Configure(c, q) ==
  \E l \in IF dir[bookBasePath].whole THEN {"loading"} ELSE {"loading", "none"} :
    cell' = [cell EXCEPT ![c] = [page |-> q, load |-> l, offset |-> @.offset]]

\* reloadData: changePageWith goes to the saved chapter, if there is one, and
\* has the current page updated after that.
reloadData ==
  /\ phase = "parsed" /\ phase' = "ready"
  /\ LET p == saved[F].page IN
     /\ currentPageNumber' = IF p > 0 THEN p ELSE 1
     /\ IF p \in 1..totalPages THEN Configure(1, p) /\ due' = 1
        ELSE Configure(1, 1) /\ due' = 0
  /\ UNCHANGED <<title, form, fileVars, saved, left, asked, openings, shouldRemoveEpub, vis, isScrolling,
                 currentPage, isFirstLoad, hasty>>

updateCurrentPage(c) == currentPage' = c /\ currentPageNumber' = cell[c].page

\* The completion of a change of chapter, or 0.2 s after a swipe: the current
\* page is the one that is visible; of two, the direction of the swipe picks one.
Settle ==
  /\ phase = "ready" /\ due > 0 /\ due' = due - 1
  /\ \E c \in IF isScrolling THEN 1..2 ELSE {vis} : updateCurrentPage(c)
  /\ UNCHANGED <<title, form, fileVars, saved, left, phase, asked, openings, shouldRemoveEpub,
                 cell, vis, isScrolling, isFirstLoad, hasty>>

\* scrollViewWillBeginDragging: a neighbouring chapter comes into view.
BeginDrag(q) ==
  /\ phase = "ready" /\ ~isScrolling /\ due < MaxDue
  /\ q \in 1..totalPages \intersect {cell[vis].page - 1, cell[vis].page + 1}
  /\ isScrolling' = TRUE /\ Configure(Other, q)
  /\ hasty' = (hasty \/ isFirstLoad)
  /\ UNCHANGED <<title, form, fileVars, saved, left, phase, asked, openings, shouldRemoveEpub,
                 vis, currentPage, currentPageNumber, due, isFirstLoad>>

\* Mutant of EndDrag: nothing updates the current page.
EndDragQuiet ==
  /\ phase = "ready" /\ isScrolling /\ isScrolling' = FALSE
  /\ vis' \in 1..2
  /\ UNCHANGED <<title, form, fileVars, saved, left, phase, asked, openings, shouldRemoveEpub,
                 cell, currentPage, currentPageNumber, due, isFirstLoad, hasty>>

\* scrollViewDidEndDecelerating, on the new chapter or back on the old one.
EndDrag ==
  /\ phase = "ready" /\ isScrolling /\ isScrolling' = FALSE
  /\ vis' \in 1..2 /\ due' = due + 1
  /\ UNCHANGED <<title, form, fileVars, saved, left, phase, asked, openings, shouldRemoveEpub,
                 cell, currentPage, currentPageNumber, isFirstLoad, hasty>>

\* The chapter list: chapterList(_:didSelectRowAtIndexPath:) and its dismissal.
SelectChapter(q) ==
  /\ phase = "ready" /\ ~isScrolling /\ due < MaxDue /\ q \in 1..totalPages
  /\ IF q = cell[vis].page THEN UNCHANGED <<cell, vis>> ELSE Configure(Other, q) /\ vis' = Other
  /\ due' = due + 1 /\ hasty' = (hasty \/ isFirstLoad)
  /\ UNCHANGED <<title, form, fileVars, saved, left, phase, asked, openings, shouldRemoveEpub,
                 isScrolling, currentPage, currentPageNumber, isFirstLoad>>

\* The user scrolls in the chapter on screen.
Scroll(o) ==
  /\ phase = "ready" /\ ~isScrolling /\ cell[vis].load = "loaded" /\ cell[vis].offset # o
  /\ cell' = [cell EXCEPT ![vis] = [page |-> @.page, load |-> @.load, offset |-> o]]
  /\ UNCHANGED <<title, form, fileVars, saved, left, phase, asked, openings, shouldRemoveEpub, vis,
                 isScrolling, currentPage, currentPageNumber, due, isFirstLoad, hasty>>

\* Where a chapter is scrolled to when it has loaded: to its end when a swipe
\* backwards is still going on, or in a book from right to left for which a
\* place is kept, else to its beginning.
LoadedAt ==
  IF isScrolling THEN {0, MaxOffset}
  ELSE IF ~isFirstLoad /\ Shown \in Rtl /\ saved[F] # NoPlace THEN {MaxOffset} ELSE {0}

\* Mutant of pageDidLoad: the offset is not restored.
pageDidLoadAtTop(c) ==
  /\ phase = "ready" /\ cell[c].load = "loading"
  /\ \E o \in LoadedAt : cell' = [cell EXCEPT ![c] = [page |-> @.page, load |-> "loaded", offset |-> o]]
  /\ IF isFirstLoad THEN updateCurrentPage(c) ELSE UNCHANGED <<currentPage, currentPageNumber>>
  /\ isFirstLoad' = FALSE
  /\ UNCHANGED <<title, form, fileVars, saved, left, phase, asked, openings, shouldRemoveEpub,
                 vis, isScrolling, due, hasty>>

\* pageDidLoad: the first chapter to load becomes the current page, and is
\* scrolled to the offset kept for it.
pageDidLoad(c) ==
  /\ phase = "ready" /\ cell[c].load = "loading"
  /\ \E o \in IF isFirstLoad /\ cell[c].page = saved[F].page /\ saved[F].offset > 0
              THEN {saved[F].offset} ELSE LoadedAt :
       cell' = [cell EXCEPT ![c] = [page |-> @.page, load |-> "loaded", offset |-> o]]
  /\ IF isFirstLoad THEN updateCurrentPage(c) ELSE UNCHANGED <<currentPage, currentPageNumber>>
  /\ isFirstLoad' = FALSE
  /\ UNCHANGED <<title, form, fileVars, saved, left, phase, asked, openings, shouldRemoveEpub,
                 vis, isScrolling, due, hasty>>

\* Nothing is on its way: the chapter on screen has loaded and is the current page.
Settled == due = 0 /\ ~isScrolling /\ ~hasty /\ cell[vis].load = "loaded"

saveReaderState ==
  IF currentPage = 0 THEN UNCHANGED <<saved, left>>
  ELSE /\ saved' = [saved EXCEPT ![F] = [page |-> currentPageNumber,
                                        offset |-> cell[currentPage].offset]]
       /\ left' = [left EXCEPT ![F] = IF Settled THEN [page |-> cell[vis].page,
                                                       offset |-> cell[vis].offset]
                                      ELSE NoPlace]

\* The application resigns active or terminates, or a menu is opened.
SaveState ==
  /\ phase = "ready" /\ saveReaderState
  /\ UNCHANGED <<title, form, fileVars, phase, asked, openings, shouldRemoveEpub, viewVars>>

\* closeReader
Close ==
  /\ phase = "ready" /\ saveReaderState /\ Gone /\ UNCHANGED <<title, form, fileVars, openings>>

\* The process is stopped.
Kill ==
  /\ phase # "closed" /\ Gone
  /\ IF phase = "unzipping" THEN Extracts ELSE UNCHANGED dir
  /\ UNCHANGED <<title, form, archive, saved, left, openings>>

-----------------------------------------------------------------------------

\* What the queues run by themselves; extracting apart.
Proceed ==
  \/ CheckFails \/ CheckUnzipped \/ Parse \/ ParseThrows \/ ParseTraps \/ reloadData

Load == StartUnzip \/ Unzip \/ Proceed

\* What the user, the web views and the system do.
Happen ==
  \/ \E b \in Books : Download(b) \/ Delete(b) \/ Open(b)
  \/ PurgeCaches \/ DismissFailed \/ SaveState \/ Close \/ Settle \/ EndDrag
  \/ \E q \in Pages : BeginDrag(q) \/ SelectChapter(q)
  \/ \E o \in 0..MaxOffset : Scroll(o)
  \/ \E c \in 1..2 : pageDidLoad(c)

EpubNext == Load \/ Happen \/ Kill

\* The two queues run what is given to them.
EpubSteps == EpubInit /\ [][EpubNext]_vars

EpubSpec == EpubSteps /\ WF_vars(Load)

-----------------------------------------------------------------------------

\* The reader reads the book it was opened for, if no other book has its title:
\* with one of the same title it may read the directory that book has left
\* (FREpubParser.swift 88, 103, 110).
ShowsAskedBook ==
  phase \in {"parsed", "ready"} /\ (\A b \in Books \ {asked} : title[b] # F) => Shown = asked

\* With no update due and no swipe going on, the current page is the chapter on
\* screen and has its number: they are what is saved, and what highlights are
\* filed under.  A chapter changed before the first one had loaded is excepted:
\* the first one then becomes the current page behind the user's back.
CurrentPageIsShown ==
  phase = "ready" /\ ~isFirstLoad /\ due = 0 /\ ~isScrolling /\ ~hasty =>
    currentPage = vis /\ currentPageNumber = cell[vis].page

\* The first chapter that loads is the one that was on screen when the place of
\* the title was last saved, at the same offset, whatever happened in between to
\* the process or the directory.  Excepted: a place saved while chapters were
\* turned or loading, a book of the title that has fewer chapters, and a chapter
\* changed before the first had loaded.
ResumesWhereLeft ==
  [][isFirstLoad /\ ~isFirstLoad' /\ phase' = "ready" =>
       \/ left[F].page = 0 \/ hasty \/ left[F].page > totalPages
       \/ /\ cell'[currentPage'].page = left[F].page
          /\ cell'[currentPage'].offset = left[F].offset]_vars

\* An opening comes to an end: the reader is ready, the failure is told, or the
\* process has ended; none is left with its spinner.
OpeningEnds == phase \in Opening ~> phase \in {"ready", "failed", "closed"}
=============================================================================
