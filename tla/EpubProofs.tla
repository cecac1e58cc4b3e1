------------------------------ MODULE EpubProofs ------------------------------
(***************************************************************************)
(* The native reader, for any books, titles and chapters, and any number   *)
(* of openings: it shows the book it was opened for, keeps the current     *)
(* page at the chapter on screen, and resumes where it was left.           *)
(*                                                                         *)
(* The extraction of archives of any number of entries: one that was not   *)
(* told to have failed wrote the whole book, up to four exceptions; and    *)
(* the reader that extracts entry by entry implements EpubReader, so that  *)
(* what is proved of EpubReader holds of it.                               *)
(***************************************************************************)
EXTENDS EpubUnzip, TLAPS

(*------------------------------- the files ------------------------------*)

FilesTypeOK ==
  /\ title \in [Books -> Books] /\ archive \in [Books -> File] /\ dir \in [Books -> File]
  /\ asked \in Books

\* A file, and the directory it was unzipped to, are of a book of that title.
Titled ==
  \A f \in Books : /\ archive[f] # NoFile => title[archive[f].of] = f
                   /\ dir[f] # NoFile => title[dir[f].of] = f

\* What is being unzipped, or has been parsed, is there.
HasDirectory == phase \in {"unzipping", "parsed", "ready"} => dir[F] # NoFile

FilesInv == FilesTypeOK /\ Titled /\ HasDirectory

\* A file is of a book, unless it is not there.
LEMMA FileIsOf ==
  ASSUME NEW f \in File, f # NoFile PROVE f.of \in Books
  BY DEF File

\* A file that is not there is not whole.
LEMMA NoFileIsNot == NoFile \in File /\ ~NoFile.whole
  BY DEF File, NoFile

\* Any book: where asked starts.
LEMMA SomeBook == (CHOOSE b \in Books : TRUE) \in Books
  BY EpubAssumption

\* The first state.
LEMMA FilesStart == EpubInit => FilesInv
<1> SUFFICES ASSUME EpubInit PROVE FilesInv
  OBVIOUS
<1>1. /\ title \in [Books -> Books] /\ asked \in Books /\ phase = "closed"
      /\ archive = [f \in Books |-> NoFile] /\ dir = [f \in Books |-> NoFile]
  BY SomeBook DEF EpubInit
<1>2. FilesTypeOK
  BY <1>1, NoFileIsNot DEF FilesTypeOK
<1>3. Titled
  BY <1>1 DEF Titled
<1> QED
  BY <1>1, <1>2, <1>3 DEF FilesInv, HasDirectory

\* Nothing but the phase changes, and not to one in which a directory is read.
LEMMA OnlyPhase ==
  ASSUME FilesInv, UNCHANGED <<title, fileVars>>, asked' \in Books,
         phase' \in {"closed", "checking", "parsing"}
  PROVE  FilesInv'
<1>1. UNCHANGED <<title, archive, dir>>
  BY DEF fileVars
<1> QED
  BY <1>1 DEF FilesInv, FilesTypeOK, Titled, HasDirectory

\* The directory of the book that is open is written, or goes.
LEMMA DirectoryWritten ==
  ASSUME FilesInv, UNCHANGED <<title, asked>>,
         NEW d \in File, d # NoFile => title[d.of] = F,
         dir' = [dir EXCEPT ![F] = d],
         archive' \in {archive, [archive EXCEPT ![F] = NoFile]}
  PROVE  FilesTypeOK' /\ Titled'
<1>1. /\ F \in Books /\ archive \in [Books -> File] /\ dir \in [Books -> File]
      /\ title \in [Books -> Books]
  BY DEF FilesInv, FilesTypeOK, F
<1>2. archive' \in [Books -> File] /\ dir' \in [Books -> File]
  BY <1>1, NoFileIsNot
<1>3. FilesTypeOK'
  BY <1>1, <1>2 DEF FilesInv, FilesTypeOK
<1>4. Titled'
  BY <1>1 DEF FilesInv, Titled
<1> QED
  BY <1>3, <1>4

\* What an extraction leaves.
LEMMA ExtractsTitled ==
  ASSUME FilesInv, dir[F] # NoFile, Extracts, UNCHANGED <<title, asked, archive>>
  PROVE  FilesTypeOK' /\ Titled'
<1>1. F \in Books /\ dir[F] \in File
  BY DEF FilesInv, FilesTypeOK, F
<1>2. PICK d \in {NoFile, dir[F], [of |-> dir[F].of, whole |-> TRUE]} : dir' = [dir EXCEPT ![F] = d]
  BY DEF Extracts, bookBasePath, Shown
<1>3. dir[F].of \in Books /\ title[dir[F].of] = F
  BY <1>1, FileIsOf DEF FilesInv, Titled
<1>4. d \in File /\ (d # NoFile => title[d.of] = F)
  <2> DEFINE w == [of |-> dir[F].of, whole |-> TRUE]
  <2>1. w \in File /\ title[w.of] = F
    BY <1>3 DEF File
  <2> QED
    BY <1>1, <1>2, <1>3, <2>1, NoFileIsNot
<1> QED
  BY <1>2, <1>4, DirectoryWritten

\* Every step keeps files and directories titled.
LEMMA FilesStep == FilesInv /\ [EpubNext]_vars => FilesInv'
<1> SUFFICES ASSUME FilesInv, [EpubNext]_vars PROVE FilesInv'
  OBVIOUS
<1>0. /\ title \in [Books -> Books] /\ archive \in [Books -> File] /\ dir \in [Books -> File]
      /\ asked \in Books /\ F \in Books
  BY DEF FilesInv, FilesTypeOK, F
<1>1. CASE \E b \in Books : Download(b)
  <2> SUFFICES ASSUME NEW b \in Books, Download(b) PROVE FilesInv'
    BY <1>1
  <2>1. PICK w \in BOOLEAN : archive' = [archive EXCEPT ![title[b]] = [of |-> b, whole |-> w]]
    BY DEF Download
  <2>2. [of |-> b, whole |-> w] \in File /\ title[b] \in Books
    BY <1>0 DEF File
  <2>3. FilesTypeOK' /\ Titled'
    BY <1>0, <2>1, <2>2 DEF Download, FilesInv, FilesTypeOK, Titled
  <2> QED
    BY <2>3 DEF Download, Between, FilesInv, HasDirectory
<1>2. CASE \E b \in Books : Delete(b)
  <2> SUFFICES ASSUME NEW b \in Books, Delete(b) PROVE FilesInv'
    BY <1>2
  <2>1. FilesTypeOK' /\ Titled'
    BY <1>0, NoFileIsNot DEF Delete, FilesInv, FilesTypeOK, Titled
  <2> QED
    BY <2>1 DEF Delete, Between, FilesInv, HasDirectory
<1>3. CASE PurgeCaches
  <2>1. FilesTypeOK' /\ Titled'
    BY <1>0, <1>3, NoFileIsNot DEF PurgeCaches, FilesInv, FilesTypeOK, Titled
  <2> QED
    BY <1>3, <2>1 DEF PurgeCaches, Between, FilesInv, HasDirectory
<1>4. CASE \E b \in Books : Open(b)
  BY <1>4, OnlyPhase DEF Open
<1>5. CASE CheckFails
  BY <1>0, <1>5, NoFileIsNot
  DEF CheckFails, NotAvailable, NeedsUnzip, bookBasePath, fileVars, F,
      FilesInv, FilesTypeOK, Titled, HasDirectory
<1>6. CASE CheckUnzipped
  BY <1>0, <1>6, OnlyPhase DEF CheckUnzipped
<1>7. CASE StartUnzip
  <2> DEFINE d == [of |-> archive[F].of, whole |-> FALSE]
  <2>1. archive[F] \in File /\ archive[F] # NoFile
    BY <1>0, <1>7 DEF StartUnzip, NotAvailable
  <2>2. archive[F].of \in Books /\ title[archive[F].of] = F
    BY <1>0, <2>1, FileIsOf DEF FilesInv, Titled
  <2>3. d \in File /\ title[d.of] = F
    BY <2>2 DEF File
  <2>4. FilesTypeOK' /\ Titled'
    BY <1>7, <2>3, DirectoryWritten DEF StartUnzip, bookBasePath
  <2>5. dir'[F] = d /\ d # NoFile
    BY <1>0, <1>7, <2>2, EpubAssumption DEF StartUnzip, bookBasePath, NoFile
  <2> QED
    BY <1>7, <2>4, <2>5 DEF StartUnzip, FilesInv, HasDirectory, F
<1>8. CASE Unzip
  <2>1. FilesTypeOK' /\ Titled'
    BY <1>8, ExtractsTitled DEF Unzip, FilesInv, HasDirectory
  <2> QED
    BY <1>8, <2>1 DEF Unzip, FilesInv, HasDirectory
<1>9. CASE Parse
  BY <1>0, <1>9 DEF Parse, fileVars, bookBasePath, F, FilesInv, FilesTypeOK, Titled, HasDirectory
<1>17. CASE ParseThrows
  BY <1>0, <1>17 DEF ParseThrows, fileVars, F, FilesInv, FilesTypeOK, Titled, HasDirectory
<1>18. CASE ParseTraps
  BY <1>0, <1>18, SomeBook, OnlyPhase DEF ParseTraps, Gone
<1>10. CASE reloadData
  BY <1>0, <1>10 DEF reloadData, fileVars, FilesInv, FilesTypeOK, Titled, HasDirectory, F, bookBasePath
<1>11. CASE DismissFailed \/ Close
  BY <1>0, <1>11, SomeBook, OnlyPhase DEF DismissFailed, Close, Gone
<1>12. CASE Kill
  <2>1. phase' = "closed" /\ asked' \in Books /\ UNCHANGED <<title, archive>>
    BY <1>12, SomeBook DEF Kill, Gone
  <2>2. CASE dir' = dir
    BY <2>1, <2>2, OnlyPhase DEF fileVars
  <2>3. CASE phase = "unzipping" /\ Extracts
    <3>1. PICK d \in {NoFile, dir[F], [of |-> dir[F].of, whole |-> TRUE]} : dir' = [dir EXCEPT ![F] = d]
      BY <2>3 DEF Extracts, bookBasePath, Shown
    <3>2. dir[F] \in File /\ dir[F].of \in Books /\ title[dir[F].of] = F
      BY <1>0, <2>3, FileIsOf DEF FilesInv, HasDirectory, Titled
    <3>3. d \in File /\ (d # NoFile => title[d.of] = F)
      <4> DEFINE w == [of |-> dir[F].of, whole |-> TRUE]
      <4>1. w \in File /\ title[w.of] = F
        BY <3>2 DEF File
      <4> QED
        BY <3>1, <3>2, <4>1, NoFileIsNot
    <3>4. FilesTypeOK' /\ Titled'
      BY <1>0, <2>1, <3>1, <3>3 DEF FilesInv, FilesTypeOK, Titled
    <3> QED
      BY <2>1, <3>4 DEF FilesInv, HasDirectory
  <2> QED
    BY <1>12, <2>2, <2>3 DEF Kill
<1>13. ASSUME UNCHANGED <<title, archive, dir, asked, phase>> PROVE FilesInv'
  BY <1>13 DEF FilesInv, FilesTypeOK, Titled, HasDirectory, F, bookBasePath
<1>14. CASE SaveState \/ Settle \/ EndDrag \/ UNCHANGED vars
  BY <1>13, <1>14 DEF SaveState, Settle, EndDrag, vars, fileVars
<1>15. CASE \E q \in Pages : BeginDrag(q) \/ SelectChapter(q)
  BY <1>13, <1>15 DEF BeginDrag, SelectChapter, fileVars
<1>16. CASE \/ \E o \in 0..MaxOffset : Scroll(o)
            \/ \E c \in 1..2 : pageDidLoad(c)
  BY <1>13, <1>16 DEF Scroll, pageDidLoad, fileVars
<1> QED
  BY <1>1, <1>2, <1>3, <1>4, <1>5, <1>6, <1>7, <1>8, <1>9, <1>10, <1>11, <1>12, <1>14,
     <1>15, <1>16, <1>17, <1>18 DEF EpubNext, Load, Proceed, Happen

\* Files and directories are titled in every state.
LEMMA FilesHold == EpubSteps => []FilesInv
  BY FilesStart, FilesStep, PTL DEF EpubSteps

(*------------------------------- the view -------------------------------*)

ViewTypeOK ==
  /\ saved \in [Books -> Place] /\ left \in [Books -> Place]
  /\ phase \in Opening \union {"closed", "ready", "failed"}
  /\ shouldRemoveEpub \in BOOLEAN /\ openings \in Nat
  /\ cell \in [1..2 -> Cell] /\ vis \in 1..2
  /\ currentPage \in 0..2 /\ currentPageNumber \in Pages \union {0}
  /\ isScrolling \in BOOLEAN /\ isFirstLoad \in BOOLEAN /\ due \in 0..MaxDue
  /\ hasty \in BOOLEAN

\* A swipe has room for the update it ends with.
DueBound == isScrolling => due < MaxDue

\* Until it is ready a reader has shown nothing.
Fresh ==
  phase # "ready" =>
    /\ cell = [c \in 1..2 |-> NewCell] /\ vis = 1 /\ ~isScrolling /\ due = 0
    /\ currentPage = 0 /\ isFirstLoad /\ ~hasty

\* Before the first load there is no other, only one cell is in use, and it has
\* the chapter that was left, if the book shown has it.
NothingLoaded == isFirstLoad => \A c \in 1..2 : cell[c].load # "loaded"

FirstIsAlone ==
  phase = "ready" /\ isFirstLoad /\ ~hasty => vis = 1 /\ cell[2].load = "none" /\ ~isScrolling

FirstIsLeft ==
  phase = "ready" /\ isFirstLoad /\ ~hasty /\ left[F].page \in 1..totalPages =>
    cell[1].page = left[F].page

\* A place that was on screen when it was saved is what was saved.
LeftIsSaved == \A f \in Books : left[f].page # 0 => left[f] = saved[f]

ViewInv ==
  ViewTypeOK /\ DueBound /\ Fresh /\ NothingLoaded /\ FirstIsAlone /\ FirstIsLeft /\ LeftIsSaved
    /\ CurrentPageIsShown

\* What configure makes of the two cells.
LEMMA Configured ==
  ASSUME cell \in [1..2 -> Cell], NEW c \in 1..2, NEW q \in Pages, Configure(c, q)
  PROVE  /\ cell' \in [1..2 -> Cell] /\ cell'[c].page = q /\ cell'[c].load # "loaded"
         /\ \A d \in 1..2 \ {c} : cell'[d] = cell[d]
<1>1. PICK l \in {"loading", "none"} : cell' = [cell EXCEPT ![c] = [page |-> q, load |-> l, offset |-> @.offset]]
  BY DEF Configure
<1> QED
  BY <1>1 DEF Cell

\* What a load makes of them.
LEMMA Loaded ==
  ASSUME cell \in [1..2 -> Cell], NEW c \in 1..2, NEW o \in 0..MaxOffset,
         cell' = [cell EXCEPT ![c] = [page |-> @.page, load |-> "loaded", offset |-> o]]
  PROVE  /\ cell' \in [1..2 -> Cell]
         /\ cell'[c].offset = o
         /\ \A d \in 1..2 : cell'[d].page = cell[d].page
         /\ \A d \in 1..2 \ {c} : cell'[d] = cell[d]
  BY DEF Cell

\* The first state.
LEMMA ViewStart == EpubInit => ViewInv
<1> SUFFICES ASSUME EpubInit PROVE ViewInv
  OBVIOUS
<1>1. NewCell \in Cell /\ NoPlace \in Place
  BY EpubAssumption DEF NewCell, Cell, NoPlace, Place
<1>2. saved \in [Books -> Place] /\ left \in [Books -> Place] /\ cell \in [1..2 -> Cell]
  BY <1>1 DEF EpubInit
<1>3. /\ phase = "closed" /\ vis = 1 /\ ~isScrolling /\ isFirstLoad /\ ~hasty
      /\ currentPage = 0 /\ currentPageNumber = 0 /\ due = 0 /\ openings = 0
      /\ shouldRemoveEpub \in BOOLEAN /\ isScrolling \in BOOLEAN /\ isFirstLoad \in BOOLEAN /\ hasty \in BOOLEAN
  BY DEF EpubInit
<1>4. ViewTypeOK
  BY <1>2, <1>3, EpubAssumption DEF ViewTypeOK
<1> QED
  BY <1>4 DEF EpubInit, ViewInv, DueBound, Fresh, NothingLoaded, FirstIsAlone, FirstIsLeft,
              LeftIsSaved, NewCell, NoPlace, CurrentPageIsShown

\* Before it is ready, a step that shows nothing.
LEMMA NothingShown ==
  ASSUME ViewInv, UNCHANGED <<saved, left, viewVars>>, phase # "ready",
         phase' \in Opening \union {"closed", "failed"},
         openings' \in Nat, shouldRemoveEpub' \in BOOLEAN
  PROVE  ViewInv'
<1>1. ViewTypeOK' /\ LeftIsSaved'
  BY DEF ViewInv, ViewTypeOK, LeftIsSaved, viewVars
<1>2. phase' # "ready"
  BY DEF Opening
<1> QED
  BY <1>1, <1>2 DEF ViewInv, DueBound, Fresh, NothingLoaded, FirstIsAlone, FirstIsLeft,
                    CurrentPageIsShown, viewVars

\* The reader goes, with the places it has or has saved.
LEMMA ReaderGone ==
  ASSUME ViewInv, Gone, UNCHANGED openings,
         saved' \in [Books -> Place], left' \in [Books -> Place], LeftIsSaved'
  PROVE  ViewInv'
<1>1. NewCell \in Cell
  BY EpubAssumption DEF NewCell, Cell
<1>2. cell' \in [1..2 -> Cell] /\ openings' \in Nat
  BY <1>1 DEF Gone, ViewInv, ViewTypeOK
<1>3. /\ phase' = "closed" /\ vis' = 1 /\ currentPage' = 0 /\ currentPageNumber' = 0 /\ due' = 0
      /\ (shouldRemoveEpub \in BOOLEAN)' /\ (isScrolling \in BOOLEAN)' /\ (isFirstLoad \in BOOLEAN)'
      /\ (hasty \in BOOLEAN)'
  BY DEF Gone
<1>4. ViewTypeOK'
  BY <1>2, <1>3, EpubAssumption DEF ViewTypeOK
<1> QED
  BY <1>4 DEF Gone, ViewInv, DueBound, Fresh, NothingLoaded, FirstIsAlone, FirstIsLeft,
              NewCell, CurrentPageIsShown

\* What a save writes: before the first load, no place that was on screen.
LEMMA Saved ==
  ASSUME FilesInv, ViewInv, phase = "ready", saveReaderState
  PROVE  /\ saved' \in [Books -> Place] /\ left' \in [Books -> Place]
         /\ isFirstLoad => left'[F].page = 0 \/ left'[F] = left[F]
         /\ \A f \in Books : left'[f].page # 0 => left'[f] = saved'[f]
<1>0. F \in Books
  BY DEF FilesInv, FilesTypeOK, F
<1>1. CASE currentPage = 0
  BY <1>1 DEF saveReaderState, ViewInv, ViewTypeOK, LeftIsSaved
<1>2. CASE currentPage # 0
  <2> DEFINE s == [page |-> currentPageNumber, offset |-> cell[currentPage].offset]
             t == [page |-> cell[vis].page, offset |-> cell[vis].offset]
  <2>1. s \in Place /\ t \in Place /\ NoPlace \in Place /\ NoPlace.page = 0
    BY <1>2, EpubAssumption DEF ViewInv, ViewTypeOK, Cell, Place, NoPlace
  <2>2. saved' = [saved EXCEPT ![F] = s] /\ left' = [left EXCEPT ![F] = IF Settled THEN t ELSE NoPlace]
    BY <1>2 DEF saveReaderState
  <2>3. Settled => ~isFirstLoad /\ s = t
    BY DEF Settled, ViewInv, ViewTypeOK, NothingLoaded, CurrentPageIsShown
  <2>4. saved' \in [Books -> Place] /\ left' \in [Books -> Place]
    BY <2>1, <2>2 DEF ViewInv, ViewTypeOK
  <2>5. isFirstLoad => left'[F].page = 0
    BY <1>0, <2>1, <2>2, <2>3 DEF ViewInv, ViewTypeOK
  <2>6. ASSUME NEW f \in Books, left'[f].page # 0 PROVE left'[f] = saved'[f]
    <3>1. CASE f = F
      BY <1>0, <2>1, <2>2, <2>3, <2>6, <3>1 DEF ViewInv, ViewTypeOK
    <3>2. CASE f # F
      BY <2>2, <2>6, <3>2 DEF ViewInv, ViewTypeOK, LeftIsSaved
    <3> QED
      BY <3>1, <3>2
  <2> QED
    BY <2>4, <2>5, <2>6
<1> QED
  BY <1>1, <1>2

\* Every step keeps the view.
LEMMA ViewStep == FilesInv /\ ViewInv /\ [EpubNext]_vars => ViewInv'
<1> SUFFICES ASSUME FilesInv, ViewInv, [EpubNext]_vars PROVE ViewInv'
  OBVIOUS
<1>0. ViewTypeOK /\ F \in Books
  BY DEF ViewInv, FilesInv, FilesTypeOK, F
<1>1. CASE \/ \E b \in Books : Download(b) \/ Delete(b) \/ Open(b)
           \/ PurgeCaches \/ CheckFails \/ CheckUnzipped \/ StartUnzip \/ Unzip \/ Parse \/ ParseThrows
  <2>1. /\ UNCHANGED <<saved, left, viewVars>> /\ phase # "ready"
        /\ phase' \in Opening \union {"closed", "failed"}
    BY <1>1 DEF Download, Delete, Open, PurgeCaches, CheckFails, CheckUnzipped, StartUnzip, Unzip,
                Parse, ParseThrows, Between, Opening
  <2>2. openings' \in Nat /\ shouldRemoveEpub' \in BOOLEAN
    BY <1>0, <1>1 DEF ViewTypeOK, Download, Delete, Open, PurgeCaches, CheckFails, CheckUnzipped,
                      StartUnzip, Unzip, Parse, ParseThrows
  <2> QED
    BY <2>1, <2>2, NothingShown
<1>2. CASE DismissFailed \/ Kill \/ ParseTraps
  BY <1>0, <1>2, ReaderGone DEF DismissFailed, Kill, ParseTraps, ViewTypeOK, ViewInv, LeftIsSaved
<1>3. CASE Close
  BY <1>3, Saved, ReaderGone DEF Close, LeftIsSaved
<1>4. CASE SaveState
  <2>1. UNCHANGED <<title, dir, asked, phase, openings, shouldRemoveEpub, cell, vis, isScrolling,
                    currentPage, currentPageNumber, due, isFirstLoad, hasty>>
        /\ phase = "ready" /\ saveReaderState
    BY <1>4 DEF SaveState, fileVars, viewVars
  <2>2. ViewTypeOK' /\ LeftIsSaved'
    BY <1>0, <2>1, Saved DEF ViewTypeOK, LeftIsSaved
  <2>3. FirstIsLeft'
    <3> SUFFICES ASSUME isFirstLoad, ~hasty, left'[F].page \in 1..totalPages
                 PROVE  cell[1].page = left'[F].page
      BY <2>1 DEF FirstIsLeft, F, totalPages, Shown, bookBasePath
    <3>1. left'[F].page # 0
      OBVIOUS
    <3>2. left'[F] = left[F]
      BY <2>1, <3>1, Saved
    <3> QED
      BY <2>1, <3>2 DEF ViewInv, FirstIsLeft
  <2> QED
    BY <2>1, <2>2, <2>3 DEF ViewInv, DueBound, Fresh, NothingLoaded, FirstIsAlone, CurrentPageIsShown
<1>5. CASE reloadData
  <2>0. /\ UNCHANGED <<title, dir, asked, saved, left, openings, shouldRemoveEpub, vis, isScrolling,
                       currentPage, isFirstLoad, hasty>>
        /\ phase = "parsed" /\ phase' = "ready"
    BY <1>5 DEF reloadData, fileVars
  <2>1. Shown \in Books /\ totalPages \in Nat \ {0} /\ 1..totalPages \subseteq Pages
    BY <2>0, FileIsOf, EpubAssumption
    DEF FilesInv, FilesTypeOK, HasDirectory, Shown, bookBasePath, F, totalPages, Pages
  <2>2. /\ vis = 1 /\ ~isScrolling /\ isFirstLoad /\ ~hasty /\ cell = [c \in 1..2 |-> NewCell]
    BY <2>0 DEF ViewInv, Fresh
  <2>3. saved[F].page \in Pages \union {0}
    BY <1>0 DEF ViewTypeOK, Place
  <2>4. PICK q \in 1..totalPages : /\ Configure(1, q) /\ due' \in 0..1
                                   /\ saved[F].page \in 1..totalPages => q = saved[F].page
    <3>1. CASE saved[F].page \in 1..totalPages
      BY <1>5, <3>1 DEF reloadData
    <3>2. CASE saved[F].page \notin 1..totalPages
      BY <1>5, <2>1, <3>2 DEF reloadData
    <3> QED
      BY <3>1, <3>2
  <2>5. /\ cell' \in [1..2 -> Cell] /\ cell'[1].page = q /\ cell'[1].load # "loaded"
        /\ cell'[2] = NewCell
    <3>1. q \in Pages /\ cell \in [1..2 -> Cell] /\ cell[2] = NewCell
      BY <1>0, <2>1, <2>2 DEF ViewTypeOK
    <3> QED
      BY <2>4, <3>1, Configured
  <2>6. currentPageNumber' \in Pages \union {0}
    BY <1>5, <2>1, <2>3 DEF reloadData
  <2>7. ViewTypeOK'
    <3>1. due' \in 0..MaxDue
      BY <2>4, EpubAssumption
    <3> QED
      BY <1>0, <2>0, <2>5, <2>6, <3>1 DEF ViewTypeOK
  <2>8. NothingLoaded' /\ FirstIsAlone'
    BY <2>0, <2>2, <2>5 DEF NothingLoaded, FirstIsAlone, NewCell
  <2>9. FirstIsLeft'
    BY <1>0, <2>0, <2>1, <2>4, <2>5
    DEF FirstIsLeft, ViewInv, LeftIsSaved, F, totalPages, Shown, bookBasePath
  <2> QED
    BY <2>0, <2>2, <2>7, <2>8, <2>9
    DEF ViewInv, DueBound, Fresh, LeftIsSaved, CurrentPageIsShown
<1>6. CASE Settle
  <2>0. /\ UNCHANGED <<title, dir, asked, saved, left, phase, openings, shouldRemoveEpub, cell, vis,
                       isScrolling, isFirstLoad, hasty>>
        /\ phase = "ready" /\ due > 0 /\ due' = due - 1
    BY <1>6 DEF Settle, fileVars
  <2>1. PICK c \in IF isScrolling THEN 1..2 ELSE {vis} : currentPage' = c /\ currentPageNumber' = cell[c].page
    BY <1>6 DEF Settle, updateCurrentPage
  <2>2. c \in 1..2 /\ cell[c].page \in Pages \union {0}
    BY <1>0, <2>1 DEF ViewTypeOK, Cell
  <2>3. ViewTypeOK'
    BY <1>0, <2>0, <2>1, <2>2, EpubAssumption DEF ViewTypeOK
  <2>4. DueBound'
    BY <1>0, <2>0, EpubAssumption DEF ViewInv, DueBound, ViewTypeOK
  <2>5. FirstIsLeft' /\ CurrentPageIsShown'
    BY <2>0, <2>1 DEF ViewInv, FirstIsLeft, F, totalPages, Shown, bookBasePath, CurrentPageIsShown
  <2> QED
    BY <2>0, <2>3, <2>4, <2>5 DEF ViewInv, Fresh, NothingLoaded, FirstIsAlone, LeftIsSaved
<1>7. CASE EndDrag
  <2>0. /\ UNCHANGED <<title, dir, asked, saved, left, phase, openings, shouldRemoveEpub, cell,
                       currentPage, currentPageNumber, isFirstLoad, hasty>>
        /\ phase = "ready" /\ isScrolling /\ ~isScrolling' /\ vis' \in 1..2 /\ due' = due + 1
        /\ isScrolling' \in BOOLEAN
    BY <1>7 DEF EndDrag, fileVars
  <2>1. due' \in 0..MaxDue /\ due' # 0
    BY <1>0, <2>0, EpubAssumption DEF ViewInv, DueBound, ViewTypeOK
  <2>2. ViewTypeOK'
    BY <1>0, <2>0, <2>1 DEF ViewTypeOK
  <2>3. FirstIsAlone' /\ FirstIsLeft'
    BY <2>0 DEF ViewInv, FirstIsAlone, FirstIsLeft
  <2> QED
    BY <2>0, <2>1, <2>2, <2>3 DEF ViewInv, DueBound, Fresh, NothingLoaded, LeftIsSaved, CurrentPageIsShown
<1>8. CASE \E q \in Pages : BeginDrag(q) \/ SelectChapter(q)
  <2> SUFFICES ASSUME NEW q \in Pages, BeginDrag(q) \/ SelectChapter(q) PROVE ViewInv'
    BY <1>8
  <2>0. /\ UNCHANGED <<title, dir, asked, saved, left, phase, openings, shouldRemoveEpub,
                       currentPage, currentPageNumber, isFirstLoad>>
        /\ phase = "ready" /\ due < MaxDue /\ hasty' = (hasty \/ isFirstLoad)
        /\ isScrolling' \/ due' # 0
    BY <1>0 DEF BeginDrag, SelectChapter, fileVars, ViewTypeOK
  <2>1. due' \in 0..MaxDue /\ (isScrolling' => due' < MaxDue) /\ isScrolling' \in BOOLEAN
    <3>1. due \in 0..MaxDue /\ MaxDue \in Nat
      BY <1>0, EpubAssumption DEF ViewTypeOK
    <3>2. CASE BeginDrag(q)
      BY <2>0, <3>1, <3>2 DEF BeginDrag
    <3>3. CASE SelectChapter(q)
      <4>1. ~isScrolling /\ isScrolling' = isScrolling /\ due' = due + 1
        BY <3>3 DEF SelectChapter
      <4> QED
        BY <1>0, <2>0, <3>1, <4>1 DEF ViewTypeOK
    <3> QED
      BY <3>2, <3>3
  <2>2. Other \in 1..2 /\ Other # vis
    BY <1>0 DEF ViewTypeOK, Other
  <2>3. /\ cell' \in [1..2 -> Cell] /\ vis' \in 1..2
        /\ \A c \in 1..2 : cell[c].load # "loaded" => cell'[c].load # "loaded"
    <3>1. CASE cell' = cell /\ vis' = vis
      BY <1>0, <3>1 DEF ViewTypeOK
    <3>2. CASE Configure(Other, q) /\ vis' \in {vis, Other}
      BY <1>0, <2>2, <3>2, Configured DEF ViewTypeOK
    <3> QED
      BY <3>1, <3>2 DEF BeginDrag, SelectChapter
  <2>4. hasty' \in BOOLEAN /\ (isFirstLoad => hasty') /\ (hasty => hasty')
    BY <1>0, <2>0 DEF ViewTypeOK
  <2>5. ViewTypeOK'
    BY <1>0, <2>0, <2>1, <2>3, <2>4 DEF ViewTypeOK
  <2>6. NothingLoaded'
    BY <2>0, <2>3 DEF ViewInv, NothingLoaded
  <2> QED
    BY <2>0, <2>1, <2>4, <2>5, <2>6
    DEF ViewInv, DueBound, Fresh, FirstIsAlone, FirstIsLeft, LeftIsSaved, CurrentPageIsShown
<1>9. CASE \E o \in 0..MaxOffset : Scroll(o)
  <2> SUFFICES ASSUME NEW o \in 0..MaxOffset, Scroll(o) PROVE ViewInv'
    BY <1>9
  <2>0. /\ UNCHANGED <<title, dir, asked, saved, left, phase, openings, shouldRemoveEpub, vis,
                       isScrolling, currentPage, currentPageNumber, due, isFirstLoad, hasty>>
        /\ phase = "ready" /\ cell[vis].load = "loaded"
        /\ cell' = [cell EXCEPT ![vis] = [page |-> @.page, load |-> @.load, offset |-> o]]
    BY DEF Scroll, fileVars
  <2>1. ~isFirstLoad
    BY <1>0, <2>0 DEF ViewInv, NothingLoaded, ViewTypeOK
  <2>2. cell' \in [1..2 -> Cell] /\ \A c \in 1..2 : cell'[c].page = cell[c].page
    BY <1>0, <2>0 DEF ViewTypeOK, Cell
  <2>3. ViewTypeOK'
    BY <1>0, <2>0, <2>2 DEF ViewTypeOK
  <2>4. CurrentPageIsShown'
    BY <1>0, <2>0, <2>2 DEF ViewInv, CurrentPageIsShown, ViewTypeOK
  <2> QED
    BY <2>0, <2>1, <2>3, <2>4
    DEF ViewInv, DueBound, Fresh, NothingLoaded, FirstIsAlone, FirstIsLeft, LeftIsSaved
<1>10. CASE \E c \in 1..2 : pageDidLoad(c)
  <2> SUFFICES ASSUME NEW c \in 1..2, pageDidLoad(c) PROVE ViewInv'
    BY <1>10
  <2>0. /\ UNCHANGED <<title, dir, asked, saved, left, phase, openings, shouldRemoveEpub, vis,
                       isScrolling, due, hasty>>
        /\ phase = "ready" /\ cell[c].load = "loading" /\ ~isFirstLoad' /\ isFirstLoad' \in BOOLEAN
    BY DEF pageDidLoad, fileVars
  <2>1. PICK o \in 0..MaxOffset :
          cell' = [cell EXCEPT ![c] = [page |-> @.page, load |-> "loaded", offset |-> o]]
    <3>1. saved[F].offset \in 0..MaxOffset
      BY <1>0 DEF ViewTypeOK, Place
    <3>2. LoadedAt \subseteq 0..MaxOffset
      BY EpubAssumption DEF LoadedAt
    <3> QED
      BY <3>1, <3>2 DEF pageDidLoad
  <2>2. cell' \in [1..2 -> Cell] /\ \A d \in 1..2 : cell'[d].page = cell[d].page
    BY <1>0, <2>1, Loaded DEF ViewTypeOK
  <2>3. CASE isFirstLoad
    <3>1. currentPage' = c /\ currentPageNumber' = cell[c].page
      BY <2>3 DEF pageDidLoad, updateCurrentPage
    <3>2. currentPageNumber' \in Pages \union {0}
      BY <1>0, <3>1 DEF ViewTypeOK, Cell
    <3>3. ViewTypeOK'
      BY <1>0, <2>0, <2>2, <3>1, <3>2 DEF ViewTypeOK
    <3>4. ~hasty => c = vis
      BY <2>0, <2>3 DEF ViewInv, FirstIsAlone
    <3>5. CurrentPageIsShown'
      BY <1>0, <2>0, <2>2, <3>1, <3>4 DEF CurrentPageIsShown, ViewTypeOK
    <3> QED
      BY <2>0, <3>3, <3>5 DEF ViewInv, DueBound, Fresh, NothingLoaded, FirstIsAlone, FirstIsLeft, LeftIsSaved
  <2>4. CASE ~isFirstLoad
    <3>1. UNCHANGED <<currentPage, currentPageNumber>>
      BY <2>4 DEF pageDidLoad
    <3>2. ViewTypeOK'
      BY <1>0, <2>0, <2>2, <3>1 DEF ViewTypeOK
    <3>3. CurrentPageIsShown'
      BY <1>0, <2>0, <2>2, <2>4, <3>1 DEF ViewInv, CurrentPageIsShown, ViewTypeOK
    <3> QED
      BY <2>0, <3>2, <3>3 DEF ViewInv, DueBound, Fresh, NothingLoaded, FirstIsAlone, FirstIsLeft, LeftIsSaved
  <2> QED
    BY <2>3, <2>4
<1>11. CASE UNCHANGED vars
  BY <1>11 DEF vars, fileVars, viewVars, ViewInv, ViewTypeOK, DueBound, Fresh, NothingLoaded,
               FirstIsAlone, FirstIsLeft, LeftIsSaved, CurrentPageIsShown, F, totalPages, Shown, bookBasePath
<1> QED
  BY <1>1, <1>2, <1>3, <1>4, <1>5, <1>6, <1>7, <1>8, <1>9, <1>10, <1>11 DEF EpubNext, Load, Proceed, Happen

FormOK == form \in [Books -> Forms]

EpubInv == FilesInv /\ ViewInv /\ FormOK

\* No step changes how an archive is made.
LEMMA FormStep == FormOK /\ [EpubNext]_vars => FormOK'
<1> SUFFICES ASSUME FormOK, [EpubNext]_vars PROVE form' = form
  BY DEF FormOK
<1> QED
  BY DEF EpubNext, Load, Proceed, Happen, vars, Download, Delete, PurgeCaches, Open, CheckFails,
     CheckUnzipped, StartUnzip, Unzip, Parse, ParseThrows, ParseTraps, DismissFailed, Close, Kill,
     reloadData, Settle, BeginDrag, EndDrag, SelectChapter, Scroll, pageDidLoad, SaveState

\* All of it is kept in every state.
LEMMA EpubHolds == EpubSteps => []EpubInv
<1>1. EpubInit => EpubInv
  BY FilesStart, ViewStart DEF EpubInit, EpubInv, FormOK
<1>2. EpubInv /\ [EpubNext]_vars => EpubInv'
  BY FilesStep, ViewStep, FormStep DEF EpubInv
<1> QED
  BY <1>1, <1>2, PTL DEF EpubSteps

\* The state is what it is said to be; in particular an update of the current
\* page never comes on top of MaxDue.
THEOREM EpubTypeCorrect == EpubSpec => []EpubTypeOK
<1>1. EpubInv => EpubTypeOK
  BY DEF EpubInv, FormOK, FilesInv, FilesTypeOK, ViewInv, ViewTypeOK, EpubTypeOK
<1> QED
  BY <1>1, EpubHolds, PTL DEF EpubSpec

\* A step with which the first chapter has loaded.
Resumes ==
  isFirstLoad /\ ~isFirstLoad' /\ phase' = "ready" =>
    \/ left[F].page = 0 \/ hasty \/ left[F].page > totalPages
    \/ /\ cell'[currentPage'].page = left[F].page
       /\ cell'[currentPage'].offset = left[F].offset

LEMMA ResumingStep == EpubInv /\ [EpubNext]_vars => [Resumes]_vars
<1> SUFFICES ASSUME EpubInv, [EpubNext]_vars, isFirstLoad, ~isFirstLoad', phase' = "ready",
                    left[F].page # 0, ~hasty, ~(left[F].page > totalPages)
             PROVE  /\ cell'[currentPage'].page = left[F].page
                    /\ cell'[currentPage'].offset = left[F].offset
  BY DEF Resumes
<1>1. ~UNCHANGED isFirstLoad /\ phase' # "closed"
  OBVIOUS
<1>2. PICK c \in 1..2 : pageDidLoad(c)
  BY <1>1 DEF EpubNext, Load, Proceed, Happen, vars, viewVars, Download, Delete, PurgeCaches, Open, CheckFails,
     CheckUnzipped, StartUnzip, Unzip, Parse, ParseThrows, ParseTraps, DismissFailed, Close, Kill, Gone, reloadData, Settle,
     BeginDrag, EndDrag, SelectChapter, Scroll, SaveState
<1>3. /\ phase = "ready" /\ cell[c].load = "loading" /\ cell \in [1..2 -> Cell]
      /\ currentPage' = c
  BY <1>2 DEF pageDidLoad, updateCurrentPage, EpubInv, ViewInv, ViewTypeOK
<1>4. c = 1 /\ ~isScrolling
  BY <1>3 DEF EpubInv, ViewInv, FirstIsAlone
<1>5. /\ F \in Books /\ left[F] \in Place /\ saved[F] \in Place /\ left[F] = saved[F]
  BY DEF EpubInv, FilesInv, FilesTypeOK, F, ViewInv, ViewTypeOK, LeftIsSaved
<1>6. totalPages \in Nat /\ Pages \subseteq Nat \ {0}
  BY <1>3, FileIsOf, EpubAssumption
  DEF EpubInv, FilesInv, FilesTypeOK, HasDirectory, Shown, bookBasePath, F, totalPages, Pages
<1>7. left[F].page \in 1..totalPages
  <2>1. left[F].page \in Pages \union {0}
    BY <1>5 DEF Place
  <2>2. left[F].page \in Nat \ {0}
    BY <1>6, <2>1
  <2> QED
    BY <1>6, <2>2
<1>8. cell[1].page = left[F].page
  BY <1>3, <1>7 DEF EpubInv, ViewInv, FirstIsLeft
<1>9. saved[F].offset \in 0..MaxOffset
  BY <1>5 DEF Place
<1>10. cell' = [cell EXCEPT ![c] = [page |-> @.page, load |-> "loaded", offset |-> saved[F].offset]]
  <2>1. CASE saved[F].offset > 0
    BY <1>2, <1>4, <1>5, <1>8, <2>1 DEF pageDidLoad
  <2>2. CASE ~(saved[F].offset > 0)
    <3>1. saved[F].offset = 0
      BY <1>9, <2>2, EpubAssumption
    <3>2. LoadedAt = {0}
      BY <1>4 DEF LoadedAt
    <3> QED
      BY <1>2, <2>2, <3>1, <3>2 DEF pageDidLoad
  <2> QED
    BY <2>1, <2>2
<1> QED
  BY <1>3, <1>4, <1>5, <1>8, <1>10

\* The properties hold whether the queues are fair or not.
LEMMA PropertiesOfSteps ==
  EpubSteps => [](ShowsAskedBook /\ CurrentPageIsShown) /\ ResumesWhereLeft
<1>1. EpubInv => ShowsAskedBook /\ CurrentPageIsShown
  <2>1. FilesInv => ShowsAskedBook
    BY FileIsOf DEF FilesInv, FilesTypeOK, Titled, HasDirectory, ShowsAskedBook, Shown, bookBasePath, F
  <2> QED
    BY <2>1 DEF EpubInv, FilesInv, ViewInv
<1> QED
  BY <1>1, ResumingStep, EpubHolds, PTL DEF EpubSteps, ResumesWhereLeft, Resumes

\* For any titles the books may have, and whatever is downloaded, deleted or
\* unzipped: the reader shows the book it was opened for if no other has its title.
THEOREM AskedBookIsShown == EpubSpec => []ShowsAskedBook
  BY PropertiesOfSteps, PTL DEF EpubSpec

\* For chapters of any number, swiped and chosen in any order: with nothing on its
\* way the current page, which is what is saved, is the chapter on screen.
THEOREM ShownIsCurrent == EpubSpec => []CurrentPageIsShown
  BY PropertiesOfSteps, PTL DEF EpubSpec

\* However often readers were opened, and directories lost, before: the first load
\* is of the chapter that was left, at the offset it was left at.
THEOREM ReopenedWhereLeft == EpubSpec => ResumesWhereLeft
  BY PropertiesOfSteps, PTL DEF EpubSpec

(*------------------------------- the loop -------------------------------*)

\* While nothing was left out and nothing told, the entries that are over are
\* whole; is the current one over, so is it.
WrittenSoFar ==
  success /\ ~excused =>
    /\ \A e \in 1..Entries : e < at => tree[e] = "whole"
    /\ step \in {"written", "next"} => tree[at] = "whole"
    /\ step = "returned" => WholeTree

UnzipInv == UnzipTypeOK /\ WrittenSoFar

\* Before an extraction, and after it.
LEMMA UnzipIdle ==
  /\ Idle => UnzipInv
  /\ Reset => UnzipInv'
<1>1. NoTree \in [1..Entries -> {"absent", "part", "whole"}] /\ 1 \in 1..Entries /\ Entries \in Nat
  BY EntriesAssumption DEF NoTree
<1>2. Idle => UnzipTypeOK
  BY <1>1 DEF Idle, UnzipTypeOK, Steps
<1>3. Reset => UnzipTypeOK'
  BY <1>1 DEF Reset, UnzipTypeOK, Steps
<1> QED
  BY <1>1, <1>2, <1>3 DEF UnzipInv, WrittenSoFar, Idle, Reset

\* The loop is left: success is NO from then on.
LEMMA BreakKeeps ==
  ASSUME UnzipInv, Break, tree' \in [1..Entries -> {"absent", "part", "whole"}], made' \in BOOLEAN
  PROVE  UnzipInv'
<1>1. UnzipTypeOK'
  BY DEF UnzipInv, UnzipTypeOK, Break, Steps
<1> QED
  BY <1>1 DEF UnzipInv, WrittenSoFar, Break

\* The current entry is dealt with.
LEMMA EntryKeeps ==
  ASSUME UnzipInv, at' = at, step' \in Steps \ {"returned"},
         \/ tree' = tree
         \/ tree' = [tree EXCEPT ![at] = "whole"]
         \/ tree' = [tree EXCEPT ![at] = "part"],
         made' \in BOOLEAN, success' \in BOOLEAN, excused' \in BOOLEAN,
         success' => success, excused => excused',
         \/ step' \notin {"written", "next"}
         \/ tree' = [tree EXCEPT ![at] = "whole"]
         \/ step = "written" /\ tree' = tree
         \/ excused' \/ ~success'
  PROVE  UnzipInv'
<1>1. at \in 1..Entries /\ tree \in [1..Entries -> {"absent", "part", "whole"}]
  BY DEF UnzipInv, UnzipTypeOK
<1>2. tree' \in [1..Entries -> {"absent", "part", "whole"}]
  BY <1>1
<1>3. UnzipTypeOK'
  BY <1>1, <1>2 DEF UnzipTypeOK
<1>4. \A e \in 1..Entries : e < at => tree'[e] = tree[e]
  BY <1>1, EntriesAssumption
<1>5. success' /\ ~excused' => success /\ ~excused
  OBVIOUS
<1>6. ASSUME success', ~excused', step' \in {"written", "next"} PROVE tree'[at] = "whole"
  <2>1. CASE tree' = [tree EXCEPT ![at] = "whole"]
    BY <1>1, <2>1
  <2>2. CASE step = "written" /\ tree' = tree
    BY <1>5, <1>6, <2>2 DEF UnzipInv, WrittenSoFar
  <2> QED
    BY <1>6, <2>1, <2>2
<1>7. WrittenSoFar'
  BY <1>1, <1>4, <1>5, <1>6 DEF UnzipInv, WrittenSoFar
<1> QED
  BY <1>3, <1>7 DEF UnzipInv

\* Every step of the loop keeps the invariant.
LEMMA LoopKeeps == UnzipInv /\ Loop => UnzipInv'
<1> SUFFICES ASSUME UnzipInv, Loop PROVE UnzipInv'
  OBVIOUS
<1>0. /\ at \in 1..Entries /\ tree \in [1..Entries -> {"absent", "part", "whole"}]
      /\ made \in BOOLEAN /\ success \in BOOLEAN /\ excused \in BOOLEAN
  BY DEF UnzipInv, UnzipTypeOK
<1>1. CASE EntryFails \/ NoRoom \/ FileFails
  BY <1>0, <1>1, BreakKeeps DEF EntryFails, NoRoom, FileFails
<1>2. CASE SkipFork \/ IsDirectory
  BY <1>0, <1>2, EntryKeeps DEF SkipFork, IsDirectory, Steps
<1>3. CASE CreateDirectory
  <2>1. step' = "named" /\ made' \in BOOLEAN /\ UNCHANGED <<at, tree, success, excused>>
    BY <1>3 DEF CreateDirectory
  <2> QED
    BY <1>0, <2>1, EntryKeeps DEF Steps
<1>4. CASE OpenFile
  <2>1. step' = "file" /\ tree' = [tree EXCEPT ![at] = "part"] /\ UNCHANGED <<at, made, success, excused>>
    BY <1>4 DEF OpenFile
  <2> QED
    BY <1>0, <2>1, EntryKeeps DEF Steps
<1>5. CASE LeaveOut \/ LogFile
  <2>1. /\ UNCHANGED <<at, tree>> /\ made' \in BOOLEAN /\ step' \in {"next", "written"}
        /\ \/ excused' = TRUE /\ success' = success
           \/ success' = FALSE /\ excused' = excused
    BY <1>0, <1>5 DEF LeaveOut, LogFile
  <2>2. CASE excused' = TRUE /\ success' = success
    BY <1>0, <2>1, <2>2, EntryKeeps DEF Steps
  <2>3. CASE success' = FALSE /\ excused' = excused
    BY <1>0, <2>1, <2>3, EntryKeeps DEF Steps
  <2> QED
    BY <2>1, <2>2, <2>3
<1>6. CASE IsLink \/ WriteFile
  <2>1. CASE Break /\ UNCHANGED <<tree, made>>
    BY <1>0, <2>1, BreakKeeps
  <2>2. CASE /\ step' = "written" /\ success' = FALSE /\ UNCHANGED <<at, tree, made, excused>>
    BY <1>0, <2>2, EntryKeeps DEF Steps
  <2>3. CASE /\ step' = "written" /\ tree' = [tree EXCEPT ![at] = "whole"]
             /\ UNCHANGED <<at, made, success, excused>>
    BY <1>0, <2>3, EntryKeeps DEF Steps
  <2>4. CASE /\ step' = "written" /\ excused' = TRUE /\ UNCHANGED <<at, tree, made, success>>
    BY <1>0, <2>4, EntryKeeps DEF Steps
  <2> QED
    BY <1>6, <2>1, <2>2, <2>3, <2>4 DEF IsLink, WriteFile
<1>7. CASE CloseFile
  <2>1. CASE step' = "next" /\ UNCHANGED <<at, tree, success, excused>>
    BY <1>0, <1>7, <2>1, EntryKeeps DEF CloseFile, Steps
  <2>2. CASE Break
    BY <1>0, <1>7, <2>2, BreakKeeps DEF CloseFile, Break
  <2> QED
    BY <1>7, <2>1, <2>2 DEF CloseFile
<1>8. CASE NextEntry
  <2>0. step = "next" /\ UNCHANGED <<tree, made, success>>
    BY <1>8 DEF NextEntry
  <2>1. CASE success /\ at < Entries /\ at' = at + 1 /\ step' = "entry" /\ UNCHANGED excused
    <3>1. at' \in 1..Entries /\ \A e \in 1..Entries : e < at' => e < at \/ e = at
      BY <1>0, <2>1, EntriesAssumption
    <3> QED
      BY <1>0, <2>0, <2>1, <3>1 DEF UnzipInv, UnzipTypeOK, WrittenSoFar, Steps
  <2>2. CASE step' = "returned" /\ excused' = TRUE /\ UNCHANGED at
    BY <1>0, <2>0, <2>2 DEF UnzipInv, UnzipTypeOK, WrittenSoFar, Steps
  <2>3. CASE (~success \/ at = Entries) /\ step' = "returned" /\ UNCHANGED <<at, excused>>
    <3>1. at = Entries => \A e \in 1..Entries : e < at \/ e = at
      BY <1>0, EntriesAssumption
    <3>2. UnzipTypeOK'
      BY <1>0, <2>0, <2>3 DEF UnzipTypeOK, Steps
    <3>3. WrittenSoFar'
      BY <1>0, <2>0, <2>3, <3>1 DEF UnzipInv, WrittenSoFar, WholeTree
    <3> QED
      BY <3>2, <3>3 DEF UnzipInv
  <2> QED
    BY <1>8, <2>1, <2>2, <2>3 DEF NextEntry
<1> QED
  BY <1>1, <1>2, <1>3, <1>4, <1>5, <1>6, <1>7, <1>8 DEF Loop

(*------------------------- the reader it works for ----------------------*)

\* While an extraction is going on, EpubReader has its directory in part.
Extracting == phase = "unzipping" => dir[F] = [of |-> Shown, whole |-> FALSE]

OpenInv == FilesInv /\ Extracting /\ UnzipInv

\* What the loop leaves is what EpubReader says an extraction leaves.
LEMMA LeaveExtracts == Extracting /\ phase = "unzipping" /\ Leave => Extracts
<1> SUFFICES ASSUME Extracting, phase = "unzipping", Leave PROVE Extracts
  OBVIOUS
<1>1. WholeTree \in BOOLEAN
  BY DEF WholeTree
<1>2. Extracted \in {NoFile, dir[bookBasePath], [of |-> Shown, whole |-> TRUE]}
  BY <1>1 DEF Extracted, Extracting, bookBasePath
<1> QED
  BY <1>2 DEF Leave, Extracts

\* A step of the composition is a step of EpubReader, or none of its own.
LEMMA StepImplements == Extracting /\ [OpenNext]_openVars => [EpubNext]_vars
<1> SUFFICES ASSUME Extracting, [OpenNext]_openVars PROVE [EpubNext]_vars
  OBVIOUS
<1>1. CASE Begin
  BY <1>1 DEF Begin, EpubNext, Load
<1>2. CASE Return
  <2>1. Unzip
    BY <1>2, LeaveExtracts DEF Return, Unzip
  <2> QED
    BY <2>1 DEF EpubNext, Load
<1>3. CASE Stop
  <2>1. Kill
    BY <1>3, LeaveExtracts DEF Stop, Kill
  <2> QED
    BY <2>1 DEF EpubNext
<1>4. CASE Proceed
  BY <1>4 DEF EpubNext, Load
<1>5. CASE Happen
  BY <1>5 DEF EpubNext
<1>6. CASE UNCHANGED vars
  BY <1>6
<1>7. CASE UNCHANGED openVars
  BY <1>7 DEF openVars
<1> QED
  BY <1>1, <1>2, <1>3, <1>4, <1>5, <1>6, <1>7 DEF OpenNext, Work

\* Only Begin has an extraction going on that was not before.
LEMMA ExtractingStep == FilesInv /\ Extracting /\ [OpenNext]_openVars => Extracting'
<1> SUFFICES ASSUME FilesInv, Extracting, [OpenNext]_openVars, phase' = "unzipping"
             PROVE  dir'[F'] = [of |-> Shown', whole |-> FALSE]
  BY DEF Extracting
<1>1. CASE Begin
  <2> DEFINE d == [of |-> archive[F].of, whole |-> FALSE]
  <2>1. UNCHANGED <<title, asked>> /\ dir' = [dir EXCEPT ![F] = d]
    BY <1>1 DEF Begin, StartUnzip, bookBasePath
  <2>2. F' = F /\ F \in Books /\ dir \in [Books -> File]
    BY <2>1 DEF F, FilesInv, FilesTypeOK
  <2>3. dir'[F'] = d
    BY <2>1, <2>2
  <2> QED
    BY <2>3 DEF Shown, bookBasePath
<1>2. CASE UNCHANGED vars
  BY <1>2 DEF vars, fileVars, Extracting, F, Shown, bookBasePath
<1>3. CASE Return \/ Stop \/ Proceed
  BY <1>3 DEF Return, Stop, Gone, Proceed, CheckFails, CheckUnzipped, Parse, ParseThrows, ParseTraps, reloadData
<1>4. CASE Happen
  BY <1>4 DEF Happen, Download, Delete, Open, PurgeCaches, Between, DismissFailed, Gone, SaveState,
       Close, Settle, EndDrag, BeginDrag, SelectChapter, Scroll, pageDidLoad
<1> QED
  BY <1>1, <1>2, <1>3, <1>4 DEF OpenNext, Work, openVars

\* All of it is kept.
LEMMA OpenHolds == OpenSpec => []OpenInv /\ EpubSteps
<1>1. OpenInit => OpenInv /\ EpubInit
  BY FilesStart, UnzipIdle DEF OpenInit, OpenInv, Extracting, EpubInit
<1>2. OpenInv /\ [OpenNext]_openVars => OpenInv' /\ [EpubNext]_vars
  <2> SUFFICES ASSUME OpenInv, [OpenNext]_openVars PROVE OpenInv' /\ [EpubNext]_vars
    OBVIOUS
  <2>1. [EpubNext]_vars /\ Extracting'
    BY StepImplements, ExtractingStep DEF OpenInv
  <2>2. FilesInv'
    BY <2>1, FilesStep DEF OpenInv
  <2>3. UnzipInv'
    <3>1. CASE Loop
      BY <3>1, LoopKeeps DEF OpenInv
    <3>2. CASE Reset
      BY <3>2, UnzipIdle
    <3>3. CASE Begin
      BY <3>3 DEF Begin, OpenInv, UnzipInv, UnzipTypeOK, WrittenSoFar, WholeTree, Steps
    <3>4. CASE UNCHANGED unzipVars
      BY <3>4 DEF unzipVars, OpenInv, UnzipInv, UnzipTypeOK, WrittenSoFar, WholeTree
    <3> QED
      BY <3>1, <3>2, <3>3, <3>4 DEF OpenNext, Work, Return, Stop, openVars
  <2> QED
    BY <2>1, <2>2, <2>3 DEF OpenInv
<1> QED
  BY <1>1, <1>2, PTL DEF OpenSpec, EpubSteps

\* For any number of entries, however each of them fares: unzipFile returns YES
\* only if the whole book was written or one of its four exceptions was made.
THEOREM ToldUnlessWhole == OpenSpec => []ToldIfPart
<1>1. OpenInv => ToldIfPart
  BY DEF OpenInv, UnzipInv, WrittenSoFar, ToldIfPart
<1> QED
  BY <1>1, OpenHolds, PTL

\* Reading entry by entry, with a disk that may be full and a process that may be
\* stopped at each, implements EpubReader.
THEOREM UnzipImplements == OpenSpec => OpensAsSpecified
  BY OpenHolds, PTL DEF EpubSteps, OpensAsSpecified

\* So the properties proved of EpubReader hold of the composition.
THEOREM ReaderPropertiesKept ==
  OpenSpec => /\ [](ShowsAskedBook /\ CurrentPageIsShown)
              /\ ResumesWhereLeft
  BY OpenHolds, PropertiesOfSteps, PTL
=============================================================================
