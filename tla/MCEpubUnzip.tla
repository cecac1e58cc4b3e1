---------------------------- MODULE MCEpubUnzip ----------------------------
(* A small instance of EpubUnzip, and of EpubReader in it. *)
EXTENDS EpubUnzip, TLC

CONSTANTS b1, b2

\* The second book is shorter.
ChaptersOf == b1 :> 2 @@ b2 :> 1

\* Either both books have one title and are sound, and all openings are to come;
\* or each has its own, and all but the last are over: they have left the files
\* of the first book, of any form, somehow, as they can from EpubInit.
FilesInit ==
  /\ Idle
  /\ \/ EpubInit /\ title[b1] = title[b2] /\ form = [b \in Books |-> "sound"]
     \/ \E w, u \in BOOLEAN, a, d \in {b1, NoBook} :
          /\ title = [b \in Books |-> b] /\ form \in [Books -> Forms] /\ form[b2] = "sound"
          /\ archive = [f \in Books |-> IF f = b1 /\ a = b1 THEN [of |-> b1, whole |-> w] ELSE NoFile]
          /\ dir = [f \in Books |-> IF f = b1 /\ d = b1 THEN [of |-> b1, whole |-> u] ELSE NoFile]
          /\ openings = MaxOpenings - 1
          /\ saved = [f \in Books |-> NoPlace] /\ left = saved
          /\ phase = "closed" /\ asked = (CHOOSE b \in Books : TRUE) /\ shouldRemoveEpub = FALSE
          /\ cell = [c \in 1..2 |-> NewCell] /\ vis = 1 /\ isScrolling = FALSE
          /\ currentPage = 0 /\ currentPageNumber = 0 /\ due = 0
          /\ isFirstLoad = TRUE /\ hasty = FALSE

FilesSpec == FilesInit /\ [][OpenNext]_openVars /\ WF_openVars(Work)
=============================================================================
