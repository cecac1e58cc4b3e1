----------------------------- MODULE RequestView -----------------------------
(***************************************************************************)
(* What a view that answers requests promises: requests are numbered as    *)
(* they are asked, the view shows the answer to one of them or none, and   *)
(* once an answer is shown no answer to an earlier request ever replaces   *)
(* it.  A view may skip answers, show nothing between two of them, and     *)
(* stay empty when an answer is of no use.                                 *)
(***************************************************************************)
EXTENDS Naturals

VARIABLES asked,   \* how many requests there have been
          newest,  \* the latest request whose turn it has been
          shown    \* the request whose answer is shown, 0: none

view == <<asked, newest, shown>>

ViewInit == asked = 0 /\ newest = 0 /\ shown = 0

Ask == asked' = asked + 1 /\ UNCHANGED <<newest, shown>>

\* The turn passes to a later request; what was shown may be taken away.
Advance ==
  /\ newest' \in newest + 1 .. asked
  /\ shown' \in {0, shown}
  /\ UNCHANGED asked

Show ==
  /\ newest' \in newest .. asked /\ newest' > 0
  /\ shown' = newest'
  /\ UNCHANGED asked

ViewNext == Ask \/ Advance \/ Show

ViewSpec == ViewInit /\ [][ViewNext]_view
=============================================================================
