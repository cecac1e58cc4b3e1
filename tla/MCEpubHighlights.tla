-------------------------- MODULE MCEpubHighlights --------------------------
(* A small instance of EpubHighlights.  Neither highlights nor chapters are *)
(* told apart by their names, and no property is about liveness.           *)
EXTENDS EpubHighlights, TLC

Symmetry == Permutations(Ids) \union Permutations(Pages)
=============================================================================
