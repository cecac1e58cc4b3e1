------------------------------ MODULE MCReader ------------------------------
(* Small instances of Reader. *)
EXTENDS Reader, TLC

CONSTANTS Stored, ReadBefore  \* a call, and the opening whose position it stored

Symmetry == Permutations(Calls \ {Stored})

\* The state after one process has had a book read from its detail page and has
\* stored the position: ReaderInit reaches it with more calls.
AgainInit ==
  \E k \in Books :
    /\ file = {[key |-> k, oid |-> Stored, by |-> Stored]}
    /\ pc = [c \in Calls |-> IF c = Stored THEN "returned" ELSE "idle"]
    /\ method = [c \in Calls |-> "EbookLocator.updateItem"]
    /\ key = [c \in Calls |-> k]
    /\ mem = [c \in Calls |-> {}] /\ result = [c \in Calls |-> {}]
    /\ before = [c \in Calls |-> {}]
    /\ wrote = [c \in Calls |-> IF c = Stored THEN "inserted" ELSE "none"]
    /\ removed = [c \in Calls |-> {}]
    /\ todo = <<>> /\ then = [c \in Calls |-> After("saved", ReadBefore)]
    /\ pages = <<>> /\ readers = <<>> /\ reports = <<>>
    /\ stage = [o \in Openings |-> IF o = ReadBefore THEN "opened" ELSE "unused"]
    /\ book = [o \in Openings |-> k]
    /\ pageOf = [o \in Openings |-> 0] /\ fromList = {}
    /\ start = [o \in Openings |-> {}]
    /\ listener = NoOpening /\ overtaken = {}

AgainSpec == AgainInit /\ [][ReaderNext]_allVars
=============================================================================
