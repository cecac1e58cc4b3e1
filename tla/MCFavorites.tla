----------------------------- MODULE MCFavorites -----------------------------
(* Small instances of Favorites. *)
EXTENDS Favorites, TLC

CONSTANTS Stored  \* calls of an earlier process that have added a favourite

Symmetry == Permutations(Calls \ Stored)

\* The state after one process has made a different book a favourite in each of
\* the Stored calls, one after the other, and has been stopped: FavInit reaches
\* it with more calls.
VisitInit ==
  \E keyOf \in [Stored -> Keys], turn \in [Stored -> 1..Cardinality(Stored)] :
    /\ \A a, b \in Stored : a # b => keyOf[a] # keyOf[b] /\ turn[a] # turn[b]
    /\ file = {[key |-> keyOf[a], oid |-> a, by |-> a] : a \in Stored}
    /\ pc = [c \in Calls |-> IF c \in Stored THEN "returned" ELSE "idle"]
    /\ method = [c \in Calls |-> "EbookFavorite.addFavorites"]
    /\ key = [c \in Calls |-> IF c \in Stored THEN keyOf[c] ELSE CHOOSE k \in Keys : TRUE]
    /\ mem = [c \in Calls |-> {}] /\ result = [c \in Calls |-> {}]
    /\ before = [c \in Calls |-> {a \in Stored : c \in Stored /\ turn[a] < turn[c]}]
    /\ wrote = [c \in Calls |-> IF c \in Stored THEN "inserted" ELSE "none"]
    /\ removed = [c \in Calls |-> {}]
    /\ todo = <<>> /\ then = [c \in Calls |-> "checkFav"]
    /\ pages = <<>> /\ favorite = FALSE /\ checked = {}
    /\ list = NoDocuments /\ loading = TRUE /\ stacked = FALSE

\* The state after the page of a book was opened and has been answered, in a
\* Stored call, that the book is not a favourite: FavInit reaches it with more
\* calls.
PageInit ==
  \E a \in Stored, k \in Keys :
    /\ file = {} /\ mem = [c \in Calls |-> {}] /\ result = mem /\ removed = mem /\ before = mem
    /\ pc = [c \in Calls |-> IF c = a THEN "returned" ELSE "idle"]
    /\ method = [c \in Calls |-> "EbookFavorite.check"]
    /\ key = [c \in Calls |-> k] /\ wrote = [c \in Calls |-> "none"]
    /\ todo = <<>> /\ then = [c \in Calls |-> "setFav"]
    /\ pages = <<k>> /\ favorite = FALSE /\ checked = {a}
    /\ list = NoDocuments /\ loading = TRUE /\ stacked = FALSE

VisitSpec == (VisitInit \/ PageInit) /\ [][FavNext]_allVars
=============================================================================
