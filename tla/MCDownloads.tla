----------------------------- MODULE MCDownloads -----------------------------
(* Small instances of Downloads. *)
EXTENDS Downloads, TLC

CONSTANTS Stored  \* calls of an earlier process

Symmetry == Permutations(Calls \ Stored) \union Permutations(Tasks)

\* Injections from S into T.
Injections(S, T) == {g \in [S -> T] : \A a, b \in S : g[a] = g[b] => a = b}

\* The state after one process has downloaded a different book in one or all of
\* the Stored calls, one after the other, and has been stopped, in the check()
\* of a detail page if not in all: DownInit reaches it with more calls.  The
\* books have titles of their own or, if both are recorded, all the same one.
VisitInit ==
  \E S \in {Stored, {CHOOSE a \in Stored : TRUE}},
     keyOf \in Injections(Stored, Keys), taskOf \in Injections(Stored, Tasks),
     turn \in Injections(Stored, 1..Cardinality(Stored)) :
    LET done == {taskOf[a] : a \in S}
        shelved == {keyOf[a] : a \in S}
    IN /\ \A a \in S, b \in Stored \ S : turn[a] < turn[b]
       /\ file = {[key |-> keyOf[a], oid |-> a, by |-> a] : a \in S}
       /\ pc = [c \in Calls |-> IF c \in S THEN "returned"
                               ELSE IF c \in Stored THEN "killed" ELSE "idle"]
       /\ method = [c \in Calls |-> IF c \in Stored \ S THEN "EbookDownload.check"
                                    ELSE "EbookDownload.addDownload"]
       /\ key = [c \in Calls |-> IF c \in Stored THEN keyOf[c] ELSE CHOOSE k \in Keys : TRUE]
       /\ mem = [c \in Calls |-> {}] /\ result = [c \in Calls |-> {}]
       /\ before = [c \in Calls |-> {a \in Stored : c \in Stored /\ turn[a] < turn[c]}]
       /\ wrote = [c \in Calls |-> IF c \in S THEN "inserted" ELSE "none"]
       /\ removed = [c \in Calls |-> {}]
       /\ todo = <<>>
       /\ then = [c \in Calls |-> IF c \in S THEN After("checkDownload", taskOf[c], 0)
                                  ELSE After("probe", NoTask, 0)]
       /\ routes = <<>> /\ rows = <<>> /\ deleting = {} /\ gone = {} /\ crossed = FALSE
       /\ stage = [t \in Tasks |-> IF t \in done THEN "recorded" ELSE "unused"]
       /\ book = [t \in Tasks |-> IF t \in done
                    THEN keyOf[CHOOSE a \in S : taskOf[a] = t]
                    ELSE CHOOSE k \in Keys : TRUE]
       /\ pageOf = [t \in Tasks |-> 0]
       /\ \/ title = [k \in Keys |-> k]
          \/ S = Stored /\ title = [k \in Keys |-> CHOOSE j \in Keys : TRUE]
       /\ fs = [k \in Keys |-> IF \E j \in shelved : title[j] = k THEN "whole" ELSE "absent"]
       /\ sole = {} /\ together = {} /\ received = done
       /\ downloaded = FALSE /\ probing = {} /\ checked = {}

\* The state after a process was stopped in two check() calls and a second one
\* has opened the page of a book, in call c, and been answered that the book is
\* not downloaded: DownInit reaches it with more calls.  All books have one title.
PageInit ==
  \E a, b \in Stored, c \in Calls \ Stored :
    LET k == CHOOSE j \in Keys : TRUE
        past == <<a, b, c>>
    IN /\ Stored = {a, b} /\ a # b
       /\ file = {} /\ mem = [d \in Calls |-> {}] /\ result = mem /\ removed = mem
       /\ pc = [d \in Calls |-> IF d = c THEN "returned"
                               ELSE IF d \in Stored THEN "killed" ELSE "idle"]
       /\ method = [d \in Calls |-> IF d \in {a, b, c} THEN "EbookDownload.check"
                                    ELSE "EbookDownload.addDownload"]
       /\ key = [d \in Calls |-> k]
       /\ before = [d \in Calls |->
                      {past[i] : i \in {j \in 1..3 : \E l \in j + 1..3 : past[l] = d}}]
       /\ wrote = [d \in Calls |-> "none"]
       /\ todo = <<>> /\ then = [d \in Calls |-> After("probe", NoTask, 0)]
       /\ routes = <<Detail(k)>> /\ rows = <<>> /\ deleting = {} /\ gone = {} /\ crossed = FALSE
       /\ stage = [t \in Tasks |-> "unused"] /\ book = [t \in Tasks |-> k]
       /\ pageOf = [t \in Tasks |-> 0]
       /\ title = [j \in Keys |-> k] /\ fs = [j \in Keys |-> "absent"]
       /\ sole = {} /\ together = {} /\ received = {}
       /\ downloaded = FALSE /\ probing = {} /\ checked = {c}

VisitSpec == (VisitInit \/ PageInit) /\ [][DownNext]_allVars
=============================================================================
