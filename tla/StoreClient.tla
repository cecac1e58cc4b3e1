----------------------------- MODULE StoreClient -----------------------------
(***************************************************************************)
(* The Dart code that calls a store: it runs on one isolate, so a stretch  *)
(* of it between two awaits is never interrupted, and what follows an      *)
(* await (or sits in a .then) runs right after the awaited call returns.   *)
(*                                                                         *)
(* todo holds the store calls the running stretch still has to make; while *)
(* it is not empty nothing else runs.  then[c] names what the code does    *)
(* when call c returns.                                                    *)
(***************************************************************************)
EXTENDS EbookStore, Sequences

CONSTANT Thens  \* what a caller may do when a call returns

ASSUME ThensAssumption == Thens # {}

VARIABLES todo, then

callerVars == <<todo, then>>

\* A store call still to be made: invoke m on k, then go on with t.
Request(m, k, t) == [m |-> m, k |-> k, t |-> t]

CallerTypeOK ==
  /\ todo \in Seq([m : Methods, k : Keys, t : Thens])
  /\ then \in [Calls -> Thens]

\* (then of a call that has not been made is not looked at.)
CallerInit == todo = <<>> /\ then = [c \in Calls |-> CHOOSE t \in Thens : TRUE]

\* The isolate is between two stretches of code.
Idle == todo = <<>>

\* No store call is in progress.
Quiet == Idle /\ \A c \in Calls : pc[c] \notin Active

\* Bound: a new stretch that leads to n calls starts only when that many of
\* Calls are left, those the unfinished stretches will still need not counted.
Left(n, Followed) ==
  Cardinality({c \in Calls : pc[c] = "idle"})
    >= n + Cardinality({c \in Calls : pc[c] \in Active /\ then[c] \in Followed})

\* The running stretch makes its next call.
MakeCall ==
  /\ ~Idle
  /\ \E c \in Calls :
       /\ Call(c, Head(todo).m, Head(todo).k)
       /\ then' = [then EXCEPT ![c] = Head(todo).t]
  /\ todo' = Tail(todo)

\* The session of a call advances while the isolate is idle.
Session(c) ==
  /\ Idle
  /\ Open(c) \/ Insert(c) \/ Remove(c) \/ Find(c) \/ Update(c) \/ Upsert(c) \/ Tidy(c)
  /\ UNCHANGED callerVars

\* The process is stopped, whether or not a call is in progress.
KillCaller ==
  /\ Kill \/ (Quiet /\ UNCHANGED vars)
  /\ todo' = <<>>
  /\ UNCHANGED then
=============================================================================
