--------------------------------- MODULE Blocs ---------------------------------
(***************************************************************************)
(* What the pages that show the server's books are made of: a bloc (of the *)
(* bloc package, not part of the repository) and the way an answer of the  *)
(* server takes through ApiClient, the data source, the models and the     *)
(* repository.                                                             *)
(*                                                                         *)
(* A bloc keeps the events added to it, maps one at a time to states and   *)
(* starts the next one when the last has been mapped.  After close it      *)
(* takes no more events but still maps those it has.  An exception inside  *)
(* mapEventToState ends that event, with the state as it was.              *)
(***************************************************************************)
EXTENDS Naturals, Sequences

CONSTANT Lists  \* the lists of books the server may answer, none of them empty

ASSUME ListsAssumption == Lists \intersect {"empty", "absent", "throws", "Left"} = {}

\* What a decoded body holds; "absent": the "pdf" key is missing, the list null.
Bodies == Lists \union {"empty", "absent"}

(*--------------------------- answers of the server ----------------------*)

\* A body may not be JSON ("garbled", or there was no connection), or JSON of
\* another shape than the models read ("misshapen": a rating that is null).
Replies == [ok : BOOLEAN, body : Bodies \union {"misshapen", "garbled"}]

\* fromJson of the result models: a null list when there is no list, an Error
\* (a TypeError, not an Exception) when a field is not what it should be.
FromJson(body) == IF body = "misshapen" THEN "error" ELSE body

\* ApiClient.get checks the status before it decodes the body.
ApiClientGet(r) == IF r.ok /\ r.body # "garbled" THEN r.body ELSE "exception"

\* The data source hands the decoded body to the models.
RemoteDataSource(r) ==
  IF ApiClientGet(r) = "exception" THEN "exception" ELSE FromJson(ApiClientGet(r))

\* The repository turns an Exception into Left; an Error passes through it.
Repository(r) ==
  CASE RemoteDataSource(r) = "exception" -> "Left"
    [] RemoteDataSource(r) = "error" -> "throws"
    [] OTHER -> RemoteDataSource(r)

\* The blocs that call http.get themselves look at no status and catch all.
Direct(r) ==
  IF r.body = "garbled" \/ FromJson(r.body) = "error" THEN "throws" ELSE r.body

(*--------------------------------- blocs --------------------------------*)

\* A state: a spinner, or what became of event number of.
Waiting == [is |-> "waiting", of |-> 0, books |-> "absent"]
Failed(n) == [is |-> "error", of |-> n, books |-> "absent"]
Loaded(n, books) == [is |-> "loaded", of |-> n, books |-> books]

\* events: all that were ever added; begun: how many have been begun; busy: the
\* last one begun is still being mapped; offline: it ended without an answer.
Bloc == [events |-> <<>>, begun |-> 0, busy |-> FALSE, state |-> Waiting,
         open |-> TRUE, offline |-> FALSE]

Add(b, e) == IF b.open THEN [b EXCEPT !.events = Append(@, e)] ELSE b

\* Mutant of CanBegin: a failure ends the bloc's stream.
CanBeginOnline(b) == ~b.busy /\ b.begun < Len(b.events) /\ ~b.offline

CanBegin(b) == ~b.busy /\ b.begun < Len(b.events)

Begin(b, s) == [b EXCEPT !.begun = @ + 1, !.busy = TRUE, !.state = s]

End(b, s, r) ==
  [b EXCEPT !.busy = FALSE, !.state = s, !.offline = r.body = "garbled"]

Close(b) == [b EXCEPT !.open = FALSE]

\* Everything asked of b has been answered.
Settled(b) == ~b.busy /\ b.begun = Len(b.events)
=============================================================================
