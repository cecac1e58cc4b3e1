-------------------------------- MODULE Search --------------------------------
(***************************************************************************)
(* Searching from a page with a search button: the page has one SearchBloc *)
(* for all its searches, the search page asks it again each time it builds *)
(* its suggestions - when it is opened, for every change of the query, and *)
(* when the field gets the focus again - and shows the bloc's state.       *)
(***************************************************************************)
EXTENDS Blocs

CONSTANTS Queries,    \* what can be typed, "" is typed by the clear button
          NoQuery,    \* not one of them: no search page is open
          MaxEvents   \* Bound: builds of the suggestions

ASSUME SearchAssumption == {NoQuery, ""} \intersect Queries = {} /\ MaxEvents \in Nat

VARIABLES search,  \* the SearchBloc of the page
          query    \* the query of the search page above it

searchVars == <<search, query>>

SearchTypeOK ==
  /\ query \in Queries \union {"", NoQuery}
  /\ search \in [events : Seq(Queries \union {""}), begun : Nat, busy : BOOLEAN,
                 state : [is : {"waiting", "loaded"}, of : Nat, books : Bodies],
                 open : BOOLEAN, offline : BOOLEAN]
  /\ search.begun <= Len(search.events)
  /\ query # NoQuery => search.open

\* EbookSearchState.initial() has no books, as loading() has none.
SearchInit == search = Bloc /\ query = NoQuery

\* buildSuggestions: the event is added while the page builds.
buildSuggestions(q) ==
  /\ Len(search.events) < MaxEvents
  /\ query' = q
  /\ search' = Add(search, q)

\* The search button opens the page with an empty query.
ShowSearch == query = NoQuery /\ search.open /\ buildSuggestions("")

\* The query is changed, cleared, or built again as it is.
Type == query # NoQuery /\ \E q \in Queries \union {""} : buildSuggestions(q)

CloseSearch == query # NoQuery /\ query' = NoQuery /\ UNCHANGED search

\* The page with the button is left; its BlocProvider closes the bloc.
LeavePage == query = NoQuery /\ search' = Close(search) /\ UNCHANGED query

\* Mutant of Loading: the books of the last answer stay.
LoadingKeeps(s) == s

\* EbookSearchState.loading() takes the books of the last answer away.
Loading(s) == Waiting

\* A failure prints and shows nothing.
SearchBloc(s, n, r) == IF Direct(r) = "throws" THEN s ELSE Loaded(n, Direct(r))

BeginSearch ==
  /\ CanBegin(search)
  /\ search' = Begin(search, Loading(search.state))
  /\ UNCHANGED query

EndSearch(r) ==
  /\ search.busy
  /\ search' = End(search, SearchBloc(search.state, search.begun, r), r)
  /\ UNCHANGED query

SearchNext ==
  \/ ShowSearch \/ Type \/ CloseSearch \/ LeavePage \/ BeginSearch
  \/ \E r \in Replies : EndSearch(r)

SearchSpec == SearchInit /\ [][SearchNext]_searchVars

\* The event loop goes on; the user and the server owe nothing.
SearchFairSpec == SearchSpec /\ WF_searchVars(BeginSearch)

-----------------------------------------------------------------------------

\* When nothing is under way the search page shows the books of the query in
\* its field, or none; also when it was closed and opened again, and after
\* failures: never the answer to a query typed before.
SearchAnswersQuery ==
  query # NoQuery /\ Settled(search) /\ search.state # Waiting =>
    search.events[search.state.of] = query

\* If no request hangs for ever, every build of the suggestions is asked of the
\* server in its turn, after failures too.  (Requests have no timeout: one that
\* hangs silences every later search of the page.)
EveryQueryIsAsked ==
  (search.busy ~> ~search.busy) =>
    \A n \in 1 .. MaxEvents : Len(search.events) >= n ~> search.begun >= n
=============================================================================
