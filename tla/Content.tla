-------------------------------- MODULE Content --------------------------------
(***************************************************************************)
(* The pages that show the server's books, and the navigator they are on:  *)
(* the bottom bar with Home (carousel, its background, the random list and *)
(* the tabs) or the library in its body, the library page the drawer       *)
(* opens, and the detail page (related books, ratings).                    *)
(*                                                                         *)
(* A page makes its blocs when it is opened and adds their first event;    *)
(* when it is left, the blocs it hands over to dispose or to a             *)
(* BlocProvider somebody looked up are closed, and answers still under way *)
(* arrive all the same.  A page below another one lives on.                *)
(***************************************************************************)
EXTENDS Blocs

CONSTANTS Watched,    \* Bound: the kinds of bloc that are followed
          MaxShown,   \* Bound: pages opened in a run
          MaxEvents   \* Bound: events added to one bloc

Kinds == {"carousel", "background", "tabs", "random", "explores", "related", "ratings"}
Pages == {"home", "library", "favorite", "explores", "detail"}
Tabs == 0 .. 2
Index == 0 .. 1  \* Bound: books of a list that are told apart
Ids == 1 .. MaxShown

ASSUME ContentAssumption ==
  Watched \subseteq Kinds /\ MaxShown \in Nat \ {0} /\ MaxEvents \in Nat \ {0}

VARIABLES
  stack,    \* the navigator: the pages opened and not left, the last one on top
  opened,   \* how many pages have been opened; a page is known by its number
  bloc,     \* the bloc of each kind made for each page
  built,    \* the home pages that show their carousel, random list and tabs
  pageView  \* where the page view of each home's carousel is

contentVars == <<stack, opened, bloc, built, pageView>>

Page(p, i) == [page |-> p, id |-> i]
Top == stack[Len(stack)]
OnStack == {stack[n].id : n \in 1 .. Len(stack)}

\* No bloc was ever made: one that takes nothing and shows nothing.
NoBloc == Close(Bloc)

ContentTypeOK ==
  /\ opened \in 0 .. MaxShown /\ OnStack \subseteq 1 .. opened
  /\ built \subseteq Ids /\ pageView \in [Ids -> Index]
  /\ stack \in Seq([page : Pages, id : Ids])
  /\ \A m, n \in 1 .. Len(stack) : stack[m].id = stack[n].id => m = n
  /\ DOMAIN bloc = Kinds \X Ids
  /\ \A x \in DOMAIN bloc :
       /\ bloc[x].begun \in 0 .. Len(bloc[x].events)
       /\ bloc[x].busy => bloc[x].begun > 0
       /\ bloc[x].state.of \in 0 .. bloc[x].begun

-----------------------------------------------------------------------------
(*--------------------------- the blocs' handlers ------------------------*)

\* Either.fold: Left shows an error, Right its list; an exception shows nothing.
Fold(s, n, either) ==
  CASE either = "Left" -> Failed(n) [] either = "throws" -> s [] OTHER -> Loaded(n, either)

\* What a bloc in state s shows after it answered event n with reply r.
EbookCarouselBloc(s, n, r) ==  \* takes the first book of the list: none, no state
  IF Repository(r) \in {"empty", "absent"} THEN s ELSE Fold(s, n, Repository(r))

\* Mutant of EbookTabBloc: after an exception it falls back on the tab before.
EbookTabBlocKeeps(s, n, r) ==
  IF Repository(r) = "throws" /\ n > 1 THEN Failed(n - 1) ELSE Fold(s, n, Repository(r))

EbookTabBloc(s, n, r) == Fold(s, n, Repository(r))

EbookExploresBloc(s, n, r) == Fold(s, n, Repository(r))

EbookRelatedBloc(s, n, r) == Fold(s, n, Repository(r))

\* print and nothing else on a failure
EbookRandomBloc(s, n, r) == Fold(s, n, Direct(r))

\* throws on a failure, which shows nothing either
EbookRatingsBloc(s, n, r) == Fold(s, n, Direct(r))

Answered(k, s, n, r) ==
  CASE k = "carousel" -> EbookCarouselBloc(s, n, r)
    [] k = "tabs" -> EbookTabBloc(s, n, r)
    [] k = "explores" -> EbookExploresBloc(s, n, r)
    [] k = "related" -> EbookRelatedBloc(s, n, r)
    [] k = "random" -> EbookRandomBloc(s, n, r)
    [] k = "ratings" -> EbookRatingsBloc(s, n, r)

\* Mutant of TabsBegin: the tabs yield nothing before the answer either.
TabsBeginSilent(s) == s

\* What it shows while it waits: the carousel bloc yields nothing before the
\* answer, the others a spinner.
TabsBegin(s) == Waiting
AtBegin(k, s) ==
  CASE k = "carousel" -> s [] k = "tabs" -> TabsBegin(s) [] OTHER -> Waiting

\* Mutant of BlocOf: the background bloc is registered as a singleton.
BlocOfSingleton(k, i) == IF k = "background" THEN <<k, 1>> ELSE <<k, i>>

\* GetIt registers factories: every page has blocs of its own.
BlocOf(k, i) == <<k, i>>

-----------------------------------------------------------------------------
(*------------------------- opening and leaving --------------------------*)

\* The kinds of bloc a page makes in initState ...
MadeBy(p) ==
  Watched \intersect
    CASE p = "home" -> {"carousel", "background", "tabs"}
      [] p \in {"library", "explores"} -> {"explores"}
      [] p = "detail" -> {"related", "ratings"}
      [] p = "favorite" -> {}

\* ... those it adds an event to at once ...
Asks == {"carousel", "explores", "related", "ratings"}

\* Mutant of ClosedBy: the library's list is given its bloc directly.
ClosedByHome(p) == IF p = "home" THEN {"carousel", "background", "tabs", "random"} ELSE {}

\* ... and those that are closed when it is left.  Nobody looks the detail
\* page's blocs up, so their BlocProvider never creates, nor closes, them.
ClosedBy(p) ==
  CASE p = "home" -> {"carousel", "background", "tabs", "random"}
    [] p \in {"library", "explores"} -> {"explores"}
    [] OTHER -> {}

Made(p, i, b) ==
  [x \in DOMAIN b |->
     IF x \in {BlocOf(k, i) : k \in MadeBy(p)}
     THEN IF x[1] \in Asks THEN Add(Bloc, 0) ELSE Bloc
     ELSE b[x]]

Left(p, i, b) ==
  [x \in DOMAIN b |-> IF x \in {BlocOf(k, i) : k \in ClosedBy(p)} THEN Close(b[x]) ELSE b[x]]

ContentInit ==
  \* the splash has been replaced by the bottom bar, with Home in its body
  /\ stack = <<Page("home", 1)>> /\ opened = 1
  /\ bloc = Made("home", 1, [x \in Kinds \X Ids |-> NoBloc])
  /\ built = {} /\ pageView = [i \in Ids |-> 0]

\* pushPage: p comes on top of the others.
PushPage(p) ==
  /\ opened < MaxShown
  /\ opened' = opened + 1
  /\ stack' = Append(stack, Page(p, opened'))
  /\ bloc' = Made(p, opened', bloc)
  /\ UNCHANGED <<built, pageView>>

\* A tap on another item of the bottom bar: another page in its body.
OnTapBM(p) ==
  /\ Top.page \in {"home", "library", "favorite"} /\ p # Top.page
  /\ opened < MaxShown
  /\ opened' = opened + 1
  /\ stack' = [stack EXCEPT ![Len(stack)] = Page(p, opened')]
  /\ bloc' = Made(p, opened', Left(Top.page, Top.id, bloc))
  /\ UNCHANGED <<built, pageView>>

\* The drawer of the home page opens another bottom bar or the library.
Drawer == Top.page = "home" /\ (PushPage("home") \/ PushPage("explores"))

Shows(k) ==
  /\ bloc[BlocOf(k, Top.id)].state.is = "loaded"
  /\ bloc[BlocOf(k, Top.id)].state.books \in Lists

OnHome == Top.page = "home" /\ Top.id \in built

\* A tap on a book opens its detail page; each list has a handler of its own.
TapCard == OnHome /\ Shows("carousel") /\ PushPage("detail")
TapTabsBook == OnHome /\ Shows("tabs") /\ PushPage("detail")
TapRandomBook == OnHome /\ Shows("random") /\ PushPage("detail")
TapLibraryBook == Top.page = "library" /\ Shows("explores") /\ PushPage("detail")
TapExploresBook == Top.page = "explores" /\ Shows("explores") /\ PushPage("detail")
TapRelated == Top.page = "detail" /\ Shows("related") /\ PushPage("detail")

\* The favourites have no bloc (they are a store's, see Favorites): any book.
TapFavorite == Top.page = "favorite" /\ PushPage("detail")

TapBook ==
  \/ TapCard \/ TapTabsBook \/ TapRandomBook \/ TapLibraryBook
  \/ TapExploresBook \/ TapRelated \/ TapFavorite

\* The back button; below the first bottom bar there is nothing.
Back ==
  /\ Len(stack) > 1
  /\ stack' = SubSeq(stack, 1, Len(stack) - 1)
  /\ bloc' = Left(Top.page, Top.id, bloc)
  /\ UNCHANGED <<opened, built, pageView>>

-----------------------------------------------------------------------------
(*---------------------------- on the home page --------------------------*)

\* The carousel shows its list: the widgets below it are made, the tabs ask for
\* the first tab and the random list for its books.
BuildHome(i) ==
  /\ Page("home", i) \in {stack[n] : n \in 1 .. Len(stack)} /\ i \notin built
  /\ bloc[BlocOf("carousel", i)].state.is = "loaded"
  /\ built' = built \union {i}
  /\ bloc' = [bloc EXCEPT
       ![BlocOf("tabs", i)] = Add(@, 0),
       ![BlocOf("random", i)] = IF "random" \in Watched THEN Add(Bloc, 0) ELSE @]
  /\ UNCHANGED <<stack, opened, pageView>>

\* onPageChanged of the page view.
Swipe ==
  /\ OnHome
  /\ \E j \in Index \ {pageView[Top.id]} :
       /\ Len(bloc[BlocOf("background", Top.id)].events) < MaxEvents
       /\ pageView' = [pageView EXCEPT ![Top.id] = j]
       /\ bloc' = [bloc EXCEPT ![BlocOf("background", Top.id)] =
                     Add(@, <<bloc[BlocOf("carousel", Top.id)].state.books, j>>)]
  /\ UNCHANGED <<stack, opened, built>>

OnTabs ==
  /\ OnHome /\ Len(bloc[BlocOf("tabs", Top.id)].events) < MaxEvents
  /\ \E t \in Tabs : bloc' = [bloc EXCEPT ![BlocOf("tabs", Top.id)] = Add(@, t)]
  /\ UNCHANGED <<stack, opened, built, pageView>>

-----------------------------------------------------------------------------
(*----------------------------- the event loop ---------------------------*)

BeginEvent(k, i) ==
  /\ k # "background" /\ CanBegin(bloc[BlocOf(k, i)])
  /\ bloc' = [bloc EXCEPT ![BlocOf(k, i)] = Begin(@, AtBegin(k, @.state))]
  /\ UNCHANGED <<stack, opened, built, pageView>>

\* The answer to the event the bloc is at.  A carousel that got a list sends
\* the first book to the background before it shows the list.
Reply(k, i, r) ==
  LET b == bloc[BlocOf(k, i)]
      s == Answered(k, b.state, b.begun, r)
      done == [bloc EXCEPT ![BlocOf(k, i)] = End(b, s, r)]
  IN /\ k # "background" /\ b.busy
     /\ bloc' = IF k = "carousel" /\ s.is = "loaded"
                THEN [done EXCEPT ![BlocOf("background", i)] = Add(@, <<s.books, 0>>)]
                ELSE done
     /\ UNCHANGED <<stack, opened, built, pageView>>

\* The background bloc maps an event at once.
ChangeBackground(i) ==
  LET b == bloc[BlocOf("background", i)]
  IN /\ CanBegin(b)
     /\ bloc' = [bloc EXCEPT ![BlocOf("background", i)] =
                   [b EXCEPT !.begun = @ + 1,
                             !.state = Loaded(b.begun + 1, b.events[b.begun + 1])]]
     /\ UNCHANGED <<stack, opened, built, pageView>>

ContentNext ==
  \/ \E p \in {"home", "library", "favorite"} : OnTapBM(p)
  \/ Drawer \/ TapBook \/ Back \/ Swipe \/ OnTabs
  \/ \E i \in Ids :
       \/ BuildHome(i) \/ ChangeBackground(i)
       \/ \E k \in Kinds : BeginEvent(k, i) \/ \E r \in Replies : Reply(k, i, r)

ContentSpec == ContentInit /\ [][ContentNext]_contentVars

\* The event loop starts what waits in the tabs' blocs; that a request ends is
\* not assumed here.
ContentFairSpec ==
  ContentSpec /\ \A i \in Ids : WF_contentVars(BeginEvent("tabs", i))

-----------------------------------------------------------------------------
(*------------------------------- properties -----------------------------*)

HomeShown(i) == Page("home", i) \in {stack[n] : n \in 1 .. Len(stack)} /\ i \in built

\* Behind a home page's carousel is the book the page view is at, once every
\* event has been mapped, however many home pages there are or were: the
\* carousel sends the first book before it shows the list, the page view every
\* later one, and an answer for a page already left changes no other page.
BackgroundIsPage ==
  \A i \in Ids :
    HomeShown(i) /\ Settled(bloc[BlocOf("background", i)]) =>
      /\ bloc[BlocOf("background", i)].state.is = "loaded"
      /\ bloc[BlocOf("background", i)].state.books
           = <<bloc[BlocOf("carousel", i)].state.books, pageView[i]>>

\* When nothing is under way the tabs show what became of the tab tapped last,
\* its books or the error of its request; the spinner is left only when its
\* answer came and could not be read: never the list of a tab tapped before.
TabsAnswerLastTap ==
  \A i \in Ids :
    Settled(bloc[BlocOf("tabs", i)]) =>
      LET b == bloc[BlocOf("tabs", i)]
      IN b.state.of = Len(b.events) \/ (b.state = Waiting /\ ~b.offline)

\* The tabs promise what a RequestView does: an answer that comes late never
\* takes the place of a later one, nor when the page is left and entered again.
TabsView(i) ==
  INSTANCE RequestView WITH asked <- Len(bloc[BlocOf("tabs", i)].events),
                            newest <- bloc[BlocOf("tabs", i)].begun,
                            shown <- bloc[BlocOf("tabs", i)].state.of

TabsInOrder ==
  [][\A i \in Ids : TabsView(i)!ViewNext \/ UNCHANGED TabsView(i)!view]_contentVars

\* Every tab that was tapped is asked for in its turn, although an answer that
\* cannot be read throws through the bloc, and also when the page is left
\* meanwhile: if no request of the tabs hangs, time and again none waits.
EveryTapIsAsked ==
  \A i \in Ids :
    ([]<>~bloc[BlocOf("tabs", i)].busy)
      => []<>(bloc[BlocOf("tabs", i)].begun = Len(bloc[BlocOf("tabs", i)].events))

\* A page that is left leaves no open bloc behind, except the detail page.
ClosedWithPage ==
  \A k \in Kinds \ {"related", "ratings"}, i \in Ids :
    bloc[BlocOf(k, i)].open => i \in OnStack
=============================================================================
