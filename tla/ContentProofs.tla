----------------------------- MODULE ContentProofs -----------------------------
(***************************************************************************)
(* Proofs about Content, for any number of pages, of events and of lists   *)
(* the server may answer, and whichever kinds of bloc are followed.        *)
(***************************************************************************)
EXTENDS Content, SequenceTheorems, TLAPS

Event == Tabs \union (Lists \X Index)
Shown == Lists \union {"empty", "absent"} \union Event
States == [is : {"waiting", "error", "loaded"}, of : Nat, books : Shown]
BlocRecords == [events : Seq(Event), begun : Nat, busy : BOOLEAN, state : States,
                open : BOOLEAN, offline : BOOLEAN]

-----------------------------------------------------------------------------
(* One bloc of kind k. *)

\* Its numbers fit together.
Counted(b) ==
  /\ b.begun <= Len(b.events)
  /\ b.busy => b.begun > 0
  /\ b.state.of <= b.begun

\* The background bloc shows the last event it mapped, and waits for nobody.
BackgroundOK(b) ==
  /\ ~b.busy /\ ~b.offline
  /\ b.begun > 0 => b.state = Loaded(b.begun, b.events[b.begun])

\* The carousel bloc is asked once, and shows nothing before it has a list.
CarouselOK(b) ==
  /\ Len(b.events) <= 1
  /\ b.begun = 0 \/ b.busy => b.state = Waiting
  /\ b.state.is = "loaded" => b.state.books \in Lists

\* What the tabs show answers the event they have begun last.
TabsOK(b) ==
  /\ b.busy => b.state = Waiting
  /\ b.state = Waiting \/ b.state.of = b.begun

\* The kinds whose bloc says nothing of a failure.
Silent == {"random", "ratings"}

\* An attempt without a connection has ended as its kind says.
OfflineOK(k, b) == ~b.busy /\ b.offline => b.state = IF k \in Silent THEN Waiting ELSE Failed(b.begun)

BlocOK(k, b) ==
  /\ b \in BlocRecords /\ Counted(b) /\ OfflineOK(k, b)
  /\ k = "background" => BackgroundOK(b)
  /\ k = "carousel" => CarouselOK(b)
  /\ k = "tabs" => TabsOK(b)
  /\ k \in Silent /\ b.busy => b.state = Waiting

\* The states a bloc can be in.
LEMMA StateTypes ==
  /\ Waiting \in States /\ Waiting.of = 0 /\ Waiting.is = "waiting"
  /\ \A n \in Nat : Failed(n) \in States /\ Failed(n).of = n /\ Failed(n).is = "error"
  /\ \A n \in Nat : \A x \in Shown :
       /\ Loaded(n, x) \in States /\ Loaded(n, x).of = n /\ Loaded(n, x).is = "loaded"
       /\ Loaded(n, x).books = x
  BY DEF Waiting, Failed, Loaded, States, Shown

\* What the repository and a direct request make of a reply.
LEMMA Answers ==
  ASSUME NEW r \in Replies
  PROVE  /\ Repository(r) \in Lists \union {"empty", "absent", "Left", "throws"}
         /\ Direct(r) \in Lists \union {"empty", "absent", "throws"}
         /\ r.body = "garbled" => Repository(r) = "Left" /\ Direct(r) = "throws"
  BY DEF Replies, Bodies, Repository, RemoteDataSource, ApiClientGet, FromJson, Direct

\* What a fold shows: nothing new, an error, or the list.
LEMMA Folds ==
  ASSUME NEW s \in States, NEW n \in Nat,
         NEW either \in Lists \union {"empty", "absent", "Left", "throws"}
  PROVE  /\ either = "Left" => Fold(s, n, either) = Failed(n)
         /\ either = "throws" => Fold(s, n, either) = s
         /\ either \notin {"Left", "throws"} => Fold(s, n, either) = Loaded(n, either)
  BY DEF Fold

\* A bloc that has just been made, or never was.
LEMMA NewBloc ==
  ASSUME NEW k \in Kinds
  PROVE  /\ BlocOK(k, Bloc) /\ BlocOK(k, NoBloc) /\ BlocOK(k, Add(Bloc, 0))
         /\ Add(Bloc, 0).events = << 0 >> /\ Add(Bloc, 0).begun = 0 /\ Add(Bloc, 0).state = Waiting
         /\ Add(Bloc, 0).open /\ Bloc.open /\ ~NoBloc.open
         /\ Bloc.events = <<>> /\ Bloc.begun = 0 /\ Bloc.state = Waiting
         /\ NoBloc.events = <<>> /\ NoBloc.begun = 0 /\ NoBloc.state = Waiting
<1>1. /\ 0 \in Event /\ <<>> \in Seq(Event) /\ Append(<<>>, 0) = << 0 >> /\ << 0 >> \in Seq(Event)
      /\ Len(<<>>) = 0 /\ Len(<< 0 >>) = 1
  BY DEF Event, Tabs
<1>2. /\ Bloc.open /\ NoBloc = [Bloc EXCEPT !.open = FALSE]
      /\ Add(Bloc, 0) = [Bloc EXCEPT !.events = << 0 >>]
  BY <1>1 DEF Bloc, NoBloc, Close, Add
<1>3. Waiting \in States /\ Waiting.of = 0 /\ Waiting.is # "loaded"
  BY StateTypes
<1>4. ASSUME NEW ev \in {<<>>, << 0 >>}, NEW open \in BOOLEAN,
             NEW b, b = [events |-> ev, begun |-> 0, busy |-> FALSE, state |-> Waiting,
                         open |-> open, offline |-> FALSE]
      PROVE  BlocOK(k, b)
  <2>1. /\ b.events = ev /\ Len(b.events) \in {0, 1} /\ b.begun = 0 /\ b.busy = FALSE
        /\ b.offline = FALSE /\ b.state = Waiting
    BY <1>1, <1>4
  <2>2. b \in BlocRecords
    BY <1>1, <1>3, <1>4 DEF BlocRecords
  <2>3. Counted(b)
    BY <1>3, <2>1 DEF Counted
  <2>4. OfflineOK(k, b) /\ BackgroundOK(b)
    BY <2>1 DEF OfflineOK, BackgroundOK
  <2>5. Len(b.events) <= 1
    <3>1. Len(ev) = 0 \/ Len(ev) = 1
      BY <1>1
    <3>2. 0 <= 1 /\ 1 <= 1
      OBVIOUS
    <3> QED
      BY <2>1, <3>1, <3>2
  <2>6. CarouselOK(b) /\ TabsOK(b)
    BY <1>3, <2>1, <2>5 DEF CarouselOK, TabsOK
  <2> QED
    BY <2>1, <2>2, <2>3, <2>4, <2>6 DEF BlocOK
<1>5. BlocOK(k, Bloc) /\ BlocOK(k, NoBloc) /\ BlocOK(k, Add(Bloc, 0))
  <2> DEFINE B(ev, open) == [events |-> ev, begun |-> 0, busy |-> FALSE, state |-> Waiting,
                             open |-> open, offline |-> FALSE]
  <2>1. Bloc = B(<<>>, TRUE) /\ NoBloc = B(<<>>, FALSE) /\ Add(Bloc, 0) = B(<< 0 >>, TRUE)
    BY <1>2 DEF Bloc
  <2> QED
    BY <1>4, <2>1
<1> QED
  BY <1>1, <1>2, <1>5 DEF Bloc

\* An event is added to the background or to the tabs.
LEMMA AddOK ==
  ASSUME NEW k \in {"background", "tabs"}, NEW b, BlocOK(k, b), NEW e \in Event
  PROVE  /\ BlocOK(k, Add(b, e))
         /\ Add(b, e).begun = b.begun /\ Add(b, e).state = b.state /\ Add(b, e).open = b.open
         /\ b.open => /\ Len(Add(b, e).events) = Len(b.events) + 1
                      /\ Add(b, e).events[Len(b.events) + 1] = e
         /\ ~b.open => Add(b, e) = b
<1>1. b \in BlocRecords
  BY DEF BlocOK
<1>2. CASE ~b.open
  BY <1>1, <1>2 DEF Add
<1>3. CASE b.open
  <2> DEFINE t == Append(b.events, e)
  <2>1. /\ b.events \in Seq(Event) /\ Len(b.events) \in Nat /\ b.begun \in Nat
    BY <1>1 DEF BlocRecords
  <2>2. /\ t \in Seq(Event) /\ Len(t) = Len(b.events) + 1 /\ t[Len(b.events) + 1] = e
        /\ \A n \in 1 .. Len(b.events) : t[n] = b.events[n]
    BY <2>1, AppendProperties
  <2> HIDE DEF t
  <2>3. Add(b, e) = [b EXCEPT !.events = t]
    BY <1>3 DEF Add, t
  <2>4. /\ Add(b, e) \in BlocRecords /\ Add(b, e).events = t /\ Add(b, e).begun = b.begun
        /\ Add(b, e).state = b.state /\ Add(b, e).open = b.open /\ Add(b, e).busy = b.busy
        /\ Add(b, e).offline = b.offline
    BY <1>1, <2>2, <2>3 DEF BlocRecords
  <2>5. b.begun > 0 /\ b.begun <= Len(b.events) => t[b.begun] = b.events[b.begun]
    BY <2>1, <2>2
  <2>6. Counted(Add(b, e))
    BY <2>1, <2>2, <2>4 DEF Counted, BlocOK
  <2>7. OfflineOK(k, Add(b, e))
    BY <2>4 DEF OfflineOK, BlocOK
  <2>8. k = "background" => BackgroundOK(Add(b, e))
    BY <2>1, <2>4, <2>5 DEF BackgroundOK, BlocOK, Counted
  <2>9. k = "tabs" => TabsOK(Add(b, e))
    BY <2>4 DEF TabsOK, BlocOK
  <2>10. BlocOK(k, Add(b, e))
    BY <2>4, <2>6, <2>7, <2>8, <2>9 DEF BlocOK, Silent
  <2> QED
    BY <1>3, <2>2, <2>4, <2>10
<1> QED
  BY <1>2, <1>3

\* A closed bloc is as right as it was.
LEMMA CloseOK ==
  ASSUME NEW k \in Kinds, NEW b, BlocOK(k, b)
  PROVE  /\ BlocOK(k, Close(b)) /\ ~Close(b).open
         /\ Close(b).events = b.events /\ Close(b).begun = b.begun /\ Close(b).state = b.state
<1>1. b \in BlocRecords
  BY DEF BlocOK
<1>2. /\ Close(b) \in BlocRecords /\ Close(b).events = b.events /\ Close(b).begun = b.begun
      /\ Close(b).state = b.state /\ ~Close(b).open /\ Close(b).busy = b.busy
      /\ Close(b).offline = b.offline
  BY <1>1 DEF Close, BlocRecords
<1> QED
  BY <1>2 DEF BlocOK, Counted, OfflineOK, BackgroundOK, CarouselOK, TabsOK

\* An event is begun.
LEMMA BeginOK ==
  ASSUME NEW k \in Kinds, k # "background", NEW b, BlocOK(k, b), CanBegin(b)
  PROVE  LET c == Begin(b, AtBegin(k, b.state)) IN
         /\ BlocOK(k, c) /\ c.begun = b.begun + 1 /\ c.begun <= Len(b.events)
         /\ c.events = b.events /\ c.open = b.open
         /\ c.state = IF k = "carousel" THEN b.state ELSE Waiting
         /\ k = "carousel" => c.state = Waiting
<1> DEFINE c == Begin(b, AtBegin(k, b.state))
<1>1. b \in BlocRecords /\ b.begun \in Nat /\ Len(b.events) \in Nat /\ b.state \in States
  BY DEF BlocOK, BlocRecords
<1>2. AtBegin(k, b.state) = IF k = "carousel" THEN b.state ELSE Waiting
  BY DEF AtBegin, TabsBegin, Kinds
<1>3. /\ c \in BlocRecords /\ c.events = b.events /\ c.begun = b.begun + 1 /\ c.busy
      /\ c.state = AtBegin(k, b.state) /\ c.open = b.open /\ c.offline = b.offline
  <2>1. AtBegin(k, b.state) \in States
    BY <1>1, <1>2, StateTypes
  <2> DEFINE s == AtBegin(k, b.state)
  <2> HIDE DEF s
  <2>2. s \in States /\ b.begun + 1 \in Nat
    BY <1>1, <2>1 DEF s
  <2>3. c = [b EXCEPT !.begun = b.begun + 1, !.busy = TRUE, !.state = s]
    BY DEF Begin, s
  <2>4. s = AtBegin(k, b.state)
    BY DEF s
  <2> HIDE DEF c
  <2>5. /\ c \in BlocRecords /\ c.events = b.events /\ c.begun = b.begun + 1 /\ c.busy
        /\ c.state = s /\ c.open = b.open /\ c.offline = b.offline
    BY <1>1, <2>2, <2>3 DEF BlocRecords
  <2> QED
    BY <2>4, <2>5
<1>4. c.begun <= Len(b.events) /\ c.begun > 0
  BY <1>1, <1>3 DEF CanBegin
<1>5. k = "carousel" => b.begun = 0 /\ b.state = Waiting
  BY <1>1, <1>3, <1>4 DEF BlocOK, CarouselOK
<1>6. c.state = Waiting /\ c.state.of = 0
  BY <1>2, <1>3, <1>5, StateTypes
<1> HIDE DEF c
<1>7. Counted(c) /\ OfflineOK(k, c)
  BY <1>1, <1>3, <1>4, <1>6 DEF Counted, OfflineOK
<1>8. (k = "carousel" => CarouselOK(c)) /\ (k = "tabs" => TabsOK(c))
  BY <1>3, <1>6, StateTypes DEF BlocOK, CarouselOK, TabsOK
<1>9. BlocOK(k, c)
  BY <1>3, <1>6, <1>7, <1>8 DEF BlocOK
<1> QED
  BY <1>2, <1>3, <1>4, <1>6, <1>9 DEF c

\* An event has been answered.
LEMMA EndOK ==
  ASSUME NEW k \in Kinds, k # "background", NEW b, BlocOK(k, b), b.busy, NEW r \in Replies
  PROVE  LET s == Answered(k, b.state, b.begun, r)
             c == End(b, s, r) IN
         /\ BlocOK(k, c) /\ c.events = b.events /\ c.begun = b.begun /\ c.open = b.open
         /\ c.state = s
         /\ k = "carousel" /\ s.is = "loaded" => s.books \in Lists
         /\ k = "tabs" => s = b.state \/ s.of = b.begun
<1> DEFINE s == Answered(k, b.state, b.begun, r)
           c == End(b, s, r)
           either == IF k \in Silent THEN Direct(r) ELSE Repository(r)
<1>1. b \in BlocRecords /\ b.begun \in Nat /\ Len(b.events) \in Nat /\ b.state \in States
  BY DEF BlocOK, BlocRecords
<1>2. b.begun > 0 /\ b.begun <= Len(b.events)
  BY <1>1 DEF BlocOK, Counted
<1>3. either \in Lists \union {"empty", "absent", "Left", "throws"}
  BY Answers
<1>4. s = IF k = "carousel" /\ either \in {"empty", "absent"} THEN b.state
          ELSE Fold(b.state, b.begun, either)
  BY DEF Answered, Kinds, Silent, EbookCarouselBloc, EbookTabBloc, EbookExploresBloc, EbookRelatedBloc,
         EbookRandomBloc, EbookRatingsBloc
<1>5. /\ either \in {"Left", "throws"} \/ either \in Shown
      /\ k = "carousel" /\ either \notin {"empty", "absent", "Left", "throws"} => either \in Lists
  BY <1>3 DEF Shown
<1>6. /\ s = b.state \/ s = Failed(b.begun) \/ (s = Loaded(b.begun, either) /\ either \in Shown)
      /\ s = Loaded(b.begun, either) /\ k = "carousel" /\ s # b.state /\ s # Failed(b.begun) => either \in Lists
  <2>1. CASE either = "Left"
    BY <1>1, <1>4, <2>1, Folds
  <2>2. CASE either = "throws"
    BY <1>1, <1>4, <2>2, Folds
  <2>3. CASE either \notin {"Left", "throws"}
    BY <1>1, <1>3, <1>4, <1>5, <2>3, Folds
  <2> QED
    BY <2>1, <2>2, <2>3
<1>7. s \in States /\ s.of <= b.begun /\ (s = b.state \/ s.of = b.begun)
  BY <1>1, <1>6, StateTypes DEF BlocOK, Counted
<1>8. k = "carousel" /\ s.is = "loaded" => s.books \in Lists
  <2>1. k = "carousel" => b.state.is # "loaded"
    BY StateTypes DEF BlocOK, CarouselOK
  <2> QED
    BY <1>1, <1>6, <2>1, StateTypes
<1>9. r.body = "garbled" => s = IF k \in Silent THEN Waiting ELSE Failed(b.begun)
  <2> SUFFICES ASSUME r.body = "garbled" PROVE s = IF k \in Silent THEN Waiting ELSE Failed(b.begun)
    OBVIOUS
  <2>1. either = IF k \in Silent THEN "throws" ELSE "Left"
    BY Answers
  <2>2. k \in Silent => b.state = Waiting
    BY DEF BlocOK
  <2> QED
    BY <1>1, <1>3, <1>4, <2>1, <2>2, Folds
<1> HIDE DEF s
<1>10. /\ c \in BlocRecords /\ c.events = b.events /\ c.begun = b.begun /\ ~c.busy /\ c.open = b.open
       /\ c.state = s /\ c.offline = (r.body = "garbled")
  BY <1>1, <1>7 DEF End, BlocRecords
<1> HIDE DEF c
<1>11. Counted(c) /\ OfflineOK(k, c)
  BY <1>2, <1>7, <1>9, <1>10 DEF Counted, OfflineOK
<1>12. k = "carousel" => CarouselOK(c)
  BY <1>1, <1>2, <1>8, <1>10 DEF BlocOK, CarouselOK
<1>13. k = "tabs" => TabsOK(c) /\ (s = b.state \/ s.of = b.begun)
  BY <1>7, <1>10 DEF BlocOK, TabsOK
<1>14. BlocOK(k, c)
  BY <1>10, <1>11, <1>12, <1>13 DEF BlocOK
<1> QED
  BY <1>8, <1>10, <1>13, <1>14 DEF s, c

\* The background takes an event over.
LEMMA ChangeOK ==
  ASSUME NEW b, BlocOK("background", b), CanBegin(b)
  PROVE  LET c == [b EXCEPT !.begun = @ + 1, !.state = Loaded(b.begun + 1, b.events[b.begun + 1])] IN
         BlocOK("background", c) /\ c.events = b.events /\ c.open = b.open
<1> DEFINE s == Loaded(b.begun + 1, b.events[b.begun + 1])
           c == [b EXCEPT !.begun = @ + 1, !.state = s]
<1>1. b \in BlocRecords /\ b.begun \in Nat /\ Len(b.events) \in Nat /\ b.events \in Seq(Event)
  BY DEF BlocOK, BlocRecords
<1>2. b.begun + 1 \in 1 .. Len(b.events)
  BY <1>1 DEF CanBegin
<1>3. s \in States /\ s.of = b.begun + 1
  <2>1. b.events[b.begun + 1] \in Shown /\ b.begun + 1 \in Nat
    BY <1>1, <1>2 DEF Shown
  <2> QED
    BY <2>1, StateTypes
<1>4. s = Loaded(b.begun + 1, b.events[b.begun + 1])
  OBVIOUS
<1> HIDE DEF s
<1>5. /\ c \in BlocRecords /\ c.events = b.events /\ c.open = b.open /\ c.begun = b.begun + 1
      /\ c.state = s /\ c.busy = b.busy /\ c.offline = b.offline
  <2>1. b.begun + 1 \in Nat
    BY <1>1
  <2> QED
    BY <1>1, <1>3, <2>1 DEF BlocRecords
<1> HIDE DEF c
<1>6. ~b.busy /\ ~b.offline
  BY DEF BlocOK, BackgroundOK
<1>7. Counted(c) /\ OfflineOK("background", c) /\ BackgroundOK(c)
  BY <1>1, <1>2, <1>3, <1>4, <1>5, <1>6 DEF Counted, OfflineOK, BackgroundOK
<1>8. BlocOK("background", c)
  BY <1>5, <1>6, <1>7 DEF BlocOK, Silent
<1> QED
  BY <1>5, <1>8 DEF c, s

-----------------------------------------------------------------------------
(* The pages and their blocs. *)

PageRecords == [page : Pages, id : Ids]
OnScreen == {stack[n] : n \in 1 .. Len(stack)}

BlocsOK ==
  /\ bloc \in [Kinds \X Ids -> BlocRecords]
  /\ \A k \in Kinds, i \in Ids : BlocOK(k, bloc[BlocOf(k, i)])

StackOK ==
  /\ stack \in Seq(PageRecords) /\ stack # <<>> /\ opened \in Ids
  /\ \A m, n \in 1 .. Len(stack) : stack[m].id = stack[n].id => m = n
  /\ \A x \in OnScreen : x.id <= opened

\* A page that was not opened yet has nothing.
FreshOK ==
  \A i \in Ids : i > opened =>
    i \notin built /\ pageView[i] = 0 /\ \A k \in Kinds : bloc[BlocOf(k, i)] = NoBloc

\* An open bloc is closed when its page is left, or never.
OpenOK ==
  \A k \in Kinds \ {"related", "ratings"}, i \in Ids :
    bloc[BlocOf(k, i)].open => \E x \in OnScreen : x.id = i /\ k \in ClosedBy(x.page)

\* A home page that is not left takes backgrounds, and the last one it took is
\* where its page view is; the page view moves only on a carousel that is shown.
HomeOK ==
  /\ built \subseteq Ids /\ pageView \in [Ids -> Index]
  /\ \A i \in built : bloc[BlocOf("carousel", i)].state.is = "loaded"
  /\ \A i \in Ids \ built : pageView[i] = 0
  /\ "background" \in Watched =>
       \A i \in Ids : Page("home", i) \in OnScreen =>
         LET g == bloc[BlocOf("background", i)]
             c == bloc[BlocOf("carousel", i)]
         IN /\ g.open
            /\ c.state.is = "loaded" =>
                 g.events # <<>> /\ g.events[Len(g.events)] = <<c.state.books, pageView[i]>>

ContentInv == BlocsOK /\ StackOK /\ FreshOK /\ OpenOK /\ HomeOK

\* The blocs of two pages, or of two kinds, are different.
LEMMA Distinct ==
  \A k, j \in Kinds, i, l \in Ids :
    /\ BlocOf(k, i) \in Kinds \X Ids
    /\ BlocOf(k, i) = BlocOf(j, l) => k = j /\ i = l
    /\ BlocOf(k, i)[1] = k
  BY DEF BlocOf

\* Which blocs a page makes and closes.
LEMMA PageKinds ==
  ASSUME NEW p \in Pages
  PROVE  /\ MadeBy(p) \subseteq Kinds /\ ClosedBy(p) \subseteq Kinds
         /\ MadeBy(p) \ {"related", "ratings"} \subseteq ClosedBy(p)
         /\ "background" \in Watched => "background" \in MadeBy("home")
         /\ "random" \in ClosedBy("home") /\ "background" \in Kinds
         /\ "random" \in Kinds /\ "carousel" \in Kinds /\ "tabs" \in Kinds
  BY DEF MadeBy, ClosedBy, Pages, Kinds

\* What opening and leaving a page do to the blocs.
LEMMA MadeFacts ==
  ASSUME NEW b \in [Kinds \X Ids -> BlocRecords], NEW p \in Pages, NEW i \in Ids
  PROVE  /\ Made(p, i, b) \in [Kinds \X Ids -> BlocRecords]
         /\ \A k \in Kinds, l \in Ids :
              Made(p, i, b)[BlocOf(k, l)] = IF l = i /\ k \in MadeBy(p)
                                            THEN IF k \in Asks THEN Add(Bloc, 0) ELSE Bloc
                                            ELSE b[BlocOf(k, l)]
<1>1. DOMAIN b = Kinds \X Ids
  OBVIOUS
<1>2. Made(p, i, b) =
        [x \in Kinds \X Ids |-> IF x \in {BlocOf(k, i) : k \in MadeBy(p)}
                                THEN IF x[1] \in Asks THEN Add(Bloc, 0) ELSE Bloc
                                ELSE b[x]]
  BY <1>1 DEF Made
<1>3. ASSUME NEW k \in Kinds, NEW l \in Ids
      PROVE  BlocOf(k, l) \in {BlocOf(j, i) : j \in MadeBy(p)} <=> l = i /\ k \in MadeBy(p)
  BY Distinct, PageKinds
<1>4. \A k \in Kinds, l \in Ids : BlocOf(k, l) \in Kinds \X Ids /\ BlocOf(k, l)[1] = k
  BY Distinct
<1>5. \A k \in Kinds, l \in Ids :
        Made(p, i, b)[BlocOf(k, l)] = IF BlocOf(k, l) \in {BlocOf(j, i) : j \in MadeBy(p)}
                                      THEN IF BlocOf(k, l)[1] \in Asks THEN Add(Bloc, 0) ELSE Bloc
                                      ELSE b[BlocOf(k, l)]
  BY <1>2, <1>4
<1>6. Made(p, i, b) \in [Kinds \X Ids -> BlocRecords]
  <2>1. Bloc \in BlocRecords /\ Add(Bloc, 0) \in BlocRecords
    BY NewBloc, PageKinds DEF BlocOK
  <2> QED
    BY <1>2, <2>1
<1>7. ASSUME NEW k \in Kinds, NEW l \in Ids
      PROVE  Made(p, i, b)[BlocOf(k, l)] = IF l = i /\ k \in MadeBy(p)
                                           THEN IF k \in Asks THEN Add(Bloc, 0) ELSE Bloc
                                           ELSE b[BlocOf(k, l)]
  BY <1>3, <1>4, <1>5
<1> QED
  BY <1>6, <1>7

LEMMA LeftFacts ==
  ASSUME NEW b \in [Kinds \X Ids -> BlocRecords], NEW p \in Pages, NEW i \in Ids
  PROVE  /\ Left(p, i, b) \in [Kinds \X Ids -> BlocRecords]
         /\ \A k \in Kinds, l \in Ids :
              Left(p, i, b)[BlocOf(k, l)] = IF l = i /\ k \in ClosedBy(p)
                                            THEN Close(b[BlocOf(k, l)]) ELSE b[BlocOf(k, l)]
<1>1. DOMAIN b = Kinds \X Ids
  OBVIOUS
<1>2. Left(p, i, b) =
        [x \in Kinds \X Ids |-> IF x \in {BlocOf(k, i) : k \in ClosedBy(p)} THEN Close(b[x]) ELSE b[x]]
  BY <1>1 DEF Left
<1>3. ASSUME NEW k \in Kinds, NEW l \in Ids
      PROVE  BlocOf(k, l) \in {BlocOf(j, i) : j \in ClosedBy(p)} <=> l = i /\ k \in ClosedBy(p)
  BY Distinct, PageKinds
<1>4. \A k \in Kinds, l \in Ids : BlocOf(k, l) \in Kinds \X Ids
  BY Distinct
<1>5. \A k \in Kinds, l \in Ids :
        Left(p, i, b)[BlocOf(k, l)] = IF BlocOf(k, l) \in {BlocOf(j, i) : j \in ClosedBy(p)}
                                      THEN Close(b[BlocOf(k, l)]) ELSE b[BlocOf(k, l)]
  BY <1>2, <1>4
<1>6. Left(p, i, b) \in [Kinds \X Ids -> BlocRecords]
  <2>1. \A c \in BlocRecords : Close(c) \in BlocRecords
    BY DEF BlocRecords, Close
  <2> QED
    BY <1>2, <2>1
<1> QED
  BY <1>3, <1>5, <1>6

\* The page on top is on the screen, and no other has its number.
LEMMA TopFacts ==
  ASSUME StackOK
  PROVE  /\ Top \in OnScreen /\ Len(stack) \in Nat \ {0}
         /\ \A x \in OnScreen : x \in PageRecords /\ x.page \in Pages /\ x.id \in Ids
         /\ \A x, y \in OnScreen : x.id = y.id => x = y
         /\ \A p \in Pages, i \in Ids : /\ Page(p, i) \in PageRecords
                                        /\ Page(p, i).page = p /\ Page(p, i).id = i
         /\ \A x \in OnScreen : x = Page(x.page, x.id)
<1>1. Len(stack) \in Nat \ {0} /\ \A n \in 1 .. Len(stack) : stack[n] \in PageRecords
  <2>1. stack \in Seq(PageRecords) /\ stack # <<>>
    BY DEF StackOK
  <2>2. Len(stack) \in Nat /\ \A n \in 1 .. Len(stack) : stack[n] \in PageRecords
    BY <2>1, LenProperties
  <2>3. Len(stack) # 0
    BY <2>1, EmptySeq
  <2> QED
    BY <2>2, <2>3
<1>2. Top \in OnScreen
  BY <1>1 DEF Top, OnScreen
<1>3. \A x \in OnScreen : x \in PageRecords /\ x.page \in Pages /\ x.id \in Ids
  BY <1>1 DEF OnScreen, PageRecords
<1>4. \A x, y \in OnScreen : x.id = y.id => x = y
  BY DEF OnScreen, StackOK
<1> QED
  BY <1>1, <1>2, <1>3, <1>4 DEF Page, PageRecords

\* How the screen changes when a page is opened, left or replaced.
LEMMA PushScreen ==
  ASSUME StackOK, NEW p \in Pages, PushPage(p)
  PROVE  /\ StackOK' /\ opened' = opened + 1 /\ OnScreen' = OnScreen \union {Page(p, opened')}
         /\ bloc' = Made(p, opened', bloc) /\ UNCHANGED <<built, pageView>>
<1>1. opened' = opened + 1 /\ opened' \in Ids /\ opened \in Ids /\ opened < opened'
  BY ContentAssumption DEF PushPage, StackOK, Ids
<1>2. PICK x \in PageRecords : x = Page(p, opened') /\ x.id = opened'
  BY <1>1, TopFacts
<1>3. /\ stack' = Append(stack, x) /\ stack' \in Seq(PageRecords)
      /\ Len(stack') = Len(stack) + 1 /\ Len(stack) \in Nat \ {0}
      /\ \A n \in 1 .. Len(stack) : stack'[n] = stack[n]
      /\ stack'[Len(stack) + 1] = x
  BY <1>2, TopFacts, AppendProperties DEF PushPage, StackOK
<1>4. OnScreen' = OnScreen \union {x}
  BY <1>3 DEF OnScreen
<1>5. \A n \in 1 .. Len(stack) : stack[n].id \in Ids /\ stack[n].id <= opened /\ stack[n].id # opened'
  BY <1>1, TopFacts DEF StackOK, OnScreen, Ids
<1>6. \A m, n \in 1 .. Len(stack') : stack'[m].id = stack'[n].id => m = n
  <2> SUFFICES ASSUME NEW m \in 1 .. Len(stack) + 1, NEW n \in 1 .. Len(stack) + 1,
                      stack'[m].id = stack'[n].id
               PROVE  m = n
    BY <1>3
  <2>1. \A l \in 1 .. Len(stack) + 1 : l \in 1 .. Len(stack) \/ l = Len(stack) + 1
    BY <1>3
  <2> QED
    BY <1>2, <1>3, <1>5, <2>1 DEF StackOK
<1>7. \A y \in OnScreen' : y.id <= opened'
  BY <1>1, <1>2, <1>4, TopFacts DEF StackOK, Ids
<1>8. stack' # <<>>
  BY <1>3
<1> QED
  BY <1>1, <1>2, <1>3, <1>4, <1>6, <1>7, <1>8 DEF PushPage, StackOK

LEMMA BackScreen ==
  ASSUME StackOK, Back
  PROVE  /\ StackOK' /\ opened' = opened /\ OnScreen' = OnScreen \ {Top}
         /\ bloc' = Left(Top.page, Top.id, bloc) /\ UNCHANGED <<built, pageView>>
<1>1. /\ stack' = SubSeq(stack, 1, Len(stack) - 1) /\ Len(stack) > 1 /\ Len(stack) \in Nat
      /\ stack \in Seq(PageRecords)
  BY TopFacts DEF Back, StackOK
<1>2. Len(stack') = IF 1 <= Len(stack) - 1 THEN Len(stack) - 1 - 1 + 1 ELSE 0
  BY <1>1, SubSeqProperties
<1>3. \A n \in 1 .. (Len(stack) - 1 - 1 + 1) : stack'[n] = stack[1 + n - 1]
  BY <1>1, SubSeqProperties
<1>4. stack' \in Seq(PageRecords)
  <2>1. 1 \in Int /\ Len(stack) - 1 \in Int /\ \A n \in 1 .. (Len(stack) - 1) : n \in 1 .. Len(stack)
    BY <1>1
  <2> QED
    BY <1>1, <2>1, SubSeqProperties
<1>5. Len(stack') = Len(stack) - 1 /\ \A n \in 1 .. (Len(stack) - 1) : stack'[n] = stack[n]
  <2>1. 1 <= Len(stack) - 1 /\ Len(stack) - 1 - 1 + 1 = Len(stack) - 1
    BY <1>1
  <2>2. \A n \in 1 .. (Len(stack) - 1) : 1 + n - 1 = n
    BY <1>1
  <2> QED
    BY <1>2, <1>3, <2>1, <2>2
<1>6. OnScreen' = {stack[n] : n \in 1 .. (Len(stack) - 1)}
  BY <1>5 DEF OnScreen
<1>7. \A n \in 1 .. (Len(stack) - 1) : n \in 1 .. Len(stack) /\ n # Len(stack) /\ stack[n] # Top
  BY <1>1 DEF StackOK, Top
<1>8. \A n \in 1 .. Len(stack) : n \in 1 .. (Len(stack) - 1) \/ n = Len(stack)
  BY <1>1
<1>9. OnScreen' = OnScreen \ {Top}
  BY <1>6, <1>7, <1>8 DEF OnScreen, Top
<1>10. stack' # <<>> /\ opened' = opened
  <2>1. Len(stack') # 0
    BY <1>1, <1>5
  <2> QED
    BY <1>4, <2>1 DEF Back
<1>11. \A m, n \in 1 .. Len(stack') : stack'[m].id = stack'[n].id => m = n
  BY <1>5, <1>7 DEF StackOK
<1> QED
  BY <1>4, <1>9, <1>10, <1>11 DEF Back, StackOK

LEMMA TapScreen ==
  ASSUME StackOK, NEW p \in Pages, OnTapBM(p)
  PROVE  /\ StackOK' /\ opened' = opened + 1 /\ OnScreen' = (OnScreen \ {Top}) \union {Page(p, opened')}
         /\ bloc' = Made(p, opened', Left(Top.page, Top.id, bloc)) /\ UNCHANGED <<built, pageView>>
<1>1. opened' = opened + 1 /\ opened' \in Ids /\ opened \in Ids /\ opened < opened'
  BY ContentAssumption DEF OnTapBM, StackOK, Ids
<1>2. PICK x \in PageRecords : x = Page(p, opened') /\ x.id = opened'
  BY <1>1, TopFacts
<1>3. /\ stack' = [stack EXCEPT ![Len(stack)] = x] /\ Len(stack) \in Nat \ {0}
      /\ stack \in Seq(PageRecords)
  BY <1>2, TopFacts DEF OnTapBM, StackOK
<1>4. /\ stack' \in Seq(PageRecords) /\ Len(stack') = Len(stack)
      /\ \A n \in 1 .. Len(stack) : stack'[n] = IF n = Len(stack) THEN x ELSE stack[n]
  BY <1>3
<1>5. \A n \in 1 .. Len(stack) : stack[n].id \in Ids /\ stack[n].id <= opened /\ stack[n].id # opened'
  BY <1>1, TopFacts DEF StackOK, OnScreen, Ids
<1>6. \A n \in 1 .. Len(stack) : stack[n] = Top => n = Len(stack)
  BY <1>3 DEF StackOK, Top
<1>7. OnScreen' = (OnScreen \ {Top}) \union {x}
  <2>1. Len(stack) \in 1 .. Len(stack) /\ stack[Len(stack)] = Top
    BY <1>3 DEF Top
  <2>2. OnScreen' = {IF n = Len(stack) THEN x ELSE stack[n] : n \in 1 .. Len(stack)}
    BY <1>4 DEF OnScreen
  <2> QED
    BY <1>6, <2>1, <2>2 DEF OnScreen
<1>8. \A m, n \in 1 .. Len(stack') : stack'[m].id = stack'[n].id => m = n
  BY <1>2, <1>4, <1>5 DEF StackOK
<1>9. \A y \in OnScreen' : y.id <= opened'
  BY <1>1, <1>2, <1>7, TopFacts DEF StackOK, Ids
<1>10. stack' # <<>>
  BY <1>3, <1>4
<1> QED
  BY <1>1, <1>2, <1>4, <1>7, <1>8, <1>9, <1>10 DEF OnTapBM, StackOK

-----------------------------------------------------------------------------
(* Opening and leaving pages keeps the invariant. *)

\* Opening page p, leaving the one on top, or both: what becomes of the screen
\* and of each bloc.
PageChange(p, new, left) ==
  /\ StackOK' /\ opened' = IF new THEN opened + 1 ELSE opened
  /\ OnScreen' = (OnScreen \ (IF left THEN {Top} ELSE {}))
                   \union (IF new THEN {Page(p, opened')} ELSE {})
  /\ bloc' \in [Kinds \X Ids -> BlocRecords] /\ UNCHANGED <<built, pageView>>
  /\ \A k \in Kinds, i \in Ids :
       bloc'[BlocOf(k, i)] =
         IF new /\ i = opened' /\ k \in MadeBy(p) THEN IF k \in Asks THEN Add(Bloc, 0) ELSE Bloc
         ELSE IF left /\ i = Top.id /\ k \in ClosedBy(Top.page) THEN Close(bloc[BlocOf(k, i)])
         ELSE bloc[BlocOf(k, i)]

LEMMA PageFacts ==
  ASSUME ContentInv, NEW p \in Pages, PushPage(p) \/ OnTapBM(p) \/ Back
  PROVE  \E new, left \in BOOLEAN : PageChange(p, new, left)
<1>1. StackOK /\ bloc \in [Kinds \X Ids -> BlocRecords] /\ Top.page \in Pages /\ Top.id \in Ids
  BY TopFacts DEF ContentInv, BlocsOK
<1>2. CASE PushPage(p)
  <2>1. opened' \in Ids
    BY <1>1, <1>2, PushScreen DEF StackOK
  <2>2. PICK i \in Ids : i = opened'
    BY <2>1
  <2>3. /\ Made(p, i, bloc) \in [Kinds \X Ids -> BlocRecords]
        /\ \A k \in Kinds, l \in Ids :
             Made(p, i, bloc)[BlocOf(k, l)] = IF l = i /\ k \in MadeBy(p)
                                              THEN IF k \in Asks THEN Add(Bloc, 0) ELSE Bloc
                                              ELSE bloc[BlocOf(k, l)]
    BY <1>1, MadeFacts, ZenonT(60)
  <2>4. PageChange(p, TRUE, FALSE)
    BY <1>1, <1>2, <2>2, <2>3, PushScreen DEF PageChange
  <2> QED
    BY <2>4
<1> DEFINE b == Left(Top.page, Top.id, bloc)
<1>5. /\ b \in [Kinds \X Ids -> BlocRecords]
      /\ \A k \in Kinds, i \in Ids :
           b[BlocOf(k, i)] = IF i = Top.id /\ k \in ClosedBy(Top.page)
                             THEN Close(bloc[BlocOf(k, i)]) ELSE bloc[BlocOf(k, i)]
  BY <1>1, LeftFacts
<1>3. CASE Back
  <2>1. bloc' = b
    BY <1>1, <1>3, BackScreen
  <2> HIDE DEF b
  <2>2. PageChange(p, FALSE, TRUE)
    BY <1>1, <1>3, <1>5, <2>1, BackScreen DEF PageChange
  <2> QED
    BY <2>2
<1>4. CASE OnTapBM(p)
  <2>1. opened' \in Ids
    BY <1>1, <1>4, TapScreen DEF StackOK
  <2>3. bloc' = Made(p, opened', b)
    BY <1>1, <1>4, TapScreen
  <2> HIDE DEF b
  <2>4. /\ bloc' \in [Kinds \X Ids -> BlocRecords]
        /\ \A k \in Kinds, l \in Ids :
             bloc'[BlocOf(k, l)] = IF l = opened' /\ k \in MadeBy(p)
                                   THEN IF k \in Asks THEN Add(Bloc, 0) ELSE Bloc
                                   ELSE b[BlocOf(k, l)]
    <3>1. PICK i \in Ids : i = opened'
      BY <2>1
    <3>2. /\ Made(p, i, b) \in [Kinds \X Ids -> BlocRecords]
          /\ \A k \in Kinds, l \in Ids :
               Made(p, i, b)[BlocOf(k, l)] = IF l = i /\ k \in MadeBy(p)
                                             THEN IF k \in Asks THEN Add(Bloc, 0) ELSE Bloc
                                             ELSE b[BlocOf(k, l)]
      BY <1>5, MadeFacts
    <3> QED
      BY <2>3, <3>1, <3>2
  <2>5. PageChange(p, TRUE, TRUE)
    BY <1>1, <1>4, <1>5, <2>4, TapScreen DEF PageChange
  <2> QED
    BY <2>5
<1> QED
  BY <1>2, <1>3, <1>4

LEMMA PageStep ==
  ASSUME ContentInv, NEW p \in Pages, NEW new \in BOOLEAN, NEW left \in BOOLEAN,
         PageChange(p, new, left)
  PROVE  ContentInv'
<1> USE DEF PageChange
<1>1. BlocsOK /\ StackOK /\ FreshOK /\ OpenOK /\ HomeOK /\ StackOK'
  BY DEF ContentInv
<1>2. /\ opened \in Nat /\ opened' \in Nat /\ opened <= opened' /\ \A i \in Ids : i \in Nat
      /\ new => opened < opened' /\ opened' \in Ids
  BY <1>1 DEF StackOK, Ids
<1>3. Top.id \in Ids /\ Top.id <= opened /\ Top.page \in Pages /\ Top \in OnScreen
  BY <1>1, TopFacts DEF StackOK
<1>4. BlocsOK'
  <2>1. ASSUME NEW k \in Kinds, NEW i \in Ids PROVE BlocOK(k, bloc'[BlocOf(k, i)])
    <3>1. BlocOK(k, bloc[BlocOf(k, i)])
      BY <1>1 DEF BlocsOK
    <3> QED
      BY <3>1, NewBloc, CloseOK
  <2>2. \A k \in Kinds, i \in Ids : BlocOf(k, i)' = BlocOf(k, i)
    BY DEF BlocOf
  <2> QED
    BY <2>1 DEF BlocsOK, BlocOf
<1>5. FreshOK'
  <2> SUFFICES ASSUME NEW i \in Ids, i > opened'
               PROVE  /\ i \notin built /\ pageView[i] = 0
                      /\ \A k \in Kinds : bloc'[BlocOf(k, i)] = NoBloc
    BY DEF FreshOK, BlocOf, NoBloc, Bloc, Close
  <2>1. i > opened /\ i # opened' /\ i # Top.id
    BY <1>2, <1>3
  <2> QED
    BY <1>1, <2>1 DEF FreshOK
<1>6. OpenOK'
  <2> SUFFICES ASSUME NEW k \in Kinds \ {"related", "ratings"}, NEW i \in Ids,
                      bloc'[BlocOf(k, i)].open
               PROVE  \E x \in OnScreen' : x.id = i /\ k \in ClosedBy(x.page)
    BY DEF OpenOK, BlocOf, ClosedBy
  <2>1. CASE new /\ i = opened' /\ k \in MadeBy(p)
    <3>1. Page(p, i) \in OnScreen' /\ Page(p, i).id = i /\ Page(p, i).page = p
      BY <2>1, <1>1, TopFacts
    <3> QED
      BY <2>1, <3>1, PageKinds
  <2>2. CASE ~(new /\ i = opened' /\ k \in MadeBy(p))
    <3>1. BlocOK(k, bloc[BlocOf(k, i)])
      BY <1>1 DEF BlocsOK
    <3>2. ~(left /\ i = Top.id /\ k \in ClosedBy(Top.page)) /\ bloc[BlocOf(k, i)].open
      BY <2>2, <3>1, CloseOK
    <3>3. PICK x \in OnScreen : x.id = i /\ k \in ClosedBy(x.page)
      BY <1>1, <3>2 DEF OpenOK
    <3>4. x \in OnScreen'
      BY <3>2, <3>3
    <3> QED
      BY <3>3, <3>4
  <2> QED
    BY <2>1, <2>2
<1>7. HomeOK'
  <2>1. ASSUME NEW i \in Ids, i <= opened, NEW k \in Kinds
        PROVE  bloc'[BlocOf(k, i)].state = bloc[BlocOf(k, i)].state
    <3>1. ~(new /\ i = opened')
      BY <1>2, <2>1
    <3>2. BlocOK(k, bloc[BlocOf(k, i)])
      BY <1>1 DEF BlocsOK
    <3> QED
      BY <3>1, <3>2, CloseOK
  <2>2. ASSUME NEW i \in built
        PROVE  bloc'[BlocOf("carousel", i)].state.is = "loaded"
    <3>1. i \in Ids /\ i <= opened
      BY <1>1, <1>2, <2>2 DEF HomeOK, FreshOK
    <3> QED
      BY <1>1, <2>1, <2>2, <3>1, PageKinds DEF HomeOK
  <2>3. ASSUME "background" \in Watched, NEW i \in Ids, Page("home", i) \in OnScreen',
               NEW g, g = bloc'[BlocOf("background", i)],
               NEW c, c = bloc'[BlocOf("carousel", i)]
        PROVE  /\ g.open
               /\ c.state.is = "loaded" =>
                    g.events # <<>> /\ g.events[Len(g.events)] = <<c.state.books, pageView[i]>>
    <3>1. Page("home", i).page = "home" /\ Page("home", i).id = i /\ "home" \in Pages
      BY <1>1, TopFacts DEF Pages
    <3>2. CASE new /\ Page("home", i) = Page(p, opened')
      <4>1. p = "home" /\ i = opened' /\ i > opened
        BY <1>1, <1>2, <3>1, <3>2, TopFacts
      <4>2. g = Bloc
        BY <2>3, <3>2, <4>1, PageKinds DEF Asks
      <4>3. bloc[BlocOf("carousel", i)] = NoBloc /\ i # Top.id
        BY <1>1, <1>2, <1>3, <4>1, PageKinds DEF FreshOK
      <4>4. c \in {Bloc, NoBloc, Add(Bloc, 0)}
        BY <2>3, <4>3, PageKinds
      <4>5. c.state = Waiting
        BY <4>4, <3>1, NewBloc, PageKinds
      <4> QED
        BY <3>1, <4>2, <4>5, NewBloc, PageKinds, StateTypes
    <3>3. CASE ~(new /\ Page("home", i) = Page(p, opened'))
      <4>1. Page("home", i) \in OnScreen /\ (left => Page("home", i) # Top)
        BY <2>3, <3>3
      <4>2. (left => i # Top.id) /\ i <= opened
        BY <1>1, <1>3, <3>1, <4>1, TopFacts DEF StackOK
      <4>3. ~(new /\ i = opened')
        BY <1>2, <4>2
      <4>4. g = bloc[BlocOf("background", i)] /\ c = bloc[BlocOf("carousel", i)]
        BY <2>3, <3>1, <4>2, <4>3, PageKinds
      <4> QED
        BY <1>1, <2>3, <4>1, <4>4 DEF HomeOK
    <3> QED
      BY <3>2, <3>3
  <2> QED
    BY <1>1, <2>2, <2>3, ZenonT(60) DEF HomeOK, BlocOf, Page
<1> QED
  BY <1>1, <1>4, <1>5, <1>6, <1>7 DEF ContentInv

-----------------------------------------------------------------------------
(* What goes on while the pages stay where they are. *)

\* A step that leaves the pages where they are and opens no bloc, except a random
\* list on a home page, keeps the invariant if each bloc stays right and the
\* backgrounds follow.
LEMMA InnerStep ==
  ASSUME ContentInv, UNCHANGED <<stack, opened>>, HomeOK',
         bloc' \in [Kinds \X Ids -> BlocRecords],
         \A k \in Kinds, i \in Ids :
           /\ BlocOK(k, bloc'[BlocOf(k, i)])
           /\ bloc'[BlocOf(k, i)].open =>
                bloc[BlocOf(k, i)].open \/ (k = "random" /\ Page("home", i) \in OnScreen)
           /\ i > opened => bloc'[BlocOf(k, i)] = bloc[BlocOf(k, i)],
         \A i \in Ids : i > opened => i \notin built' /\ pageView'[i] = pageView[i]
  PROVE  ContentInv'
<1>1. OnScreen' = OnScreen /\ StackOK'
  BY DEF ContentInv, OnScreen, StackOK
<1>2. BlocsOK'
  BY DEF BlocsOK, BlocOf
<1>3. FreshOK'
  BY ZenonT(60) DEF ContentInv, FreshOK, BlocOf, NoBloc, Bloc, Close
<1>4. OpenOK'
  <2> SUFFICES ASSUME NEW k \in Kinds \ {"related", "ratings"}, NEW i \in Ids,
                      bloc'[BlocOf(k, i)].open
               PROVE  \E x \in OnScreen : x.id = i /\ k \in ClosedBy(x.page)
    BY <1>1 DEF OpenOK, BlocOf, ClosedBy
  <2>1. CASE bloc[BlocOf(k, i)].open
    BY <2>1 DEF ContentInv, OpenOK
  <2>2. CASE k = "random" /\ Page("home", i) \in OnScreen
    BY <2>2, TopFacts, PageKinds DEF ContentInv, Pages
  <2> QED
    BY <2>1, <2>2
<1> QED
  BY <1>1, <1>2, <1>3, <1>4 DEF ContentInv

\* Bloc k of page i becomes b and no other bloc changes.
OneBloc(k, i, b) ==
  /\ bloc' = [bloc EXCEPT ![BlocOf(k, i)] = b]
  /\ UNCHANGED <<stack, opened, built>>

LEMMA OneFacts ==
  ASSUME ContentInv, NEW k \in Kinds, NEW i \in Ids, NEW b \in BlocRecords, OneBloc(k, i, b)
  PROVE  /\ bloc' \in [Kinds \X Ids -> BlocRecords]
         /\ \A j \in Kinds, l \in Ids :
              bloc'[BlocOf(j, l)] = IF j = k /\ l = i THEN b ELSE bloc[BlocOf(j, l)]
<1>1. bloc \in [Kinds \X Ids -> BlocRecords] /\ BlocOf(k, i) \in Kinds \X Ids
  BY Distinct DEF ContentInv, BlocsOK
<1>2. ASSUME NEW j \in Kinds, NEW l \in Ids
      PROVE  bloc'[BlocOf(j, l)] = IF j = k /\ l = i THEN b ELSE bloc[BlocOf(j, l)]
  <2>1. BlocOf(j, l) \in Kinds \X Ids /\ (BlocOf(j, l) = BlocOf(k, i) <=> j = k /\ l = i)
    BY Distinct
  <2> QED
    BY <1>1, <2>1 DEF OneBloc
<1> QED
  BY <1>1, <1>2 DEF OneBloc

\* What the blocs of a page can do shows that it has been opened.
LEMMA Alive ==
  ASSUME ContentInv, NEW k \in Kinds, NEW i \in Ids,
         LET b == bloc[BlocOf(k, i)] IN b.busy \/ CanBegin(b) \/ b.state.is = "loaded"
  PROVE  i <= opened
<1>1. NoBloc.state.is # "loaded" /\ ~NoBloc.busy /\ ~CanBegin(NoBloc)
  <2>1. Len(<<>>) = 0 /\ ~(0 < 0)
    OBVIOUS
  <2> QED
    BY <2>1, NewBloc, StateTypes DEF CanBegin, NoBloc, Bloc, Close
<1>2. i \in Nat /\ opened \in Nat
  BY DEF ContentInv, StackOK, Ids
<1>3. ~(i > opened)
  BY <1>1 DEF ContentInv, FreshOK
<1> QED
  BY <1>2, <1>3

\* One bloc moves on, no background is sent and no carousel gets its list.
LEMMA OneStep ==
  ASSUME ContentInv, NEW k \in Kinds, NEW i \in Ids, i <= opened, NEW b \in BlocRecords,
         OneBloc(k, i, b), pageView' = pageView, BlocOK(k, b), b.open = bloc[BlocOf(k, i)].open,
         k = "background" => b.events = bloc[BlocOf(k, i)].events,
         k = "carousel" => \/ b.state = bloc[BlocOf(k, i)].state
                           \/ b.state.is # "loaded" /\ bloc[BlocOf(k, i)].state.is # "loaded"
  PROVE  ContentInv'
<1>1. /\ bloc' \in [Kinds \X Ids -> BlocRecords]
      /\ \A j \in Kinds, l \in Ids :
           bloc'[BlocOf(j, l)] = IF j = k /\ l = i THEN b ELSE bloc[BlocOf(j, l)]
  <2>1. bloc' \in [Kinds \X Ids -> BlocRecords]
    BY OneFacts
  <2>2. ASSUME NEW j \in Kinds, NEW l \in Ids
        PROVE  bloc'[BlocOf(j, l)] = IF j = k /\ l = i THEN b ELSE bloc[BlocOf(j, l)]
    BY OneFacts
  <2> QED
    BY <2>1, <2>2
<1>2. "background" \in Kinds /\ "carousel" \in Kinds
  BY DEF Kinds
<1>3. UNCHANGED <<stack, opened, built>>
  BY DEF OneBloc
<1>4. i \in Nat /\ opened \in Nat /\ Ids \subseteq Nat
  BY DEF ContentInv, StackOK, Ids
<1>5. HomeOK'
  <2>1. OnScreen' = OnScreen
    BY <1>3 DEF OnScreen
  <2>2. ASSUME NEW l \in Ids
        PROVE  /\ \/ bloc'[BlocOf("carousel", l)].state = bloc[BlocOf("carousel", l)].state
                  \/ /\ bloc'[BlocOf("carousel", l)].state.is # "loaded"
                     /\ bloc[BlocOf("carousel", l)].state.is # "loaded"
               /\ bloc'[BlocOf("background", l)].open = bloc[BlocOf("background", l)].open
               /\ bloc'[BlocOf("background", l)].events = bloc[BlocOf("background", l)].events
    BY <1>1, <1>2
  <2>3. HomeOK
    BY DEF ContentInv
  <2>4. \A l \in built : bloc'[BlocOf("carousel", l)].state.is = "loaded"
    BY <2>2, <2>3 DEF HomeOK
  <2>5. "background" \in Watched =>
          \A l \in Ids : Page("home", l) \in OnScreen =>
            LET g == bloc'[BlocOf("background", l)]
                c == bloc'[BlocOf("carousel", l)]
            IN /\ g.open
               /\ c.state.is = "loaded" =>
                    g.events # <<>> /\ g.events[Len(g.events)] = <<c.state.books, pageView[l]>>
    BY <2>2, <2>3 DEF HomeOK
  <2> QED
    BY <1>3, <2>1, <2>3, <2>4, <2>5 DEF HomeOK, BlocOf, Page
<1>6. ASSUME NEW j \in Kinds, NEW l \in Ids
      PROVE  /\ BlocOK(j, bloc'[BlocOf(j, l)])
             /\ bloc'[BlocOf(j, l)].open => bloc[BlocOf(j, l)].open
             /\ l > opened => bloc'[BlocOf(j, l)] = bloc[BlocOf(j, l)]
  <2>1. bloc'[BlocOf(j, l)] = IF j = k /\ l = i THEN b ELSE bloc[BlocOf(j, l)]
    BY <1>1
  <2>2. l > opened => l # i
    BY <1>4
  <2>3. BlocOK(j, bloc[BlocOf(j, l)])
    BY DEF ContentInv, BlocsOK
  <2> QED
    BY <2>1, <2>2, <2>3
<1>7. \A l \in Ids : l > opened => l \notin built' /\ pageView'[l] = pageView[l]
  BY <1>3 DEF ContentInv, FreshOK
<1> QED
  BY <1>1, <1>3, <1>5, <1>6, <1>7, InnerStep

\* An event is begun, answered (the carousel aside, when it gets its list), or
\* taken over by the background.
LEMMA BeginStep ==
  ASSUME ContentInv, NEW k \in Kinds, NEW i \in Ids, BeginEvent(k, i)
  PROVE  ContentInv'
<1> DEFINE b == bloc[BlocOf(k, i)]
           c == Begin(b, AtBegin(k, b.state))
<1>1. BlocOK(k, b) /\ k # "background" /\ CanBegin(b)
  BY DEF BeginEvent, ContentInv, BlocsOK
<1>2. i <= opened
  BY <1>1, Alive
<1>3. /\ BlocOK(k, c) /\ c.open = b.open /\ (k = "carousel" => c.state = b.state)
  BY <1>1, BeginOK
<1>4. bloc' = [bloc EXCEPT ![BlocOf(k, i)] = c] /\ UNCHANGED <<stack, opened, built, pageView>>
  <2>1. bloc \in [Kinds \X Ids -> BlocRecords] /\ BlocOf(k, i) \in Kinds \X Ids
    BY Distinct DEF ContentInv, BlocsOK
  <2> QED
    BY <2>1 DEF BeginEvent
<1> HIDE DEF c
<1>5. c \in BlocRecords /\ OneBloc(k, i, c)
  BY <1>3, <1>4 DEF BlocOK, OneBloc
<1> QED
  BY <1>1, <1>2, <1>3, <1>4, <1>5, OneStep

LEMMA ChangeStep ==
  ASSUME ContentInv, NEW i \in Ids, ChangeBackground(i)
  PROVE  ContentInv'
<1> DEFINE b == bloc[BlocOf("background", i)]
           c == [b EXCEPT !.begun = @ + 1, !.state = Loaded(b.begun + 1, b.events[b.begun + 1])]
<1>1. "background" \in Kinds
  BY DEF Kinds
<1>2. BlocOK("background", b) /\ CanBegin(b)
  BY <1>1 DEF ChangeBackground, ContentInv, BlocsOK
<1>3. i <= opened
  BY <1>1, <1>2, Alive
<1>4. BlocOK("background", c) /\ c.open = b.open /\ c.events = b.events
  BY <1>2, ChangeOK
<1>5. bloc' = [bloc EXCEPT ![BlocOf("background", i)] = c] /\ UNCHANGED <<stack, opened, built, pageView>>
  BY DEF ChangeBackground
<1> HIDE DEF c
<1>6. c \in BlocRecords /\ OneBloc("background", i, c)
  BY <1>4, <1>5 DEF BlocOK, OneBloc
<1> QED
  BY <1>1, <1>3, <1>4, <1>5, <1>6, OneStep

LEMMA TabStep ==
  ASSUME ContentInv, OnTabs
  PROVE  ContentInv'
<1>1. PICK t \in Tabs : bloc' = [bloc EXCEPT ![BlocOf("tabs", Top.id)] = Add(@, t)]
  BY DEF OnTabs
<1>2. Top.id \in Ids /\ Top.id <= opened /\ "tabs" \in Kinds /\ t \in Event
  BY TopFacts DEF ContentInv, StackOK, Kinds, Event
<1>3. PICK i \in Ids : i = Top.id
  BY <1>2
<1> DEFINE b == bloc[BlocOf("tabs", i)]
           c == Add(b, t)
<1>4. BlocOK("tabs", b)
  BY <1>2 DEF ContentInv, BlocsOK
<1>5. BlocOK("tabs", c) /\ c.open = b.open
  BY <1>2, <1>4, AddOK
<1>6. bloc' = [bloc EXCEPT ![BlocOf("tabs", i)] = c]
  <2>1. bloc \in [Kinds \X Ids -> BlocRecords] /\ BlocOf("tabs", i) \in Kinds \X Ids
    BY <1>2, Distinct DEF ContentInv, BlocsOK
  <2> QED
    BY <1>1, <1>3, <2>1
<1>7. UNCHANGED <<stack, opened, built, pageView>>
  BY DEF OnTabs
<1> HIDE DEF c
<1>8. c \in BlocRecords /\ OneBloc("tabs", i, c)
  BY <1>5, <1>6, <1>7 DEF BlocOK, OneBloc
<1> QED
  BY <1>2, <1>3, <1>5, <1>7, <1>8, OneStep

\* A background that is behind a page on the screen takes an event, and that is
\* its last one.
LEMMA Sent ==
  ASSUME NEW g, BlocOK("background", g), NEW e \in Event
  PROVE  /\ BlocOK("background", Add(g, e)) /\ Add(g, e).open = g.open
         /\ g.open => Add(g, e).events # <<>> /\ Add(g, e).events[Len(Add(g, e).events)] = e
<1>1. g \in BlocRecords /\ Len(g.events) \in Nat
  BY DEF BlocOK, BlocRecords
<1>2. /\ BlocOK("background", Add(g, e)) /\ Add(g, e).open = g.open
      /\ g.open => /\ Len(Add(g, e).events) = Len(g.events) + 1
                   /\ Add(g, e).events[Len(g.events) + 1] = e
  BY AddOK
<1>3. Len(g.events) + 1 # 0 /\ Len(<<>>) = 0
  BY <1>1
<1> QED
  BY <1>2, <1>3

\* An answer arrives.
LEMMA ReplyStep ==
  ASSUME ContentInv, NEW k \in Kinds, NEW i \in Ids, NEW r \in Replies, Reply(k, i, r)
  PROVE  ContentInv'
<1> DEFINE b == bloc[BlocOf(k, i)]
           s == Answered(k, b.state, b.begun, r)
           c == End(b, s, r)
<1>1. BlocOK(k, b) /\ k # "background" /\ b.busy
  BY DEF Reply, ContentInv, BlocsOK
<1>2. i <= opened
  BY <1>1, Alive
<1>3. /\ BlocOK(k, c) /\ c.open = b.open /\ c.state = s
      /\ k = "carousel" /\ s.is = "loaded" => s.books \in Lists
  BY <1>1, EndOK
<1>4. k = "carousel" => b.state.is # "loaded"
  BY <1>1, StateTypes DEF BlocOK, CarouselOK
<1>5. /\ UNCHANGED <<stack, opened, built, pageView>>
      /\ bloc' = IF k = "carousel" /\ s.is = "loaded"
                 THEN [[bloc EXCEPT ![BlocOf(k, i)] = c] EXCEPT
                         ![BlocOf("background", i)] = Add(@, <<s.books, 0>>)]
                 ELSE [bloc EXCEPT ![BlocOf(k, i)] = c]
  BY DEF Reply
<1> HIDE DEF s, c
<1>6. c \in BlocRecords
  BY <1>3 DEF BlocOK
<1>7. CASE ~(k = "carousel" /\ s.is = "loaded")
  <2>1. OneBloc(k, i, c)
    BY <1>5, <1>7 DEF OneBloc
  <2> QED
    BY <1>1, <1>2, <1>3, <1>4, <1>5, <1>6, <1>7, <2>1, OneStep
<1>8. CASE k = "carousel" /\ s.is = "loaded"
  <2> DEFINE e == <<s.books, 0>>
             g == bloc[BlocOf("background", i)]
  <2>1. e \in Event /\ "background" \in Kinds /\ "carousel" \in Kinds
    BY <1>3, <1>8 DEF Event, Index, Kinds
  <2>2. BlocOK("background", g)
    BY <2>1 DEF ContentInv, BlocsOK
  <2>3. bloc \in [Kinds \X Ids -> BlocRecords]
    BY DEF ContentInv, BlocsOK
  <2>4. /\ BlocOf("carousel", i) \in Kinds \X Ids /\ BlocOf("background", i) \in Kinds \X Ids
        /\ BlocOf("background", i) # BlocOf("carousel", i)
    BY <2>1, Distinct
  <2>5. bloc' = [[bloc EXCEPT ![BlocOf("carousel", i)] = c] EXCEPT ![BlocOf("background", i)] = Add(g, e)]
    BY <1>5, <1>8, <2>3, <2>4
  <2> HIDE DEF e
  <2> DEFINE h == Add(g, e)
  <2>6. /\ BlocOK("background", h) /\ h.open = g.open
        /\ g.open => h.events # <<>> /\ h.events[Len(h.events)] = e
    BY <2>1, <2>2, Sent
  <2> HIDE DEF h
  <2>7. h \in BlocRecords
    BY <2>6 DEF BlocOK
  <2>8. bloc' \in [Kinds \X Ids -> BlocRecords]
    BY <1>6, <2>3, <2>5, <2>7 DEF h
  <2>9. ASSUME NEW j \in Kinds, NEW l \in Ids
        PROVE  bloc'[BlocOf(j, l)] = IF j = "carousel" /\ l = i THEN c
                                     ELSE IF j = "background" /\ l = i THEN h ELSE bloc[BlocOf(j, l)]
    <3>1. /\ BlocOf(j, l) \in Kinds \X Ids
          /\ BlocOf(j, l) = BlocOf("carousel", i) <=> j = "carousel" /\ l = i
          /\ BlocOf(j, l) = BlocOf("background", i) <=> j = "background" /\ l = i
      BY <2>1, Distinct
    <3> QED
      BY <2>3, <2>4, <2>5, <3>1 DEF h
  <2>10. i \notin built /\ pageView[i] = 0 /\ HomeOK
    BY <1>4, <1>8 DEF ContentInv, HomeOK
  <2>11. HomeOK'
    <3>1. OnScreen' = OnScreen
      BY <1>5 DEF OnScreen
    <3>2. \A l \in built : bloc'[BlocOf("carousel", l)].state.is = "loaded"
      BY <2>1, <2>9, <2>10 DEF HomeOK
    <3>3. ASSUME "background" \in Watched, NEW l \in Ids, Page("home", l) \in OnScreen
          PROVE  LET u == bloc'[BlocOf("background", l)]
                     v == bloc'[BlocOf("carousel", l)]
                 IN /\ u.open
                    /\ v.state.is = "loaded" =>
                         u.events # <<>> /\ u.events[Len(u.events)] = <<v.state.books, pageView[l]>>
      <4>1. CASE l = i
        <5>1. bloc'[BlocOf("background", l)] = h /\ bloc'[BlocOf("carousel", l)] = c
          BY <2>1, <2>9, <4>1
        <5>2. g.open
          BY <2>10, <3>3, <4>1 DEF HomeOK
        <5> QED
          BY <1>3, <2>6, <2>10, <4>1, <5>1, <5>2 DEF e
      <4>2. CASE l # i
        <5>1. /\ bloc'[BlocOf("background", l)] = bloc[BlocOf("background", l)]
              /\ bloc'[BlocOf("carousel", l)] = bloc[BlocOf("carousel", l)]
          BY <2>1, <2>9, <4>2
        <5> QED
          BY <2>10, <3>3, <5>1 DEF HomeOK
      <4> QED
        BY <4>1, <4>2
    <3> QED
      BY <1>5, <2>10, <3>1, <3>2, <3>3 DEF HomeOK, BlocOf, Page
  <2>12. \A l \in Ids : l > opened => l # i
    BY <1>2 DEF ContentInv, StackOK, Ids
  <2>13. ASSUME NEW j \in Kinds, NEW l \in Ids
         PROVE  /\ BlocOK(j, bloc'[BlocOf(j, l)])
                /\ bloc'[BlocOf(j, l)].open => bloc[BlocOf(j, l)].open
                /\ l > opened => bloc'[BlocOf(j, l)] = bloc[BlocOf(j, l)]
    <3>1. BlocOK(j, bloc[BlocOf(j, l)])
      BY DEF ContentInv, BlocsOK
    <3> QED
      BY <1>3, <1>8, <2>6, <2>9, <2>12, <3>1
  <2>14. \A l \in Ids : l > opened => l \notin built' /\ pageView'[l] = pageView[l]
    BY <1>5 DEF ContentInv, FreshOK
  <2> QED
    BY <1>5, <2>8, <2>11, <2>13, <2>14, InnerStep
<1> QED
  BY <1>7, <1>8

\* The page view is swiped.
LEMMA SwipeStep ==
  ASSUME ContentInv, Swipe
  PROVE  ContentInv'
<1>1. /\ Top.id \in Ids /\ Top.id <= opened /\ "background" \in Kinds /\ "carousel" \in Kinds
      /\ Top.id \in built /\ Top = Page("home", Top.id) /\ Top \in OnScreen
  BY TopFacts DEF ContentInv, StackOK, Kinds, Swipe, OnHome
<1>2. PICK i \in Ids : i = Top.id
  BY <1>1
<1> DEFINE a == bloc[BlocOf("carousel", i)]
           g == bloc[BlocOf("background", i)]
<1>3. PICK j \in Index : /\ pageView' = [pageView EXCEPT ![i] = j]
                         /\ bloc' = [bloc EXCEPT ![BlocOf("background", i)] = Add(@, <<a.state.books, j>>)]
  BY <1>2 DEF Swipe
<1>4. UNCHANGED <<stack, opened, built>>
  BY DEF Swipe
<1>5. BlocOK("carousel", a) /\ BlocOK("background", g) /\ HomeOK
  BY <1>1 DEF ContentInv, BlocsOK
<1>6. a.state.is = "loaded" /\ a.state.books \in Lists
  BY <1>1, <1>2, <1>5 DEF BlocOK, CarouselOK, HomeOK
<1> DEFINE e == <<a.state.books, j>>
           h == Add(g, e)
<1>7. e \in Event
  BY <1>6 DEF Event
<1>8. OneBloc("background", i, h)
  <2>1. bloc \in [Kinds \X Ids -> BlocRecords] /\ BlocOf("background", i) \in Kinds \X Ids
    BY <1>1, Distinct DEF ContentInv, BlocsOK
  <2> QED
    BY <1>3, <1>4, <2>1 DEF OneBloc
<1>9. e = <<a.state.books, j>>
  OBVIOUS
<1> HIDE DEF e
<1>10. /\ BlocOK("background", h) /\ h.open = g.open
       /\ g.open => h.events # <<>> /\ h.events[Len(h.events)] = e
  BY <1>5, <1>7, Sent
<1> HIDE DEF h
<1>11. h \in BlocRecords
  BY <1>10 DEF BlocOK
<1>12. /\ bloc' \in [Kinds \X Ids -> BlocRecords]
       /\ \A k \in Kinds, l \in Ids :
            bloc'[BlocOf(k, l)] = IF k = "background" /\ l = i THEN h ELSE bloc[BlocOf(k, l)]
  <2>1. bloc' \in [Kinds \X Ids -> BlocRecords]
    BY <1>1, <1>8, <1>11, OneFacts
  <2>2. ASSUME NEW k \in Kinds, NEW l \in Ids
        PROVE  bloc'[BlocOf(k, l)] = IF k = "background" /\ l = i THEN h ELSE bloc[BlocOf(k, l)]
    BY <1>1, <1>8, <1>11, OneFacts
  <2> QED
    BY <2>1, <2>2
<1>13. HomeOK'
  <2>1. OnScreen' = OnScreen
    BY <1>4 DEF OnScreen
  <2>2. pageView' \in [Ids -> Index] /\ \A l \in Ids \ {i} : pageView'[l] = pageView[l]
    BY <1>3, <1>5 DEF HomeOK
  <2>3. pageView'[i] = j
    BY <1>3, <1>5 DEF HomeOK
  <2>4. \A l \in Ids : bloc'[BlocOf("carousel", l)] = bloc[BlocOf("carousel", l)]
    BY <1>1, <1>12
  <2>5. ASSUME "background" \in Watched, NEW l \in Ids, Page("home", l) \in OnScreen
        PROVE  LET u == bloc'[BlocOf("background", l)]
                   v == bloc'[BlocOf("carousel", l)]
               IN /\ u.open
                  /\ v.state.is = "loaded" =>
                       u.events # <<>> /\ u.events[Len(u.events)] = <<v.state.books, pageView'[l]>>
    <3>1. CASE l = i
      <4>1. bloc'[BlocOf("background", l)] = h
        BY <1>1, <1>12, <3>1
      <4>2. g.open
        BY <1>5, <2>5, <3>1 DEF HomeOK
      <4> QED
        BY <1>9, <1>10, <2>3, <2>4, <3>1, <4>1, <4>2
    <3>2. CASE l # i
      <4>1. bloc'[BlocOf("background", l)] = bloc[BlocOf("background", l)]
        BY <1>1, <1>12, <3>2
      <4> QED
        BY <1>5, <2>2, <2>4, <2>5, <3>2, <4>1 DEF HomeOK
    <3> QED
      BY <3>1, <3>2
  <2>6. \A l \in built : bloc'[BlocOf("carousel", l)].state.is = "loaded"
    BY <1>5, <2>4 DEF HomeOK
  <2>7. built \subseteq Ids /\ \A l \in Ids \ built : pageView'[l] = 0
    BY <1>1, <1>2, <1>5, <2>2 DEF HomeOK
  <2> QED
    BY <1>4, <2>1, <2>2, <2>5, <2>6, <2>7 DEF HomeOK, BlocOf, Page
<1>14. \A l \in Ids : l > opened => l # i
  BY <1>1, <1>2 DEF ContentInv, StackOK, Ids
<1>15. ASSUME NEW k \in Kinds, NEW l \in Ids
       PROVE  /\ BlocOK(k, bloc'[BlocOf(k, l)])
              /\ bloc'[BlocOf(k, l)].open => bloc[BlocOf(k, l)].open
              /\ l > opened => bloc'[BlocOf(k, l)] = bloc[BlocOf(k, l)]
  <2>1. BlocOK(k, bloc[BlocOf(k, l)])
    BY DEF ContentInv, BlocsOK
  <2> QED
    BY <1>10, <1>12, <1>14, <2>1
<1>16. \A l \in Ids : l > opened => l \notin built' /\ pageView'[l] = pageView[l]
  BY <1>3, <1>4, <1>14 DEF ContentInv, FreshOK, HomeOK
<1> QED
  BY <1>4, <1>12, <1>13, <1>15, <1>16, InnerStep

\* A home page's carousel is shown: its tabs and its random list are asked.
BuildBlocs(i) ==
  /\ i \in Ids /\ i <= opened /\ Page("home", i) \in OnScreen
  /\ bloc' \in [Kinds \X Ids -> BlocRecords]
  /\ \A k \in Kinds, l \in Ids :
       \/ bloc'[BlocOf(k, l)] = bloc[BlocOf(k, l)]
       \/ l = i /\ k = "tabs" /\ bloc'[BlocOf(k, l)] = Add(bloc[BlocOf(k, l)], 0)
       \/ l = i /\ k = "random" /\ bloc'[BlocOf(k, l)] = Add(Bloc, 0)

LEMMA BuildFacts ==
  ASSUME ContentInv, NEW i \in Ids, BuildHome(i)
  PROVE  BuildBlocs(i)
<1>1. Page("home", i) \in OnScreen /\ i <= opened
  <2>1. Page("home", i) \in OnScreen
    BY DEF BuildHome, OnScreen
  <2> QED
    BY <2>1, TopFacts DEF ContentInv, StackOK, Pages
<1>2. "tabs" \in Kinds /\ "random" \in Kinds /\ 0 \in Event
  BY DEF Kinds, Event, Tabs
<1>3. bloc \in [Kinds \X Ids -> BlocRecords]
  BY DEF ContentInv, BlocsOK
<1> DEFINE t == Add(bloc[BlocOf("tabs", i)], 0)
           b == bloc[BlocOf("random", i)]
           n == IF "random" \in Watched THEN Add(Bloc, 0) ELSE b
<1>4. /\ BlocOf("tabs", i) \in Kinds \X Ids /\ BlocOf("random", i) \in Kinds \X Ids
      /\ BlocOf("tabs", i) # BlocOf("random", i)
  BY <1>2, Distinct
<1>5. bloc' = [[bloc EXCEPT ![BlocOf("tabs", i)] = t] EXCEPT ![BlocOf("random", i)] = n]
  BY <1>3, <1>4 DEF BuildHome
<1>6. t \in BlocRecords
  <2>1. BlocOK("tabs", bloc[BlocOf("tabs", i)])
    BY <1>2 DEF ContentInv, BlocsOK
  <2>2. BlocOK("tabs", t)
    BY <1>2, <2>1, AddOK
  <2> QED
    BY <2>2 DEF BlocOK
<1>7. n \in BlocRecords /\ (n = b \/ n = Add(Bloc, 0))
  BY <1>2, <1>3, <1>4, NewBloc DEF BlocOK
<1> HIDE DEF t, n
<1>8. bloc' \in [Kinds \X Ids -> BlocRecords]
  BY <1>3, <1>5, <1>6, <1>7
<1>9. ASSUME NEW k \in Kinds, NEW l \in Ids
      PROVE  \/ bloc'[BlocOf(k, l)] = bloc[BlocOf(k, l)]
             \/ l = i /\ k = "tabs" /\ bloc'[BlocOf(k, l)] = t
             \/ l = i /\ k = "random" /\ bloc'[BlocOf(k, l)] = Add(Bloc, 0)
  <2>1. /\ BlocOf(k, l) \in Kinds \X Ids
        /\ BlocOf(k, l) = BlocOf("tabs", i) <=> k = "tabs" /\ l = i
        /\ BlocOf(k, l) = BlocOf("random", i) <=> k = "random" /\ l = i
    BY <1>2, Distinct
  <2> QED
    BY <1>3, <1>4, <1>5, <1>7, <2>1
<1> QED
  BY <1>1, <1>8, <1>9 DEF BuildBlocs, t

LEMMA BuildStep ==
  ASSUME ContentInv, NEW i \in Ids, BuildHome(i)
  PROVE  ContentInv'
<1>1. BuildBlocs(i)
  BY BuildFacts
<1>2. /\ bloc[BlocOf("carousel", i)].state.is = "loaded" /\ built' = built \union {i}
      /\ UNCHANGED <<stack, opened, pageView>>
  BY DEF BuildHome
<1>3. \A l \in Ids : /\ bloc'[BlocOf("carousel", l)] = bloc[BlocOf("carousel", l)]
                     /\ bloc'[BlocOf("background", l)] = bloc[BlocOf("background", l)]
  BY <1>1 DEF BuildBlocs, Kinds
<1>4. HomeOK'
  <2>1. HomeOK /\ OnScreen' = OnScreen
    BY <1>2 DEF ContentInv, OnScreen
  <2>2. \A l \in built' : bloc'[BlocOf("carousel", l)].state.is = "loaded"
    BY <1>2, <1>3, <2>1 DEF HomeOK
  <2>3. "background" \in Watched =>
          \A l \in Ids : Page("home", l) \in OnScreen =>
            LET g == bloc'[BlocOf("background", l)]
                c == bloc'[BlocOf("carousel", l)]
            IN /\ g.open
               /\ c.state.is = "loaded" =>
                    g.events # <<>> /\ g.events[Len(g.events)] = <<c.state.books, pageView[l]>>
    BY <1>3, <2>1 DEF HomeOK
  <2> QED
    BY <1>2, <2>1, <2>2, <2>3 DEF HomeOK, BlocOf, Page
<1>5. \A l \in Ids : l > opened => l # i
  BY <1>1 DEF BuildBlocs, ContentInv, StackOK, Ids
<1>6. ASSUME NEW k \in Kinds, NEW l \in Ids
      PROVE  /\ BlocOK(k, bloc'[BlocOf(k, l)])
             /\ bloc'[BlocOf(k, l)].open =>
                  bloc[BlocOf(k, l)].open \/ (k = "random" /\ Page("home", l) \in OnScreen)
             /\ l > opened => bloc'[BlocOf(k, l)] = bloc[BlocOf(k, l)]
  <2>1. BlocOK(k, bloc[BlocOf(k, l)])
    BY DEF ContentInv, BlocsOK
  <2>2. CASE bloc'[BlocOf(k, l)] = bloc[BlocOf(k, l)]
    BY <2>1, <2>2
  <2>3. CASE l = i /\ k = "tabs" /\ bloc'[BlocOf(k, l)] = Add(bloc[BlocOf(k, l)], 0)
    <3>1. 0 \in Event
      BY DEF Event, Tabs
    <3> QED
      BY <1>5, <2>1, <2>3, <3>1, AddOK
  <2>4. CASE l = i /\ k = "random" /\ bloc'[BlocOf(k, l)] = Add(Bloc, 0)
    BY <1>1, <1>5, <2>4, NewBloc DEF BuildBlocs
  <2> QED
    BY <1>1, <2>2, <2>3, <2>4 DEF BuildBlocs
<1>7. \A l \in Ids : l > opened => l \notin built' /\ pageView'[l] = pageView[l]
  BY <1>2, <1>5 DEF ContentInv, FreshOK
<1> QED
  BY <1>1, <1>2, <1>4, <1>6, <1>7, InnerStep DEF BuildBlocs

\* A step opens or leaves a page, or something goes on in a page.
LEMMA NextCases ==
  ASSUME [ContentNext]_contentVars
  PROVE  \/ \E p \in Pages : PushPage(p) \/ OnTapBM(p) \/ Back
         \/ Swipe \/ OnTabs
         \/ \E i \in Ids : BuildHome(i) \/ ChangeBackground(i)
         \/ \E i \in Ids, k \in Kinds : BeginEvent(k, i) \/ \E r \in Replies : Reply(k, i, r)
         \/ UNCHANGED contentVars
<1>1. TapBook => PushPage("detail")
  BY DEF TapBook, TapCard, TapTabsBook, TapRandomBook, TapLibraryBook, TapExploresBook, TapRelated,
         TapFavorite
<1>2. Drawer => PushPage("home") \/ PushPage("explores")
  BY DEF Drawer
<1>3. {"home", "library", "favorite", "explores", "detail"} \subseteq Pages
  BY DEF Pages
<1> QED
  BY <1>1, <1>2, <1>3 DEF ContentNext

LEMMA ContentStep == ContentInv /\ [ContentNext]_contentVars => ContentInv'
<1> SUFFICES ASSUME ContentInv, [ContentNext]_contentVars PROVE ContentInv'
  OBVIOUS
<1>1. ASSUME NEW p \in Pages, PushPage(p) \/ OnTapBM(p) \/ Back PROVE ContentInv'
  BY <1>1, PageFacts, PageStep
<1>2. CASE Swipe \/ OnTabs
  BY <1>2, SwipeStep, TabStep
<1>3. ASSUME NEW i \in Ids, BuildHome(i) \/ ChangeBackground(i) PROVE ContentInv'
  BY <1>3, BuildStep, ChangeStep
<1>4. ASSUME NEW i \in Ids, NEW k \in Kinds, BeginEvent(k, i) \/ \E r \in Replies : Reply(k, i, r)
      PROVE  ContentInv'
  BY <1>4, BeginStep, ReplyStep
<1>5. CASE UNCHANGED contentVars
  <2>1. UNCHANGED <<stack, opened, bloc, built, pageView>> /\ OnScreen' = OnScreen
    BY <1>5 DEF contentVars, OnScreen
  <2>2. BlocsOK' /\ StackOK'
    BY <2>1 DEF ContentInv, BlocsOK, StackOK, BlocOf
  <2>3. FreshOK' /\ OpenOK'
    BY <2>1 DEF ContentInv, FreshOK, OpenOK, BlocOf, NoBloc, Bloc, Close, ClosedBy
  <2>4. HomeOK'
    BY <2>1 DEF ContentInv, HomeOK, BlocOf, Page
  <2> QED
    BY <2>2, <2>3, <2>4 DEF ContentInv
<1> QED
  BY <1>1, <1>2, <1>3, <1>4, <1>5, NextCases

LEMMA ContentInitOK == ContentInit => ContentInv
<1> SUFFICES ASSUME ContentInit PROVE ContentInv
  OBVIOUS
<1> DEFINE b == [x \in Kinds \X Ids |-> NoBloc]
<1>1. 1 \in Ids /\ "home" \in Pages /\ 0 \in Index
  BY ContentAssumption DEF Ids, Pages, Index
<1>2. b \in [Kinds \X Ids -> BlocRecords] /\ \A k \in Kinds, i \in Ids : b[BlocOf(k, i)] = NoBloc
  <2>1. NoBloc \in BlocRecords
    BY NewBloc, PageKinds, <1>1 DEF BlocOK
  <2>2. \A k \in Kinds, i \in Ids : BlocOf(k, i) \in Kinds \X Ids
    BY Distinct
  <2> QED
    BY <2>1, <2>2
<1>3. bloc = Made("home", 1, b)
  BY DEF ContentInit
<1> HIDE DEF b
<1>4. bloc \in [Kinds \X Ids -> BlocRecords]
  BY <1>1, <1>2, <1>3, MadeFacts
<1>5. \A k \in Kinds, i \in Ids :
        bloc[BlocOf(k, i)] = IF i = 1 /\ k \in MadeBy("home")
                             THEN IF k \in Asks THEN Add(Bloc, 0) ELSE Bloc
                             ELSE NoBloc
  <2>1. ASSUME NEW k \in Kinds, NEW i \in Ids
        PROVE  Made("home", 1, b)[BlocOf(k, i)] = IF i = 1 /\ k \in MadeBy("home")
                                                  THEN IF k \in Asks THEN Add(Bloc, 0) ELSE Bloc
                                                  ELSE b[BlocOf(k, i)]
    <3>1. PICK p \in Pages, l \in Ids : p = "home" /\ l = 1
      BY <1>1
    <3>2. Made(p, l, b)[BlocOf(k, i)] = IF i = l /\ k \in MadeBy(p)
                                        THEN IF k \in Asks THEN Add(Bloc, 0) ELSE Bloc
                                        ELSE b[BlocOf(k, i)]
      BY <1>2, MadeFacts
    <3> QED
      BY <3>1, <3>2
  <2> QED
    BY <1>2, <1>3, <2>1
<1>6. BlocsOK
  BY <1>4, <1>5, NewBloc DEF BlocsOK
<1>7. /\ stack = <<Page("home", 1)>> /\ opened = 1 /\ built = {} /\ pageView = [i \in Ids |-> 0]
  BY DEF ContentInit
<1>8. PICK x : x = Page("home", 1)
  OBVIOUS
<1>9. x \in PageRecords /\ x.page = "home" /\ x.id = 1
  BY <1>1, <1>8 DEF Page, PageRecords
<1>10. /\ stack \in Seq(PageRecords) /\ stack # <<>> /\ Len(stack) = 1
       /\ \A n \in 1 .. Len(stack) : n = 1 /\ stack[n] = x
  BY <1>7, <1>8, <1>9
<1>11. OnScreen = {x}
  BY <1>10 DEF OnScreen
<1>12. StackOK
  BY <1>1, <1>7, <1>9, <1>10, <1>11 DEF StackOK
<1>13. \A i \in Ids : i > opened => i # 1
  BY <1>7
<1>14. FreshOK
  BY <1>5, <1>7, <1>13 DEF FreshOK
<1>15. OpenOK
  BY <1>1, <1>5, <1>9, <1>11, NewBloc, PageKinds DEF OpenOK
<1>16. HomeOK
  <2>1. \A k \in Kinds, i \in Ids : bloc[BlocOf(k, i)].state = Waiting
    BY <1>5, NewBloc
  <2>2. ASSUME "background" \in Watched, NEW i \in Ids, Page("home", i) \in OnScreen
        PROVE  bloc[BlocOf("background", i)].open /\ bloc[BlocOf("carousel", i)].state.is # "loaded"
    <3>1. i = 1
      BY <1>9, <1>11, <2>2 DEF Page
    <3>2. bloc[BlocOf("background", i)] = Bloc
      BY <1>1, <1>5, <2>2, <3>1, PageKinds DEF Asks
    <3> QED
      BY <1>1, <2>1, <3>2, NewBloc, PageKinds, StateTypes
  <2> QED
    BY <1>1, <1>7, <2>2 DEF HomeOK
<1> QED
  BY <1>6, <1>12, <1>14, <1>15, <1>16 DEF ContentInv

LEMMA ContentHolds == ContentSpec => []ContentInv
  BY ContentInitOK, ContentStep, PTL DEF ContentSpec

-----------------------------------------------------------------------------
(* What the pages promise. *)

\* THEOREM: the variables of Content keep their types: any number of pages.
THEOREM ContentTypeCorrect == ContentSpec => []ContentTypeOK
<1>1. ContentInv => ContentTypeOK
  <2> SUFFICES ASSUME ContentInv PROVE ContentTypeOK
    OBVIOUS
  <2>1. opened \in 0 .. MaxShown /\ OnStack \subseteq 1 .. opened
    <3>1. OnStack = {x.id : x \in OnScreen}
      BY DEF OnStack, OnScreen
    <3>2. \A x \in OnScreen : x.id \in Ids /\ x.id <= opened
      BY TopFacts DEF ContentInv, StackOK
    <3> QED
      BY <3>1, <3>2, ContentAssumption DEF ContentInv, StackOK, Ids
  <2>2. ASSUME NEW x \in DOMAIN bloc
        PROVE  /\ bloc[x].begun \in 0 .. Len(bloc[x].events)
               /\ bloc[x].busy => bloc[x].begun > 0
               /\ bloc[x].state.of \in 0 .. bloc[x].begun
    <3>1. PICK k \in Kinds, i \in Ids : x = BlocOf(k, i)
      BY <2>2 DEF ContentInv, BlocsOK, BlocOf
    <3>2. bloc[x] \in BlocRecords /\ Counted(bloc[x])
      BY <3>1 DEF ContentInv, BlocsOK, BlocOK
    <3>3. /\ bloc[x].begun \in Nat /\ bloc[x].state.of \in Nat /\ Len(bloc[x].events) \in Nat
      BY <3>2 DEF BlocRecords, States
    <3> QED
      BY <3>2, <3>3 DEF Counted
  <2> QED
    BY <2>1, <2>2 DEF ContentInv, BlocsOK, StackOK, HomeOK, ContentTypeOK, PageRecords
<1> QED
  BY <1>1, ContentHolds, PTL

\* THEOREM: behind a home page's carousel is the book its page view is at, once
\* every event has been mapped, however many home pages are or were open (the
\* background being followed).
THEOREM BackgroundFollowsPage ==
  "background" \in Watched => (ContentSpec => []BackgroundIsPage)
<1> SUFFICES ASSUME "background" \in Watched
             PROVE  ContentSpec => []BackgroundIsPage
  OBVIOUS
<1>1. ContentInv => BackgroundIsPage
  <2> SUFFICES ASSUME ContentInv, NEW i \in Ids, HomeShown(i),
                      Settled(bloc[BlocOf("background", i)])
               PROVE  /\ bloc[BlocOf("background", i)].state.is = "loaded"
                      /\ bloc[BlocOf("background", i)].state.books
                           = <<bloc[BlocOf("carousel", i)].state.books, pageView[i]>>
    BY DEF BackgroundIsPage
  <2>1. PICK g : g = bloc[BlocOf("background", i)]
    OBVIOUS
  <2>2. BlocOK("background", g)
    BY <2>1 DEF ContentInv, BlocsOK, Kinds
  <2>3. Page("home", i) \in OnScreen /\ i \in built
    BY DEF HomeShown, OnScreen
  <2>4. /\ g.events # <<>>
        /\ g.events[Len(g.events)] = <<bloc[BlocOf("carousel", i)].state.books, pageView[i]>>
    BY <2>1, <2>3 DEF ContentInv, HomeOK
  <2>5. g.events \in Seq(Event) /\ g.begun = Len(g.events)
    BY <2>1, <2>2 DEF BlocOK, BlocRecords, Settled
  <2>6. g.begun \in Nat \ {0} /\ g.events[g.begun] \in Shown
    BY <2>4, <2>5, EmptySeq DEF Shown
  <2>7. g.state = Loaded(g.begun, g.events[g.begun])
    BY <2>2, <2>6 DEF BlocOK, BackgroundOK
  <2> QED
    BY <2>1, <2>4, <2>5, <2>6, <2>7, StateTypes
<1> QED
  BY <1>1, ContentHolds, PTL

\* THEOREM: when nothing is under way the tabs show what became of the tab tapped
\* last, and are left on the spinner only by an answer that could not be read.
THEOREM TabsAnswerTheLastTap == ContentSpec => []TabsAnswerLastTap
<1>1. ContentInv => TabsAnswerLastTap
  BY StateTypes DEF ContentInv, BlocsOK, BlocOK, TabsOK, OfflineOK, Silent, TabsAnswerLastTap, Settled, Kinds
<1> QED
  BY <1>1, ContentHolds, PTL

\* THEOREM: a page that is left leaves no open bloc behind, except the detail
\* page, whatever was opened in between.
THEOREM PagesCloseTheirBlocs == ContentSpec => []ClosedWithPage
<1>1. ContentInv => ClosedWithPage
  <2>1. OnStack = {x.id : x \in OnScreen}
    BY DEF OnStack, OnScreen
  <2> QED
    BY <2>1 DEF ContentInv, OpenOK, ClosedWithPage
<1> QED
  BY <1>1, ContentHolds, PTL

\* THEOREM: the tabs are a RequestView, so that an answer that comes late never
\* takes the place of a later one, nor when the page is left and entered again.
THEOREM TabsKeepOrder == ContentSpec => TabsInOrder
<1> DEFINE Turn(i) == TabsView(i)!ViewNext \/ UNCHANGED TabsView(i)!view
<1>1. ASSUME ContentInv, [ContentNext]_contentVars, NEW i \in Ids PROVE Turn(i)
  <2> DEFINE b == bloc[BlocOf("tabs", i)]
             n == Len(b.events)
  <2>1. "tabs" \in Kinds /\ BlocOK("tabs", b)
    BY <1>1 DEF ContentInv, BlocsOK, Kinds
  <2>2. /\ b \in BlocRecords /\ n \in Nat /\ b.begun \in Nat /\ b.state.of \in Nat
        /\ b.begun <= n /\ b.state.of <= b.begun
    BY <2>1 DEF BlocOK, Counted, BlocRecords, States
  <2>3. BlocOf("tabs", i)' = BlocOf("tabs", i)
    BY DEF BlocOf
  <2>4. ASSUME NEW c, bloc'[BlocOf("tabs", i)] = c,
               \/ Len(c.events) = n /\ c.begun = b.begun /\ c.state.of = b.state.of
               \/ Len(c.events) = n + 1 /\ c.begun = b.begun /\ c.state.of = b.state.of
               \/ Len(c.events) = n /\ c.begun = b.begun + 1 /\ c.begun <= n /\ c.state.of = 0
               \/ Len(c.events) = n /\ c.begun = b.begun /\ b.begun > 0 /\ c.state.of = b.begun
        PROVE  Turn(i)
    <3>1. CASE Len(c.events) = n /\ c.begun = b.begun /\ c.state.of = b.state.of
      BY <2>3, <2>4, <3>1 DEF TabsView!view, BlocOf
    <3>2. CASE Len(c.events) = n + 1 /\ c.begun = b.begun /\ c.state.of = b.state.of
      BY <2>3, <2>4, <3>2 DEF TabsView!ViewNext, TabsView!Ask, BlocOf
    <3>3. CASE Len(c.events) = n /\ c.begun = b.begun + 1 /\ c.begun <= n /\ c.state.of = 0
      <4>1. b.begun + 1 \in b.begun + 1 .. n
        BY <2>2, <3>3
      <4> QED
        BY <2>3, <2>4, <3>3, <4>1 DEF TabsView!ViewNext, TabsView!Advance, BlocOf
    <3>4. CASE Len(c.events) = n /\ c.begun = b.begun /\ b.begun > 0 /\ c.state.of = b.begun
      <4>1. b.begun \in b.begun .. n
        BY <2>2
      <4> QED
        BY <2>3, <2>4, <3>4, <4>1 DEF TabsView!ViewNext, TabsView!Show, BlocOf
    <3> QED
      BY <2>4, <3>1, <3>2, <3>3, <3>4
  <2> HIDE DEF Turn
  <2>5. ASSUME NEW p \in Pages, PushPage(p) \/ OnTapBM(p) \/ Back PROVE Turn(i)
    <3>1. PICK new, left \in BOOLEAN : PageChange(p, new, left)
      BY <1>1, <2>5, PageFacts
    <3>2. CASE new /\ i = opened'
      <4>1. i > opened
        BY <1>1, <3>1, <3>2 DEF PageChange, ContentInv, StackOK, Ids
      <4>2. b = NoBloc /\ i # Top.id
        BY <1>1, <2>1, <4>1, TopFacts DEF ContentInv, FreshOK, StackOK, Ids
      <4>3. bloc'[BlocOf("tabs", i)] \in {Bloc, NoBloc}
        BY <2>1, <3>1, <4>2 DEF PageChange, Asks
      <4> QED
        BY <2>1, <2>4, <4>2, <4>3, NewBloc
    <3>3. CASE ~(new /\ i = opened')
      <4>1. bloc'[BlocOf("tabs", i)] \in {b, Close(b)}
        BY <2>1, <3>1, <3>3 DEF PageChange
      <4> QED
        BY <2>1, <2>4, <4>1, CloseOK
    <3> QED
      BY <3>2, <3>3
  <2>6. ASSUME NEW e \in Event, bloc'[BlocOf("tabs", i)] = Add(b, e) PROVE Turn(i)
    BY <2>1, <2>4, <2>6, AddOK
  <2>7. ASSUME bloc'[BlocOf("tabs", i)] = b PROVE Turn(i)
    BY <2>4, <2>7
  <2>8. \A k \in Kinds, l \in Ids :
          /\ BlocOf(k, l) \in Kinds \X Ids
          /\ BlocOf(k, l) = BlocOf("tabs", i) <=> k = "tabs" /\ l = i
    BY <2>1, Distinct
  <2>9. bloc \in [Kinds \X Ids -> BlocRecords] /\ BlocOf("tabs", i) \in Kinds \X Ids
    BY <1>1, <2>1, <2>8 DEF ContentInv, BlocsOK
  <2>10. Tabs \subseteq Event /\ 0 \in Tabs /\ "background" \in Kinds /\ Top.id \in Ids
    BY <1>1, TopFacts DEF Event, Tabs, Kinds, ContentInv
  <2>11. CASE Swipe
    <3>1. \E x : bloc' = [bloc EXCEPT ![BlocOf("background", Top.id)] = x]
      BY <2>11 DEF Swipe
    <3>2. BlocOf("background", Top.id) # BlocOf("tabs", i)
      BY <2>8, <2>10
    <3> QED
      BY <2>7, <2>9, <3>1, <3>2
  <2>12. CASE OnTabs
    <3>1. PICK t \in Tabs : bloc' = [bloc EXCEPT ![BlocOf("tabs", Top.id)] = Add(@, t)]
      BY <2>12 DEF OnTabs
    <3>2. bloc'[BlocOf("tabs", i)] = b \/ bloc'[BlocOf("tabs", i)] = Add(b, t)
      BY <2>9, <3>1
    <3> QED
      BY <2>6, <2>7, <2>10, <3>2
  <2>13. ASSUME NEW l \in Ids, BuildHome(l) PROVE Turn(i)
    <3>1. BuildBlocs(l)
      BY <1>1, <2>13, BuildFacts
    <3>2. bloc'[BlocOf("tabs", i)] = b \/ bloc'[BlocOf("tabs", i)] = Add(b, 0)
      BY <2>1, <3>1 DEF BuildBlocs
    <3> QED
      BY <2>6, <2>7, <2>10, <3>2
  <2>14. ASSUME NEW l \in Ids, ChangeBackground(l) PROVE Turn(i)
    <3>1. \E x : bloc' = [bloc EXCEPT ![BlocOf("background", l)] = x]
      BY <2>14 DEF ChangeBackground
    <3>2. BlocOf("background", l) # BlocOf("tabs", i)
      BY <2>8, <2>10
    <3> QED
      BY <2>7, <2>9, <3>1, <3>2
  <2>15. ASSUME NEW l \in Ids, NEW k \in Kinds, BeginEvent(k, l) PROVE Turn(i)
    <3>1. CASE k = "tabs" /\ l = i
      <4>1. /\ bloc'[BlocOf("tabs", i)] = Begin(b, AtBegin("tabs", b.state)) /\ CanBegin(b)
        BY <2>9, <2>15, <3>1 DEF BeginEvent
      <4>2. LET c == Begin(b, AtBegin("tabs", b.state)) IN
            c.begun = b.begun + 1 /\ c.begun <= n /\ c.events = b.events /\ c.state = Waiting
        BY <2>1, <4>1, BeginOK
      <4> QED
        BY <2>4, <4>1, <4>2, StateTypes
    <3>2. CASE ~(k = "tabs" /\ l = i)
      BY <2>7, <2>8, <2>9, <2>15, <3>2 DEF BeginEvent
    <3> QED
      BY <3>1, <3>2
  <2>16. ASSUME NEW l \in Ids, NEW k \in Kinds, NEW r \in Replies, Reply(k, l, r) PROVE Turn(i)
    <3>1. CASE k = "tabs" /\ l = i
      <4> DEFINE s == Answered("tabs", b.state, b.begun, r)
                 c == End(b, s, r)
      <4>1. bloc'[BlocOf("tabs", i)] = c /\ b.busy
        BY <2>9, <2>16, <3>1 DEF Reply
      <4>2. /\ c.events = b.events /\ c.begun = b.begun /\ c.state = s
            /\ s = b.state \/ s.of = b.begun
        BY <2>1, <4>1, EndOK
      <4>3. b.begun > 0
        BY <2>1, <4>1 DEF BlocOK, Counted
      <4> HIDE DEF c, s
      <4> QED
        BY <2>4, <4>1, <4>2, <4>3
    <3>2. CASE ~(k = "tabs" /\ l = i)
      <4>1. BlocOf(k, l) # BlocOf("tabs", i) /\ BlocOf("background", l) # BlocOf("tabs", i)
        BY <2>8, <2>10, <3>2
      <4>2. \E x, y : \/ bloc' = [bloc EXCEPT ![BlocOf(k, l)] = x]
                      \/ bloc' = [[bloc EXCEPT ![BlocOf(k, l)] = x] EXCEPT ![BlocOf("background", l)] = y]
        BY <2>16 DEF Reply
      <4> QED
        BY <2>7, <2>9, <4>1, <4>2
    <3> QED
      BY <3>1, <3>2
  <2>17. CASE UNCHANGED contentVars
    BY <2>7, <2>17 DEF contentVars
  <2> QED
    BY <1>1, <2>5, <2>11, <2>12, <2>13, <2>14, <2>15, <2>16, <2>17, NextCases
<1>2. ContentInv /\ [ContentNext]_contentVars
        => [\A i \in Ids : TabsView(i)!ViewNext \/ UNCHANGED TabsView(i)!view]_contentVars
  BY <1>1
<1> QED
  BY <1>2, ContentHolds, PTL DEF ContentSpec, TabsInOrder
=============================================================================
