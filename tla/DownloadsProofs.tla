---------------------------- MODULE DownloadsProofs ----------------------------
(***************************************************************************)
(* Proofs about Downloads, for any number of calls, books, titles and taps *)
(* on "download": which dialogs are up, what is recorded, which file a     *)
(* record has and what the button tells.                                   *)
(***************************************************************************)
EXTENDS Downloads, EbookStoreProofs, SequenceTheorems, FiniteSetTheorems

USE DEF Active, Ended, Loaded, Operated

-----------------------------------------------------------------------------
(* What a stretch of code has still to call, and what the calls are for. *)

AnyBook == CHOOSE k \in Keys : TRUE

Checks(k)     == <<checkDownload(k)>>
Lists         == <<Request("EbookDownload.listAll", AnyBook, After("showList", NoTask, 0))>>
Adds(k, t)    == <<Request("EbookDownload.addDownload", k, After("checkDownload", t, 0))>>
Removes(k, i) == <<Request("EbookDownload.remove", k, After("deleteFile", NoTask, i))>>

Rows == 1..Cardinality(Calls)

\* A record of book k is inserted for task t: its transfer was complete, or its
\* dialog was up together with another.
Adding(k, t) == t \in received \union together /\ book[t] = k

TodoOK ==
  \/ todo = <<>> \/ todo = Lists
  \/ \E k \in Keys : \/ todo = Checks(k)
                     \/ \E t \in Tasks : todo = Adds(k, t) /\ Adding(k, t)
                     \/ \E i \in Rows : todo = Removes(k, i)

ThenOK == \A c \in Calls : pc[c] # "idle" =>
  \/ method[c] = "EbookDownload.check" /\ then[c].do = "probe"
  \/ method[c] = "EbookDownload.listAll" /\ then[c].do = "showList"
  \/ /\ method[c] = "EbookDownload.addDownload" /\ then[c].do = "checkDownload"
     /\ then[c].task \in Tasks /\ Adding(key[c], then[c].task)
  \/ method[c] = "EbookDownload.remove" /\ then[c].do = "deleteFile"

\* Dialogs lie above the pages, each once; the downloads page lies alone; a
\* tapped page is a detail page.
RoutesOK ==
  /\ \A i, j \in DOMAIN routes : routes[i].page = "dialog" /\ i <= j => routes[j].page = "dialog"
  /\ \A i, j \in DOMAIN routes : routes[i].page = "dialog" /\ routes[i] = routes[j] => i = j
  /\ \A i \in DOMAIN routes : routes[i].page = "downloads" => Len(routes) = 1
  /\ \A t \in Tasks : pageOf[t] # 0 =>
       pageOf[t] \in DOMAIN routes /\ routes[pageOf[t]].page = "detail"

\* The stages before a task has its dialog.
Early == {"unused", "asking", "locating", "missing", "found"}

DialogsOK ==
  /\ DialogHasTransfer
  /\ \A t \in together \union received : stage[t] \notin Early
  /\ \A t, u \in Tasks : Shown(Dialog(t)) /\ Shown(Dialog(u)) /\ t # u => {t, u} \subseteq together

\* Call c loads the list of the downloads page.
Listing(c) == pc[c] \in Active /\ then[c].do = "showList"

\* The list of a downloads page is loaded once, when it is empty.
ListsOK ==
  /\ todo = Lists =>
       rows = <<>> /\ routes = <<ListPage>> /\ \A c \in Calls : Listing(c) => c \in gone
  /\ \A c, d \in Calls : Listing(c) /\ Listing(d) /\ c \notin gone /\ d \notin gone => c = d
  /\ \A c \in Calls : Listing(c) /\ c \notin gone => rows = <<>> /\ routes = <<ListPage>>
  /\ routes # <<ListPage>> => rows = <<>>
  /\ \A c \in gone : pc[c] # "idle"

\* The types, and the shape of the caller's and the pages' state.
Shape == DownloadTypeOK /\ TodoOK /\ ThenOK /\ RoutesOK /\ DialogsOK /\ ListsOK

\* The stretches differ by what they call.
LEMMA Stretches ==
  /\ \A k : Checks(k) # <<>> /\ Head(Checks(k)) = checkDownload(k) /\ Tail(Checks(k)) = <<>>
  /\ Lists # <<>> /\ Tail(Lists) = <<>>
  /\ Head(Lists) = Request("EbookDownload.listAll", AnyBook, After("showList", NoTask, 0))
  /\ \A k, t : /\ Adds(k, t) # <<>> /\ Tail(Adds(k, t)) = <<>>
               /\ Head(Adds(k, t)) = Request("EbookDownload.addDownload", k, After("checkDownload", t, 0))
  /\ \A k, i : /\ Removes(k, i) # <<>> /\ Tail(Removes(k, i)) = <<>>
               /\ Head(Removes(k, i)) = Request("EbookDownload.remove", k, After("deleteFile", NoTask, i))
  /\ \A k, j, t, i : /\ Lists # Checks(k) /\ Lists # Adds(k, t) /\ Lists # Removes(k, i)
                     /\ Checks(k) # Adds(j, t) /\ Checks(k) # Removes(j, i)
                     /\ Adds(k, t) # Removes(j, i)
                     /\ Checks(k) = Checks(j) => k = j
  /\ \A k, j, t, u : Adds(k, t) = Adds(j, u) => k = j /\ t = u
<1>1. \A r : <<r>> # <<>> /\ Head(<<r>>) = r /\ Tail(<<r>>) = <<>>
  OBVIOUS
<1>2. \A r, s : <<r>> = <<s>> => r = s
  OBVIOUS
<1>3. \A m, n, k, j, t, u : Request(m, k, t) = Request(n, j, u) => m = n /\ k = j /\ t = u
  BY DEF Request
<1>4. \A d, e, t, u, i, j : After(d, t, i) = After(e, u, j) => t = u
  BY DEF After
<1> QED
  BY <1>1, <1>2, <1>3, <1>4 DEF Checks, Lists, Adds, Removes, checkDownload

\* The purposes a call may have, and the methods the page uses.
LEMMA Purposes ==
  /\ After("probe", NoTask, 0) \in Thens /\ After("showList", NoTask, 0) \in Thens
  /\ \A t \in Tasks : After("checkDownload", t, 0) \in Thens
  /\ \A i \in Rows : After("deleteFile", NoTask, i) \in Thens
  /\ {"EbookDownload.check", "EbookDownload.listAll", "EbookDownload.addDownload",
      "EbookDownload.remove"} \subseteq Methods
  /\ AnyBook \in Keys
  /\ \A t \in Thens : t.do = "deleteFile" => t.row \in Rows
<1>1. /\ After("probe", NoTask, 0) \in Thens /\ After("showList", NoTask, 0) \in Thens
      /\ \A t \in Tasks : After("checkDownload", t, 0) \in Thens
  BY DownloadAssumption DEF DownloadThens, After
<1>2. \A i \in Rows : After("deleteFile", NoTask, i) \in Thens
  BY DownloadAssumption DEF DownloadThens, After, Rows
<1>3. \A t \in Thens : t.do = "deleteFile" => t.row \in Rows
  BY DownloadAssumption DEF DownloadThens, Rows
<1> QED
  BY <1>1, <1>2, <1>3, DownloadAssumption, StoreAssumption DEF DownloadMethods, AnyBook

\* What each stretch is, as a sequence of requests.
LEMMA StretchTypes ==
  ASSUME NEW S, S = [m : Methods, k : Keys, t : Thens]
  PROVE  /\ Lists \in Seq(S) /\ \A k \in Keys : Checks(k) \in Seq(S)
         /\ \A k \in Keys, t \in Tasks : Adds(k, t) \in Seq(S)
         /\ \A k \in Keys, i \in Rows : Removes(k, i) \in Seq(S)
<1>1. \A m \in Methods, k \in Keys, t \in Thens : Request(m, k, t) \in S
  BY DEF Request
<1>2. \A r \in S : <<r>> \in Seq(S)
  OBVIOUS
<1>3. Lists \in Seq(S)
  BY <1>1, <1>2, Purposes DEF Lists
<1>4. \A k \in Keys : Checks(k) \in Seq(S)
  BY <1>1, <1>2, Purposes DEF Checks, checkDownload
<1>5. \A k \in Keys, t \in Tasks : Adds(k, t) \in Seq(S)
  BY <1>1, <1>2, Purposes DEF Adds
<1>6. \A k \in Keys, i \in Rows : Removes(k, i) \in Seq(S)
  BY <1>1, <1>2, Purposes DEF Removes
<1> QED
  BY <1>3, <1>4, <1>5, <1>6

\* The call that a stretch makes.
Made(c, m, k, t) == Call(c, m, k) /\ then' = [then EXCEPT ![c] = t]

\* A call that is made is the one its stretch asked for.
LEMMA CallCases ==
  ASSUME TodoOK, MakeCall
  PROVE  /\ todo' = <<>>
         /\ \E c \in Calls :
              \/ todo = Lists /\ Made(c, "EbookDownload.listAll", AnyBook, After("showList", NoTask, 0))
              \/ \E k \in Keys :
                   \/ todo = Checks(k) /\ Made(c, "EbookDownload.check", k, After("probe", NoTask, 0))
                   \/ \E t \in Tasks :
                        /\ todo = Adds(k, t) /\ Adding(k, t)
                        /\ Made(c, "EbookDownload.addDownload", k, After("checkDownload", t, 0))
                   \/ \E i \in Rows :
                        /\ todo = Removes(k, i)
                        /\ Made(c, "EbookDownload.remove", k, After("deleteFile", NoTask, i))
<1>1. PICK c \in Calls : Made(c, Head(todo).m, Head(todo).k, Head(todo).t)
  BY DEF MakeCall, Made
<1>2. todo' = Tail(todo) /\ todo # <<>>
  BY DEF MakeCall, Idle
<1>3. \A m, k, t : Request(m, k, t).m = m /\ Request(m, k, t).k = k /\ Request(m, k, t).t = t
  BY DEF Request
<1>4. CASE todo = Lists
  BY <1>1, <1>2, <1>3, <1>4, Stretches
<1>5. ASSUME NEW k \in Keys, todo = Checks(k)
      PROVE  todo' = <<>> /\ Made(c, "EbookDownload.check", k, After("probe", NoTask, 0))
  BY <1>1, <1>2, <1>3, <1>5, Stretches DEF checkDownload
<1>6. ASSUME NEW k \in Keys, NEW t \in Tasks, todo = Adds(k, t)
      PROVE  todo' = <<>> /\ Made(c, "EbookDownload.addDownload", k, After("checkDownload", t, 0))
  BY <1>1, <1>2, <1>3, <1>6, Stretches
<1>7. ASSUME NEW k \in Keys, NEW i \in Rows, todo = Removes(k, i)
      PROVE  todo' = <<>> /\ Made(c, "EbookDownload.remove", k, After("deleteFile", NoTask, i))
  BY <1>1, <1>2, <1>3, <1>7, Stretches
<1> QED
  BY <1>2, <1>4, <1>5, <1>6, <1>7 DEF TodoOK

-----------------------------------------------------------------------------
(* Every step of the application is a step of the store.                   *)

viewVars == <<pageVars, taskVars, flagVars>>

\* The session of a call goes on: nothing else moves.
LEMMA SessionFacts ==
  ASSUME Inv, ThenOK, NEW c \in Calls, Session(c)
  PROVE  /\ Step(c) /\ todo = <<>> /\ UNCHANGED <<todo, then, method, key, before>>
         /\ pc[c] \in Active /\ pc'[c] \in Active
         /\ \A d \in Calls \ {c} : pc'[d] = pc[d] /\ result'[d] = result[d]
<1>1. Step(c) /\ todo = <<>> /\ UNCHANGED <<todo, then>>
  BY DEF Session, Step, Idle, callerVars
<1>2. pc[c] \in Active /\ UNCHANGED <<method, key, before>>
  BY DEF Session, Open, Insert, Remove, Find, Update, Upsert, InsertDocument, Tidy, Close
<1>3. AfterOp(c) \in {"tidy", "close"}
  BY <1>2 DEF AfterOp, ThenOK, Leaking
<1>4. pc'[c] \in Active /\ \A d \in Calls \ {c} : pc'[d] = pc[d] /\ result'[d] = result[d]
  BY <1>3 DEF Session, Open, Insert, Remove, Find, Update, Upsert, InsertDocument, Tidy, Close, Inv, TypeOK
<1> QED
  BY <1>1, <1>2, <1>4

\* A call that returns does, for the store, nothing but end.
LEMMA ReturnFacts ==
  ASSUME Inv, NEW c \in Calls, Return(c)
  PROVE  /\ Step(c) /\ todo = <<>> /\ UNCHANGED <<then, file, method, key, before, result, wrote, removed>>
         /\ UNCHANGED <<routes, gone, crossed, title, book, pageOf, fs, sole, together, received>>
         /\ pc[c] = "close" /\ pc'[c] = "returned"
         /\ \A d \in Calls \ {c} : pc'[d] = pc[d]
  BY DEF Return, ListReturned, RemoveReturned, AddReturned, CheckReturned, Close, Step, Idle,
         Inv, TypeOK, taskVars, flagVars, pageVars

\* The process is stopped: nothing is under way any more.
LEMMA KillFacts ==
  ASSUME Inv, KillApp
  PROVE  /\ Kill \/ UNCHANGED vars
         /\ UNCHANGED <<then, file, method, key, before, result, wrote, removed>>
         /\ UNCHANGED <<title, book, fs, together, received>>
         /\ todo' = <<>> /\ routes' = <<>> /\ rows' = <<>> /\ deleting' = {} /\ gone' = {}
         /\ pageOf' = [t \in Tasks |-> 0] /\ downloaded' = FALSE /\ probing' = {} /\ checked' = {}
         /\ crossed' = FALSE /\ sole' = {}
         /\ stage' = [t \in Tasks |-> IF stage[t] \in Running THEN "broken" ELSE stage[t]]
         /\ \A d \in Calls : pc'[d] = IF pc[d] \in Active THEN "killed" ELSE pc[d]
<1>1. /\ Kill \/ (Quiet /\ UNCHANGED vars)
      /\ UNCHANGED <<then, title, book, fs, together, received>>
      /\ todo' = <<>> /\ routes' = <<>> /\ rows' = <<>> /\ deleting' = {} /\ gone' = {}
      /\ pageOf' = [t \in Tasks |-> 0] /\ downloaded' = FALSE /\ probing' = {} /\ checked' = {}
      /\ crossed' = FALSE /\ sole' = {}
      /\ stage' = [t \in Tasks |-> IF stage[t] \in Running THEN "broken" ELSE stage[t]]
  BY DEF KillApp, KillCaller
<1>2. CASE Kill
  BY <1>1, <1>2 DEF Kill, Inv, TypeOK
<1>3. CASE Quiet /\ UNCHANGED vars
  BY <1>1, <1>3 DEF Quiet, vars
<1> QED
  BY <1>1, <1>2, <1>3

\* A step of the user, of the network, or of what runs between two calls.
Tap ==
  \/ \E k \in Keys : OpenDetail(k)
  \/ OpenList \/ Back
  \/ \E i \in DOMAIN rows : Dismiss(i)
  \/ \E c \in Calls : DeleteFile(c) \/ Probe(c)
  \/ \E t \in Tasks :
       \/ TapDownload(t) \/ Locate(t) \/ LookForFile(t) \/ DeleteOld(t) \/ CreateFile(t)
       \/ Receive(t) \/ Complete(t) \/ TransferOrphaned(t)
       \/ TransferFails(t) \/ TransferUnsized(t)

\* A step is a tap, a call, a step of a session, a return, a stop or none.
LEMMA StepCases ==
  ASSUME [DownNext]_allVars
  PROVE  \/ Tap \/ (MakeCall /\ UNCHANGED viewVars)
         \/ \E c \in Calls : Session(c) /\ UNCHANGED viewVars
         \/ \E c \in Calls : Return(c)
         \/ KillApp \/ UNCHANGED allVars
  BY DEF DownNext, Proceed, Happen, Tap, viewVars

\* Taps leave the store and the purposes alone, and start when nothing runs.
LEMMA TapFacts == Tap => UNCHANGED <<vars, then, title>> /\ todo = <<>>
  BY DEF Tap, OpenDetail, OpenList, Back, Dismiss, DeleteFile, Probe, TapDownload, Locate,
         LookForFile, DeleteOld, CreateFile, Receive, Complete, TransferOrphaned, TransferFails,
         TransferUnsized, callerVars, taskVars, Starts, Idle

\* What the application does is, for the store, a call, a step of one or a stop.
LEMMA StoreStep ==
  ASSUME TodoOK, ThenOK, Inv, [DownNext]_allVars
  PROVE  [Next]_vars
<1>1. CASE UNCHANGED allVars
  BY <1>1 DEF allVars
<1>2. CASE MakeCall
  <2>1. \E c \in Calls, m \in Methods, k \in Keys : Call(c, m, k)
    BY <1>2, CallCases, Purposes DEF Made
  <2> QED
    BY <2>1 DEF Next
<1>3. ASSUME NEW c \in Calls, Session(c) PROVE Next
  BY <1>3, SessionFacts DEF Next
<1>4. ASSUME NEW c \in Calls, Return(c) PROVE Next
  BY <1>4, ReturnFacts DEF Next
<1>5. CASE KillApp
  BY <1>5, KillFacts DEF Next
<1>6. CASE Tap
  BY <1>6, TapFacts
<1> QED
  BY <1>1, <1>2, <1>3, <1>4, <1>5, <1>6, StepCases

-----------------------------------------------------------------------------
(* The shape is kept. *)

\* The routes a navigator can hold.
Routes == {Detail(k) : k \in Keys} \union {Dialog(t) : t \in Tasks} \union {ListPage}

\* What a route is.
LEMMA RouteFacts ==
  /\ \A k \in Keys : Detail(k) \in Routes /\ Detail(k).page = "detail" /\ Detail(k).of = k
  /\ \A t \in Tasks : Dialog(t) \in Routes /\ Dialog(t).page = "dialog" /\ Dialog(t).of = t
  /\ ListPage \in Routes /\ ListPage.page = "downloads"
  /\ \A r \in Routes : /\ r.page = "detail" => r.of \in Keys /\ r = Detail(r.of)
                       /\ r.page = "dialog" => r.of \in Tasks /\ r = Dialog(r.of)
                       /\ r.page \notin {"detail", "dialog"} => r = ListPage
<1>1. /\ \A k : Detail(k).page = "detail" /\ Detail(k).of = k
      /\ \A t : Dialog(t).page = "dialog" /\ Dialog(t).of = t
      /\ ListPage.page = "downloads"
  BY DEF Detail, Dialog, ListPage
<1> QED
  BY <1>1 DEF Routes

\* The types that the steps need.
LEMMA Typed ==
  ASSUME DownloadTypeOK
  PROVE  /\ stage \in [Tasks -> Stages] /\ book \in [Tasks -> Keys] /\ pageOf \in [Tasks -> Nat]
         /\ title \in [Keys -> Keys] /\ fs \in [Keys -> {"absent", "empty", "partial", "whole"}]
         /\ together \in SUBSET Tasks /\ received \in SUBSET Tasks /\ sole \in SUBSET Tasks
         /\ routes \in Seq(Routes) /\ rows \in Seq(Document) /\ Len(rows) <= Cardinality(Calls)
         /\ then \in [Calls -> Thens]
         /\ pc \in [Calls -> {"idle"} \union Active \union Ended]
         /\ key \in [Calls -> Keys] /\ method \in [Calls -> AllMethods]
         /\ Cardinality(Calls) \in Nat
  BY DownloadAssumption, FS_CardinalityType DEF DownloadTypeOK, CallerTypeOK, TypeOK, Routes

\* A sequence that grows at its end or loses its last element.
LEMMA EndFacts ==
  ASSUME NEW S, NEW s \in Seq(S)
  PROVE  /\ Len(s) \in Nat /\ DOMAIN s = 1..Len(s) /\ \A i \in DOMAIN s : s[i] \in S
         /\ \A x \in S :
              /\ Append(s, x) \in Seq(S) /\ DOMAIN Append(s, x) = 1..(Len(s) + 1)
              /\ Len(Append(s, x)) = Len(s) + 1
              /\ Append(s, x)[Len(s) + 1] = x /\ \A i \in 1..Len(s) : Append(s, x)[i] = s[i]
         /\ s # <<>> =>
              LET t == SubSeq(s, 1, Len(s) - 1) IN
              /\ Len(s) \in 1..Len(s) /\ t \in Seq(S) /\ Len(t) = Len(s) - 1
              /\ DOMAIN t = 1..(Len(s) - 1) /\ \A i \in 1..(Len(s) - 1) : t[i] = s[i]
<1>1. Len(s) \in Nat /\ DOMAIN s = 1..Len(s) /\ \A i \in DOMAIN s : s[i] \in S
  OBVIOUS
<1>2. ASSUME NEW x \in S
      PROVE  /\ Append(s, x) \in Seq(S) /\ DOMAIN Append(s, x) = 1..(Len(s) + 1)
             /\ Len(Append(s, x)) = Len(s) + 1
             /\ Append(s, x)[Len(s) + 1] = x /\ \A i \in 1..Len(s) : Append(s, x)[i] = s[i]
  <2>1. /\ Append(s, x) \in Seq(S) /\ Len(Append(s, x)) = Len(s) + 1
        /\ Append(s, x)[Len(s) + 1] = x /\ \A i \in 1..Len(s) : Append(s, x)[i] = s[i]
    OBVIOUS
  <2> QED
    BY <2>1
<1>3. ASSUME s # <<>>
      PROVE  LET t == SubSeq(s, 1, Len(s) - 1) IN
              /\ Len(s) \in 1..Len(s) /\ t \in Seq(S) /\ Len(t) = Len(s) - 1
              /\ DOMAIN t = 1..(Len(s) - 1) /\ \A i \in 1..(Len(s) - 1) : t[i] = s[i]
  <2>1. Len(s) \in Nat \ {0} /\ DOMAIN s = 1..Len(s) /\ \A i \in 1..Len(s) : s[i] \in S
    BY <1>3
  <2>2. \A n \in Nat \ {0} : n \in 1..n /\ 1 \in 1..n /\ (IF 1 <= n - 1 THEN n - 1 - 1 + 1 ELSE 0) = n - 1
    OBVIOUS
  <2> DEFINE t == SubSeq(s, 1, Len(s) - 1)
  <2>4. t \in Seq(S)
    BY <2>1, SubSeqProperties
  <2>5. Len(t) = IF 1 <= Len(s) - 1 THEN Len(s) - 1 - 1 + 1 ELSE 0
    BY <2>1, SubSeqProperties
  <2>6. \A i \in 1..(Len(s) - 1 - 1 + 1) : t[i] = s[1 + i - 1]
    BY <2>1, SubSeqProperties
  <2> HIDE DEF t
  <2>7. Len(t) = Len(s) - 1
    BY <2>1, <2>2, <2>5
  <2>8. Len(s) - 1 - 1 + 1 = Len(s) - 1 /\ \A i \in 1..(Len(s) - 1) : 1 + i - 1 = i
    BY <2>1
  <2>9. \A i \in 1..(Len(s) - 1) : t[i] = s[i]
    BY <2>6, <2>8
  <2>10. DOMAIN t = 1..Len(t)
    BY <2>4
  <2> QED
    BY <2>1, <2>2, <2>4, <2>7, <2>9, <2>10 DEF t
<1> QED
  BY <1>1, <1>2, <1>3

\* The dialogs that are up are on top, and the top route names its task.
LEMMA TopDialog ==
  ASSUME DownloadTypeOK, RoutesOK, NEW t \in Tasks, Shown(Dialog(t))
  PROVE  routes # <<>> /\ Top.page = "dialog" /\ Top.of \in Tasks /\ Top = Dialog(Top.of) /\ Shown(Top)
<1>1. routes \in Seq(Routes) /\ Len(routes) \in Nat /\ DOMAIN routes = 1..Len(routes)
      /\ \A i \in DOMAIN routes : routes[i] \in Routes
  BY Typed, EndFacts
<1>2. PICK i \in DOMAIN routes : routes[i] = Dialog(t)
  BY DEF Shown
<1>3. Len(routes) \in DOMAIN routes /\ i <= Len(routes)
  BY <1>1, <1>2
<1>4. routes[Len(routes)].page = "dialog"
  BY <1>2, <1>3, RouteFacts DEF RoutesOK
<1> QED
  BY <1>1, <1>3, <1>4, RouteFacts DEF Top, Shown

\* A step moves the navigator in one of these ways.
LEMMA RoutesCases ==
  ASSUME DownloadTypeOK, RoutesOK, Inv, [DownNext]_allVars
  PROVE  \/ UNCHANGED <<routes, pageOf>>
         \/ \E k \in Keys : OpenDetail(k)
         \/ OpenList \/ Back
         \/ \E t \in Tasks : TapDownload(t)
         \/ \E t \in Tasks : CreateFile(t) /\ pageOf[t] # 0 /\ routes' = Append(routes, Dialog(t))
         \/ \E t \in Tasks : Complete(t)
         \/ routes' = <<>> /\ pageOf' = [t \in Tasks |-> 0]
<1>1. CASE Tap
  BY <1>1 DEF Tap, Dismiss, DeleteFile, Probe, Locate, LookForFile, DeleteOld, CreateFile,
              Receive, TransferOrphaned, TransferFails, TransferUnsized, pageVars, taskVars
<1>2. CASE UNCHANGED viewVars \/ UNCHANGED allVars
  BY <1>2 DEF viewVars, allVars, pageVars, taskVars
<1> QED
  BY <1>1, <1>2, StepCases, ReturnFacts, KillFacts

\* Dialogs stay on top of the pages.
LEMMA RoutesStep ==
  ASSUME DownloadTypeOK, RoutesOK, DialogsOK, Inv, [DownNext]_allVars
  PROVE  RoutesOK' /\ routes' \in Seq(Routes) /\ pageOf' \in [Tasks -> Nat]
<1> DEFINE Fine == RoutesOK' /\ routes' \in Seq(Routes) /\ pageOf' \in [Tasks -> Nat]
<1>1. routes \in Seq(Routes) /\ pageOf \in [Tasks -> Nat] /\ Len(routes) \in Nat
      /\ DOMAIN routes = 1..Len(routes) /\ \A i \in DOMAIN routes : routes[i] \in Routes
  BY Typed, EndFacts
<1>2. CASE UNCHANGED <<routes, pageOf>>
  BY <1>1, <1>2 DEF RoutesOK
<1>3. ASSUME NEW k \in Keys, OpenDetail(k) PROVE Fine
  <2>1. routes' = Append(routes, Detail(k)) /\ pageOf' = pageOf /\ (routes # <<>> => Top.page = "detail")
    BY <1>3 DEF OpenDetail, taskVars
  <2>2. \A i \in DOMAIN routes : routes[i].page \notin {"dialog", "downloads"}
    <3> SUFFICES ASSUME NEW i \in DOMAIN routes PROVE routes[i].page \notin {"dialog", "downloads"}
      OBVIOUS
    <3>1. routes # <<>> /\ Len(routes) \in DOMAIN routes /\ i <= Len(routes)
      BY <1>1
    <3>2. routes[Len(routes)].page = "detail"
      BY <2>1, <3>1 DEF Top
    <3>3. routes[i].page # "dialog"
      BY <3>1, <3>2 DEF RoutesOK
    <3>4. routes[i].page = "downloads" => i = Len(routes)
      BY <1>1, <3>1 DEF RoutesOK
    <3> QED
      BY <3>2, <3>3, <3>4
  <2>3. /\ routes' \in Seq(Routes) /\ DOMAIN routes' = 1..(Len(routes) + 1)
        /\ routes'[Len(routes) + 1].page = "detail"
        /\ \A i \in DOMAIN routes : routes'[i] = routes[i]
    BY <1>1, <2>1, EndFacts, RouteFacts
  <2>4. \A i \in DOMAIN routes' : routes'[i].page \notin {"dialog", "downloads"}
    BY <1>1, <2>2, <2>3
  <2>5. DOMAIN routes \subseteq DOMAIN routes'
    BY <1>1, <2>3
  <2> QED
    BY <1>1, <2>1, <2>3, <2>4, <2>5 DEF RoutesOK
<1>4. CASE OpenList
  <2>1. routes' = <<ListPage>> /\ routes = <<>> /\ pageOf' = pageOf
    BY <1>4 DEF OpenList, taskVars
  <2>2. routes' \in Seq(Routes) /\ DOMAIN routes' = {1} /\ routes'[1] = ListPage /\ Len(routes') = 1
    BY <2>1, RouteFacts
  <2>3. \A t \in Tasks : pageOf[t] = 0
    <3>1. DOMAIN routes = {}
      BY <2>1
    <3> QED
      BY <3>1 DEF RoutesOK
  <2> QED
    BY <1>1, <2>1, <2>2, <2>3, RouteFacts DEF RoutesOK
<1>5. ASSUME routes # <<>>, routes' = Below PROVE
        /\ routes' \in Seq(Routes) /\ DOMAIN routes' = 1..(Len(routes) - 1) /\ Len(routes') = Len(routes) - 1
        /\ DOMAIN routes' = DOMAIN routes \ {Len(routes)}
        /\ \A i \in DOMAIN routes' : routes'[i] = routes[i]
  <2>1. /\ routes' \in Seq(Routes) /\ DOMAIN routes' = 1..(Len(routes) - 1) /\ Len(routes') = Len(routes) - 1
        /\ \A i \in 1..(Len(routes) - 1) : routes'[i] = routes[i]
    BY <1>1, <1>5, EndFacts DEF Below
  <2>2. 1..(Len(routes) - 1) = (1..Len(routes)) \ {Len(routes)}
    BY <1>1
  <2> QED
    BY <1>1, <2>1, <2>2
<1>6. ASSUME routes # <<>>, routes' = Below
      PROVE  /\ \A i, j \in DOMAIN routes' : routes'[i].page = "dialog" /\ i <= j => routes'[j].page = "dialog"
             /\ \A i, j \in DOMAIN routes' : routes'[i].page = "dialog" /\ routes'[i] = routes'[j] => i = j
             /\ \A i \in DOMAIN routes' : routes'[i].page = "downloads" => Len(routes') = 1
  <2>1. \A i \in DOMAIN routes' : routes[i].page # "downloads"
    <3> SUFFICES ASSUME NEW i \in DOMAIN routes', routes[i].page = "downloads" PROVE FALSE
      OBVIOUS
    <3>1. i \in DOMAIN routes /\ i # Len(routes)
      BY <1>5, <1>6
    <3>2. Len(routes) = 1
      BY <3>1 DEF RoutesOK
    <3> QED
      BY <1>1, <3>1, <3>2
  <2> QED
    BY <1>5, <1>6, <2>1 DEF RoutesOK
<1>7. CASE Back
  <2>1. /\ routes # <<>> /\ routes' = Below
        /\ pageOf' = [t \in Tasks |-> IF pageOf[t] = Len(routes) THEN 0 ELSE pageOf[t]]
    BY <1>7 DEF Back
  <2>2. \A t \in Tasks : pageOf'[t] # 0 =>
          pageOf'[t] \in DOMAIN routes' /\ routes'[pageOf'[t]].page = "detail"
    BY <1>1, <1>5, <2>1 DEF RoutesOK
  <2> QED
    BY <1>1, <1>5, <1>6, <2>1, <2>2 DEF RoutesOK
<1>8. ASSUME NEW t \in Tasks, TapDownload(t) PROVE Fine
  <2>1. /\ routes' = routes /\ routes # <<>> /\ Top.page = "detail"
        /\ pageOf' = [pageOf EXCEPT ![t] = Len(routes)]
    BY <1>8 DEF TapDownload, pageVars
  <2>2. Len(routes) \in DOMAIN routes /\ routes[Len(routes)].page = "detail"
    BY <1>1, <2>1 DEF Top
  <2> QED
    BY <1>1, <2>1, <2>2 DEF RoutesOK
<1>9. ASSUME NEW t \in Tasks, CreateFile(t), pageOf[t] # 0, routes' = Append(routes, Dialog(t)) PROVE Fine
  <2>1. pageOf' = pageOf /\ stage[t] = "missing"
    BY <1>9 DEF CreateFile
  <2>2. /\ routes' \in Seq(Routes) /\ DOMAIN routes' = 1..(Len(routes) + 1) /\ Len(routes') = Len(routes) + 1
        /\ routes'[Len(routes) + 1] = Dialog(t)
        /\ \A i \in DOMAIN routes : routes'[i] = routes[i]
    BY <1>1, <1>9, EndFacts, RouteFacts
  <2>3. \A i \in DOMAIN routes : routes[i] # Dialog(t)
    BY <2>1 DEF DialogsOK, Shown, Early, DialogHasTransfer
  <2>4. \A i \in DOMAIN routes : routes[i].page # "downloads"
    <3>1. pageOf[t] \in DOMAIN routes /\ routes[pageOf[t]].page = "detail"
      BY <1>9 DEF RoutesOK
    <3> SUFFICES ASSUME NEW i \in DOMAIN routes, routes[i].page = "downloads" PROVE FALSE
      OBVIOUS
    <3>2. Len(routes) = 1
      BY DEF RoutesOK
    <3> QED
      BY <1>1, <3>1, <3>2
  <2>5. DOMAIN routes' = DOMAIN routes \union {Len(routes) + 1} /\ \A i \in DOMAIN routes : i < Len(routes) + 1
    BY <1>1, <2>2
  <2>6. \A i, j \in DOMAIN routes' : routes'[i].page = "dialog" /\ i <= j => routes'[j].page = "dialog"
    BY <1>1, <2>2, <2>5, RouteFacts DEF RoutesOK
  <2>7. \A i, j \in DOMAIN routes' : routes'[i].page = "dialog" /\ routes'[i] = routes'[j] => i = j
    BY <1>1, <2>2, <2>3, <2>5, RouteFacts DEF RoutesOK
  <2>8. \A i \in DOMAIN routes' : routes'[i].page # "downloads"
    BY <1>1, <2>2, <2>4, <2>5, RouteFacts
  <2>9. \A u \in Tasks : pageOf'[u] # 0 =>
          pageOf'[u] \in DOMAIN routes' /\ routes'[pageOf'[u]].page = "detail"
    BY <2>1, <2>2, <2>5 DEF RoutesOK
  <2> QED
    BY <1>1, <2>1, <2>2, <2>6, <2>7, <2>8, <2>9 DEF RoutesOK
<1>10. ASSUME NEW t \in Tasks, Complete(t) PROVE Fine
  <2>1. routes' = Below /\ pageOf' = pageOf /\ Shown(Dialog(t))
    BY <1>10 DEF Complete
  <2>2. routes # <<>> /\ routes[Len(routes)].page = "dialog"
    BY <2>1, TopDialog DEF Top
  <2>3. \A u \in Tasks : pageOf'[u] # 0 =>
          pageOf'[u] \in DOMAIN routes' /\ routes'[pageOf'[u]].page = "detail"
    BY <1>5, <2>1, <2>2 DEF RoutesOK
  <2> QED
    BY <1>1, <1>5, <1>6, <2>1, <2>2, <2>3 DEF RoutesOK
<1>11. CASE routes' = <<>> /\ pageOf' = [t \in Tasks |-> 0]
  <2>1. DOMAIN routes' = {} /\ routes' \in Seq(Routes)
    BY <1>11
  <2> QED
    BY <1>11, <2>1 DEF RoutesOK
<1> QED
  BY <1>2, <1>3, <1>4, <1>7, <1>8, <1>9, <1>10, <1>11, RoutesCases

\* A task that has had its dialog keeps its book and never starts again, and
\* what has been up together, or received, stays so.
LEMMA TaskStays ==
  ASSUME DownloadTypeOK, Inv, [DownNext]_allVars
  PROVE  /\ together \subseteq together' /\ received \subseteq received'
         /\ \A t \in Tasks : stage[t] \notin Early => stage'[t] \notin Early /\ book'[t] = book[t]
         /\ \A t \in Tasks : stage[t] # "unused" => stage'[t] # "unused" /\ book'[t] = book[t]
<1>1. stage \in [Tasks -> Stages] /\ book \in [Tasks -> Keys]
  BY Typed
<1>2. CASE Tap
  <2>1. together \subseteq together' /\ received \subseteq received'
    BY <1>2 DEF Tap, OpenDetail, OpenList, Back, Dismiss, DeleteFile, Probe, TapDownload, Locate,
                LookForFile, DeleteOld, CreateFile, Receive, Complete, TransferOrphaned, TransferFails,
                TransferUnsized, taskVars
  <2>2. CASE UNCHANGED <<stage, book>>
    BY <2>1, <2>2
  <2>3. ASSUME NEW t \in Tasks,
               \/ TapDownload(t) \/ Locate(t) \/ LookForFile(t) \/ DeleteOld(t) \/ CreateFile(t)
               \/ Receive(t) \/ Complete(t) \/ TransferOrphaned(t) \/ TransferFails(t) \/ TransferUnsized(t)
        PROVE  /\ \A u \in Tasks \ {t} : stage'[u] = stage[u] /\ book'[u] = book[u]
               /\ stage[t] \notin Early => stage'[t] \notin Early /\ book'[t] = book[t]
               /\ stage[t] # "unused" => stage'[t] # "unused" /\ book'[t] = book[t]
    BY <1>1, <2>3 DEF Early, TapDownload, Locate, LookForFile, DeleteOld, CreateFile, Receive, Complete,
                      TransferOrphaned, TransferFails, TransferUnsized
  <2>4. ASSUME UNCHANGED taskVars \/ Back \/ \E c \in Calls : DeleteFile(c)
        PROVE  UNCHANGED <<stage, book>>
    BY <2>4 DEF taskVars, Back, DeleteFile
  <2>5. CASE \E t \in Tasks :
               \/ TapDownload(t) \/ Locate(t) \/ LookForFile(t) \/ DeleteOld(t) \/ CreateFile(t)
               \/ Receive(t) \/ Complete(t) \/ TransferOrphaned(t) \/ TransferFails(t) \/ TransferUnsized(t)
    BY <2>1, <2>3, <2>5
  <2> QED
    BY <1>2, <2>2, <2>4, <2>5 DEF Tap, OpenDetail, OpenList, Dismiss, Probe
<1>3. ASSUME NEW c \in Calls, Return(c)
      PROVE  /\ UNCHANGED <<book, together, received>>
             /\ \A t \in Tasks : stage'[t] = stage[t] \/ (stage[t] = "received" /\ stage'[t] = "recorded")
  BY <1>1, <1>3, ReturnFacts DEF Return, ListReturned, RemoveReturned, AddReturned, CheckReturned, taskVars
<1>4. CASE KillApp
  BY <1>1, <1>4, KillFacts DEF Running, Early
<1>5. CASE UNCHANGED viewVars \/ UNCHANGED allVars
  BY <1>5 DEF viewVars, allVars, taskVars
<1> QED
  BY <1>2, <1>3, <1>4, <1>5, StepCases DEF Early

\* The dialogs that are up after a step.
LEMMA ShownStep ==
  ASSUME DownloadTypeOK, RoutesOK, Inv, [DownNext]_allVars
  PROVE  /\ \A t \in Tasks : Shown(Dialog(t))' =>
              Shown(Dialog(t)) \/ (CreateFile(t) /\ pageOf[t] # 0)
         /\ \A t, u \in Tasks : Complete(t) /\ u = Top.of => ~Shown(Dialog(u))'
         /\ KillApp => \A t \in Tasks : ~Shown(Dialog(t))'
<1>1. routes \in Seq(Routes) /\ Len(routes) \in Nat
      /\ DOMAIN routes = 1..Len(routes) /\ \A i \in DOMAIN routes : routes[i] \in Routes
  BY Typed, EndFacts
<1>2. ASSUME NEW r, routes' = Append(routes, r), r \in Routes, NEW t \in Tasks, Shown(Dialog(t))'
      PROVE  Shown(Dialog(t)) \/ r = Dialog(t)
  <2>1. /\ DOMAIN routes' = 1..(Len(routes) + 1) /\ routes'[Len(routes) + 1] = r
        /\ \A i \in DOMAIN routes : routes'[i] = routes[i]
    BY <1>1, <1>2, EndFacts
  <2>2. PICK i \in DOMAIN routes' : routes'[i] = Dialog(t)
    BY <1>2 DEF Shown, Dialog
  <2>3. i \in DOMAIN routes \/ i = Len(routes) + 1
    BY <1>1, <2>1
  <2> QED
    BY <2>1, <2>2, <2>3 DEF Shown
<1>3. ASSUME routes # <<>>, routes' = Below
      PROVE  /\ DOMAIN routes' = 1..(Len(routes) - 1) /\ \A i \in DOMAIN routes' : routes'[i] = routes[i]
             /\ DOMAIN routes' \subseteq DOMAIN routes /\ Len(routes) \in DOMAIN routes
             /\ Len(routes) \notin DOMAIN routes'
  BY <1>1, <1>3, EndFacts DEF Below
<1>4. ASSUME routes # <<>>, routes' = Below, NEW t \in Tasks, Shown(Dialog(t))'
      PROVE  Shown(Dialog(t))
  BY <1>3, <1>4 DEF Shown, Dialog
<1>5. ASSUME NEW t \in Tasks, Complete(t)
      PROVE  routes # <<>> /\ routes' = Below /\ \A u \in Tasks : u = Top.of => ~Shown(Dialog(u))'
  <2>1. routes' = Below /\ Shown(Dialog(t))
    BY <1>5 DEF Complete
  <2>2. routes # <<>> /\ Top.page = "dialog" /\ Top = Dialog(Top.of) /\ Top.of \in Tasks
    BY <2>1, TopDialog
  <2>3. PICK u \in Tasks : u = Top.of
    BY <2>2
  <2>4. \A i \in DOMAIN routes' : routes'[i] # Dialog(u)
    BY <1>3, <2>1, <2>2, <2>3 DEF RoutesOK, Top
  <2>5. ~Shown(Dialog(u))'
    BY <2>4 DEF Shown, Dialog
  <2> QED
    BY <2>1, <2>2, <2>3, <2>5
<1>6. ASSUME NEW t \in Tasks, Shown(Dialog(t))'
      PROVE  Shown(Dialog(t)) \/ (CreateFile(t) /\ pageOf[t] # 0)
  <2>1. CASE UNCHANGED routes
    BY <1>6, <2>1 DEF Shown, Dialog
  <2>2. ASSUME NEW k \in Keys, OpenDetail(k) PROVE Shown(Dialog(t))
    BY <1>2, <1>6, <2>2, RouteFacts DEF OpenDetail
  <2>3. CASE OpenList
    <3>1. routes' = <<ListPage>>
      BY <2>3 DEF OpenList
    <3>2. \A i \in DOMAIN routes' : routes'[i] = ListPage
      BY <3>1
    <3> QED
      BY <1>6, <3>2, RouteFacts DEF Shown, Dialog
  <2>4. CASE Back
    BY <1>4, <1>6, <2>4 DEF Back
  <2>5. ASSUME NEW u \in Tasks, CreateFile(u), pageOf[u] # 0, routes' = Append(routes, Dialog(u))
        PROVE  Shown(Dialog(t)) \/ t = u
    BY <1>2, <1>6, <2>5, RouteFacts
  <2>6. ASSUME NEW u \in Tasks, Complete(u) PROVE Shown(Dialog(t))
    BY <1>4, <1>5, <1>6, <2>6
  <2>7. CASE routes' = <<>>
    <3>1. DOMAIN routes' = {}
      BY <2>7
    <3> QED
      BY <1>6, <3>1 DEF Shown, Dialog
  <2>8. ASSUME NEW u \in Tasks, TapDownload(u) PROVE UNCHANGED routes
    BY <2>8 DEF TapDownload, pageVars
  <2> QED
    BY <2>1, <2>2, <2>3, <2>4, <2>5, <2>6, <2>7, <2>8, RoutesCases
<1>7. ASSUME KillApp, NEW t \in Tasks PROVE ~Shown(Dialog(t))'
  <2>1. DOMAIN routes' = {}
    BY <1>7, KillFacts
  <2> QED
    BY <2>1 DEF Shown, Dialog
<1> QED
  BY <1>5, <1>6, <1>7

\* A dialog that is up belongs to a transfer, or was up together with another.
LEMMA DialogsStep ==
  ASSUME DownloadTypeOK, RoutesOK, DialogsOK, Inv, [DownNext]_allVars
  PROVE  DialogsOK'
<1> DEFINE Up == {"waiting", "receiving", "failed", "unsized"}
<1>1. /\ stage \in [Tasks -> Stages] /\ together \in SUBSET Tasks /\ received \in SUBSET Tasks
  BY Typed
<1>2. together \subseteq together' /\ \A t \in together \union received : stage'[t] \notin Early
  BY <1>1, TaskStays DEF DialogsOK
<1>3. ASSUME NEW t \in Tasks, CreateFile(t), pageOf[t] # 0
      PROVE  /\ stage'[t] = "waiting" /\ \A u \in Tasks \ {t} : stage'[u] = stage[u]
             /\ received' = received
             /\ together' = IF DialogsUp = {} THEN together ELSE together \union DialogsUp \union {t}
  BY <1>1, <1>3 DEF CreateFile
<1>4. ASSUME NEW t \in Tasks, Complete(t)
      PROVE  /\ received' = received \union {t} /\ together' = together
             /\ stage'[t] \notin Early /\ \A u \in Tasks \ {t} : stage'[u] = stage[u]
             /\ Shown(Dialog(t))' => t \in together
  <2>1. /\ received' = received \union {t} /\ together' = together /\ Shown(Dialog(t))
        /\ stage' = [stage EXCEPT ![t] = IF Top.of = t THEN "received" ELSE "broken"]
    BY <1>4 DEF Complete
  <2>2. Top.of \in Tasks /\ Shown(Dialog(Top.of))
    BY <2>1, TopDialog
  <2>3. Shown(Dialog(t))' => t # Top.of
    BY <1>4, ShownStep
  <2>4. t # Top.of => t \in together
    BY <2>1, <2>2 DEF DialogsOK
  <2> QED
    BY <1>1, <2>1, <2>3, <2>4 DEF Early
<1>5. ASSUME ~\E t \in Tasks : (CreateFile(t) /\ pageOf[t] # 0) \/ Complete(t)
      PROVE  /\ received' = received /\ together' = together
             /\ \A t \in Tasks : stage[t] \in Up /\ Shown(Dialog(t)) /\ Shown(Dialog(t))' => stage'[t] \in Up
  <2>1. CASE Tap
    <3>1. received' = received /\ together' = together
      BY <1>5, <2>1 DEF Tap, OpenDetail, OpenList, Back, Dismiss, DeleteFile, Probe, TapDownload, Locate,
                LookForFile, DeleteOld, CreateFile, Receive, TransferOrphaned, TransferFails,
                TransferUnsized, taskVars
    <3>2. \A t \in Tasks : stage[t] \in Up /\ Shown(Dialog(t)) => stage'[t] \in Up
      BY <1>1, <1>5, <2>1 DEF Tap, OpenDetail, OpenList, Back, Dismiss, DeleteFile, Probe, TapDownload, Locate,
                LookForFile, DeleteOld, CreateFile, Receive, TransferOrphaned, TransferFails,
                TransferUnsized, taskVars
    <3> QED
      BY <3>1, <3>2
  <2>2. ASSUME NEW c \in Calls, Return(c)
        PROVE  /\ UNCHANGED <<received, together>>
               /\ \A t \in Tasks : stage'[t] = stage[t] \/ stage[t] = "received"
    BY <1>1, <2>2, ReturnFacts DEF Return, ListReturned, RemoveReturned, AddReturned, CheckReturned, taskVars
  <2>3. CASE KillApp
    BY <2>3, ShownStep, KillFacts
  <2>4. CASE UNCHANGED viewVars \/ UNCHANGED allVars
    BY <2>4 DEF viewVars, allVars, taskVars
  <2> QED
    BY <2>1, <2>2, <2>3, <2>4, StepCases
<1>6. ASSUME NEW t \in Tasks, Shown(Dialog(t))'
      PROVE  stage'[t] \in Up \/ t \in together'
  <2>1. Shown(Dialog(t)) \/ (CreateFile(t) /\ pageOf[t] # 0)
    BY <1>6, ShownStep
  <2>2. Shown(Dialog(t)) => stage[t] \in Up \/ t \in together
    BY DEF DialogsOK, DialogHasTransfer
  <2> QED
    BY <1>2, <1>3, <1>4, <1>5, <1>6, <2>1, <2>2
<1>7. \A t \in together' \union received' : stage'[t] \notin Early
  <2>1. ASSUME NEW t \in Tasks, CreateFile(t), pageOf[t] # 0, NEW u \in DialogsUp
        PROVE  stage'[u] \notin Early
    <3>1. u \in Tasks /\ (stage[u] \in Up \/ u \in together)
      BY <2>1 DEF DialogsUp, DialogsOK, DialogHasTransfer
    <3>2. stage[u] \notin Early
      BY <3>1 DEF DialogsOK, Early
    <3> QED
      BY <3>1, <3>2, TaskStays
  <2>2. ASSUME NEW t \in Tasks, CreateFile(t), pageOf[t] # 0, NEW u \in together' \union received'
        PROVE  stage'[u] \notin Early
    BY <1>2, <1>3, <2>1, <2>2 DEF Early
  <2> QED
    BY <1>2, <1>4, <1>5, <2>2
<1>8. ASSUME NEW t \in Tasks, NEW u \in Tasks, Shown(Dialog(t))', Shown(Dialog(u))', t # u
      PROVE  {t, u} \subseteq together'
  <2>1. CASE Shown(Dialog(t)) /\ Shown(Dialog(u))
    BY <1>2, <1>8, <2>1 DEF DialogsOK
  <2>2. ASSUME NEW v \in Tasks, NEW w \in Tasks, v # w, Shown(Dialog(v)), CreateFile(w), pageOf[w] # 0
        PROVE  {v, w} \subseteq together'
    <3>1. v \in DialogsUp
      BY <2>2 DEF DialogsUp
    <3> QED
      BY <1>3, <2>2, <3>1
  <2>3. CASE CreateFile(t) /\ CreateFile(u) /\ pageOf[t] # 0 /\ pageOf[u] # 0
    BY <1>1, <1>3, <1>8, <2>3 DEF CreateFile
  <2> QED
    BY <1>8, <2>1, <2>2, <2>3, ShownStep
<1> QED
  BY <1>6, <1>7, <1>8 DEF DialogsOK, DialogHasTransfer

\* A record that may be inserted for a task stays right.
LEMMA AddingStays ==
  ASSUME DownloadTypeOK, DialogsOK, Inv, [DownNext]_allVars, NEW k, NEW t \in Tasks, Adding(k, t)
  PROVE  Adding(k, t)'
<1>1. stage[t] \notin Early
  BY DEF DialogsOK, Adding
<1> QED
  BY <1>1, TaskStays DEF Adding

\* What a stretch has still to call is one of the stretches.
LEMMA TodoStep ==
  ASSUME Shape, Inv, [DownNext]_allVars
  PROVE  TodoOK'
<1> USE DEF Shape
<1>1. CASE todo' = <<>>
  BY <1>1 DEF TodoOK
<1>2. ASSUME NEW k \in Keys, todo' = Checks(k) PROVE TodoOK'
  BY <1>2 DEF TodoOK, Checks, checkDownload, Request, After
<1>3. CASE Tap
  <2>1. CASE todo' = todo
    BY <1>1, <1>3, <2>1, TapFacts
  <2>2. ASSUME NEW k \in Keys, OpenDetail(k) PROVE TodoOK'
    BY <1>2, <2>2 DEF OpenDetail, Checks
  <2>3. CASE OpenList
    BY <2>3 DEF OpenList, Lists, TodoOK, AnyBook, Request, After
  <2>4. ASSUME NEW i \in DOMAIN rows, Dismiss(i) PROVE TodoOK'
    <3>1. i \in Rows /\ rows[i].key \in Keys
      <4>1. rows \in Seq(Document) /\ Len(rows) <= Cardinality(Calls) /\ Cardinality(Calls) \in Nat
        BY Typed
      <4>2. rows[i] \in Document /\ i \in 1..Len(rows) /\ Len(rows) \in Nat
        BY <2>4, <4>1, EndFacts
      <4> QED
        BY <4>1, <4>2 DEF Rows, Document
    <3>2. todo' = Removes(rows[i].key, i)
      BY <2>4 DEF Dismiss, Removes
    <3>3. PICK k \in Keys : k = rows[i].key
      BY <3>1
    <3> QED
      BY <3>1, <3>2, <3>3 DEF TodoOK, Removes, Request, After
  <2>5. ASSUME NEW t \in Tasks, Complete(t) PROVE TodoOK'
    <3>1. /\ Shown(Dialog(t)) /\ received' = received \union {t} /\ together' = together /\ book' = book
          /\ todo' = Adds(book[Top.of], Top.of)
      BY <2>5 DEF Complete, Adds
    <3>2. PICK u \in Tasks : u = Top.of /\ Shown(Dialog(u))
      BY <3>1, TopDialog
    <3>3. PICK k \in Keys : k = book[u]
      BY Typed
    <3>4. u \in received' \union together'
      BY <3>1, <3>2 DEF DialogsOK
    <3> QED
      BY <3>1, <3>2, <3>3, <3>4 DEF TodoOK, Adding, Adds, Request, After
  <2> QED
    BY <1>3, <2>1, <2>2, <2>3, <2>4, <2>5
       DEF Tap, Back, DeleteFile, Probe, TapDownload, Locate, LookForFile, DeleteOld, CreateFile,
           Receive, TransferOrphaned, TransferFails, TransferUnsized, callerVars
<1>4. CASE MakeCall
  BY <1>1, <1>4, CallCases
<1>5. ASSUME NEW c \in Calls, Session(c) PROVE TodoOK'
  BY <1>1, <1>5, SessionFacts
<1>6. ASSUME NEW c \in Calls, Return(c) PROVE TodoOK'
  <2>1. todo = <<>> /\ key[c] \in Keys
    BY <1>6, ReturnFacts, Typed
  <2>2. todo' = <<>> \/ todo' = Checks(key[c])
    BY <1>6, <2>1 DEF Return, ListReturned, RemoveReturned, AddReturned, CheckReturned, Checks
  <2>3. PICK k \in Keys : k = key[c]
    BY <2>1
  <2> QED
    BY <1>1, <1>2, <2>2, <2>3
<1>7. CASE KillApp
  BY <1>1, <1>7, KillFacts
<1>8. CASE UNCHANGED allVars
  <2>1. UNCHANGED <<todo, book, received, together>>
    BY <1>8 DEF allVars, callerVars, taskVars
  <2> QED
    BY <2>1 DEF TodoOK, Adding, Adds, Checks, Lists, Removes, checkDownload, Request, After, AnyBook
<1> QED
  BY <1>3, <1>4, <1>5, <1>6, <1>7, <1>8, StepCases

\* What a made call is for does not change.
LEMMA PurposeStays ==
  ASSUME Inv, ThenOK, then \in [Calls -> Thens], [DownNext]_allVars, NEW c \in Calls, pc[c] # "idle"
  PROVE  then'[c] = then[c]
<1>1. CASE MakeCall
  BY <1>1 DEF MakeCall, Call
<1>2. CASE ~MakeCall
  BY <1>2, StepCases, TapFacts, SessionFacts, ReturnFacts, KillFacts DEF allVars, callerVars
<1> QED
  BY <1>1, <1>2

\* A step makes no call, or the one of the stretch.
LEMMA IdleStays ==
  ASSUME Inv, ThenOK, [DownNext]_allVars, ~(MakeCall /\ UNCHANGED viewVars)
  PROVE  \A c \in Calls : pc[c] = "idle" => pc'[c] = "idle"
<1>1. CASE Tap \/ UNCHANGED allVars
  BY <1>1, TapFacts DEF allVars, vars
<1> QED
  BY <1>1, StepCases, SessionFacts, ReturnFacts, KillFacts

\* The call a stretch makes, with what it is for.
LEMMA MadeFacts ==
  ASSUME Inv, then \in [Calls -> Thens],
         NEW c \in Calls, NEW m, NEW k, NEW t, Made(c, m, k, t)
  PROVE  /\ pc[c] = "idle" /\ pc'[c] = "path" /\ method'[c] = m /\ key'[c] = k /\ then'[c] = t
         /\ before'[c] = {d \in Calls : pc[d] \in Ended}
         /\ \A d \in Calls \ {c} : /\ pc'[d] = pc[d] /\ method'[d] = method[d] /\ key'[d] = key[d]
                                   /\ then'[d] = then[d] /\ before'[d] = before[d]
         /\ UNCHANGED <<file, mem, result, wrote, removed>>
  BY DEF Made, Call, Inv, TypeOK

\* The purposes of the calls stay right.
LEMMA ThenStep ==
  ASSUME Shape, Inv, [DownNext]_allVars
  PROVE  ThenOK'
<1> USE DEF Shape
<1> DEFINE Right(c) ==
  \/ method[c] = "EbookDownload.check" /\ then[c].do = "probe"
  \/ method[c] = "EbookDownload.listAll" /\ then[c].do = "showList"
  \/ /\ method[c] = "EbookDownload.addDownload" /\ then[c].do = "checkDownload"
     /\ then[c].task \in Tasks /\ Adding(key[c], then[c].task)
  \/ method[c] = "EbookDownload.remove" /\ then[c].do = "deleteFile"
<1>0. then \in [Calls -> Thens]
  BY Typed
<1>1. ASSUME NEW c \in Calls, pc[c] # "idle" PROVE Right(c)'
  <2>1. then'[c] = then[c] /\ method'[c] = method[c] /\ key'[c] = key[c]
    BY <1>0, <1>1, PurposeStays, StoreStep, MadeStays
  <2>2. Right(c)
    BY <1>1 DEF ThenOK
  <2>3. CASE then[c].task \in Tasks /\ Adding(key[c], then[c].task)
    <3>1. PICK t \in Tasks : t = then[c].task /\ Adding(key[c], t)
      BY <2>3
    <3>2. PICK k \in Keys : k = key[c]
      BY Typed
    <3>3. Adding(k, t)'
      BY <3>1, <3>2, AddingStays
    <3> QED
      BY <2>1, <2>2, <3>1, <3>2, <3>3 DEF Adding
  <2> QED
    BY <2>1, <2>2, <2>3
<1>2. CASE ~(MakeCall /\ UNCHANGED viewVars)
  BY <1>1, <1>2, IdleStays DEF ThenOK
<1>3. CASE MakeCall /\ UNCHANGED viewVars
  <2>1. UNCHANGED <<book, received, together>>
    BY <1>3 DEF viewVars, taskVars
  <2>2. PICK c \in Calls :
              \/ todo = Lists /\ Made(c, "EbookDownload.listAll", AnyBook, After("showList", NoTask, 0))
              \/ \E k \in Keys :
                   \/ todo = Checks(k) /\ Made(c, "EbookDownload.check", k, After("probe", NoTask, 0))
                   \/ \E t \in Tasks :
                        /\ todo = Adds(k, t) /\ Adding(k, t)
                        /\ Made(c, "EbookDownload.addDownload", k, After("checkDownload", t, 0))
                   \/ \E i \in Rows :
                        /\ todo = Removes(k, i)
                        /\ Made(c, "EbookDownload.remove", k, After("deleteFile", NoTask, i))
    BY <1>3, CallCases
  <2>3. \A d \in Calls \ {c} : pc'[d] = pc[d]
    BY <1>0, <2>2, MadeFacts
  <2>4. \A m, k, t : Made(c, m, k, t) => method'[c] = m /\ key'[c] = k /\ then'[c] = t
    BY <1>0, MadeFacts
  <2>5. ASSUME NEW k \in Keys, NEW t \in Tasks, Adding(k, t),
               Made(c, "EbookDownload.addDownload", k, After("checkDownload", t, 0))
        PROVE  Right(c)'
    <3>1. /\ method'[c] = "EbookDownload.addDownload" /\ key'[c] = k
          /\ then'[c] = After("checkDownload", t, 0)
      BY <2>4, <2>5
    <3> QED
      BY <2>1, <2>5, <3>1 DEF After, Adding
  <2>6. ASSUME Made(c, "EbookDownload.listAll", AnyBook, After("showList", NoTask, 0)) PROVE Right(c)'
    BY <2>4, <2>6 DEF After
  <2>7. ASSUME NEW k \in Keys, Made(c, "EbookDownload.check", k, After("probe", NoTask, 0)) PROVE Right(c)'
    BY <2>4, <2>7 DEF After
  <2>8. ASSUME NEW k \in Keys, NEW i \in Rows,
               Made(c, "EbookDownload.remove", k, After("deleteFile", NoTask, i))
        PROVE  Right(c)'
    BY <2>4, <2>8 DEF After
  <2>9. Right(c)'
    <3> HIDE DEF Right
    <3> QED
      BY <2>2, <2>5, <2>6, <2>7, <2>8
  <2> QED
    BY <1>1, <2>3, <2>9 DEF ThenOK
<1> QED
  BY <1>2, <1>3

\* The downloads page is on the navigator when it is the only route.
LEMMA ListAlone ==
  ASSUME NEW r \in Seq(Routes), \A i \in DOMAIN r : r[i].page = "downloads" => Len(r) = 1
  PROVE  r = <<ListPage>> <=> \E i \in DOMAIN r : r[i].page = "downloads"
<1>1. Len(r) \in Nat /\ DOMAIN r = 1..Len(r) /\ \A i \in DOMAIN r : r[i] \in Routes
  BY EndFacts
<1>2. ASSUME r = <<ListPage>> PROVE 1 \in DOMAIN r /\ r[1].page = "downloads"
  BY <1>2, RouteFacts
<1>3. ASSUME NEW i \in DOMAIN r, r[i].page = "downloads" PROVE r = <<ListPage>>
  <2>1. Len(r) = 1 /\ i = 1
    BY <1>1, <1>3
  <2>2. r[1] = ListPage
    BY <1>1, <1>3, <2>1, RouteFacts
  <2> QED
    BY <1>1, <2>1, <2>2
<1> QED
  BY <1>2, <1>3

\* The downloads page is opened by OpenList and closed by Back or with the process.
LEMMA ListPageStep ==
  ASSUME Shape, Inv, [DownNext]_allVars
  PROVE  /\ routes' = <<ListPage>> => routes = <<ListPage>> \/ OpenList
         /\ routes = <<ListPage>> => routes' = <<ListPage>> \/ (Back /\ Top.page = "downloads") \/ KillApp
<1> USE DEF Shape
<1>1. routes \in Seq(Routes) /\ Len(routes) \in Nat /\ DOMAIN routes = 1..Len(routes)
  BY Typed, EndFacts
<1>2. routes = <<ListPage>> <=> \E i \in DOMAIN routes : routes[i].page = "downloads"
  BY <1>1, ListAlone DEF RoutesOK
<1>3. RoutesOK' /\ routes' \in Seq(Routes)
  BY RoutesStep
<1>4. routes' = <<ListPage>> <=> \E i \in DOMAIN routes' : routes'[i].page = "downloads"
  BY <1>3, ListAlone DEF RoutesOK
<1>5. \A r \in Routes : routes' = Append(routes, r) =>
        /\ DOMAIN routes' = DOMAIN routes \union {Len(routes) + 1} /\ routes'[Len(routes) + 1] = r
        /\ \A i \in DOMAIN routes : routes'[i] = routes[i]
  BY <1>1, EndFacts
<1>6. ASSUME NEW r \in Routes, routes' = Append(routes, r), r.page # "downloads"
      PROVE  routes' = <<ListPage>> <=> routes = <<ListPage>>
  BY <1>2, <1>4, <1>5, <1>6
<1>7. ASSUME routes # <<>>, routes' = Below
      PROVE  /\ routes' = <<ListPage>> => routes = <<ListPage>>
             /\ routes = <<ListPage>> => Top.page = "downloads"
  <2>1. DOMAIN routes' \subseteq DOMAIN routes /\ \A i \in DOMAIN routes' : routes'[i] = routes[i]
    BY <1>1, <1>7, EndFacts DEF Below
  <2>2. routes = <<ListPage>> => Top = ListPage
    BY DEF Top
  <2> QED
    BY <1>2, <1>4, <2>1, <2>2, RouteFacts
<1>8. CASE UNCHANGED routes
  BY <1>8
<1>9. ASSUME NEW k \in Keys, OpenDetail(k) PROVE routes' = <<ListPage>> <=> routes = <<ListPage>>
  BY <1>6, <1>9, RouteFacts DEF OpenDetail
<1>10. ASSUME NEW t \in Tasks, routes' = Append(routes, Dialog(t))
       PROVE  routes' = <<ListPage>> <=> routes = <<ListPage>>
  BY <1>6, <1>10, RouteFacts
<1>11. ASSUME NEW t \in Tasks, Complete(t)
       PROVE  routes' # <<ListPage>> /\ routes # <<ListPage>>
  <2>1. routes # <<>> /\ routes' = Below /\ Top.page # "downloads"
    BY <1>11, TopDialog DEF Complete
  <2> QED
    BY <1>7, <2>1
<1>12. ASSUME NEW t \in Tasks, TapDownload(t) PROVE UNCHANGED routes
  BY <1>12 DEF TapDownload, pageVars
<1>13. CASE Back
  BY <1>7, <1>13 DEF Back
<1>14. CASE OpenList
  <2>1. routes = <<>>
    BY <1>14 DEF OpenList
  <2>2. routes # <<ListPage>>
    BY <1>2, <2>1
  <2> QED
    BY <1>14, <2>2
<1>15. CASE KillApp
  <2>1. routes' = <<>>
    BY <1>15, KillFacts
  <2>2. DOMAIN routes' = {}
    BY <2>1
  <2> QED
    BY <1>4, <1>15, <2>2
<1>16. Tap \/ ~Tap
  OBVIOUS
<1>17. CASE ~Tap /\ ~KillApp
  <2>1. UNCHANGED routes
    BY <1>17, StepCases, ReturnFacts DEF viewVars, allVars, pageVars
  <2> QED
    BY <2>1
<1>18. CASE Tap
  <2>1. \/ UNCHANGED routes \/ \E k \in Keys : OpenDetail(k)
        \/ OpenList \/ Back \/ \E t \in Tasks : Complete(t) \/ routes' = Append(routes, Dialog(t))
    BY <1>18 DEF Tap, Dismiss, DeleteFile, Probe, TapDownload, Locate, LookForFile, DeleteOld, CreateFile,
              Receive, TransferOrphaned, TransferFails, TransferUnsized, pageVars
  <2> QED
    BY <1>8, <1>9, <1>10, <1>11, <1>13, <1>14, <2>1
<1> QED
  BY <1>15, <1>17, <1>18

\* A downloads page still loads its list once.
LEMMA ListsStep ==
  ASSUME Shape, Inv, [DownNext]_allVars
  PROVE  ListsOK'
<1> USE DEF Shape
<1>1. ListsOK /\ then \in [Calls -> Thens] /\ pc \in [Calls -> {"idle"} \union Active \union Ended]
  BY Typed
<1>2. ASSUME todo' # Lists, gone \subseteq gone', \A c \in gone' : pc'[c] # "idle",
             rows = <<>> => rows' = <<>>,
             routes = <<ListPage>> => routes' = <<ListPage>>,
             routes # <<ListPage>> => routes' # <<ListPage>>,
             \A c \in Calls : Listing(c)' => Listing(c)
      PROVE  ListsOK'
  <2>1. (todo = Lists)' => todo' = Lists
    BY DEF Lists, AnyBook, Request, After
  <2>2. (routes = <<ListPage>>)' <=> routes' = <<ListPage>>
    BY DEF ListPage
  <2> QED
    BY <1>1, <1>2, <2>1, <2>2 DEF ListsOK
<1>3. CASE Tap /\ ~OpenList /\ ~Back
  <2>1. UNCHANGED <<pc, then>> /\ todo = <<>>
    BY <1>3, TapFacts DEF vars
  <2>2. gone' = gone
    BY <1>3 DEF Tap, OpenDetail, Dismiss, DeleteFile, Probe, TapDownload, Locate, LookForFile, DeleteOld,
              CreateFile, Receive, Complete, TransferOrphaned, TransferFails, TransferUnsized, pageVars
  <2>3. todo' # Lists
    <3>1. \/ todo' = todo \/ (\E k \in Keys : todo' = Checks(k))
          \/ (\E t, k : todo' = Adds(k, t)) \/ \E k, i : todo' = Removes(k, i)
      BY <1>3 DEF Tap, OpenDetail, Dismiss, DeleteFile, Probe, TapDownload, Locate, LookForFile, DeleteOld,
              CreateFile, Receive, Complete, TransferOrphaned, TransferFails, TransferUnsized, callerVars,
              Checks, Adds, Removes
    <3> QED
      BY <2>1, <3>1, Stretches
  <2>4. rows = <<>> => rows' = <<>>
    <3>1. ASSUME NEW c \in Calls, DeleteFile(c), rows = <<>> PROVE rows' = <<>>
      <4>1. DOMAIN rows = {}
        BY <3>1
      <4> QED
        BY <3>1, <4>1 DEF DeleteFile
    <3> QED
      BY <1>3, <3>1 DEF Tap, OpenDetail, Dismiss, Probe, TapDownload, Locate, LookForFile, DeleteOld,
              CreateFile, Receive, Complete, TransferOrphaned, TransferFails, TransferUnsized, pageVars
  <2>5. \A c \in Calls : Listing(c)' <=> Listing(c)
    BY <2>1 DEF Listing
  <2>7. routes' = <<ListPage>> => routes = <<ListPage>>
    BY <1>3, ListPageStep
  <2>9. CASE KillApp
    <3>1. /\ rows' = <<>> /\ gone' = {} /\ todo' = <<>> /\ routes' = <<>>
          /\ \A c \in Calls : ~Listing(c)'
      BY <2>9, KillFacts DEF Listing
    <3>2. todo' # Lists
      BY <3>1, Stretches
    <3> QED
      BY <3>1, <3>2 DEF ListsOK, Lists, AnyBook, Request, After
  <2>10. ~KillApp => (routes = <<ListPage>> => routes' = <<ListPage>>)
    BY <1>3, ListPageStep
  <2> QED
    BY <1>1, <1>2, <2>1, <2>2, <2>3, <2>4, <2>5, <2>7, <2>9, <2>10 DEF ListsOK
<1>4. CASE OpenList
  <2>1. /\ routes = <<>> /\ routes' = <<ListPage>> /\ rows' = <<>> /\ UNCHANGED <<pc, then, gone>>
    BY <1>4 DEF OpenList, vars
  <2>2. routes # <<ListPage>>
    BY <2>1
  <2>3. \A c \in Calls : Listing(c)' <=> Listing(c)
    BY <2>1 DEF Listing
  <2> QED
    BY <1>1, <2>1, <2>2, <2>3 DEF ListsOK, ListPage
<1>5. CASE Back
  <2>1. /\ todo = <<>> /\ todo' = <<>> /\ UNCHANGED <<pc, then>>
        /\ IF Top.page = "downloads"
           THEN rows' = <<>> /\ gone' = {c \in Calls : pc[c] # "idle" /\ then[c].do \in {"showList", "deleteFile"}}
           ELSE UNCHANGED <<rows, gone>>
    BY <1>5 DEF Back, vars, callerVars, Idle
  <2>2. todo' # Lists /\ \A c \in Calls : Listing(c)' <=> Listing(c)
    BY <2>1, Stretches DEF Listing
  <2>3. CASE Top.page = "downloads"
    <3>1. rows' = <<>> /\ (\A c \in gone' : pc'[c] # "idle") /\ \A c \in Calls : Listing(c)' => c \in gone'
      BY <2>1, <2>2, <2>3 DEF Listing
    <3> QED
      BY <2>2, <3>1 DEF ListsOK, Lists, AnyBook, Request, After
  <2>4. CASE Top.page # "downloads"
    <3>1. routes # <<ListPage>>
      <4>1. routes = <<ListPage>> => Top = ListPage
        BY DEF Top
      <4> QED
        BY <2>4, <4>1, RouteFacts
    <3>2. routes' # <<ListPage>>
      <4>1. ~OpenList
        <5>1. routes # <<>>
          BY <1>5 DEF Back
        <5> QED
          BY <5>1 DEF OpenList
      <4> QED
        BY <3>1, <4>1, ListPageStep
    <3> QED
      BY <1>1, <1>2, <2>1, <2>2, <2>4, <3>1, <3>2 DEF ListsOK
  <2> QED
    BY <2>3, <2>4
<1>6. CASE MakeCall /\ UNCHANGED viewVars
  <2>1. UNCHANGED <<rows, routes, gone>>
    BY <1>6 DEF viewVars, pageVars
  <2>2. /\ todo' = <<>>
        /\ \E c \in Calls : \E m, k, t : Made(c, m, k, t) /\ (todo = Lists \/ t.do # "showList")
    <3>1. \A t : After("probe", t, 0).do # "showList" /\ After("checkDownload", t, 0).do # "showList"
                 /\ \A i : After("deleteFile", t, i).do # "showList"
      BY DEF After
    <3> QED
      BY <1>6, <3>1, CallCases
  <2>3. PICK c \in Calls : \E m, k, t : Made(c, m, k, t) /\ (todo = Lists \/ t.do # "showList")
    BY <2>2
  <2>4. /\ pc[c] = "idle" /\ pc'[c] = "path" /\ (todo = Lists \/ then'[c].do # "showList")
        /\ \A d \in Calls \ {c} : pc'[d] = pc[d] /\ then'[d] = then[d]
    BY <1>1, <2>3, MadeFacts
  <2>5. \A d \in Calls \ {c} : Listing(d)' <=> Listing(d)
    BY <2>4 DEF Listing
  <2>6. c \notin gone
    BY <1>1, <2>4 DEF ListsOK
  <2>7. todo' # Lists
    BY <2>2, Stretches
  <2>8. CASE todo = Lists
    <3>1. /\ rows' = <<>> /\ routes' = <<ListPage>> /\ \A d \in Calls : Listing(d)' /\ d \notin gone' => d = c
      BY <1>1, <2>1, <2>5, <2>8 DEF ListsOK
    <3>2. \A d \in gone' : pc'[d] # "idle"
      BY <1>1, <2>1, <2>4, <2>6 DEF ListsOK, DownloadTypeOK
    <3> QED
      BY <2>7, <3>1, <3>2 DEF ListsOK, Lists, AnyBook, Request, After, ListPage
  <2>9. CASE todo # Lists
    <3>1. \A d \in Calls : Listing(d)' => Listing(d)
      BY <2>4, <2>5, <2>9 DEF Listing
    <3>2. \A d \in gone' : pc'[d] # "idle"
      BY <1>1, <2>1, <2>4, <2>6 DEF ListsOK, DownloadTypeOK
    <3> QED
      BY <1>2, <2>1, <2>7, <3>1, <3>2
  <2> QED
    BY <2>8, <2>9
<1>7. ASSUME NEW c \in Calls, Session(c) /\ UNCHANGED viewVars PROVE ListsOK'
  <2>1. UNCHANGED <<rows, routes, gone>>
    BY <1>7 DEF viewVars, pageVars
  <2>2. /\ todo = <<>> /\ todo' = todo /\ then' = then /\ pc[c] \in Active /\ pc'[c] \in Active
        /\ \A d \in Calls \ {c} : pc'[d] = pc[d]
    BY <1>7, SessionFacts
  <2>3. \A d \in Calls : Listing(d)' => Listing(d)
    BY <2>2 DEF Listing
  <2>4. \A d \in gone' : pc'[d] # "idle"
    BY <1>1, <2>1, <2>2 DEF ListsOK, DownloadTypeOK
  <2> QED
    BY <1>2, <2>1, <2>2, <2>3, <2>4, Stretches
<1>8. ASSUME NEW c \in Calls, Return(c) PROVE ListsOK'
  <2>1. /\ UNCHANGED <<then, routes, gone>> /\ todo = <<>> /\ pc[c] = "close" /\ pc'[c] = "returned"
        /\ \A d \in Calls \ {c} : pc'[d] = pc[d]
    BY <1>8, ReturnFacts
  <2>2. \A d \in Calls : Listing(d)' <=> Listing(d) /\ d # c
    BY <2>1 DEF Listing
  <2>3. todo' # Lists
    <3>1. todo' = <<>> \/ \E k : todo' = Checks(k)
      BY <1>8, <2>1 DEF Return, ListReturned, RemoveReturned, AddReturned, CheckReturned, Checks
    <3> QED
      BY <3>1, Stretches
  <2>4. \A d \in gone' : pc'[d] # "idle"
    BY <1>1, <2>1 DEF ListsOK, DownloadTypeOK
  <2>5. CASE rows' = rows
    BY <1>2, <2>1, <2>2, <2>3, <2>4, <2>5
  <2>6. CASE rows' # rows
    <3>1. Listing(c) /\ c \notin gone
      BY <1>8, <2>1, <2>6 DEF Return, ListReturned, RemoveReturned, AddReturned, CheckReturned, Listing,
                              pageVars
    <3>2. routes = <<ListPage>> /\ \A d \in Calls : ~(Listing(d)' /\ d \notin gone')
      BY <1>1, <2>1, <2>2, <3>1 DEF ListsOK
    <3> QED
      BY <2>1, <2>3, <2>4, <3>2 DEF ListsOK, Lists, AnyBook, Request, After, ListPage
  <2> QED
    BY <2>5, <2>6
<1>9. CASE KillApp
  <2>1. /\ rows' = <<>> /\ gone' = {} /\ todo' = <<>>
        /\ \A c \in Calls : ~Listing(c)'
    BY <1>9, KillFacts DEF Listing
  <2>2. todo' # Lists
    BY <2>1, Stretches
  <2> QED
    BY <2>1, <2>2 DEF ListsOK, Lists, AnyBook, Request, After
<1>10. CASE UNCHANGED allVars
  <2>1. UNCHANGED <<todo, pc, then, rows, routes, gone>>
    BY <1>10 DEF allVars, callerVars, vars, pageVars
  <2> QED
    BY <1>1, <2>1 DEF ListsOK, Listing, Lists, AnyBook, Request, After, ListPage
<1> QED
  BY <1>3, <1>4, <1>5, <1>6, <1>7, <1>8, <1>9, <1>10, StepCases

\* A listing has each document of a set once, and no more than there are calls.
LEMMA ListingFacts ==
  ASSUME NEW S, S \subseteq Document, \A d, e \in S : d.oid = e.oid => d = e, NEW q \in Listings(S)
  PROVE  /\ q \in Seq(Document) /\ Len(q) = Cardinality(S) /\ Len(q) <= Cardinality(Calls)
         /\ IsFiniteSet(S) /\ Cardinality(S) \in Nat /\ DOMAIN q = 1..Cardinality(S)
<1> DEFINE f == [d \in S |-> d.oid]
<1>1. f \in [S -> Calls]
  BY DEF Document
<1>2. f \in Injection(S, Calls)
  BY <1>1 DEF Injection, IsInjective
<1>3. IsFiniteSet(S) /\ Cardinality(S) <= Cardinality(Calls)
  BY <1>2, FS_Injection, DownloadAssumption
<1>4. Cardinality(S) \in Nat
  BY <1>3, FS_CardinalityType
<1>5. q \in [1..Cardinality(S) -> S]
  BY DEF Listings
<1>6. q \in Seq(Document) /\ Len(q) = Cardinality(S) /\ DOMAIN q = 1..Cardinality(S)
  BY <1>4, <1>5
<1> QED
  BY <1>3, <1>4, <1>6

\* A list that a row is taken from.
LEMMA RowsWithoutFacts ==
  ASSUME DownloadTypeOK, NEW i \in DOMAIN rows
  PROVE  RowsWithout(i) \in Seq(Document) /\ Len(RowsWithout(i)) = Len(rows) - 1
<1>1. rows \in Seq(Document) /\ Len(rows) \in Nat /\ DOMAIN rows = 1..Len(rows)
      /\ \A j \in 1..Len(rows) : rows[j] \in Document
  BY Typed, EndFacts
<1>2. Len(rows) - 1 \in Nat /\ i \in 1..Len(rows)
  BY <1>1
<1>3. \A j \in 1..(Len(rows) - 1) : (IF j < i THEN rows[j] ELSE rows[j + 1]) \in Document
  BY <1>1, <1>2
<1>4. RowsWithout(i) \in [1..(Len(rows) - 1) -> Document]
  BY <1>3 DEF RowsWithout
<1> QED
  BY <1>2, <1>4

\* The list of the downloads page has at most one row per call.
LEMMA RowsStep ==
  ASSUME Shape, Stored, [DownNext]_allVars
  PROVE  rows' \in Seq(Document) /\ Len(rows') <= Cardinality(Calls)
<1>1. rows \in Seq(Document) /\ Len(rows) <= Cardinality(Calls) /\ Len(rows) \in Nat /\ Cardinality(Calls) \in Nat
  BY Typed, EndFacts DEF Shape
<1>2. ASSUME rows' = rows \/ rows' = <<>>
      PROVE  rows' \in Seq(Document) /\ Len(rows') <= Cardinality(Calls)
  <2>1. <<>> \in Seq(Document) /\ Len(<<>>) = 0
    OBVIOUS
  <2>2. 0 <= Cardinality(Calls)
    BY <1>1
  <2>3. CASE rows' = <<>>
    BY <2>1, <2>2, <2>3
  <2> QED
    BY <1>1, <1>2, <2>3
<1>3. ASSUME NEW c \in Calls, DeleteFile(c)
      PROVE  rows' \in Seq(Document) /\ Len(rows') <= Cardinality(Calls)
  <2>1. CASE then[c].row \in DOMAIN rows /\ rows' = RowsWithout(then[c].row)
    <3>1. PICK i \in DOMAIN rows : rows' = RowsWithout(i)
      BY <2>1
    <3>2. rows' \in Seq(Document) /\ Len(rows') = Len(rows) - 1
      BY <3>1, RowsWithoutFacts DEF Shape
    <3> QED
      BY <1>1, <3>2
  <2> QED
    BY <1>2, <1>3, <2>1 DEF DeleteFile
<1>4. ASSUME NEW c \in Calls, Return(c)
      PROVE  rows' \in Seq(Document) /\ Len(rows') <= Cardinality(Calls)
  <2>1. CASE ListReturned(c) /\ c \notin gone
    <3>1. PICK q \in Listings(result[c]) : rows' = rows \o q
      BY <2>1 DEF ListReturned
    <3>2. Listing(c)
      BY <1>4, <2>1, ReturnFacts DEF Listing, ListReturned, Stored
    <3>3. rows = <<>>
      BY <2>1, <3>2 DEF Shape, ListsOK
    <3>4. Unupdated
      BY DEF Unupdated, Shape, ThenOK, Upserting
    <3>5. result[c] \subseteq Document /\ \A d, e \in result[c] : d.oid = e.oid => d = e
      BY <3>4, OwnUnique DEF Stored, Inv, TypeOK
    <3>6. q \in Seq(Document) /\ Len(q) <= Cardinality(Calls)
      BY <3>1, <3>5, ListingFacts
    <3>7. rows' = q
      BY <3>1, <3>3, <3>6
    <3> QED
      BY <3>6, <3>7
  <2> QED
    BY <1>2, <1>4, <2>1 DEF Return, ListReturned, RemoveReturned, AddReturned, CheckReturned, pageVars
<1>5. ASSUME ~(\E c \in Calls : DeleteFile(c) \/ Return(c)) PROVE rows' = rows \/ rows' = <<>>
  <2>1. CASE Tap
    BY <1>5, <2>1 DEF Tap, OpenDetail, OpenList, Back, Dismiss, Probe, TapDownload, Locate, LookForFile, DeleteOld,
              CreateFile, Receive, Complete, TransferOrphaned, TransferFails, TransferUnsized, pageVars
  <2> QED
    BY <1>5, <2>1, StepCases, KillFacts DEF viewVars, allVars, pageVars, Stored
<1> QED
  BY <1>2, <1>3, <1>4, <1>5

\* The types are kept.
LEMMA TypeStep ==
  ASSUME Shape, Stored, [DownNext]_allVars
  PROVE  DownloadTypeOK'
<1> USE DEF Shape
<1>1. /\ stage \in [Tasks -> Stages] /\ book \in [Tasks -> Keys] /\ pageOf \in [Tasks -> Nat]
      /\ title \in [Keys -> Keys] /\ fs \in [Keys -> {"absent", "empty", "partial", "whole"}]
      /\ together \in SUBSET Tasks /\ received \in SUBSET Tasks /\ sole \in SUBSET Tasks
      /\ routes \in Seq(Routes) /\ then \in [Calls -> Thens]
      /\ pc \in [Calls -> {"idle"} \union Active \union Ended]
      /\ key \in [Calls -> Keys]
      /\ \A t \in Tasks : TitleOf(t) \in Keys
  BY Typed DEF TitleOf
<1>2. /\ downloaded \in BOOLEAN /\ probing \in SUBSET Calls /\ checked \in SUBSET Calls
      /\ deleting \in SUBSET Calls /\ gone \in SUBSET Calls /\ crossed \in BOOLEAN
  BY DEF DownloadTypeOK
<1>3. TypeOK' /\ RoutesOK' /\ routes' \in Seq(Routes) /\ pageOf' \in [Tasks -> Nat]
  BY StoreStep, NextType, RoutesStep DEF Stored, Inv
<1>4. rows' \in Seq(Document) /\ Len(rows') <= Cardinality(Calls)
  BY RowsStep
<1>5. todo' \in Seq([m : Methods, k : Keys, t : Thens])
  <2>1. TodoOK'
    BY TodoStep DEF Stored
  <2>2. \/ todo' = <<>> \/ todo' = Lists
        \/ \E k \in Keys : \/ todo' = Checks(k)
                           \/ \E t \in Tasks : todo' = Adds(k, t)
                           \/ \E i \in Rows : todo' = Removes(k, i)
    BY <2>1 DEF TodoOK, Lists, Checks, Adds, Removes, checkDownload, Request, After, AnyBook
  <2>3. <<>> \in Seq([m : Methods, k : Keys, t : Thens])
    OBVIOUS
  <2> QED
    BY <2>2, <2>3, StretchTypes
<1>6. then' \in [Calls -> Thens]
  <2>1. CASE MakeCall
    <3>1. \E c \in Calls, t \in Thens : then' = [then EXCEPT ![c] = t]
      BY <2>1, CallCases, Purposes DEF Made
    <3> QED
      BY <1>1, <3>1
  <2>2. CASE ~MakeCall
    BY <1>1, <2>2, StepCases, TapFacts, SessionFacts, ReturnFacts, KillFacts DEF allVars, callerVars, Stored
  <2> QED
    BY <2>1, <2>2
<1>7. stage' \in [Tasks -> Stages] /\ book' \in [Tasks -> Keys]
  <2>1. CASE Tap
    <3>1. CASE UNCHANGED <<stage, book>>
      BY <1>1, <3>1
    <3>2. ASSUME NEW t \in Tasks, TapDownload(t) PROVE stage' \in [Tasks -> Stages] /\ book' \in [Tasks -> Keys]
      <4>1. Top.of \in Keys
        <5>1. Len(routes) \in DOMAIN routes /\ routes[Len(routes)] \in Routes
          BY <1>1, <3>2, EndFacts DEF TapDownload
        <5> QED
          BY <3>2, <5>1, RouteFacts DEF TapDownload, Top
      <4> QED
        BY <1>1, <3>2, <4>1 DEF TapDownload, Stages, Running
    <3>3. ASSUME NEW t \in Tasks, Locate(t) \/ LookForFile(t) \/ DeleteOld(t) \/ CreateFile(t)
                 \/ Receive(t) \/ Complete(t) \/ TransferOrphaned(t) \/ TransferFails(t) \/ TransferUnsized(t)
          PROVE  book' = book /\ \E s \in Stages : stage' = [stage EXCEPT ![t] = s]
      BY <3>3 DEF Locate, LookForFile, DeleteOld, CreateFile, Receive, Complete, TransferOrphaned,
                  TransferFails, TransferUnsized, Stages, Running
    <3>4. \/ UNCHANGED <<stage, book>> \/ \E t \in Tasks : TapDownload(t)
          \/ \E t \in Tasks : Locate(t) \/ LookForFile(t) \/ DeleteOld(t) \/ CreateFile(t)
                 \/ Receive(t) \/ Complete(t) \/ TransferOrphaned(t) \/ TransferFails(t) \/ TransferUnsized(t)
      BY <2>1 DEF Tap, OpenDetail, OpenList, Back, Dismiss, DeleteFile, Probe, taskVars
    <3> QED
      BY <1>1, <3>1, <3>2, <3>3, <3>4
  <2>2. ASSUME NEW c \in Calls, Return(c) PROVE stage' \in [Tasks -> Stages] /\ book' \in [Tasks -> Keys]
    <3>1. book' = book
      BY <2>2, ReturnFacts DEF Stored
    <3>2. stage' = stage \/ AddReturned(c)
      BY <2>2 DEF Return, ListReturned, RemoveReturned, CheckReturned, taskVars
    <3>3. ASSUME AddReturned(c) PROVE stage' \in [Tasks -> Stages]
      <4>1. PICK t : stage' = [stage EXCEPT ![t] = IF @ = "received" THEN "recorded" ELSE @]
        BY <3>3 DEF AddReturned
      <4> QED
        BY <1>1, <4>1 DEF Stages
    <3> QED
      BY <1>1, <3>1, <3>2, <3>3
  <2>3. CASE KillApp
    BY <1>1, <2>3, KillFacts DEF Stages, Stored
  <2>4. CASE UNCHANGED viewVars \/ UNCHANGED allVars
    BY <1>1, <2>4 DEF viewVars, allVars, taskVars
  <2> QED
    BY <2>1, <2>2, <2>3, <2>4, StepCases
<1>8. fs' \in [Keys -> {"absent", "empty", "partial", "whole"}] /\ sole' \in SUBSET Tasks /\ title' = title
  <2>1. CASE Tap
    <3>1. title' = title
      BY <2>1, TapFacts
    <3>2. \A f : Unlink(f) => fs' \in [Keys -> {"absent", "empty", "partial", "whole"}] /\ sole' \in SUBSET Tasks
      BY <1>1 DEF Unlink
    <3>3. \A t \in Tasks : WrittenOut(t) => fs' \in [Keys -> {"absent", "empty", "partial", "whole"}]
      BY <1>1 DEF WrittenOut
    <3>4. \A t \in Tasks : \/ Receive(t) => fs' \in [Keys -> {"absent", "empty", "partial", "whole"}] /\ sole' \in SUBSET Tasks
      BY <1>1 DEF Receive
    <3>5. \A t \in Tasks : \/ CreateFile(t) => fs' \in [Keys -> {"absent", "empty", "partial", "whole"}] /\ sole' \in SUBSET Tasks
      BY <1>1 DEF CreateFile
    <3>6. CASE UNCHANGED <<fs, sole>>
      BY <1>1, <3>1, <3>6
    <3>7. \A t \in Tasks :
             (LookForFile(t) \/ Locate(t) \/ TapDownload(t)) => UNCHANGED <<fs, sole>>
      BY DEF LookForFile, Locate, TapDownload
    <3>8. \A t \in Tasks : Complete(t) \/ TransferOrphaned(t) \/ TransferUnsized(t) =>
             sole' = sole /\ (WrittenOut(t) \/ UNCHANGED fs)
      BY DEF Complete, TransferOrphaned, TransferUnsized
    <3>9. \A t \in Tasks : DeleteOld(t) \/ TransferFails(t) => Unlink(TitleOf(t)) \/ UNCHANGED <<fs, sole>>
      BY DEF DeleteOld, TransferFails
    <3>10. \A c \in Calls : DeleteFile(c) => Unlink(title[key[c]])
      BY DEF DeleteFile
    <3>11. \/ UNCHANGED <<fs, sole>> \/ \E c \in Calls : DeleteFile(c)
           \/ \E t \in Tasks : \/ DeleteOld(t) \/ TransferFails(t) \/ Complete(t) \/ TransferOrphaned(t)
                               \/ TransferUnsized(t) \/ Receive(t) \/ CreateFile(t)
      BY <2>1, <3>7 DEF Tap, OpenDetail, OpenList, Back, Dismiss, Probe, taskVars
    <3> QED
      BY <1>1, <3>1, <3>2, <3>3, <3>4, <3>5, <3>6, <3>8, <3>9, <3>10, <3>11
  <2>2. CASE ~Tap
    BY <1>1, <2>2, StepCases, ReturnFacts, KillFacts DEF viewVars, allVars, taskVars, Stored
  <2> QED
    BY <2>1, <2>2
<1>9. together' \in SUBSET Tasks /\ received' \in SUBSET Tasks
  <2>1. CASE Tap
    <3>1. DialogsUp \in SUBSET Tasks
      BY DEF DialogsUp
    <3>2. /\ received' = received \/ \E t \in Tasks : received' = received \union {t}
          /\ together' = together \/ \E t \in Tasks : together' = together \union DialogsUp \union {t}
      BY <2>1 DEF Tap, OpenDetail, OpenList, Back, Dismiss, DeleteFile, Probe, TapDownload, Locate,
                LookForFile, DeleteOld, CreateFile, Receive, Complete, TransferOrphaned, TransferFails,
                TransferUnsized, taskVars
    <3> QED
      BY <1>1, <3>1, <3>2
  <2>2. CASE ~Tap
    BY <1>1, <2>2, StepCases, ReturnFacts, KillFacts DEF viewVars, allVars, taskVars, Stored
  <2> QED
    BY <2>1, <2>2
<1>10. /\ downloaded' \in BOOLEAN /\ probing' \in SUBSET Calls /\ checked' \in SUBSET Calls
       /\ deleting' \in SUBSET Calls /\ gone' \in SUBSET Calls /\ crossed' \in BOOLEAN
  <2>1. CASE Tap
    BY <1>2, <2>1 DEF Tap, OpenDetail, OpenList, Back, Dismiss, DeleteFile, Probe, TapDownload, Locate,
                LookForFile, DeleteOld, CreateFile, Receive, Complete, TransferOrphaned, TransferFails,
                TransferUnsized, pageVars, flagVars
  <2>2. ASSUME NEW c \in Calls, Return(c)
        PROVE  /\ downloaded' \in {downloaded, FALSE} /\ probing' \in {probing, probing \union {c}}
               /\ checked' \in {checked, {c}} /\ deleting' \in {deleting, deleting \union {c}}
               /\ gone' = gone /\ crossed' = crossed
    BY <2>2 DEF Return, ListReturned, RemoveReturned, AddReturned, CheckReturned, pageVars, flagVars
  <2>3. CASE KillApp
    BY <2>3, KillFacts DEF Stored
  <2>4. CASE UNCHANGED viewVars \/ UNCHANGED allVars
    BY <1>2, <2>4 DEF viewVars, allVars, pageVars, flagVars
  <2> QED
    BY <1>2, <2>1, <2>2, <2>3, <2>4, StepCases
<1> QED
  BY <1>1, <1>3, <1>4, <1>5, <1>6, <1>7, <1>8, <1>9, <1>10
     DEF DownloadTypeOK, CallerTypeOK, Routes, Detail, Dialog, ListPage

\* Every step keeps the shape.
LEMMA ShapeStep ==
  ASSUME Shape, Stored, [DownNext]_allVars
  PROVE  Shape'
<1>1. Inv
  BY DEF Stored
<1>2. RoutesOK' /\ DialogsOK'
  BY <1>1, RoutesStep, DialogsStep DEF Shape
<1> QED
  BY <1>1, <1>2, TodoStep, ThenStep, ListsStep, TypeStep DEF Shape

\* The application starts in shape.
LEMMA ShapeInit == DownInit => Shape
<1> SUFFICES ASSUME DownInit PROVE Shape
  OBVIOUS
<1>1. TypeOK
  BY InitType DEF DownInit
<1>2. /\ todo = <<>> /\ routes = <<>> /\ rows = <<>> /\ deleting = {} /\ gone = {}
      /\ \A c \in Calls : pc[c] = "idle"
      /\ then = [c \in Calls |-> After("probe", NoTask, 0)]
      /\ stage = [t \in Tasks |-> "unused"] /\ book = [t \in Tasks |-> AnyBook]
      /\ pageOf = [t \in Tasks |-> 0] /\ title \in [Keys -> Keys] /\ fs = [k \in Keys |-> "absent"]
      /\ downloaded = FALSE /\ probing = {} /\ checked = {}
      /\ sole = {} /\ together = {} /\ received = {} /\ crossed = FALSE
  BY DEF DownInit, Init, AnyBook
<1>3. then \in [Calls -> Thens] /\ book \in [Tasks -> Keys]
  BY <1>2, Purposes
<1>4. /\ todo \in Seq([m : Methods, k : Keys, t : Thens]) /\ routes \in Seq(Routes)
      /\ rows \in Seq(Document) /\ Len(rows) = 0 /\ DOMAIN routes = {}
  BY <1>2
<1>5. Cardinality(Calls) \in Nat
  BY DownloadAssumption, FS_CardinalityType
<1>6. DownloadTypeOK
  <2>1. stage \in [Tasks -> Stages] /\ pageOf \in [Tasks -> Nat]
    BY <1>2 DEF Stages
  <2>2. fs \in [Keys -> {"absent", "empty", "partial", "whole"}]
    BY <1>2
  <2>3. Len(rows) <= Cardinality(Calls)
    BY <1>4, <1>5
  <2>4. routes \in Seq({Detail(k) : k \in Keys} \union {Dialog(t) : t \in Tasks} \union {ListPage})
    BY <1>4 DEF Routes
  <2> QED
    BY <1>1, <1>2, <1>3, <1>4, <2>1, <2>2, <2>3, <2>4 DEF DownloadTypeOK, CallerTypeOK
<1>7. TodoOK /\ ThenOK /\ RoutesOK /\ DialogsOK
  BY <1>2, <1>4 DEF TodoOK, ThenOK, RoutesOK, DialogsOK, DialogHasTransfer, Shown
<1>8. ListsOK
  BY <1>2, Stretches DEF ListsOK, Listing
<1> QED
  BY <1>6, <1>7, <1>8 DEF Shape

\* The shape, with the store's own, which the steps rely on.
LEMMA ShapeHolds == DownSpec => [](Shape /\ Stored)
<1>1. DownInit => Shape /\ Stored
  BY ShapeInit, StoredInit DEF DownInit
<1>2. Shape /\ Stored /\ [DownNext]_allVars => (Shape /\ Stored)'
  <2> SUFFICES ASSUME Shape, Stored, [DownNext]_allVars PROVE (Shape /\ Stored)'
    OBVIOUS
  <2>1. [Next]_vars
    BY StoreStep DEF Shape, Stored
  <2> QED
    BY <2>1, ShapeStep, StoredStep
<1> QED
  BY <1>1, <1>2, PTL DEF DownSpec

\* THEOREM: in every reachable state the variables have their types.
THEOREM DownTypeCorrect == DownSpec => []DownloadTypeOK
  BY ShapeHolds, PTL DEF Shape

\* THEOREM: for the store, the application is a caller like any other, so what
\* is proved of EbookStore holds of its downloads.
THEOREM DownImplementsStore == DownSpec => Spec
<1>1. DownInit => Init
  BY DEF DownInit
<1>2. Shape /\ Stored /\ [DownNext]_allVars => [Next]_vars
  BY StoreStep DEF Shape, Stored
<1> QED
  BY <1>1, <1>2, ShapeHolds, PTL DEF DownSpec, Spec

\* THEOREM: a DownloadPopUp is up for a transfer that runs or that nothing will
\* ever end, or was up together with another.
THEOREM DialogsHaveTransfers == DownSpec => []DialogHasTransfer
  BY ShapeHolds, PTL DEF Shape, DialogsOK

\* What is in the file was inserted by a call for a task.
LEMMA RecordTask ==
  ASSUME Shape, Inv, KeysOK, NEW d \in file
  PROVE  /\ d.oid \in Calls /\ d.key \in Keys /\ d.key = key[d.oid] /\ pc[d.oid] # "idle"
         /\ method[d.oid] = "EbookDownload.addDownload" /\ wrote[d.oid] = "inserted"
         /\ then[d.oid].task \in Tasks /\ Adding(d.key, then[d.oid].task)
<1>1. d.oid \in Calls /\ d.key \in Keys /\ d.key = key[d.oid] /\ wrote[d.oid] = "inserted"
  BY DEF Inv, TypeOK, DocsOK, Document
<1>2. pc[d.oid] # "idle" /\ method[d.oid] \in Inserting \union Upserting
  BY <1>1 DEF Inv, WroteOK, KeysOK
<1>3. method[d.oid] = "EbookDownload.addDownload" /\ then[d.oid].task \in Tasks
      /\ Adding(key[d.oid], then[d.oid].task)
  BY <1>1, <1>2 DEF Shape, ThenOK, Inserting, Upserting
<1> QED
  BY <1>1, <1>2, <1>3

\* THEOREM: a record is inserted only for a transfer that has received every
\* byte, or for a dialog that was up together with another.
THEOREM RecordsOnlyCompleted == DownSpec => []RecordOnlyAfterCompletion
<1>1. Shape /\ Inv /\ KeysOK => RecordOnlyAfterCompletion
  BY RecordTask DEF RecordOnlyAfterCompletion, Adding
<1> QED
  BY <1>1, ShapeHolds, DownImplementsStore, KeysHold, PTL DEF Stored

-----------------------------------------------------------------------------
(* The file of a record.  A file is spoilt only by a tap for its title that *)
(* is not done, by a dialog that met another, or by a removal.              *)

\* A tap that has not come to the end of its transfer, and may never.
Pending(t) == stage[t] \notin {"unused", "received", "recorded"}

PendingFor(f) == \E t \in Tasks : Pending(t) /\ TitleOf(t) = f

MetFor(f) == \E t \in together : TitleOf(t) = f

\* Removal m of a book of title f has returned.
Swept(f) == \E m \in Calls : method[m] \in Removing /\ pc[m] = "returned" /\ title[key[m]] = f

Spoilt(f) == PendingFor(f) \/ MetFor(f) \/ Swept(f)

\* A transfer is done, or a record is being made, for title f.
Wanted(f) ==
  \/ \E t \in Tasks : stage[t] = "received" /\ TitleOf(t) = f
  \/ \E c \in Calls : pc[c] # "idle" /\ method[c] \in Inserting /\ title[key[c]] = f

\* A transfer that alone has written its file has some or all of it.
SoleOK(t) == stage[t] = "receiving" =>
  \/ t \in sole /\ fs[TitleOf(t)] \in {"partial", "whole"}
  \/ \E u \in Tasks \ {t} : Pending(u) /\ TitleOf(u) = TitleOf(t)
  \/ MetFor(TitleOf(t)) \/ Swept(TitleOf(t))

FilesOK ==
  /\ \A f \in Keys : Wanted(f) => fs[f] = "whole" \/ Spoilt(f)
  /\ \A t \in Tasks : SoleOK(t)
  /\ \A t \in Tasks : stage[t] \in {"waiting", "receiving"} => Shown(Dialog(t)) \/ t \in together
  /\ \A k \in Keys, t \in Tasks : todo = Adds(k, t) => stage[t] = "received" \/ t \in together
  /\ \A c \in deleting : method[c] \in Removing /\ pc[c] = "returned"

\* A removal that has returned stays one, and so does a dialog that met another.
LEMMA SpoiltStays ==
  ASSUME Shape, Inv, [DownNext]_allVars, NEW f
  PROVE  /\ Swept(f) => Swept(f)'
         /\ MetFor(f) => MetFor(f)'
<1>1. Swept(f) => Swept(f)'
  <2> SUFFICES ASSUME NEW m \in Calls, method[m] \in Removing, pc[m] = "returned", title[key[m]] = f
               PROVE  Swept(f)'
    BY DEF Swept
  <2>1. [Next]_vars
    BY StoreStep DEF Shape
  <2>2. pc'[m] = "returned" /\ method'[m] = method[m] /\ key'[m] = key[m]
    BY <2>1, EndedStays, MadeStays
  <2>3. title' = title
    BY StepCases, TapFacts, ReturnFacts, KillFacts DEF viewVars, allVars, taskVars
  <2> QED
    BY <2>2, <2>3 DEF Swept
<1>2. MetFor(f) => MetFor(f)'
  <2> SUFFICES ASSUME NEW t \in together, TitleOf(t) = f PROVE MetFor(f)'
    BY DEF MetFor
  <2>1. t \in Tasks /\ stage[t] \notin Early
    BY Typed DEF Shape, DialogsOK
  <2>2. t \in together' /\ book'[t] = book[t]
    BY <2>1, TaskStays DEF Shape
  <2>3. title' = title
    BY StepCases, TapFacts, ReturnFacts, KillFacts DEF viewVars, allVars, taskVars
  <2> QED
    BY <2>2, <2>3 DEF MetFor, TitleOf
<1> QED
  BY <1>1, <1>2

\* A tap that is pending stays so for its title until its transfer is complete.
LEMMA PendingStays ==
  ASSUME Shape, Inv, [DownNext]_allVars, NEW t \in Tasks
  PROVE  /\ Pending(t) => TitleOf(t)' = TitleOf(t)
         /\ Pending(t) /\ ~Pending(t)' =>
              Complete(t) /\ Top.of = t /\ stage[t] = "receiving" /\ stage'[t] = "received"
<1>1. stage \in [Tasks -> Stages] /\ book \in [Tasks -> Keys]
  BY Typed DEF Shape
<1>2. title' = title
  BY StepCases, TapFacts, ReturnFacts, KillFacts DEF viewVars, allVars, taskVars
<1>3. Pending(t) => TitleOf(t)' = TitleOf(t)
  BY <1>2, TaskStays DEF Pending, TitleOf, Shape
<1>4. ASSUME Pending(t), ~Pending(t)'
      PROVE  Complete(t) /\ Top.of = t /\ stage[t] = "receiving" /\ stage'[t] = "received"
  <2>1. stage'[t] # stage[t]
    BY <1>4 DEF Pending
  <2>2. CASE Tap
    <3>1. PICK u \in Tasks :
               \/ TapDownload(u) \/ Locate(u) \/ LookForFile(u) \/ DeleteOld(u) \/ CreateFile(u)
               \/ Receive(u) \/ Complete(u) \/ TransferOrphaned(u) \/ TransferFails(u) \/ TransferUnsized(u)
      BY <2>1, <2>2 DEF Tap, OpenDetail, OpenList, Back, Dismiss, DeleteFile, Probe, taskVars
    <3>2. u = t
      BY <1>1, <2>1, <3>1 DEF TapDownload, Locate, LookForFile, DeleteOld, CreateFile, Receive, Complete,
                      TransferOrphaned, TransferFails, TransferUnsized
    <3>3. ~(\/ TapDownload(t) \/ Locate(t) \/ LookForFile(t) \/ DeleteOld(t) \/ CreateFile(t)
            \/ Receive(t) \/ TransferOrphaned(t) \/ TransferFails(t) \/ TransferUnsized(t))
      BY <1>1, <1>4 DEF TapDownload, Locate, LookForFile, DeleteOld, CreateFile, Receive,
                      TransferOrphaned, TransferFails, TransferUnsized, Pending
    <3>4. Complete(t)
      BY <3>1, <3>2, <3>3
    <3> QED
      BY <1>1, <1>4, <3>4 DEF Complete, Pending
  <2>3. ASSUME NEW c \in Calls, Return(c) PROVE FALSE
    BY <1>1, <1>4, <2>3 DEF Return, ListReturned, RemoveReturned, AddReturned, CheckReturned, taskVars, Pending
  <2>4. CASE KillApp
    BY <1>1, <1>4, <2>4, KillFacts DEF Pending, Running
  <2>5. CASE UNCHANGED viewVars \/ UNCHANGED allVars
    BY <2>1, <2>5 DEF viewVars, allVars, taskVars
  <2> QED
    BY <2>2, <2>3, <2>4, <2>5, StepCases
<1> QED
  BY <1>3, <1>4

\* A transfer that completes leaves its file whole, or it was spoilt by others.
LEMMA CompleteFacts ==
  ASSUME Shape, Inv, FilesOK, [DownNext]_allVars, NEW t \in Tasks, Complete(t)
  PROVE  LET f == TitleOf(t) IN
         /\ TitleOf(t)' = f /\ \A u \in Tasks \ {t} : stage'[u] = stage[u] /\ TitleOf(u)' = TitleOf(u)
         /\ \A g \in Keys \ {f} : fs'[g] = fs[g]
         /\ \/ fs'[f] = "whole" \/ MetFor(f)' \/ Swept(f)'
            \/ \E u \in Tasks \ {t} : Pending(u)' /\ TitleOf(u)' = f
<1>1. stage \in [Tasks -> Stages] /\ book \in [Tasks -> Keys] /\ title \in [Keys -> Keys]
      /\ fs \in [Keys -> {"absent", "empty", "partial", "whole"}]
  BY Typed DEF Shape
<1>2. /\ stage[t] = "receiving" /\ WrittenOut(t) /\ UNCHANGED <<book, title>>
      /\ \A u \in Tasks \ {t} : stage'[u] = stage[u]
  BY <1>1 DEF Complete
<1>3. \A u \in Tasks : TitleOf(u)' = TitleOf(u) /\ TitleOf(u) \in Keys
  BY <1>1, <1>2 DEF TitleOf
<1>4. \A g \in Keys \ {TitleOf(t)} : fs'[g] = fs[g]
  BY <1>1, <1>2, <1>3 DEF WrittenOut
<1>5. CASE t \in sole /\ fs[TitleOf(t)] \in {"partial", "whole"}
  BY <1>1, <1>2, <1>3, <1>4, <1>5 DEF WrittenOut
<1>6. CASE MetFor(TitleOf(t)) \/ Swept(TitleOf(t))
  <2>1. \A f : (MetFor(f) => MetFor(f)') /\ (Swept(f) => Swept(f)')
    BY SpoiltStays
  <2>2. PICK f : f = TitleOf(t)
    OBVIOUS
  <2>3. (MetFor(f) \/ Swept(f)) /\ (MetFor(TitleOf(t))' <=> MetFor(f)') /\ (Swept(TitleOf(t))' <=> Swept(f)')
    BY <1>3, <1>6, <2>2 DEF MetFor, Swept
  <2> QED
    BY <1>2, <1>3, <1>4, <2>1, <2>2, <2>3
<1>7. CASE \E u \in Tasks \ {t} : Pending(u) /\ TitleOf(u) = TitleOf(t)
  <2>1. PICK u \in Tasks \ {t} : Pending(u) /\ TitleOf(u) = TitleOf(t)
    BY <1>7
  <2>2. Pending(u)' /\ TitleOf(u)' = TitleOf(t)
    BY <1>2, <1>3, <2>1 DEF Pending
  <2> QED
    BY <1>2, <1>3, <1>4, <2>2
<1> QED
  BY <1>2, <1>5, <1>6, <1>7 DEF FilesOK, SoleOK

\* A file is whole until a tap for its title, or a removal, spoils it.
LEMMA WholeStays ==
  ASSUME Shape, Inv, FilesOK, [DownNext]_allVars, NEW f \in Keys, fs[f] = "whole", fs'[f] # "whole"
  PROVE  PendingFor(f) \/ Swept(f)
<1>1. /\ fs \in [Keys -> {"absent", "empty", "partial", "whole"}] /\ \A t \in Tasks : TitleOf(t) \in Keys
      /\ title \in [Keys -> Keys] /\ key \in [Calls -> Keys]
  BY Typed DEF Shape, TitleOf
<1>2. ASSUME NEW g \in Keys, Unlink(g) PROVE f = g
  BY <1>1, <1>2 DEF Unlink
<1>3. ASSUME NEW t \in Tasks, WrittenOut(t) PROVE f = TitleOf(t)
  BY <1>1, <1>3 DEF WrittenOut
<1>4. CASE Tap
  <2>1. ASSUME NEW c \in Calls, DeleteFile(c) PROVE Swept(f)
    <3>1. Unlink(title[key[c]]) /\ c \in deleting /\ title[key[c]] \in Keys
      BY <1>1, <2>1 DEF DeleteFile
    <3> QED
      BY <1>2, <3>1 DEF FilesOK, Swept
  <2>2. ASSUME NEW t \in Tasks,
               \/ DeleteOld(t) \/ Receive(t) \/ Complete(t) \/ TransferOrphaned(t) \/ TransferFails(t)
               \/ TransferUnsized(t) \/ CreateFile(t)
        PROVE  f = TitleOf(t) /\ Pending(t)
    <3>1. Pending(t)
      BY <2>2 DEF DeleteOld, Receive, Complete, TransferOrphaned, TransferFails, TransferUnsized, CreateFile, Pending
    <3>2. f = TitleOf(t)
      BY <1>1, <1>2, <1>3, <2>2
         DEF DeleteOld, Receive, Complete, TransferOrphaned, TransferFails, TransferUnsized, CreateFile
    <3> QED
      BY <3>1, <3>2
  <2>3. \/ fs' = fs \/ \E c \in Calls : DeleteFile(c)
        \/ \E t \in Tasks :
               \/ DeleteOld(t) \/ Receive(t) \/ Complete(t) \/ TransferOrphaned(t) \/ TransferFails(t)
               \/ TransferUnsized(t) \/ CreateFile(t)
    BY <1>4 DEF Tap, OpenDetail, OpenList, Back, Dismiss, Probe, TapDownload, Locate, LookForFile, taskVars
  <2> QED
    BY <2>1, <2>2, <2>3 DEF PendingFor
<1>5. CASE ~Tap
  BY <1>5, StepCases, ReturnFacts, KillFacts DEF viewVars, allVars, taskVars
<1> QED
  BY <1>4, <1>5

\* What becomes wanted is there, or it was spoilt.
LEMMA WantedStep ==
  ASSUME Shape, Inv, FilesOK, [DownNext]_allVars, NEW f \in Keys, Wanted(f)'
  PROVE  fs'[f] = "whole" \/ Spoilt(f)'
<1>1. /\ stage \in [Tasks -> Stages] /\ book \in [Tasks -> Keys] /\ title \in [Keys -> Keys]
      /\ fs \in [Keys -> {"absent", "empty", "partial", "whole"}]
      /\ then \in [Calls -> Thens]
  BY Typed DEF Shape
<1>2. title' = title
  BY StepCases, TapFacts, ReturnFacts, KillFacts DEF viewVars, allVars, taskVars
<1>3. (Swept(f) => Swept(f)') /\ (MetFor(f) => MetFor(f)')
  BY SpoiltStays
<1>4. ASSUME NEW t \in Tasks, Complete(t), TitleOf(t) = f PROVE fs'[f] = "whole" \/ Spoilt(f)'
  BY <1>4, CompleteFacts DEF Spoilt, PendingFor
<1>5. ASSUME PendingFor(f) PROVE fs'[f] = "whole" \/ Spoilt(f)'
  <2>1. PICK t \in Tasks : Pending(t) /\ TitleOf(t) = f
    BY <1>5 DEF PendingFor
  <2>2. CASE Pending(t)'
    BY <2>1, <2>2, PendingStays DEF Spoilt, PendingFor
  <2>3. CASE ~Pending(t)'
    BY <1>4, <2>1, <2>3, PendingStays
  <2> QED
    BY <2>2, <2>3
<1>6. CASE Wanted(f)
  <2>1. fs[f] = "whole" \/ Spoilt(f)
    BY <1>6 DEF FilesOK
  <2> QED
    BY <1>3, <1>5, <2>1, WholeStays DEF Spoilt
<1>7. CASE \E t \in Tasks : stage'[t] = "received" /\ TitleOf(t)' = f
  <2>1. PICK t \in Tasks : stage'[t] = "received" /\ TitleOf(t)' = f
    BY <1>7
  <2>2. CASE stage[t] = "received"
    <3>1. TitleOf(t) = f
      BY <1>2, <2>1, <2>2, TaskStays DEF TitleOf, Early, Shape
    <3> QED
      BY <1>6, <2>2, <3>1 DEF Wanted
  <2>3. CASE stage[t] # "received"
    <3>1. Complete(t)
      <4>1. CASE Tap
        BY <1>1, <2>1, <2>3, <4>1 DEF Tap, OpenDetail, OpenList, Back, Dismiss, DeleteFile, Probe, TapDownload,
                Locate, LookForFile, DeleteOld, CreateFile, Receive, Complete, TransferOrphaned, TransferFails,
                TransferUnsized, taskVars
      <4>2. ASSUME NEW c \in Calls, Return(c) PROVE FALSE
        BY <1>1, <2>1, <2>3, <4>2 DEF Return, ListReturned, RemoveReturned, AddReturned, CheckReturned, taskVars
      <4>3. CASE KillApp
        BY <1>1, <2>1, <2>3, <4>3, KillFacts
      <4>4. CASE UNCHANGED viewVars \/ UNCHANGED allVars
        BY <2>1, <2>3, <4>4 DEF viewVars, allVars, taskVars
      <4> QED
        BY <4>1, <4>2, <4>3, <4>4, StepCases
    <3>2. TitleOf(t) = f
      BY <2>1, <3>1, CompleteFacts
    <3> QED
      BY <1>4, <3>1, <3>2
  <2> QED
    BY <2>2, <2>3
<1>8. CASE \E c \in Calls : pc'[c] # "idle" /\ method'[c] \in Inserting /\ title'[key'[c]] = f
  <2>1. PICK c \in Calls : pc'[c] # "idle" /\ method'[c] \in Inserting /\ title[key'[c]] = f
    BY <1>2, <1>8
  <2>2. CASE pc[c] # "idle"
    <3>1. method'[c] = method[c] /\ key'[c] = key[c]
      BY <2>2, StoreStep, MadeStays DEF Shape
    <3> QED
      BY <1>6, <2>1, <2>2, <3>1 DEF Wanted
  <2>3. CASE pc[c] = "idle"
    <3>1. MakeCall
      BY <2>1, <2>3, IdleStays DEF Shape
    <3>2. PICK d \in Calls :
              \/ Made(d, "EbookDownload.listAll", AnyBook, After("showList", NoTask, 0))
              \/ \E k \in Keys :
                   \/ Made(d, "EbookDownload.check", k, After("probe", NoTask, 0))
                   \/ \E t \in Tasks :
                        /\ todo = Adds(k, t) /\ Adding(k, t)
                        /\ Made(d, "EbookDownload.addDownload", k, After("checkDownload", t, 0))
                   \/ \E i \in Rows : Made(d, "EbookDownload.remove", k, After("deleteFile", NoTask, i))
      BY <3>1, CallCases DEF Shape
    <3>3. d = c
      BY <1>1, <2>1, <2>3, <3>2, MadeFacts
    <3>4. "EbookDownload.listAll" \notin Inserting /\ "EbookDownload.check" \notin Inserting
          /\ "EbookDownload.remove" \notin Inserting
      BY DEF Inserting
    <3>5. \A m, k, t : Made(c, m, k, t) => method'[c] = m /\ key'[c] = k
      BY <1>1, MadeFacts
    <3>6. PICK k \in Keys, t \in Tasks : todo = Adds(k, t) /\ Adding(k, t) /\ key'[c] = k
      BY <2>1, <3>2, <3>3, <3>4, <3>5
    <3>7. TitleOf(t) = f
      BY <2>1, <3>6 DEF Adding, TitleOf
    <3>8. stage[t] = "received" \/ t \in together
      BY <3>6 DEF FilesOK
    <3>9. CASE stage[t] = "received"
      BY <1>6, <3>7, <3>9 DEF Wanted
    <3>10. CASE t \in together
      BY <1>3, <3>7, <3>10 DEF MetFor, Spoilt
    <3> QED
      BY <3>8, <3>9, <3>10
  <2> QED
    BY <2>2, <2>3
<1> QED
  BY <1>7, <1>8 DEF Wanted

\* A dialog that is up goes with a completed transfer, or with the process.
LEMMA ShownStays ==
  ASSUME Shape, Inv, [DownNext]_allVars, NEW t \in Tasks, Shown(Dialog(t))
  PROVE  Shown(Dialog(t))' \/ (\E u \in Tasks : Complete(u) /\ Top.of = t) \/ KillApp
<1>1. routes \in Seq(Routes) /\ Len(routes) \in Nat
      /\ DOMAIN routes = 1..Len(routes) /\ \A i \in DOMAIN routes : routes[i] \in Routes
  BY Typed, EndFacts DEF Shape
<1>2. PICK i \in DOMAIN routes : routes[i] = Dialog(t)
  BY DEF Shown
<1>3. routes # <<>> /\ Top.page = "dialog" /\ Top = Dialog(Top.of)
  BY TopDialog DEF Shape
<1>4. ASSUME i \in DOMAIN routes', routes'[i] = routes[i] PROVE Shown(Dialog(t))'
  BY <1>2, <1>4 DEF Shown, Dialog
<1>5. CASE UNCHANGED routes
  BY <1>2, <1>4, <1>5
<1>6. ASSUME NEW r \in Routes, routes' = Append(routes, r) PROVE Shown(Dialog(t))'
  <2>1. DOMAIN routes' = 1..(Len(routes) + 1) /\ \A j \in DOMAIN routes : routes'[j] = routes[j]
    BY <1>1, <1>6, EndFacts
  <2>2. i \in DOMAIN routes'
    BY <1>1, <1>2, <2>1
  <2> QED
    BY <1>2, <1>4, <2>1, <2>2
<1>7. ASSUME NEW u \in Tasks, Complete(u) PROVE Shown(Dialog(t))' \/ Top.of = t
  <2>1. /\ DOMAIN routes' = 1..(Len(routes) - 1)
        /\ \A j \in 1..(Len(routes) - 1) : routes'[j] = routes[j]
    BY <1>1, <1>3, <1>7, EndFacts DEF Complete, Below
  <2>2. CASE i = Len(routes)
    BY <1>2, <2>2, RouteFacts DEF Top
  <2>3. CASE i # Len(routes)
    BY <1>1, <1>2, <1>4, <2>1, <2>3
  <2> QED
    BY <2>2, <2>3
<1>8. ~Back /\ ~OpenList /\ \A k \in Keys : ~OpenDetail(k)
  BY <1>3 DEF Back, OpenList, OpenDetail
<1>9. CASE Tap
  <2>1. \/ UNCHANGED routes \/ \E u \in Tasks : Complete(u) \/ routes' = Append(routes, Dialog(u))
    BY <1>8, <1>9 DEF Tap, Dismiss, DeleteFile, Probe, TapDownload, Locate, LookForFile, DeleteOld, CreateFile,
              Receive, TransferOrphaned, TransferFails, TransferUnsized, pageVars
  <2> QED
    BY <1>5, <1>6, <1>7, <2>1, RouteFacts
<1>10. CASE ~Tap
  BY <1>5, <1>10, StepCases, ReturnFacts DEF viewVars, allVars, pageVars
<1> QED
  BY <1>9, <1>10

\* A transfer is asked for by CreateFile and starts with Receive.
LEMMA TransferStarts ==
  ASSUME Shape, Inv, [DownNext]_allVars, NEW t \in Tasks
  PROVE  /\ stage'[t] = "receiving" => stage[t] = "receiving" \/ Receive(t)
         /\ stage'[t] \in {"waiting", "receiving"} =>
              stage[t] \in {"waiting", "receiving"} \/ (CreateFile(t) /\ pageOf[t] # 0)
<1>1. stage \in [Tasks -> Stages]
  BY Typed DEF Shape
<1>2. CASE Tap
  <2>1. CASE UNCHANGED stage
    BY <2>1
  <2>2. ASSUME NEW u \in Tasks,
               \/ TapDownload(u) \/ Locate(u) \/ LookForFile(u) \/ DeleteOld(u) \/ CreateFile(u)
               \/ Receive(u) \/ Complete(u) \/ TransferOrphaned(u) \/ TransferFails(u) \/ TransferUnsized(u)
        PROVE  /\ stage'[t] = "receiving" => stage[t] = "receiving" \/ Receive(t)
               /\ stage'[t] \in {"waiting", "receiving"} =>
                    stage[t] \in {"waiting", "receiving"} \/ (CreateFile(t) /\ pageOf[t] # 0)
    BY <1>1, <2>2 DEF TapDownload, Locate, LookForFile, DeleteOld, CreateFile, Receive, Complete,
                      TransferOrphaned, TransferFails, TransferUnsized
  <2> QED
    BY <1>2, <2>1, <2>2 DEF Tap, OpenDetail, OpenList, Back, Dismiss, DeleteFile, Probe, taskVars
<1>3. ASSUME NEW c \in Calls, Return(c) PROVE stage'[t] = stage[t] \/ stage'[t] = "recorded"
  BY <1>1, <1>3 DEF Return, ListReturned, RemoveReturned, AddReturned, CheckReturned, taskVars
<1>4. CASE KillApp
  BY <1>1, <1>4, KillFacts
<1>5. CASE UNCHANGED viewVars \/ UNCHANGED allVars
  BY <1>5 DEF viewVars, allVars, taskVars
<1> QED
  BY <1>2, <1>3, <1>4, <1>5, StepCases

\* A transfer still has its dialog, or met another.
LEMMA RunningStep ==
  ASSUME Shape, Inv, FilesOK, [DownNext]_allVars, NEW t \in Tasks, stage'[t] \in {"waiting", "receiving"}
  PROVE  Shown(Dialog(t))' \/ t \in together'
<1>1. together \subseteq together' /\ stage \in [Tasks -> Stages]
  BY TaskStays, Typed DEF Shape
<1>2. CASE CreateFile(t) /\ pageOf[t] # 0
  <2>1. routes' = Append(routes, Dialog(t)) /\ routes \in Seq(Routes)
    BY <1>2, Typed DEF CreateFile, Shape
  <2>2. DOMAIN routes' = 1..(Len(routes) + 1) /\ routes'[Len(routes) + 1] = Dialog(t) /\ Len(routes) \in Nat
    BY <2>1, EndFacts, RouteFacts
  <2>3. Len(routes) + 1 \in DOMAIN routes'
    BY <2>2
  <2> QED
    BY <2>2, <2>3 DEF Shown, Dialog
<1>3. CASE stage[t] \in {"waiting", "receiving"}
  <2>1. Shown(Dialog(t)) \/ t \in together
    BY <1>3 DEF FilesOK
  <2>2. ASSUME NEW u \in Tasks, Complete(u), Top.of = t, Shown(Dialog(t)) PROVE t \in together
    <3>1. u # t /\ Shown(Dialog(u))
      BY <1>1, <2>2 DEF Complete
    <3> QED
      BY <2>2, <3>1 DEF Shape, DialogsOK
  <2>3. ~KillApp
    BY <1>1, <1>3, KillFacts DEF Running
  <2> QED
    BY <1>1, <2>1, <2>2, <2>3, ShownStays
<1> QED
  BY <1>2, <1>3, TransferStarts

\* A transfer that alone has written its file still has it.
LEMMA SoleStep ==
  ASSUME Shape, Inv, FilesOK, [DownNext]_allVars, NEW t \in Tasks
  PROVE  SoleOK(t)'
<1> SUFFICES ASSUME stage'[t] = "receiving" PROVE SoleOK(t)'
  BY DEF SoleOK
<1>1. /\ stage \in [Tasks -> Stages] /\ book \in [Tasks -> Keys] /\ title \in [Keys -> Keys]
      /\ fs \in [Keys -> {"absent", "empty", "partial", "whole"}] /\ key \in [Calls -> Keys]
      /\ \A u \in Tasks : TitleOf(u) \in Keys
  BY Typed DEF Shape, TitleOf
<1>2. CASE Receive(t)
  <2>1. t \in sole' /\ fs'[TitleOf(t)] = "partial" /\ TitleOf(t)' = TitleOf(t)
    BY <1>1, <1>2 DEF Receive, TitleOf
  <2> QED
    BY <2>1 DEF SoleOK
<1>3. CASE stage[t] = "receiving"
  <2>1. TitleOf(t)' = TitleOf(t) /\ Pending(t)
    BY <1>3, PendingStays DEF Pending
  <2>2. PICK f \in Keys : f = TitleOf(t)
    BY <1>1
  <2>3. CASE MetFor(f) \/ Swept(f)
    <3>1. MetFor(f)' \/ Swept(f)'
      BY <2>3, SpoiltStays
    <3> QED
      BY <2>1, <2>2, <3>1 DEF SoleOK, MetFor, Swept
  <2>4. ASSUME NEW u \in Tasks \ {t}, Pending(u), TitleOf(u) = f PROVE SoleOK(t)'
    <3>1. CASE Pending(u)'
      BY <2>1, <2>2, <2>4, <3>1, PendingStays DEF SoleOK
    <3>2. CASE ~Pending(u)'
      <4>1. Complete(u)
        BY <2>4, <3>2, PendingStays
      <4>2. Shown(Dialog(u))
        BY <4>1 DEF Complete
      <4>3. t \in together
        BY <1>3, <2>4, <4>2 DEF FilesOK, Shape, DialogsOK
      <4>4. MetFor(f)
        BY <2>2, <4>3 DEF MetFor
      <4> QED
        BY <2>3, <4>4
    <3> QED
      BY <3>1, <3>2
  <2>5. CASE t \in sole /\ fs[f] \in {"partial", "whole"}
    <3>1. CASE t \in sole' /\ fs'[f] \in {"partial", "whole"}
      BY <2>1, <2>2, <3>1 DEF SoleOK
    <3>2. CASE ~(t \in sole' /\ fs'[f] \in {"partial", "whole"})
      <4>1. CASE Tap
        <5>1. ASSUME NEW c \in Calls, DeleteFile(c) PROVE Swept(f)
          <6>1. Unlink(title[key[c]]) /\ c \in deleting /\ title[key[c]] \in Keys
            BY <1>1, <5>1 DEF DeleteFile
          <6>2. title[key[c]] = f
            BY <1>1, <2>2, <2>5, <3>2, <6>1 DEF Unlink
          <6> QED
            BY <6>1, <6>2 DEF FilesOK, Swept
        <5>2. ASSUME NEW u \in Tasks, DeleteOld(u) \/ TransferFails(u) \/ Receive(u)
              PROVE  u # t /\ Pending(u) /\ TitleOf(u) = f
          <6>1. u # t /\ Pending(u)
            BY <1>1, <1>3, <5>2 DEF DeleteOld, TransferFails, Receive, Pending
          <6>2. TitleOf(u) = f
            BY <1>1, <2>2, <2>5, <3>2, <5>2 DEF DeleteOld, TransferFails, Receive, Unlink
          <6> QED
            BY <6>1, <6>2
        <5>3. ASSUME NEW u \in Tasks, WrittenOut(u) \/ UNCHANGED fs, sole' = sole PROVE FALSE
          BY <1>1, <2>2, <2>5, <3>2, <5>3 DEF WrittenOut
        <5>4. ASSUME NEW u \in Tasks, CreateFile(u) PROVE FALSE
          BY <1>1, <2>2, <2>5, <3>2, <5>4 DEF CreateFile
        <5>5. \/ UNCHANGED <<fs, sole>> \/ \E c \in Calls : DeleteFile(c)
              \/ \E u \in Tasks : \/ DeleteOld(u) \/ TransferFails(u) \/ Receive(u) \/ CreateFile(u)
                                  \/ (sole' = sole /\ (WrittenOut(u) \/ UNCHANGED fs))
          BY <4>1 DEF Tap, OpenDetail, OpenList, Back, Dismiss, Probe, TapDownload, Locate, LookForFile,
                      Complete, TransferOrphaned, TransferUnsized, taskVars
        <5> QED
          BY <2>3, <2>4, <2>5, <3>2, <5>1, <5>2, <5>3, <5>4, <5>5
      <4>2. CASE ~Tap
        <5>1. ~KillApp
          BY <1>1, <1>3, KillFacts DEF Running
        <5>2. UNCHANGED <<fs, sole>>
          BY <4>2, <5>1, StepCases, ReturnFacts DEF viewVars, allVars, taskVars
        <5> QED
          BY <2>5, <3>2, <5>2
      <4> QED
        BY <4>1, <4>2
    <3> QED
      BY <3>1, <3>2
  <2> QED
    BY <1>3, <2>2, <2>3, <2>4, <2>5 DEF FilesOK, SoleOK
<1> QED
  BY <1>2, <1>3, TransferStarts

\* A record is made for a transfer that is complete, or whose dialog met another.
LEMMA AddsStep ==
  ASSUME Shape, Inv, FilesOK, [DownNext]_allVars, NEW k \in Keys, NEW t \in Tasks, todo' = Adds(k, t)
  PROVE  stage'[t] = "received" \/ t \in together'
<1>1. /\ \A j, i : Adds(k, t) # Checks(j) /\ Adds(k, t) # Removes(j, i)
      /\ Adds(k, t) # Lists /\ Adds(k, t) # <<>>
      /\ \A j, u : Adds(k, t) = Adds(j, u) => t = u
  <2>1. \A j, i : Adds(k, t) # Checks(j)
    BY Stretches
  <2>2. \A j, i : Adds(k, t) # Removes(j, i)
    BY Stretches
  <2>3. Adds(k, t) # Lists /\ Adds(k, t) # <<>>
    BY Stretches
  <2>4. \A j, u : Adds(k, t) = Adds(j, u) => t = u
    BY Stretches
  <2> QED
    BY <2>1, <2>2, <2>3, <2>4
<1>2. stage \in [Tasks -> Stages]
  BY Typed DEF Shape
<1>3. ASSUME NEW u \in Tasks, Complete(u) PROVE stage'[t] = "received" \/ t \in together'
  <2>1. /\ Shown(Dialog(u)) /\ together' = together /\ todo' = Adds(book[Top.of], Top.of)
        /\ stage' = [stage EXCEPT ![u] = IF Top.of = u THEN "received" ELSE "broken"]
    BY <1>3 DEF Complete, Adds
  <2>2. t = Top.of /\ Shown(Dialog(t))
    BY <1>1, <2>1, TopDialog DEF Shape
  <2>3. CASE t = u
    BY <1>2, <2>1, <2>2, <2>3
  <2>4. CASE t # u
    BY <2>1, <2>2, <2>4 DEF Shape, DialogsOK
  <2> QED
    BY <2>3, <2>4
<1>4. CASE Tap
  <2>1. todo = <<>>
    BY <1>4, TapFacts
  <2>2. todo' = todo \/ (\E j : todo' = Checks(j)) \/ todo' = Lists \/ (\E j, i : todo' = Removes(j, i))
        \/ \E u \in Tasks : Complete(u)
    BY <1>4 DEF Tap, OpenDetail, OpenList, Back, Dismiss, DeleteFile, Probe, TapDownload, Locate, LookForFile,
                DeleteOld, CreateFile, Receive, TransferOrphaned, TransferFails, TransferUnsized, callerVars,
                Checks, Lists, Removes, AnyBook
  <2> QED
    BY <1>1, <1>3, <2>1, <2>2
<1>5. CASE MakeCall
  BY <1>1, <1>5, CallCases DEF Shape
<1>6. ASSUME NEW c \in Calls, Session(c) PROVE FALSE
  BY <1>1, <1>6, SessionFacts DEF Shape
<1>7. ASSUME NEW c \in Calls, Return(c) PROVE FALSE
  <2>1. todo = <<>> /\ (todo' = todo \/ todo' = Checks(key[c]))
    BY <1>7, ReturnFacts DEF Return, ListReturned, RemoveReturned, AddReturned, CheckReturned, Checks
  <2> QED
    BY <1>1, <2>1
<1>8. CASE KillApp
  BY <1>1, <1>8, KillFacts
<1>9. CASE UNCHANGED allVars
  <2>1. todo = Adds(k, t) /\ UNCHANGED <<stage, together>>
    BY <1>9 DEF allVars, callerVars, taskVars, Adds, Request, After
  <2> QED
    BY <2>1 DEF FilesOK
<1> QED
  BY <1>4, <1>5, <1>6, <1>7, <1>8, <1>9, StepCases

\* A removal whose file is to be deleted has returned.
LEMMA DeletingStep ==
  ASSUME Shape, Inv, FilesOK, [DownNext]_allVars, NEW c \in deleting'
  PROVE  c \in Calls /\ method'[c] \in Removing /\ pc'[c] = "returned"
<1>1. deleting \in SUBSET Calls
  BY DEF Shape, DownloadTypeOK
<1>2. CASE c \in deleting
  <2>1. c \in Calls /\ method[c] \in Removing /\ pc[c] = "returned"
    BY <1>1, <1>2 DEF FilesOK
  <2>2. [Next]_vars
    BY StoreStep DEF Shape
  <2> QED
    BY <2>1, <2>2, EndedStays, MadeStays
<1>3. ASSUME NEW d \in Calls, Return(d), then[d].do = "deleteFile", c = d
      PROVE  c \in Calls /\ method'[c] \in Removing /\ pc'[c] = "returned"
  <2>1. pc[d] = "close" /\ pc'[d] = "returned" /\ method' = method
    BY <1>3, ReturnFacts
  <2>2. method[d] = "EbookDownload.remove"
    BY <1>3, <2>1 DEF Shape, ThenOK
  <2> QED
    BY <1>3, <2>1, <2>2 DEF Removing
<1>4. CASE c \notin deleting
  <2>1. CASE Tap
    BY <1>4, <2>1
       DEF Tap, OpenDetail, OpenList, Back, Dismiss, DeleteFile, Probe, TapDownload, Locate, LookForFile,
           DeleteOld, CreateFile, Receive, Complete, TransferOrphaned, TransferFails, TransferUnsized, pageVars
  <2>2. ASSUME NEW d \in Calls, Return(d)
        PROVE  c \in Calls /\ method'[c] \in Removing /\ pc'[c] = "returned"
    BY <1>3, <1>4, <2>2 DEF Return, ListReturned, RemoveReturned, AddReturned, CheckReturned, pageVars
  <2>3. CASE KillApp
    BY <2>3, KillFacts
  <2>4. CASE UNCHANGED viewVars \/ UNCHANGED allVars
    BY <1>4, <2>4 DEF viewVars, allVars, pageVars
  <2> QED
    BY <2>1, <2>2, <2>3, <2>4, StepCases
<1> QED
  BY <1>2, <1>4

LEMMA FilesStep ==
  ASSUME Shape, Inv, FilesOK, [DownNext]_allVars
  PROVE  FilesOK'
<1>1. \A f \in Keys : Wanted(f)' => fs'[f] = "whole" \/ Spoilt(f)'
  BY WantedStep
<1>2. \A t \in Tasks : SoleOK(t)'
  BY SoleStep
<1>3. \A t \in Tasks : stage'[t] \in {"waiting", "receiving"} => Shown(Dialog(t))' \/ t \in together'
  BY RunningStep
<1>4. \A k \in Keys, t \in Tasks : Adds(k, t)' = Adds(k, t)
  BY DEF Adds, Request, After
<1>5. \A k \in Keys, t \in Tasks : todo' = Adds(k, t)' => stage'[t] = "received" \/ t \in together'
  BY <1>4, AddsStep
<1>6. \A c \in deleting' : method'[c] \in Removing /\ pc'[c] = "returned"
  BY DeletingStep
<1> QED
  BY <1>1, <1>2, <1>3, <1>5, <1>6 DEF FilesOK

LEMMA FilesInit == DownInit => FilesOK
<1> SUFFICES ASSUME DownInit PROVE FilesOK
  OBVIOUS
<1>1. /\ todo = <<>> /\ deleting = {} /\ stage = [t \in Tasks |-> "unused"]
      /\ \A c \in Calls : pc[c] = "idle"
  BY DEF DownInit, Init
<1>2. \A f \in Keys : ~Wanted(f)
  BY <1>1 DEF Wanted
<1>3. \A k, t : todo # Adds(k, t)
  BY <1>1, Stretches
<1> QED
  BY <1>1, <1>2, <1>3 DEF FilesOK, SoleOK

LEMMA FilesHold == DownSpec => []FilesOK
<1>1. Shape /\ Stored /\ FilesOK /\ [DownNext]_allVars => FilesOK'
  BY FilesStep DEF Stored
<1> QED
  BY <1>1, FilesInit, ShapeHolds, PTL DEF DownSpec

\* A record whose book has been removed, though the removal was made after it
\* and nothing else ran at the time, is not in the file.
LEMMA RemovalsSettle ==
  ASSUME Shape, Inv, KeysOK, RemovedAlone, NEW d \in file, Swept(title[d.key])
  PROVE  UnsettledRemoval(d.oid) \/ TwinRemoved(d.key)
<1>1. /\ d.oid \in Calls /\ d.key = key[d.oid]
  BY RecordTask
<1>2. PICK m \in Calls : method[m] \in Removing /\ pc[m] = "returned" /\ title[key[m]] = title[d.key]
  BY DEF Swept
<1>3. CASE key[m] # d.key
  BY <1>2, <1>3 DEF TwinRemoved
<1>4. CASE key[m] = d.key /\ d.oid \notin before[m]
  BY <1>1, <1>2, <1>4 DEF UnsettledRemoval
<1>5. CASE key[m] = d.key /\ d.oid \in before[m]
  <2>1. method[m] = "EbookDownload.remove"
    BY <1>2 DEF Shape, ThenOK, Removing
  <2>2. ~Gone(d.oid)
    BY DEF Gone, Holds
  <2>3. ~Alone(m)
    BY <1>1, <1>2, <1>5, <2>1, <2>2 DEF RemovedAlone, Removing, WholeStore
  <2>4. PICK c \in Calls : Concurrent(m, c)
    BY <2>3 DEF Alone
  <2>5. Concurrent(c, m) /\ pc[c] # "idle"
    BY <2>4 DEF Concurrent
  <2>6. method[c] \in Tidying
    BY <2>5 DEF Shape, ThenOK, Tidying
  <2>7. Overwritable(m)
    BY <2>5, <2>6 DEF Overwritable
  <2> QED
    BY <1>1, <1>2, <1>5, <2>7 DEF UnsettledRemoval
<1> QED
  BY <1>3, <1>4, <1>5

\* THEOREM: the file of a record is there and whole, unless a tap for its title
\* has not come to a record, its dialog met another, or a removal is to blame.
THEOREM RecordsHaveFiles == DownSpec => []RecordHasFile
<1>1. Shape /\ Inv /\ KeysOK /\ RemovedAlone /\ FilesOK => RecordHasFile
  <2> SUFFICES ASSUME Shape, Inv, KeysOK, RemovedAlone, FilesOK, NEW d \in file
               PROVE  \/ fs[title[d.key]] = "whole"
                      \/ UnfinishedTap(d.key) \/ DialogsMet(d.key)
                      \/ UnsettledRemoval(d.oid) \/ TwinRemoved(d.key)
    BY DEF RecordHasFile
  <2>1. /\ d.oid \in Calls /\ d.key \in Keys /\ d.key = key[d.oid] /\ pc[d.oid] # "idle"
        /\ method[d.oid] \in Inserting
    BY RecordTask DEF Inserting
  <2>2. title[d.key] \in Keys /\ Wanted(title[d.key])
    BY <2>1, Typed DEF Shape, Wanted
  <2>3. fs[title[d.key]] = "whole" \/ Spoilt(title[d.key])
    BY <2>2 DEF FilesOK
  <2>4. PendingFor(title[d.key]) => UnfinishedTap(d.key)
    BY DEF PendingFor, Pending, UnfinishedTap
  <2>5. MetFor(title[d.key]) => DialogsMet(d.key)
    BY DEF MetFor, DialogsMet
  <2> QED
    BY <2>3, <2>4, <2>5, RemovalsSettle DEF Spoilt
<1> QED
  BY <1>1, ShapeHolds, FilesHold, DownImplementsStore, KeysHold, RemovedHolds, PTL DEF Stored

-----------------------------------------------------------------------------
(* The button.  Its flag was written by one check(); whatever could make it *)
(* wrong has another check() to come, or is one of the exceptions.           *)

\* Another check() of a book of title f is asked for, under way, or waits for
\* File.exists(): it will write the flag.
NextCheck(f) ==
  \/ \E k \in Keys : todo = Checks(k) /\ title[k] = f
  \/ \E g \in Calls : /\ pc[g] \in Active \/ g \in probing
                      /\ method[g] = "EbookDownload.check" /\ title[key[g]] = f

\* What check f wrote is what it saw, and holds until a tap, a removal or
\* another check.
FlagIs(f) ==
  /\ result[f] = {} => /\ ~downloaded
                       /\ \A w \in Calls : method[w] \in Inserting /\ key[w] = key[f] /\ f \in before[w]
                            => pc[w] \in Active \/ NextCheck(title[key[f]])
  /\ result[f] # {} => \/ downloaded <=> fs[title[key[f]]] # "absent"
                       \/ UnfinishedTap(key[f]) \/ NextCheck(title[key[f]]) \/ Swept(title[key[f]])

FlagOK ==
  /\ \A f \in checked \union probing : pc[f] = "returned" /\ method[f] = "EbookDownload.check"
  /\ \A f \in probing : f \notin checked /\ result[f] # {}
  /\ \A f \in checked : FlagIs(f)

\* The check that wrote the flag wrote it before this step, or in it.
LEMMA CheckedCases ==
  ASSUME Shape, Inv, FlagOK, [DownNext]_allVars, NEW f \in checked'
  PROVE  /\ f \in Calls
         /\ \/ f \in checked /\ UNCHANGED <<checked, downloaded>> /\ ~KillApp
            \/ Probe(f)
            \/ /\ Return(f) /\ then[f].do = "probe" /\ result[f] = {}
               /\ downloaded' = FALSE /\ UNCHANGED probing
<1>1. checked \in SUBSET Calls
  BY DEF Shape, DownloadTypeOK
<1>2. ASSUME NEW c \in Calls, Probe(c) PROVE f = c
  BY <1>2 DEF Probe
<1>3. CASE Tap
  <2>1. UNCHANGED <<checked, downloaded>> \/ \E c \in Calls : Probe(c)
    BY <1>3 DEF Tap, OpenDetail, OpenList, Back, Dismiss, DeleteFile, TapDownload, Locate, LookForFile, DeleteOld,
                CreateFile, Receive, Complete, TransferOrphaned, TransferFails, TransferUnsized, flagVars
  <2>2. ~KillApp \/ UNCHANGED <<checked, downloaded>>
    BY <2>1, KillFacts
  <2>3. KillApp => FALSE
    BY KillFacts
  <2> QED
    BY <1>1, <1>2, <2>1, <2>3
<1>4. ASSUME NEW c \in Calls, Return(c)
      PROVE  \/ f \in checked /\ UNCHANGED <<checked, downloaded>>
             \/ /\ f = c /\ then[c].do = "probe" /\ result[c] = {}
                /\ downloaded' = FALSE /\ UNCHANGED probing
  BY <1>4 DEF Return, ListReturned, RemoveReturned, AddReturned, CheckReturned, flagVars
<1>5. ~KillApp
  BY KillFacts
<1>6. CASE UNCHANGED viewVars \/ UNCHANGED allVars
  BY <1>1, <1>5, <1>6 DEF viewVars, allVars, flagVars
<1> QED
  BY <1>1, <1>3, <1>4, <1>5, <1>6, StepCases

\* A check that waits for File.exists() has found a record.
LEMMA ProbingStep ==
  ASSUME Shape, Inv, FlagOK, [DownNext]_allVars, NEW f \in probing'
  PROVE  /\ f \in Calls /\ pc'[f] = "returned" /\ method'[f] = "EbookDownload.check" /\ result'[f] # {}
         /\ f \notin checked'
<1>1. probing \in SUBSET Calls /\ checked \in SUBSET Calls
  BY DEF Shape, DownloadTypeOK
<1>2. [Next]_vars
  BY StoreStep DEF Shape
<1>3. CASE f \in probing
  <2>1. f \in Calls /\ pc[f] = "returned" /\ method[f] = "EbookDownload.check" /\ result[f] # {} /\ f \notin checked
    BY <1>1, <1>3 DEF FlagOK
  <2>2. pc'[f] = "returned" /\ method'[f] = "EbookDownload.check" /\ result'[f] # {}
    BY <1>2, <2>1, EndedStays, MadeStays
  <2>3. f \notin checked'
    <3>1. ~Probe(f)
      BY DEF Probe
    <3>2. ~Return(f)
      BY <2>1, ReturnFacts
    <3> QED
      BY <2>1, <3>1, <3>2, CheckedCases
  <2> QED
    BY <2>1, <2>2, <2>3
<1>4. CASE f \notin probing
  <2>1. f \in Calls /\ Return(f) /\ then[f].do = "probe" /\ result[f] # {} /\ UNCHANGED checked
    <3>1. CASE Tap
      BY <1>4, <3>1
         DEF Tap, OpenDetail, OpenList, Back, Dismiss, DeleteFile, Probe, TapDownload, Locate, LookForFile, DeleteOld,
             CreateFile, Receive, Complete, TransferOrphaned, TransferFails, TransferUnsized, flagVars
    <3>2. ASSUME NEW c \in Calls, Return(c)
          PROVE  f = c /\ then[c].do = "probe" /\ result[c] # {} /\ UNCHANGED checked
      BY <1>4, <3>2 DEF Return, ListReturned, RemoveReturned, AddReturned, CheckReturned, flagVars
    <3>3. ~KillApp
      BY KillFacts
    <3>4. ~(UNCHANGED viewVars \/ UNCHANGED allVars)
      BY <1>4 DEF viewVars, allVars, flagVars
    <3> QED
      BY <3>1, <3>2, <3>3, <3>4, StepCases
  <2>2. pc[f] = "close" /\ pc'[f] = "returned" /\ UNCHANGED <<method, result>>
    BY <2>1, ReturnFacts
  <2>3. method[f] = "EbookDownload.check"
    BY <2>1, <2>2 DEF Shape, ThenOK
  <2>4. f \notin checked
    BY <2>2 DEF FlagOK
  <2> QED
    BY <2>1, <2>2, <2>3, <2>4
<1> QED
  BY <1>3, <1>4

\* A check that is due stays due until the flag is written.
LEMMA NextCheckStays ==
  ASSUME Shape, Inv, FlagOK, [DownNext]_allVars, NEW f \in checked, f \in checked', NEW T \in Keys, NextCheck(T)
  PROVE  NextCheck(T)'
<1>1. /\ key \in [Calls -> Keys] /\ title \in [Keys -> Keys] /\ probing \in SUBSET Calls /\ then \in [Calls -> Thens]
  BY Typed DEF Shape, DownloadTypeOK
<1>2. title' = title
  BY StepCases, TapFacts, ReturnFacts, KillFacts DEF viewVars, allVars, taskVars
<1>3. /\ ~KillApp /\ pc[f] = "returned" /\ f \notin probing
      /\ \A c \in Calls : Probe(c) => FALSE
  <2>1. pc[f] = "returned" /\ f \notin probing
    BY DEF FlagOK
  <2>2. ~KillApp
    BY KillFacts
  <2> QED
    BY <2>1, <2>2 DEF Probe
<1>4. CASE \E k \in Keys : todo = Checks(k) /\ title[k] = T
  <2>1. PICK k \in Keys : todo = Checks(k) /\ title[k] = T
    BY <1>4
  <2>2. todo # <<>>
    BY <2>1, Stretches
  <2>3. CASE MakeCall
    <3>1. PICK c \in Calls :
              \/ todo = Lists /\ Made(c, "EbookDownload.listAll", AnyBook, After("showList", NoTask, 0))
              \/ \E j \in Keys :
                   \/ todo = Checks(j) /\ Made(c, "EbookDownload.check", j, After("probe", NoTask, 0))
                   \/ \E t \in Tasks :
                        /\ todo = Adds(j, t) /\ Adding(j, t)
                        /\ Made(c, "EbookDownload.addDownload", j, After("checkDownload", t, 0))
                   \/ \E i \in Rows :
                        /\ todo = Removes(j, i)
                        /\ Made(c, "EbookDownload.remove", j, After("deleteFile", NoTask, i))
      BY <2>3, CallCases DEF Shape
    <3>2. Made(c, "EbookDownload.check", k, After("probe", NoTask, 0))
      BY <2>1, <3>1, Stretches
    <3>3. pc'[c] = "path" /\ method'[c] = "EbookDownload.check" /\ key'[c] = k
      BY <1>1, <3>2, MadeFacts
    <3> QED
      BY <1>2, <2>1, <3>3 DEF NextCheck
  <2>4. CASE UNCHANGED allVars
    <3>1. UNCHANGED todo
      BY <2>4 DEF allVars, callerVars
    <3> QED
      BY <1>2, <2>1, <3>1 DEF NextCheck, Checks, checkDownload, Request, After
  <2>5. ~Tap /\ (\A c \in Calls : ~Session(c) /\ ~Return(c))
    BY <2>2, TapFacts, SessionFacts, ReturnFacts DEF Shape
  <2> QED
    BY <1>3, <2>3, <2>4, <2>5, StepCases
<1>5. CASE \E g \in Calls : /\ pc[g] \in Active \/ g \in probing
                            /\ method[g] = "EbookDownload.check" /\ title[key[g]] = T
  <2>1. PICK g \in Calls : /\ pc[g] \in Active \/ g \in probing
                           /\ method[g] = "EbookDownload.check" /\ title[key[g]] = T
    BY <1>5
  <2>2. method'[g] = "EbookDownload.check" /\ title'[key'[g]] = T
    <3>1. pc[g] # "idle"
      BY <2>1 DEF FlagOK
    <3>2. method'[g] = method[g] /\ key'[g] = key[g]
      BY <3>1, MadeStays, StoreStep DEF Shape
    <3> QED
      BY <1>2, <2>1, <3>2
  <2>3. ASSUME pc'[g] \in Active \/ g \in probing' PROVE NextCheck(T)'
    BY <2>2, <2>3 DEF NextCheck
  <2>4. CASE Tap
    <3>1. pc' = pc
      BY <2>4, TapFacts DEF vars
    <3>2. probing' = probing
      BY <1>3, <2>4
         DEF Tap, OpenDetail, OpenList, Back, Dismiss, DeleteFile, TapDownload, Locate, LookForFile, DeleteOld,
             CreateFile, Receive, Complete, TransferOrphaned, TransferFails, TransferUnsized, flagVars
    <3> QED
      BY <2>1, <2>3, <3>1, <3>2
  <2>5. ASSUME NEW c \in Calls, Return(c) PROVE NextCheck(T)'
    <3>1. probing \subseteq probing'
      BY <2>5 DEF Return, ListReturned, RemoveReturned, AddReturned, CheckReturned, flagVars
    <3>2. CASE c # g
      BY <2>1, <2>3, <2>5, <3>1, <3>2, ReturnFacts
    <3>3. CASE c = g
      <4>1. pc[g] = "close"
        BY <2>5, <3>3, ReturnFacts
      <4>2. then[g].do = "probe"
        BY <2>1, <4>1 DEF Shape, ThenOK
      <4>3. g # f
        BY <1>3, <4>1
      <4>4. g \in probing'
        BY <2>5, <3>3, <4>2, <4>3 DEF Return, ListReturned, RemoveReturned, AddReturned, CheckReturned
      <4> QED
        BY <2>3, <4>4
    <3> QED
      BY <3>2, <3>3
  <2>6. ASSUME NEW c \in Calls, Session(c), UNCHANGED viewVars PROVE NextCheck(T)'
    BY <2>1, <2>3, <2>6, SessionFacts DEF Shape, viewVars, flagVars
  <2>7. CASE MakeCall /\ UNCHANGED viewVars
    <3>1. pc'[g] = pc[g] \/ pc[g] = "idle"
      BY <2>7 DEF MakeCall, Call, Inv, TypeOK
    <3> QED
      BY <2>1, <2>3, <2>7, <3>1 DEF viewVars, flagVars
  <2>8. CASE UNCHANGED allVars
    BY <2>1, <2>3, <2>8 DEF allVars, vars, flagVars
  <2> QED
    BY <1>3, <2>4, <2>5, <2>6, <2>7, <2>8, StepCases
<1> QED
  BY <1>4, <1>5 DEF NextCheck

\* A tap that is not done stays so until its record is in, and a check follows.
LEMMA UnfinishedStays ==
  ASSUME Shape, Inv, [DownNext]_allVars, NEW k \in Keys, UnfinishedTap(k)
  PROVE  UnfinishedTap(k)' \/ NextCheck(title[k])'
<1>1. /\ stage \in [Tasks -> Stages] /\ key \in [Calls -> Keys]
  BY Typed DEF Shape
<1>2. title' = title
  BY StepCases, TapFacts, ReturnFacts, KillFacts DEF viewVars, allVars, taskVars
<1>3. PICK u \in Tasks : stage[u] \notin {"unused", "recorded"} /\ TitleOf(u) = title[k]
  BY DEF UnfinishedTap
<1>4. stage'[u] # "unused" /\ book'[u] = book[u]
  BY <1>3, TaskStays DEF Shape
<1>5. CASE stage'[u] # "recorded"
  BY <1>2, <1>3, <1>4, <1>5 DEF UnfinishedTap, TitleOf
<1>6. CASE stage'[u] = "recorded"
  <2>1. CASE Tap
    BY <1>1, <1>3, <1>6, <2>1
       DEF Tap, OpenDetail, OpenList, Back, Dismiss, DeleteFile, Probe, TapDownload, Locate, LookForFile, DeleteOld,
           CreateFile, Receive, Complete, TransferOrphaned, TransferFails, TransferUnsized, taskVars
  <2>2. ASSUME NEW c \in Calls, Return(c) PROVE NextCheck(title[k])'
    <3>1. AddReturned(c) /\ then[c].task = u
      BY <1>1, <1>3, <1>6, <2>2 DEF Return, ListReturned, RemoveReturned, AddReturned, CheckReturned, taskVars
    <3>2. todo' = Checks(key[c]) /\ then[c].do = "checkDownload"
      BY <3>1 DEF AddReturned, Checks
    <3>3. Adding(key[c], u)
      BY <2>2, <3>1, <3>2, ReturnFacts DEF Shape, ThenOK
    <3>4. PICK j \in Keys : j = key[c]
      BY <1>1
    <3>5. title[j] = title[k]
      BY <1>3, <3>3, <3>4 DEF Adding, TitleOf
    <3> QED
      BY <1>2, <3>2, <3>4, <3>5 DEF NextCheck, Checks, checkDownload, Request, After
  <2>3. CASE KillApp
    BY <1>1, <1>3, <1>6, <2>3, KillFacts
  <2>4. CASE UNCHANGED viewVars \/ UNCHANGED allVars
    BY <1>3, <1>6, <2>4 DEF viewVars, allVars, taskVars
  <2> QED
    BY <2>1, <2>2, <2>3, <2>4, StepCases
<1> QED
  BY <1>5, <1>6

\* A file comes or goes by a tap for its title that is not done, or by a removal.
LEMMA PresenceStays ==
  ASSUME Shape, Inv, FilesOK, [DownNext]_allVars, NEW k \in Keys,
         ~((fs[title[k]] = "absent") <=> (fs'[title[k]] = "absent"))
  PROVE  UnfinishedTap(k)' \/ Swept(title[k])'
<1>1. /\ fs \in [Keys -> {"absent", "empty", "partial", "whole"}] /\ \A t \in Tasks : TitleOf(t) \in Keys
      /\ title \in [Keys -> Keys] /\ key \in [Calls -> Keys] /\ stage \in [Tasks -> Stages]
  BY Typed DEF Shape, TitleOf
<1>2. ASSUME NEW g \in Keys, Unlink(g) PROVE title[k] = g
  BY <1>1, <1>2 DEF Unlink
<1>3. ASSUME NEW t \in Tasks, WrittenOut(t) PROVE title[k] = TitleOf(t)
  BY <1>1, <1>3 DEF WrittenOut
<1>4. Tap
  BY StepCases, ReturnFacts, KillFacts DEF viewVars, allVars, taskVars
<1>5. ASSUME NEW c \in Calls, DeleteFile(c) PROVE Swept(title[k])'
  <2>1. Unlink(title[key[c]]) /\ c \in deleting /\ title[key[c]] \in Keys
    BY <1>1, <1>5 DEF DeleteFile
  <2>2. Swept(title[k])
    BY <1>2, <2>1 DEF FilesOK, Swept
  <2>3. PICK f : f = title[k]
    OBVIOUS
  <2>4. title' = title
    BY <1>4, TapFacts
  <2> QED
    BY <2>2, <2>3, <2>4, SpoiltStays DEF Swept
<1>6. ASSUME NEW t \in Tasks,
             \/ DeleteOld(t) \/ Receive(t) \/ Complete(t) \/ TransferOrphaned(t) \/ TransferFails(t)
             \/ TransferUnsized(t) \/ CreateFile(t)
      PROVE  UnfinishedTap(k)'
  <2>1. stage'[t] \notin {"unused", "recorded"} /\ UNCHANGED <<book, title>>
    BY <1>1, <1>6 DEF DeleteOld, Receive, Complete, TransferOrphaned, TransferFails, TransferUnsized, CreateFile
  <2>2. title[k] = TitleOf(t)
    BY <1>1, <1>2, <1>3, <1>6
       DEF DeleteOld, Receive, Complete, TransferOrphaned, TransferFails, TransferUnsized, CreateFile
  <2> QED
    BY <2>1, <2>2 DEF UnfinishedTap, TitleOf
<1>7. \/ \E c \in Calls : DeleteFile(c)
      \/ \E t \in Tasks :
             \/ DeleteOld(t) \/ Receive(t) \/ Complete(t) \/ TransferOrphaned(t) \/ TransferFails(t)
             \/ TransferUnsized(t) \/ CreateFile(t)
  BY <1>4 DEF Tap, OpenDetail, OpenList, Back, Dismiss, Probe, TapDownload, Locate, LookForFile, taskVars
<1> QED
  BY <1>5, <1>6, <1>7

\* A flag that a check has written before this step.
LEMMA FlagStays ==
  ASSUME Shape, Inv, FilesOK, FlagOK, [DownNext]_allVars, NEW f \in Calls, f \in checked, f \in checked',
         UNCHANGED downloaded, ~KillApp
  PROVE  FlagIs(f)'
<1>1. key \in [Calls -> Keys] /\ title \in [Keys -> Keys] /\ [Next]_vars
  BY Typed, StoreStep DEF Shape
<1>2. title' = title
  BY StepCases, TapFacts, ReturnFacts, KillFacts DEF viewVars, allVars, taskVars
<1>3. FlagIs(f) /\ pc[f] = "returned" /\ method[f] = "EbookDownload.check"
  BY DEF FlagOK
<1>4. result'[f] = result[f] /\ key'[f] = key[f]
  BY <1>1, <1>3, EndedStays, MadeStays
<1>5. PICK k \in Keys : k = key[f]
  BY <1>1
<1>6. PICK T \in Keys : T = title[k]
  BY <1>1
<1>7. NextCheck(T) => NextCheck(T)'
  BY NextCheckStays
<1>8. ASSUME result[f] = {}, NEW w \in Calls, method'[w] \in Inserting, key'[w] = k, f \in before'[w]
      PROVE  pc'[w] \in Active \/ NextCheck(T)'
  <2>1. CASE pc[w] = "idle"
    <3>1. MakeCall \/ pc'[w] = "idle"
      BY <2>1, IdleStays DEF Shape
    <3>2. pc'[w] = "idle" => before'[w] = before[w]
      <4>1. CASE MakeCall
        BY <2>1, <4>1 DEF MakeCall, Call, Inv, TypeOK
      <4>2. CASE ~MakeCall
        BY <4>2, StepCases, TapFacts, SessionFacts, ReturnFacts, KillFacts DEF Shape, allVars, vars
      <4> QED
        BY <4>1, <4>2
    <3>3. f \notin before[w]
      BY <2>1 DEF Inv, BeforeOK
    <3>4. MakeCall /\ pc'[w] # "idle"
      BY <1>8, <3>1, <3>2, <3>3
    <3>5. pc'[w] = "path"
      BY <2>1, <3>4 DEF MakeCall, Call, Inv, TypeOK
    <3> QED
      BY <3>5
  <2>2. CASE pc[w] # "idle"
    <3>1. method[w] \in Inserting /\ key[w] = k /\ f \in before[w]
      BY <1>1, <1>8, <2>2, MadeStays
    <3>2. pc[w] \in Active \/ NextCheck(T)
      BY <1>3, <1>5, <1>6, <1>8, <3>1 DEF FlagIs
    <3>3. ASSUME pc[w] \in Active, pc'[w] \notin Active PROVE NextCheck(T)'
      <4>1. Return(w)
        <5>1. ASSUME NEW c \in Calls, Return(c) PROVE c = w
          BY <3>3, <5>1, ReturnFacts
        <5>2. ~Tap /\ (\A c \in Calls : ~Session(c)) /\ ~MakeCall /\ ~UNCHANGED allVars
          <6>1. ~Tap /\ ~UNCHANGED allVars
            BY <3>3, TapFacts DEF allVars, vars
          <6>2. ASSUME NEW c \in Calls, Session(c) PROVE FALSE
            BY <3>3, <6>2, SessionFacts DEF Shape
          <6>3. ~MakeCall
            BY <3>3 DEF MakeCall, Call, Inv, TypeOK
          <6> QED
            BY <6>1, <6>2, <6>3
        <5> QED
          BY <5>1, <5>2, StepCases
      <4>2. then[w].do = "checkDownload"
        BY <3>1, <3>3 DEF Shape, ThenOK, Inserting
      <4>3. todo' = Checks(k)
        BY <3>1, <4>1, <4>2 DEF Return, ListReturned, RemoveReturned, AddReturned, CheckReturned, Checks
      <4> QED
        BY <1>2, <1>6, <4>3 DEF NextCheck, Checks, checkDownload, Request, After
    <3> QED
      BY <1>7, <3>2, <3>3
  <2> QED
    BY <2>1, <2>2
<1>9. ASSUME result[f] # {}
      PROVE  \/ downloaded <=> fs'[T] # "absent"
             \/ UnfinishedTap(k)' \/ NextCheck(T)' \/ Swept(T)'
  <2>1. \/ downloaded <=> fs[T] # "absent"
        \/ UnfinishedTap(k) \/ NextCheck(T) \/ Swept(T)
    BY <1>3, <1>5, <1>6, <1>9 DEF FlagIs
  <2>2. UnfinishedTap(k) => UnfinishedTap(k)' \/ NextCheck(T)'
    BY <1>2, <1>6, UnfinishedStays DEF NextCheck
  <2>3. Swept(T) => Swept(T)'
    BY SpoiltStays
  <2>4. (fs[T] = "absent" <=> fs'[T] = "absent") \/ UnfinishedTap(k)' \/ Swept(T)'
    BY <1>2, <1>6, PresenceStays DEF Swept
  <2> QED
    BY <1>7, <2>1, <2>2, <2>3, <2>4
<1>10. result'[f] = {} => \A w \in Calls : method'[w] \in Inserting /\ key'[w] = key'[f] /\ f \in before'[w]
                            => pc'[w] \in Active \/ NextCheck(title[key[f]])'
  BY <1>2, <1>4, <1>5, <1>6, <1>8 DEF NextCheck
<1>11. result'[f] # {} => \/ downloaded' <=> fs'[title'[key'[f]]] # "absent"
                          \/ UnfinishedTap(key[f])' \/ NextCheck(title[key[f]])' \/ Swept(title[key[f]])'
  BY <1>2, <1>4, <1>5, <1>6, <1>9 DEF NextCheck, Swept, UnfinishedTap
<1>12. result'[f] = {} => ~downloaded'
  BY <1>3, <1>4 DEF FlagIs
<1> QED
  BY <1>10, <1>11, <1>12 DEF FlagIs

\* Every step keeps the flag what it is.
LEMMA FlagStep ==
  ASSUME Shape, Inv, FilesOK, FlagOK, [DownNext]_allVars
  PROVE  FlagOK'
<1>1. ASSUME NEW f \in checked'
      PROVE  f \in Calls /\ pc'[f] = "returned" /\ method'[f] = "EbookDownload.check" /\ FlagIs(f)'
  <2>1. /\ f \in Calls
        /\ \/ f \in checked /\ UNCHANGED <<checked, downloaded>> /\ ~KillApp
           \/ Probe(f)
           \/ /\ Return(f) /\ then[f].do = "probe" /\ result[f] = {}
              /\ downloaded' = FALSE /\ UNCHANGED probing
    BY <1>1, CheckedCases
  <2>2. CASE f \in checked /\ UNCHANGED <<checked, downloaded>> /\ ~KillApp
    <3>1. FlagIs(f)'
      BY <1>1, <2>1, <2>2, FlagStays
    <3>2. pc[f] = "returned" /\ method[f] = "EbookDownload.check"
      BY <2>2 DEF FlagOK
    <3>3. pc'[f] = "returned" /\ method'[f] = "EbookDownload.check"
      BY <2>1, <3>2, EndedStays, MadeStays, StoreStep DEF Shape
    <3> QED
      BY <2>1, <3>1, <3>3
  <2>3. CASE Probe(f)
    <3>1. pc[f] = "returned" /\ method[f] = "EbookDownload.check" /\ result[f] # {}
      BY <2>3 DEF Probe, FlagOK
    <3>2. downloaded' = (fs[title[key[f]]] # "absent") /\ UNCHANGED <<pc, method, result, key, fs, title>>
      BY <2>3 DEF Probe, vars, taskVars
    <3> QED
      BY <2>1, <3>1, <3>2 DEF FlagIs
  <2>4. CASE /\ Return(f) /\ then[f].do = "probe" /\ result[f] = {}
             /\ downloaded' = FALSE /\ UNCHANGED probing
    <3>1. pc[f] = "close" /\ pc'[f] = "returned" /\ UNCHANGED <<method, before, result>>
      BY <2>1, <2>4, ReturnFacts
    <3>2. method[f] = "EbookDownload.check"
      BY <2>1, <2>4, <3>1 DEF Shape, ThenOK
    <3>3. \A w \in Calls : f \notin before[w]
      BY <3>1 DEF Inv, BeforeOK
    <3> QED
      BY <2>1, <2>4, <3>1, <3>2, <3>3 DEF FlagIs
  <2> QED
    BY <2>1, <2>2, <2>3, <2>4
<1> QED
  BY <1>1, ProbingStep DEF FlagOK

LEMMA FlagHolds == DownSpec => []FlagOK
<1>1. DownInit => FlagOK
  BY DEF DownInit, FlagOK
<1>2. Shape /\ Stored /\ FilesOK /\ FlagOK /\ [DownNext]_allVars => FlagOK'
  BY FlagStep DEF Stored
<1> QED
  BY <1>1, <1>2, ShapeHolds, FilesHold, PTL DEF DownSpec

\* What a write to the record, or a removal after the check, excuses.
Excused(f) == \E w \in Calls :
  /\ method[w] \in Inserting \union Removing /\ key[w] = key[f]
  /\ \/ Concurrent(w, f) \/ Overwritable(w)
     \/ method[w] \in Removing /\ pc[w] # "idle" /\ w \notin before[f]

\* A document that has been taken out was taken out by a removal of its book.
LEMMA TakenBy ==
  ASSUME Shape, Inv, KeysOK, NEW a \in Calls, Taken(a)
  PROVE  \E m \in Calls : /\ a \in removed[m] /\ method[m] \in Removing /\ key[m] = key[a] /\ pc[m] # "idle"
<1>1. PICK m \in Calls : a \in removed[m]
  BY DEF Taken
<1>2. method[m] \in Removing /\ pc[m] # "idle"
  BY <1>1 DEF KeysOK, Inv, RemovedOK
<1>3. method[m] = "EbookDownload.remove"
  BY <1>2 DEF Shape, ThenOK, Removing
<1>4. key[a] = key[m]
  BY <1>1, <1>3 DEF KeysOK, WholeStore
<1> QED
  BY <1>1, <1>2, <1>4

\* What a check has found was recorded by a call before it, or during it.
LEMMA AnswerRecord ==
  ASSUME Shape, Inv, Origin, KeysOK, AnswersOK, NEW f \in Calls, method[f] = "EbookDownload.check",
         pc[f] = "returned", result[f] # {}, ~Excused(f)
  PROVE  \E a \in before[f] : /\ a \in Calls /\ wrote[a] = "inserted" /\ Holds(result[f], a) /\ key[a] = key[f]
                              /\ method[a] = "EbookDownload.addDownload" /\ pc[a] # "idle"
<1>1. PICK e \in result[f] : TRUE
  OBVIOUS
<1>2. e.oid \in Calls /\ wrote[e.oid] = "inserted" /\ e.key = key[e.oid]
  BY <1>1 DEF Origin, Traced, Written, TypeOK, Document
<1>3. PICK a \in Calls : a = e.oid
  BY <1>2
<1>4. key[a] = key[f]
  BY <1>1, <1>2, <1>3 DEF KeysOK, WholeStore
<1>5. pc[a] # "idle" /\ method[a] \in Inserting \union Upserting
  BY <1>2, <1>3 DEF Inv, WroteOK, KeysOK
<1>6. method[a] = "EbookDownload.addDownload"
  BY <1>5 DEF Shape, ThenOK, Inserting, Upserting
<1>7. f \notin before[a]
  BY <1>1, <1>3 DEF AnswersOK
<1>8. ~Concurrent(a, f)
  BY <1>4, <1>5, <1>6 DEF Excused, Inserting
<1>9. a \in before[f]
  BY <1>5, <1>6, <1>7, <1>8 DEF Concurrent
<1> QED
  BY <1>1, <1>2, <1>3, <1>4, <1>5, <1>6, <1>9 DEF Holds

\* With nothing under way the flag is right, or excused.
LEMMA FlagAgrees ==
  ASSUME Shape, Inv, Origin, KeysOK, AnswersOK, FlagOK, Quiet, probing = {}, NEW f \in checked, ~Excused(f),
         ~UnfinishedTap(key[f]), ~TwinRemoved(key[f]), ~DownloadedAgain(key[f])
  PROVE  downloaded <=> (\E d \in file : d.key = key[f]) /\ fs[title[key[f]]] # "absent"
<1>1. f \in Calls /\ FlagIs(f) /\ pc[f] = "returned" /\ method[f] = "EbookDownload.check"
  BY DEF Shape, DownloadTypeOK, FlagOK
<1>2. \A T : ~NextCheck(T)
  BY Stretches DEF Quiet, Idle, NextCheck
<1>3. Answered(f)
  BY <1>1 DEF Answered, Finding
<1>4. ASSUME result[f] = {}, NEW d \in file, d.key = key[f] PROVE FALSE
  <2>1. PICK a \in Calls : /\ a = d.oid /\ key[a] = key[f] /\ pc[a] # "idle" /\ wrote[a] = "inserted"
                           /\ method[a] = "EbookDownload.addDownload" /\ Holds(file, a)
    BY <1>4, RecordTask DEF Holds
  <2>2. ~Concurrent(a, f) /\ ~Overwritable(a)
    BY <2>1 DEF Excused, Inserting
  <2>3. CASE f \in before[a]
    <3>1. pc[a] \in Active
      BY <1>1, <1>2, <1>4, <2>1, <2>3 DEF FlagIs, Inserting
    <3> QED
      BY <3>1 DEF Quiet
  <2>4. CASE a \in before[f]
    <3>1. ~Holds(result[f], a)
      BY <1>4 DEF Holds
    <3>2. Taken(a)
      BY <1>1, <1>3, <2>1, <2>2, <2>4, <3>1 DEF Inv, ReadYourWrites, Selects
    <3>3. PICK m \in Calls : a \in removed[m] /\ method[m] \in Removing /\ key[m] = key[a] /\ pc[m] # "idle"
      BY <3>2, TakenBy
    <3>4. Overwritable(m)
      BY <2>1, <3>3 DEF Inv, NoResurrection
    <3> QED
      BY <2>1, <3>3, <3>4 DEF Excused
  <2> QED
    BY <1>1, <2>1, <2>2, <2>3, <2>4 DEF Concurrent
<1>5. CASE result[f] = {}
  BY <1>1, <1>4, <1>5 DEF FlagIs
<1>6. CASE result[f] # {}
  <2>1. PICK a \in before[f] : /\ a \in Calls /\ wrote[a] = "inserted" /\ Holds(result[f], a) /\ key[a] = key[f]
                               /\ method[a] = "EbookDownload.addDownload" /\ pc[a] # "idle"
    BY <1>1, <1>6, AnswerRecord
  <2>2. ~Swept(title[key[f]])
    <3> SUFFICES ASSUME NEW m \in Calls, method[m] \in Removing, pc[m] = "returned", title[key[m]] = title[key[f]]
                 PROVE  FALSE
      BY DEF Swept
    <3>1. key[m] = key[f]
      BY DEF TwinRemoved
    <3>2. m \in before[f] /\ ~Overwritable(m)
      BY <3>1 DEF Excused
    <3>3. m \notin before[a]
      BY <2>1, <3>1 DEF DownloadedAgain, Inserting
    <3>4. a # m /\ ~Concurrent(a, m)
      BY <2>1, <3>2 DEF Overwritable, Tidying, Removing
    <3>5. a \in before[m]
      BY <2>1, <3>3, <3>4 DEF Concurrent
    <3>6. method[m] = "EbookDownload.remove"
      BY DEF Shape, ThenOK, Removing
    <3>7. Alone(m)
      <4> SUFFICES ASSUME NEW c \in Calls, Concurrent(m, c) PROVE FALSE
        BY DEF Alone
      <4>1. Concurrent(c, m) /\ method[c] \in Tidying
        BY DEF Concurrent, Shape, ThenOK, Tidying
      <4> QED
        BY <3>2, <4>1 DEF Overwritable
    <3> QED
      BY <1>1, <1>3, <2>1, <3>1, <3>2, <3>5, <3>6, <3>7 DEF AnswersOK, Removing, WholeStore
  <2>3. downloaded <=> fs[title[key[f]]] # "absent"
    BY <1>1, <1>2, <1>6, <2>2 DEF FlagIs
  <2>4. \E d \in file : d.key = key[f]
    <3>1. ~Overwritable(a)
      BY <2>1 DEF Excused, Inserting
    <3>2. ~Taken(a)
      <4> SUFFICES ASSUME NEW m \in Calls, a \in removed[m], method[m] \in Removing, key[m] = key[a], pc[m] # "idle"
                   PROVE  FALSE
        BY <2>1, TakenBy
      <4>1. m \in before[f] /\ ~Overwritable(m)
        BY <2>1 DEF Excused
      <4> QED
        BY <1>1, <1>3, <2>1, <4>1 DEF Inv, ReadYourRemoves
    <3>3. Holds(file, a)
      BY <2>1, <3>1, <3>2 DEF Inv, DurableAdd
    <3>4. PICK d \in file : d.oid = a
      BY <3>3 DEF Holds
    <3> QED
      BY <2>1, <3>4 DEF Inv, DocsOK
  <2> QED
    BY <2>3, <2>4
<1> QED
  BY <1>5, <1>6

\* THEOREM: on a detail page with nothing in progress the button tells whether
\* the book it was last asked about has its record and its file, up to writes
\* that overlapped, removals, and taps that have not come to a record.
THEOREM ButtonTellsTheStore == DownSpec => []ButtonIsRight
<1>1. Shape /\ Inv /\ Origin /\ KeysOK /\ AnswersOK /\ FlagOK => ButtonIsRight
  BY FlagAgrees DEF ButtonIsRight, Excused
<1> QED
  BY <1>1, ShapeHolds, FlagHolds, DownImplementsStore, KeysHold, AnswersHold, PTL DEF Stored

-----------------------------------------------------------------------------
(* The rows of the downloads page.  Unless one of the exceptions has come    *)
(* about, every write runs alone, so the answer of the page's own listAll()  *)
(* is the file, and one sweep at a time takes one row and one record away.   *)

\* None of the exceptions has come about.
Clean == ~crossed /\ Undisturbed /\ \A m \in Calls : Cardinality(removed[m]) <= 1

\* The rows are the documents of S, each once.
RowsAre(S) ==
  /\ \A j \in DOMAIN rows : rows[j] \in S
  /\ \A d \in S : \E j \in DOMAIN rows : rows[j] = d
  /\ \A i, j \in DOMAIN rows : rows[i] = rows[j] => i = j

\* The page's list has been asked for and has not come.
ListDue == todo = Lists \/ \E l \in Calls : Listing(l) /\ l \notin gone

\* Row and file of removal c have not both gone.
Sweeping(c) == then[c].do = "deleteFile" /\ (pc[c] \in Active \/ c \in deleting)

\* Removal c was asked for by the row it names; that row stays until the end.
SweepOK(c) ==
  /\ then[c].row \in DOMAIN rows /\ rows[then[c].row].key = key[c]
  /\ IF pc[c] \in {"path", "op"} THEN RowsAre(file)
     ELSE rows[then[c].row] \notin file /\ RowsAre(file \union {rows[then[c].row]})

NoAdds == \A k \in Keys, t \in Tasks : todo # Adds(k, t)

NoRemoves == \A k \in Keys, i \in Rows : todo # Removes(k, i)

\* No sweep goes on; one may be about to start.
AtRest ==
  /\ \A c \in Calls : ~Sweeping(c)
  /\ RowsAre(file)
  /\ \A k \in Keys, i \in Rows : todo = Removes(k, i) => i \in DOMAIN rows /\ rows[i].key = k

\* One sweep goes on.
InSweep == \E c \in Calls :
  /\ Sweeping(c) /\ \A b \in Calls : Sweeping(b) => b = c
  /\ c \notin gone /\ SweepOK(c) /\ NoRemoves

PageBody ==
  /\ NoAdds
  /\ ListDue => (\A c \in Calls : ~Sweeping(c)) /\ NoRemoves
  /\ ~ListDue => /\ \A c \in Calls : pc[c] \in Active => method[c] # "EbookDownload.addDownload"
                 /\ AtRest \/ InSweep

PageOK == routes = <<ListPage>> /\ Clean => PageBody

\* What a stretch has to call does not depend on the state.
LEMMA StretchPrimes ==
  /\ Lists' = Lists
  /\ \A k, t : Adds(k, t)' = Adds(k, t)
  /\ \A k, i : Removes(k, i)' = Removes(k, i)
  BY DEF Lists, Adds, Removes, AnyBook, Request, After

\* What can happen while the downloads page is open.
LEMMA PageCases ==
  ASSUME Shape, Inv, [DownNext]_allVars, routes = <<ListPage>>, routes' = <<ListPage>>
  PROVE  \/ UNCHANGED <<vars, callerVars, rows, deleting, gone, crossed>>
         \/ \E i \in DOMAIN rows : Dismiss(i)
         \/ \E c \in Calls : DeleteFile(c)
         \/ MakeCall /\ UNCHANGED viewVars
         \/ \E c \in Calls : Session(c) /\ UNCHANGED viewVars
         \/ \E c \in Calls : Return(c)
<1>1. routes # <<>> /\ Top = ListPage /\ Top.page = "downloads"
  BY RouteFacts DEF Top
<1>2. (\A k \in Keys : ~OpenDetail(k)) /\ ~OpenList
  BY <1>1 DEF OpenDetail, OpenList
<1>3. ~Back /\ ~KillApp
  <2>1. Back => routes' = SubSeq(<<ListPage>>, 1, 0)
    BY DEF Back, Below
  <2>2. <<ListPage>> # <<>> /\ SubSeq(<<ListPage>>, 1, 0) = <<>>
    OBVIOUS
  <2> QED
    BY <2>1, <2>2, KillFacts
<1>4. \A t \in Tasks : ~Complete(t)
  BY <1>1, TopDialog DEF Complete, Shape
<1>5. CASE Tap
  BY <1>2, <1>3, <1>4, <1>5
     DEF Tap, Probe, TapDownload, Locate, LookForFile, DeleteOld, CreateFile, Receive, TransferOrphaned, TransferFails,
         TransferUnsized, pageVars
<1>6. CASE UNCHANGED allVars
  BY <1>6 DEF allVars, pageVars
<1> QED
  BY <1>3, <1>5, <1>6, StepCases

\* An exception that has come about while the page is open does not go away.
LEMMA CleanStays ==
  ASSUME Shape, Inv, [DownNext]_allVars, routes = <<ListPage>>, routes' = <<ListPage>>, Clean'
  PROVE  Clean
<1>1. [Next]_vars
  BY StoreStep DEF Shape
<1>2. Undisturbed
  BY <1>1, DisturbedStays DEF Clean
<1>3. ~crossed
  BY PageCases DEF Clean, Dismiss, DeleteFile, viewVars, pageVars, Return, ListReturned, RemoveReturned, AddReturned,
                   CheckReturned
<1>4. ASSUME NEW m \in Calls PROVE Cardinality(removed[m]) <= 1
  <2>1. CASE removed[m] = {}
    <3>1. Cardinality({}) = 0
      BY FS_EmptySet
    <3> QED
      BY <2>1, <3>1
  <2>2. CASE removed[m] # {}
    <3>1. pc[m] \notin {"idle", "path", "op"}
      BY <2>2 DEF Inv, RemovedOK
    <3>2. ASSUME NEW c \in Calls, Step(c) PROVE removed'[m] = removed[m]
      BY <3>1, <3>2 DEF Step, Open, Insert, Remove, Find, Update, Upsert, InsertDocument, Tidy, Close, Inv, TypeOK
    <3>3. ASSUME (\E c \in Calls, n \in Methods, k \in Keys : Call(c, n, k)) \/ Kill \/ UNCHANGED vars
          PROVE  removed'[m] = removed[m]
      BY <3>3 DEF Call, Kill, vars
    <3>4. removed'[m] = removed[m]
      BY <1>1, <3>2, <3>3 DEF Next
    <3> QED
      BY <3>4 DEF Clean
  <2> QED
    BY <2>1, <2>2
<1> QED
  BY <1>2, <1>3, <1>4 DEF Clean

\* A step that leaves the rows, the file and the sweeps alone.
LEMMA PageFrame ==
  ASSUME Shape, Inv, PageBody, UNCHANGED <<rows, file, gone>>,
         todo' = todo \/ (todo' # Lists /\ (\A k, t : todo' # Adds(k, t)) /\ (\A k, i : todo' # Removes(k, i))
                            /\ todo # Lists),
         \A c \in Calls : c \notin gone => (Listing(c)' <=> Listing(c)),
         \A c \in Calls : /\ Sweeping(c)' <=> Sweeping(c)
                          /\ Sweeping(c) => /\ then'[c] = then[c] /\ key'[c] = key[c]
                                            /\ (pc'[c] \in {"path", "op"} <=> pc[c] \in {"path", "op"}),
         \A c \in Calls : pc'[c] \in Active /\ method'[c] = "EbookDownload.addDownload" =>
                            pc[c] \in Active /\ method[c] = "EbookDownload.addDownload"
  PROVE  PageBody'
<1>1. /\ NoAdds => NoAdds'
      /\ NoRemoves => NoRemoves'
      /\ \A k \in Keys, i \in Rows : todo' = Removes(k, i) => todo = Removes(k, i)
  BY StretchPrimes DEF NoAdds, NoRemoves
<1>2. ListDue' <=> ListDue
  BY StretchPrimes DEF ListDue
<1>3. ASSUME NEW S PROVE RowsAre(S)' <=> RowsAre(S')
  BY DEF RowsAre
<1>4. RowsAre(file) => RowsAre(file)'
  BY DEF RowsAre
<1>5. ASSUME NEW c \in Calls, Sweeping(c), SweepOK(c) PROVE SweepOK(c)'
  BY <1>5 DEF SweepOK, RowsAre
<1>6. AtRest => AtRest'
  BY <1>1, <1>4, StretchPrimes DEF AtRest
<1>7. InSweep => InSweep'
  BY <1>1, <1>5 DEF InSweep
<1>8. ListDue => (\A c \in Calls : ~Sweeping(c)) /\ NoRemoves
  BY DEF PageBody
<1>9. ~ListDue => /\ \A c \in Calls : pc[c] \in Active => method[c] # "EbookDownload.addDownload"
                  /\ AtRest \/ InSweep
  BY DEF PageBody
<1>10. NoAdds'
  BY <1>1 DEF PageBody
<1>11. ListDue' => (\A c \in Calls : ~Sweeping(c)') /\ NoRemoves'
  BY <1>1, <1>2, <1>8
<1>12. ~ListDue' => /\ \A c \in Calls : pc'[c] \in Active => method'[c] # "EbookDownload.addDownload"
                    /\ AtRest' \/ InSweep'
  BY <1>2, <1>6, <1>7, <1>9
<1> QED
  BY <1>10, <1>11, <1>12 DEF PageBody

\* A stretch that removes names its book and its row.
LEMMA RemovalsDiffer ==
  \A k, j, i, h : Removes(k, i) = Removes(j, h) => k = j /\ i = h
<1>1. \A r, s : <<r>> = <<s>> => r = s
  OBVIOUS
<1>2. \A m, n, k, j, t, u : Request(m, k, t) = Request(n, j, u) => k = j /\ t = u
  BY DEF Request
<1>3. \A d, e, t, u, i, j : After(d, t, i) = After(e, u, j) => i = j
  BY DEF After
<1> QED
  BY <1>1, <1>2, <1>3 DEF Removes

\* A sweep starts: nothing else goes on, so the rows are the file's.
LEMMA DismissKeeps ==
  ASSUME Shape, Inv, PageBody, NEW i \in DOMAIN rows, Dismiss(i), ~crossed'
  PROVE  PageBody'
<1>1. /\ todo = <<>> /\ todo' = Removes(rows[i].key, i)
      /\ UNCHANGED <<vars, then, rows, deleting, gone>>
      /\ \A c \in Calls : ~Sweeping(c)
  BY DEF Dismiss, Starts, Idle, Removes, Sweeping
<1>2. UNCHANGED <<pc, file, method, key>>
  BY <1>1 DEF vars
<1>3. rows \in Seq(Document) /\ \A j \in DOMAIN rows : rows[j] \in Document
  BY Typed, EndFacts DEF Shape
<1>4. PICK k \in Keys : k = rows[i].key
  BY <1>3 DEF Document
<1>5. \A c \in Calls : ~Sweeping(c)'
  BY <1>1, <1>2 DEF Sweeping
<1>6. rows # <<>>
  OBVIOUS
<1>7. ~ListDue
  BY <1>1, <1>6, Stretches DEF ListDue, Shape, ListsOK
<1>8. ~ListDue'
  BY <1>1, <1>2, <1>7, Stretches, StretchPrimes DEF ListDue, Listing
<1>9. NoAdds'
  BY <1>1, Stretches, StretchPrimes, SMTT(30) DEF NoAdds
<1>10. RowsAre(file)
  BY <1>1, <1>7 DEF PageBody, AtRest, InSweep
<1>11. RowsAre(file)'
  BY <1>1, <1>2, <1>10 DEF RowsAre
<1>12. todo' = Removes(k, i)
  BY <1>1, <1>4
<1>13. \A j \in Keys, h \in Rows : todo' = Removes(j, h) => h \in DOMAIN rows /\ rows[h].key = j
  <2> SUFFICES ASSUME NEW j \in Keys, NEW h \in Rows, todo' = Removes(j, h) PROVE h = i /\ j = k
    BY <1>4
  <2>1. Removes(k, i) = Removes(j, h)
    BY <1>12
  <2> QED
    BY <2>1, RemovalsDiffer
<1>14. AtRest'
  BY <1>1, <1>5, <1>11, <1>13, StretchPrimes DEF AtRest
<1>15. \A c \in Calls : pc'[c] \in Active => method'[c] # "EbookDownload.addDownload"
  BY <1>2, <1>7 DEF PageBody
<1> QED
  BY <1>8, <1>9, <1>14, <1>15 DEF PageBody

\* A list of different documents without one of them.
LEMMA RowsWithoutOne ==
  ASSUME DownloadTypeOK, NEW i \in DOMAIN rows, NEW S, rows[i] \notin S, RowsAre(S \union {rows[i]}),
         rows' = RowsWithout(i)
  PROVE  RowsAre(S)'
<1>1. rows \in Seq(Document) /\ Len(rows) \in Nat /\ DOMAIN rows = 1..Len(rows)
  BY Typed, EndFacts
<1>2. /\ DOMAIN rows' = 1..(Len(rows) - 1)
      /\ \A j \in 1..(Len(rows) - 1) : rows'[j] = IF j < i THEN rows[j] ELSE rows[j + 1]
  BY DEF RowsWithout
<1>3. \A j \in DOMAIN rows' : rows'[j] \in S
  <2> SUFFICES ASSUME NEW j \in 1..(Len(rows) - 1) PROVE rows'[j] \in S
    BY <1>2
  <2>1. CASE j < i
    <3>1. j \in DOMAIN rows /\ j # i
      BY <1>1, <2>1
    <3> QED
      BY <1>2, <2>1, <3>1 DEF RowsAre
  <2>2. CASE ~(j < i)
    <3>1. j + 1 \in DOMAIN rows /\ j + 1 # i
      BY <1>1, <2>2
    <3> QED
      BY <1>2, <2>2, <3>1 DEF RowsAre
  <2> QED
    BY <2>1, <2>2
<1>4. ASSUME NEW d \in S PROVE \E j \in DOMAIN rows' : rows'[j] = d
  <2>1. PICK h \in DOMAIN rows : rows[h] = d
    BY DEF RowsAre
  <2>2. h # i /\ h \in 1..Len(rows) /\ i \in 1..Len(rows)
    BY <1>1, <2>1
  <2>3. CASE h < i
    <3>1. h \in DOMAIN rows' /\ rows'[h] = d
      BY <1>1, <1>2, <2>1, <2>2, <2>3
    <3> QED
      BY <3>1
  <2>4. CASE ~(h < i)
    <3>1. h - 1 \in DOMAIN rows' /\ ~(h - 1 < i) /\ (h - 1) + 1 = h
      BY <1>1, <1>2, <2>2, <2>4
    <3>2. rows'[h - 1] = d
      BY <1>2, <2>1, <3>1
    <3> QED
      BY <3>1, <3>2
  <2> QED
    BY <2>3, <2>4
<1>5. ASSUME NEW g \in DOMAIN rows', NEW h \in DOMAIN rows', rows'[g] = rows'[h] PROVE g = h
  <2> DEFINE at(j) == IF j < i THEN j ELSE j + 1
  <2>1. \A j \in DOMAIN rows' : at(j) \in DOMAIN rows /\ rows'[j] = rows[at(j)]
    BY <1>1, <1>2
  <2>2. at(g) = at(h)
    BY <1>5, <2>1 DEF RowsAre
  <2> QED
    BY <1>1, <1>2, <2>2
<1> QED
  BY <1>3, <1>4, <1>5 DEF RowsAre

\* A sweep ends: its row goes, as its record has.
LEMMA DeleteKeeps ==
  ASSUME Shape, Inv, FilesOK, PageBody, NEW c \in Calls, DeleteFile(c)
  PROVE  PageBody'
<1>1. /\ todo = <<>> /\ c \in deleting /\ deleting' = deleting \ {c}
      /\ UNCHANGED <<vars, todo, then, gone>>
      /\ rows' = IF c \notin gone /\ then[c].row \in DOMAIN rows THEN RowsWithout(then[c].row) ELSE rows
  BY DEF DeleteFile, Idle, callerVars
<1>2. UNCHANGED <<pc, file, method, key>>
  BY <1>1 DEF vars
<1>3. method[c] \in Removing /\ pc[c] = "returned"
  BY <1>1 DEF FilesOK
<1>4. then[c].do = "deleteFile"
  BY <1>3 DEF Shape, ThenOK, Removing
<1>5. Sweeping(c)
  BY <1>1, <1>4 DEF Sweeping
<1>6. ~ListDue
  BY <1>5 DEF PageBody
<1>7. /\ \A b \in Calls : Sweeping(b) => b = c
      /\ c \notin gone /\ SweepOK(c)
  BY <1>5, <1>6 DEF PageBody, AtRest, InSweep
<1>8. PICK i \in DOMAIN rows : i = then[c].row
  BY <1>7 DEF SweepOK
<1>9. rows[i] \notin file /\ RowsAre(file \union {rows[i]}) /\ rows' = RowsWithout(i)
  BY <1>1, <1>3, <1>7, <1>8 DEF SweepOK
<1>10. RowsAre(file)'
  <2>1. PICK S : S = file
    OBVIOUS
  <2>2. RowsAre(S)'
    BY <1>9, <2>1, RowsWithoutOne DEF Shape
  <2> QED
    BY <1>2, <2>1, <2>2 DEF RowsAre
<1>11. \A b \in Calls : ~Sweeping(b)'
  BY <1>1, <1>2, <1>3, <1>7 DEF Sweeping
<1>12. AtRest' /\ NoAdds' /\ ~ListDue'
  BY <1>1, <1>2, <1>6, <1>10, <1>11, Stretches, StretchPrimes DEF AtRest, NoAdds, ListDue, Listing
<1>13. \A b \in Calls : pc'[b] \in Active => method'[b] # "EbookDownload.addDownload"
  BY <1>2, <1>6 DEF PageBody
<1> QED
  BY <1>12, <1>13 DEF PageBody

\* A call is made: the page's listAll(), a removal, or a check.
LEMMA CallKeepsPage ==
  ASSUME Shape, Inv, FilesOK, PageBody, MakeCall, UNCHANGED viewVars
  PROVE  PageBody'
<1>1. UNCHANGED <<rows, deleting, gone>> /\ then \in [Calls -> Thens] /\ todo # <<>> /\ todo' = <<>>
  BY Typed, CallCases DEF viewVars, pageVars, MakeCall, Idle, Shape
<1>2. PICK c \in Calls :
              \/ todo = Lists /\ Made(c, "EbookDownload.listAll", AnyBook, After("showList", NoTask, 0))
              \/ \E k \in Keys :
                   \/ todo = Checks(k) /\ Made(c, "EbookDownload.check", k, After("probe", NoTask, 0))
                   \/ \E t \in Tasks :
                        /\ todo = Adds(k, t) /\ Adding(k, t)
                        /\ Made(c, "EbookDownload.addDownload", k, After("checkDownload", t, 0))
                   \/ \E i \in Rows :
                        /\ todo = Removes(k, i)
                        /\ Made(c, "EbookDownload.remove", k, After("deleteFile", NoTask, i))
  BY CallCases DEF Shape
<1>3. /\ \A m, k, t : Made(c, m, k, t) =>
           /\ pc[c] = "idle" /\ pc'[c] = "path" /\ method'[c] = m /\ key'[c] = k /\ then'[c] = t
           /\ \A d \in Calls \ {c} : /\ pc'[d] = pc[d] /\ method'[d] = method[d] /\ key'[d] = key[d]
                                     /\ then'[d] = then[d]
           /\ UNCHANGED file
  BY <1>1, MadeFacts
<1>4. pc[c] = "idle"
  BY <1>2, <1>3
<1>5. c \notin deleting /\ c \notin gone /\ ~Sweeping(c) /\ ~Listing(c)
  BY <1>4 DEF FilesOK, Sweeping, Listing, Shape, ListsOK
<1>6. \A k \in Keys, i \in Rows : todo' # Removes(k, i)
  BY <1>1, Stretches
<1>7. todo' # Lists /\ (\A k, t : todo' # Adds(k, t)) /\ (\A k, i : todo' # Removes(k, i))
  BY <1>1, Stretches
<1>8. NoAdds' /\ NoRemoves'
  BY <1>7, StretchPrimes DEF NoAdds, NoRemoves
<1>9. ASSUME todo = Lists, Made(c, "EbookDownload.listAll", AnyBook, After("showList", NoTask, 0)) PROVE PageBody'
  <2>1. /\ pc'[c] = "path" /\ then'[c].do = "showList"
        /\ \A d \in Calls \ {c} : pc'[d] = pc[d] /\ then'[d] = then[d]
    BY <1>3, <1>9 DEF After
  <2>2. Listing(c)' /\ c \notin gone'
    BY <1>1, <1>5, <2>1 DEF Listing
  <2>3. ListDue'
    BY <2>2 DEF ListDue
  <2>4. \A d \in Calls : ~Sweeping(d)
    BY <1>9 DEF PageBody, ListDue
  <2>5. \A d \in Calls : ~Sweeping(d)'
    BY <1>1, <2>1, <2>4 DEF Sweeping
  <2> QED
    BY <1>8, <2>3, <2>5 DEF PageBody
<1>10. ASSUME NEW k \in Keys, todo = Checks(k), Made(c, "EbookDownload.check", k, After("probe", NoTask, 0))
       PROVE  PageBody'
  <2>1. /\ pc'[c] = "path" /\ then'[c].do = "probe" /\ method'[c] = "EbookDownload.check" /\ UNCHANGED file
        /\ \A d \in Calls \ {c} : /\ pc'[d] = pc[d] /\ then'[d] = then[d] /\ method'[d] = method[d]
                                  /\ key'[d] = key[d]
    BY <1>3, <1>10 DEF After
  <2>2. todo # Lists
    BY <1>10, Stretches
  <2>3. \A d \in Calls : Listing(d)' <=> Listing(d)
    BY <1>5, <2>1 DEF Listing
  <2>4. \A d \in Calls : Sweeping(d)' <=> Sweeping(d)
    BY <1>1, <1>5, <2>1 DEF Sweeping
  <2> QED
    BY <1>1, <1>5, <1>7, <2>1, <2>2, <2>3, <2>4, PageFrame
<1>11. ASSUME NEW k \in Keys, NEW i \in Rows, todo = Removes(k, i),
              Made(c, "EbookDownload.remove", k, After("deleteFile", NoTask, i))
       PROVE  PageBody'
  <2>1. /\ pc'[c] = "path" /\ then'[c].do = "deleteFile" /\ then'[c].row = i /\ key'[c] = k
        /\ method'[c] = "EbookDownload.remove" /\ UNCHANGED file
        /\ \A d \in Calls \ {c} : pc'[d] = pc[d] /\ then'[d] = then[d] /\ method'[d] = method[d]
    BY <1>3, <1>11 DEF After
  <2>2. ~ListDue
    BY <1>11 DEF PageBody, NoRemoves
  <2>3. AtRest
    BY <1>11, <2>2 DEF PageBody, InSweep, NoRemoves
  <2>4. i \in DOMAIN rows /\ rows[i].key = k /\ RowsAre(file) /\ \A d \in Calls : ~Sweeping(d)
    BY <1>11, <2>3 DEF AtRest
  <2>5. RowsAre(file)'
    BY <1>1, <2>1, <2>4 DEF RowsAre
  <2>6. SweepOK(c)'
    BY <1>1, <2>1, <2>4, <2>5 DEF SweepOK
  <2>7. Sweeping(c)' /\ \A d \in Calls : Sweeping(d)' => d = c
    BY <1>1, <2>1, <2>4 DEF Sweeping
  <2>8. InSweep'
    BY <1>1, <1>5, <1>8, <2>6, <2>7 DEF InSweep
  <2>9. ~ListDue'
    BY <1>1, <1>7, <2>1, <2>2, StretchPrimes DEF ListDue, Listing
  <2>10. \A d \in Calls : pc'[d] \in Active => method'[d] # "EbookDownload.addDownload"
    BY <2>1, <2>2 DEF PageBody
  <2> QED
    BY <1>8, <2>8, <2>9, <2>10 DEF PageBody
<1> QED
  BY <1>2, <1>9, <1>10, <1>11 DEF PageBody, NoAdds

\* Two calls of a set of at most one are the same.
LEMMA OneTaken ==
  ASSUME NEW T \in SUBSET Calls, Cardinality(T) <= 1, NEW a \in T, NEW b \in T
  PROVE  a = b
<1> SUFFICES ASSUME a # b PROVE FALSE
  OBVIOUS
<1>1. IsFiniteSet({a}) /\ Cardinality({a}) = 1
  BY FS_Singleton
<1>2. Cardinality({a} \union {b}) = 2 /\ {a} \union {b} \in SUBSET T
  BY <1>1, FS_AddElement, SMTT(30)
<1>3. IsFiniteSet(T)
  BY FS_Subset, DownloadAssumption
<1>4. Cardinality({a} \union {b}) <= Cardinality(T) /\ Cardinality(T) \in Nat
  BY <1>2, <1>3, FS_Subset, FS_CardinalityType
<1> QED
  BY <1>2, <1>4

\* The application never updates a record, so a record is known by its call.
LEMMA KnownByCall ==
  ASSUME Shape, Stored
  PROVE  /\ \A d, e \in file : d.oid = e.oid => d = e
         /\ \A c \in Calls : \A d, e \in result[c] : d.oid = e.oid => d = e
<1>1. Unupdated
  BY DEF Unupdated, Shape, ThenOK, Upserting
<1> QED
  BY <1>1, OwnUnique DEF Stored

\* A removal for a row takes the record of the row and no other.
LEMMA RemovalOfRow ==
  ASSUME Shape, Stored, FreshOK, Undisturbed, NEW c \in Calls, Remove(c), method[c] = "EbookDownload.remove",
         Cardinality(removed'[c]) <= 1, NEW d \in file, d.key = key[c]
  PROVE  file' = file \ {d}
<1>1. file' = file \ Matching(c, file) /\ removed'[c] = {e.oid : e \in Matching(c, file)}
  BY RemovesBoth DEF Stored
<1>2. Matching(c, file) = {e \in file : e.key = key[c]}
  BY DEF Matching, WholeStore
<1>3. removed'[c] \in SUBSET Calls
  BY <1>1, <1>2 DEF Stored, Inv, TypeOK, Document
<1>4. ASSUME NEW e \in Matching(c, file) PROVE e = d
  <2>1. e.oid \in removed'[c] /\ d.oid \in removed'[c]
    BY <1>1, <1>2, <1>4
  <2>2. e.oid = d.oid
    BY <1>3, <2>1, OneTaken
  <2> QED
    BY <1>2, <1>4, <2>2, KnownByCall
<1>5. Matching(c, file) = {d}
  BY <1>2, <1>4
<1> QED
  BY <1>1, <1>5

\* A session goes on.
LEMMA SessionKeepsPage ==
  ASSUME Shape, Stored, FilesOK, FreshOK, Undisturbed, PageBody, NEW c \in Calls, Session(c), UNCHANGED viewVars,
         Cardinality(removed'[c]) <= 1
  PROVE  PageBody'
<1>1. /\ UNCHANGED <<rows, deleting, gone, todo, then, method, key>> /\ todo = <<>>
      /\ pc[c] \in Active /\ pc'[c] \in Active /\ \A d \in Calls \ {c} : pc'[d] = pc[d]
  BY SessionFacts DEF viewVars, pageVars, Shape, Stored
<1>2. \A d \in Calls : /\ Listing(d)' <=> Listing(d)
                       /\ Sweeping(d)' <=> Sweeping(d)
                       /\ pc'[d] \in Active <=> pc[d] \in Active
  BY <1>1 DEF Listing, Sweeping
<1>3. ListDue' <=> ListDue
  BY <1>1, <1>2, StretchPrimes DEF ListDue
<1>4. NoAdds' /\ NoRemoves'
  BY <1>1, Stretches, StretchPrimes DEF NoAdds, NoRemoves
<1>5. CASE ListDue
  BY <1>2, <1>3, <1>4, <1>5 DEF PageBody
<1>6. CASE ~ListDue
  <2>1. method[c] # "EbookDownload.addDownload"
    BY <1>1, <1>6 DEF PageBody
  <2>2. \/ method[c] \in {"EbookDownload.check", "EbookDownload.listAll"} /\ then[c].do # "deleteFile"
        \/ method[c] = "EbookDownload.remove" /\ then[c].do = "deleteFile"
    BY <1>1, <2>1 DEF Shape, ThenOK
  <2>3. Open(c) \/ Remove(c) \/ Find(c) \/ Tidy(c)
    BY <2>2 DEF Session, Insert, Update, Upsert, Inserting, Upserting, Stored, Inv, WroteOK
  <2>4. ASSUME file' = file, pc[c] \in {"path", "op"} /\ pc'[c] \notin {"path", "op"} => then[c].do # "deleteFile",
               pc'[c] \in {"path", "op"} => pc[c] \in {"path", "op"}
        PROVE  PageBody'
    BY <1>1, <1>2, <2>4, PageFrame DEF Sweeping, Stored
  <2>5. CASE Open(c)
    BY <2>4, <2>5 DEF Open, Stored, Inv, TypeOK
  <2>6. CASE Find(c)
    <3>1. method[c] # "EbookDownload.remove" /\ pc[c] = "op" /\ file' = file
      BY <2>6 DEF Find, Finding
    <3> QED
      BY <2>2, <2>4, <3>1
  <2>7. CASE Tidy(c)
    <3>1. pc[c] = "tidy" /\ pc'[c] = "close" /\ file' = mem[c]
      BY <2>7 DEF Tidy, Stored, Inv, TypeOK
    <3>2. mem[c] = file
      BY <3>1 DEF FreshOK
    <3> QED
      BY <2>4, <3>1, <3>2
  <2>8. CASE Remove(c)
    <3>1. pc[c] = "op" /\ pc'[c] \notin {"path", "op"}
      BY <2>8, AfterOpCases DEF Remove, Stored, Inv, TypeOK
    <3>2. method[c] = "EbookDownload.remove" /\ then[c].do = "deleteFile"
      BY <2>2, <2>8 DEF Remove, Removing
    <3>3. Sweeping(c)
      BY <1>1, <3>2 DEF Sweeping
    <3>4. (\A b \in Calls : Sweeping(b) => b = c) /\ c \notin gone /\ SweepOK(c)
      BY <1>6, <3>3 DEF PageBody, AtRest, InSweep
    <3>5. PICK i \in DOMAIN rows : i = then[c].row
      BY <3>4 DEF SweepOK
    <3>6. PICK d : d = rows[i]
      OBVIOUS
    <3>7. d.key = key[c] /\ RowsAre(file) /\ d \in file
      BY <3>1, <3>4, <3>5, <3>6 DEF SweepOK, RowsAre
    <3>8. file' = file \ {d}
      BY <2>8, <3>2, <3>7, RemovalOfRow
    <3>9. d \notin file' /\ file' \union {d} = file
      BY <3>7, <3>8
    <3>10. RowsAre(file' \union {d})
      BY <3>7, <3>9
    <3>11. SweepOK(c)'
      <4>1. then'[c].row = i /\ rows'[i] = d /\ i \in DOMAIN rows' /\ key'[c] = key[c]
        BY <1>1, <3>5, <3>6
      <4>2. \A S : RowsAre(S) => (\A j \in DOMAIN rows' : rows'[j] \in S)
                              /\ (\A e \in S : \E j \in DOMAIN rows' : rows'[j] = e)
                              /\ \A g, h \in DOMAIN rows' : rows'[g] = rows'[h] => g = h
        BY <1>1 DEF RowsAre
      <4>3. /\ \A j \in DOMAIN rows' : rows'[j] \in file' \union {d}
            /\ \A e \in file' \union {d} : \E j \in DOMAIN rows' : rows'[j] = e
            /\ \A g, h \in DOMAIN rows' : rows'[g] = rows'[h] => g = h
        BY <3>10, <4>2
      <4>4. rows'[then'[c].row] = d
        BY <4>1
      <4>5. RowsAre(file \union {rows[then[c].row]})'
        BY <4>3, <4>4 DEF RowsAre
      <4> QED
        BY <3>1, <3>7, <3>9, <4>1, <4>5 DEF SweepOK
    <3>12. InSweep'
      BY <1>1, <1>2, <1>4, <3>3, <3>4, <3>11 DEF InSweep
    <3> QED
      BY <1>1, <1>2, <1>3, <1>4, <1>6, <3>12 DEF PageBody
  <2> QED
    BY <2>3, <2>5, <2>6, <2>7, <2>8
<1> QED
  BY <1>5, <1>6

\* A list of as many rows as there are documents has each once.
LEMMA ListingOnce ==
  ASSUME NEW S, S \subseteq Document, \A d, e \in S : d.oid = e.oid => d = e, NEW q \in Listings(S)
  PROVE  /\ \A j \in DOMAIN q : q[j] \in S
         /\ \A d \in S : \E j \in DOMAIN q : q[j] = d
         /\ \A i, j \in DOMAIN q : q[i] = q[j] => i = j
<1>1. IsFiniteSet(S) /\ Cardinality(S) \in Nat /\ DOMAIN q = 1..Cardinality(S)
  BY ListingFacts
<1>2. q \in [1..Cardinality(S) -> S] /\ \A d \in S : \E j \in DOMAIN q : q[j] = d
  BY DEF Listings
<1>3. q \in Surjection(1..Cardinality(S), S)
  BY <1>1, <1>2 DEF Surjection
<1>4. IsFiniteSet(1..Cardinality(S)) /\ Cardinality(1..Cardinality(S)) = Cardinality(S)
  BY <1>1, FS_Interval
<1>5. q \in Injection(1..Cardinality(S), S)
  BY <1>3, <1>4, FS_SurjSameCardinalityImpliesInj
<1>6. \A i, j \in DOMAIN q : q[i] = q[j] => i = j
  BY <1>1, <1>5 DEF Injection, IsInjective
<1> QED
  BY <1>1, <1>2, <1>6

\* The page's list comes.
LEMMA ListKeepsPage ==
  ASSUME Shape, Stored, FreshOK, Undisturbed, PageBody, NEW c \in Calls, Return(c), ListReturned(c), c \notin gone
  PROVE  PageBody'
<1>1. /\ UNCHANGED <<todo, then, gone, deleting, file, method, key>> /\ todo = <<>>
      /\ pc[c] = "close" /\ pc'[c] = "returned" /\ \A d \in Calls \ {c} : pc'[d] = pc[d]
      /\ then[c].do = "showList"
  BY ReturnFacts DEF ListReturned, Stored
<1>2. Listing(c) /\ ListDue
  BY <1>1 DEF Listing, ListDue
<1>3. rows = <<>> /\ \A l \in Calls : Listing(l) /\ l \notin gone => l = c
  BY <1>2 DEF Shape, ListsOK
<1>4. method[c] = "EbookDownload.listAll"
  BY <1>1 DEF Shape, ThenOK
<1>5. result[c] = file
  BY <1>1, <1>4 DEF FreshOK, Finding, Matching, WholeStore
<1>6. PICK q \in Listings(file) : rows' = rows \o q
  BY <1>5 DEF ListReturned
<1>7. file \subseteq Document /\ \A d, e \in file : d.oid = e.oid => d = e
  BY KnownByCall DEF Stored, Inv, TypeOK
<1>8. rows' = q
  <2>1. q \in Seq(Document)
    BY <1>7, ListingFacts
  <2> QED
    BY <1>3, <1>6, <2>1
<1>9. RowsAre(file)'
  BY <1>1, <1>7, <1>8, ListingOnce DEF RowsAre
<1>10. \A d \in Calls : ~Sweeping(d)'
  BY <1>1, <1>2 DEF PageBody, Sweeping
<1>11. NoAdds' /\ NoRemoves'
  BY <1>1, Stretches, StretchPrimes DEF NoAdds, NoRemoves
<1>12. ~ListDue'
  BY <1>1, <1>3, Stretches, StretchPrimes DEF ListDue, Listing
<1>13. ASSUME NEW d \in Calls, pc'[d] \in Active PROVE method'[d] # "EbookDownload.addDownload"
  <2>1. d # c /\ pc[d] \in Active
    BY <1>1, <1>13
  <2>2. ASSUME method[d] = "EbookDownload.addDownload" PROVE FALSE
    <3>1. Alone(d)
      BY <2>1, <2>2 DEF Undisturbed, Writing, Finding
    <3> QED
      BY <1>1, <2>1, <3>1, ActiveAlone DEF Stored
  <2> QED
    BY <1>1, <2>2
<1>14. AtRest'
  BY <1>9, <1>10, <1>11 DEF AtRest, NoRemoves
<1> QED
  BY <1>11, <1>12, <1>13, <1>14 DEF PageBody

\* A call returns.
LEMMA ReturnKeepsPage ==
  ASSUME Shape, Stored, FreshOK, Undisturbed, PageBody, NEW c \in Calls, Return(c)
  PROVE  PageBody'
<1>1. /\ UNCHANGED <<then, gone, file, method, key>> /\ todo = <<>>
      /\ pc[c] = "close" /\ pc'[c] = "returned" /\ \A d \in Calls \ {c} : pc'[d] = pc[d]
  BY ReturnFacts DEF Stored
<1>2. ASSUME UNCHANGED <<todo, rows>>, deleting' = deleting \/ (deleting' = deleting \union {c} /\ Sweeping(c)),
             Sweeping(c) => c \in deleting', Listing(c) => c \in gone
      PROVE  PageBody'
  <2>1. \A d \in Calls : d \notin gone => (Listing(d)' <=> Listing(d))
    BY <1>1, <1>2 DEF Listing
  <2>2. \A d \in Calls : Sweeping(d)' <=> Sweeping(d)
    BY <1>1, <1>2 DEF Sweeping
  <2>3. \A d \in Calls : pc'[d] \in Active => pc[d] \in Active
    BY <1>1
  <2>4. \A d \in Calls : pc'[d] \in {"path", "op"} <=> pc[d] \in {"path", "op"}
    BY <1>1
  <2> QED
    BY <1>1, <1>2, <2>1, <2>2, <2>3, <2>4, PageFrame DEF Stored
<1>3. CASE ListReturned(c)
  <2>1. CASE c \in gone
    BY <1>2, <1>3, <2>1 DEF ListReturned, Sweeping
  <2> QED
    BY <1>3, <2>1, ListKeepsPage
<1>4. CASE RemoveReturned(c)
  BY <1>1, <1>2, <1>4 DEF RemoveReturned, Sweeping, Listing
<1>5. CASE CheckReturned(c)
  BY <1>2, <1>5 DEF CheckReturned, pageVars, Sweeping, Listing
<1>6. ~AddReturned(c)
  <2> SUFFICES ASSUME AddReturned(c) PROVE FALSE
    OBVIOUS
  <2>1. then[c].do = "checkDownload" /\ method[c] = "EbookDownload.addDownload"
    BY <1>1 DEF AddReturned, Shape, ThenOK
  <2>2. ListDue
    BY <1>1, <2>1 DEF PageBody
  <2>3. PICK l \in Calls : Listing(l)
    BY <1>1, <2>2, Stretches DEF ListDue
  <2>4. l # c /\ pc[l] \in Active
    BY <2>1, <2>3 DEF Listing
  <2>5. Alone(c)
    BY <1>1, <2>1 DEF Undisturbed, Writing, Finding
  <2> QED
    BY <1>1, <2>4, <2>5, ActiveAlone DEF Stored
<1> QED
  BY <1>3, <1>4, <1>5, <1>6 DEF Return

\* The page opens, and asks for its list.
LEMMA OpenKeepsPage ==
  ASSUME Shape, OpenList, ~crossed'
  PROVE  PageBody'
<1>1. /\ UNCHANGED <<vars, then, deleting, gone>> /\ todo' = Lists
      /\ deleting = {} /\ \A c \in Calls : pc[c] \in Active => then[c].do # "deleteFile"
  BY DEF OpenList, Lists, AnyBook
<1>2. \A c \in Calls : ~Sweeping(c)'
  BY <1>1 DEF Sweeping, vars
<1>3. NoAdds' /\ NoRemoves' /\ ListDue'
  BY <1>1, Stretches, StretchPrimes DEF NoAdds, NoRemoves, ListDue
<1> QED
  BY <1>2, <1>3 DEF PageBody

\* Every step keeps the page right.
LEMMA PageStep ==
  ASSUME Shape, Stored, FilesOK, FreshOK, PageOK, [DownNext]_allVars
  PROVE  PageOK'
<1> SUFFICES ASSUME routes' = <<ListPage>>, Clean' PROVE PageBody'
  BY DEF PageOK, ListPage
<1>1. CASE routes # <<ListPage>>
  <2>1. OpenList
    BY <1>1, ListPageStep DEF Stored
  <2> QED
    BY <2>1, OpenKeepsPage DEF Clean
<1>2. CASE routes = <<ListPage>>
  <2>1. Clean
    BY <1>2, CleanStays DEF Stored
  <2>2. PageBody /\ Undisturbed
    BY <1>2, <2>1 DEF PageOK, Clean
  <2>3. ~crossed' /\ \A c \in Calls : Cardinality(removed'[c]) <= 1
    BY DEF Clean
  <2>4. CASE UNCHANGED <<vars, callerVars, rows, deleting, gone, crossed>>
    <3>1. /\ UNCHANGED <<pc, method, key, file, todo, then, rows, deleting, gone>>
          /\ \A c \in Calls : (Listing(c)' <=> Listing(c)) /\ (Sweeping(c)' <=> Sweeping(c))
      BY <2>4 DEF vars, callerVars, Listing, Sweeping
    <3> QED
      BY <2>2, <3>1, PageFrame DEF Stored
  <2>5. ASSUME NEW i \in DOMAIN rows, Dismiss(i) PROVE PageBody'
    BY <2>2, <2>3, <2>5, DismissKeeps DEF Stored
  <2>6. ASSUME NEW c \in Calls, DeleteFile(c) PROVE PageBody'
    BY <2>2, <2>6, DeleteKeeps DEF Stored
  <2>7. CASE MakeCall /\ UNCHANGED viewVars
    BY <2>2, <2>7, CallKeepsPage DEF Stored
  <2>8. ASSUME NEW c \in Calls, Session(c), UNCHANGED viewVars PROVE PageBody'
    BY <2>2, <2>3, <2>8, SessionKeepsPage
  <2>9. ASSUME NEW c \in Calls, Return(c) PROVE PageBody'
    BY <2>2, <2>9, ReturnKeepsPage
  <2> QED
    BY <1>2, <2>4, <2>5, <2>6, <2>7, <2>8, <2>9, PageCases DEF Stored
<1> QED
  BY <1>1, <1>2

\* The page is right in every state.
LEMMA PageHolds == DownSpec => []PageOK
<1>1. DownInit => PageOK
  <2>1. <<>> # <<ListPage>>
    OBVIOUS
  <2> QED
    BY <2>1 DEF DownInit, PageOK
<1>2. Shape /\ Stored /\ FilesOK /\ FreshOK /\ PageOK /\ [DownNext]_allVars => PageOK'
  BY PageStep
<1> QED
  BY <1>1, <1>2, ShapeHolds, FilesHold, FreshHolds, DownImplementsStore, PTL DEF DownSpec

\* With nothing under way the rows are the records.
LEMMA RowsAgree ==
  ASSUME Shape, Stored, PageOK, routes = <<ListPage>>, Quiet, deleting = {}, ~crossed,
         \A m \in Calls : ~(Cardinality(removed[m]) > 1),
         \A w \in Calls : method[w] \in Inserting \union Removing => ~Overwritable(w)
  PROVE  /\ {rows[i].oid : i \in DOMAIN rows} = {d.oid : d \in file}
         /\ Len(rows) = Cardinality(file)
<1>1. Undisturbed
  <2> SUFFICES ASSUME NEW w \in Calls, Writing(w), NEW c \in Calls, Concurrent(w, c) PROVE FALSE
    BY DEF Undisturbed, Alone
  <2>1. method[w] \in Inserting \union Removing
    BY DEF Writing, Shape, ThenOK, Inserting, Removing, Finding
  <2>2. method[c] \in Tidying /\ Concurrent(c, w)
    BY DEF Concurrent, Shape, ThenOK, Tidying
  <2> QED
    BY <2>1, <2>2 DEF Overwritable
<1>2. ASSUME NEW m \in Calls PROVE Cardinality(removed[m]) <= 1
  <2>1. removed[m] \in SUBSET Calls
    BY DEF Stored, Inv, TypeOK
  <2>2. Cardinality(removed[m]) \in Nat
    BY <2>1, FS_Subset, FS_CardinalityType, DownloadAssumption
  <2> QED
    BY <2>2
<1>3. PageBody
  BY <1>1, <1>2 DEF PageOK, Clean
<1>4. \A c \in Calls : ~Sweeping(c) /\ ~Listing(c)
  BY DEF Quiet, Sweeping, Listing
<1>5. ~ListDue
  BY <1>4, Stretches DEF ListDue, Quiet, Idle
<1>6. RowsAre(file)
  BY <1>3, <1>4, <1>5 DEF PageBody, AtRest, InSweep
<1>7. rows \in Seq(Document) /\ Len(rows) \in Nat /\ DOMAIN rows = 1..Len(rows)
  BY Typed, EndFacts DEF Shape
<1>8. rows \in [1..Len(rows) -> file]
  BY <1>6, <1>7 DEF RowsAre
<1>9. rows \in Bijection(1..Len(rows), file)
  BY <1>6, <1>7, <1>8 DEF RowsAre, Bijection, Surjection, Injection, IsInjective
<1>10. IsFiniteSet(1..Len(rows)) /\ Cardinality(1..Len(rows)) = Len(rows)
  BY <1>7, FS_Interval
<1>11. ExistsBijection(1..Len(rows), file)
  BY <1>9 DEF ExistsBijection
<1>12. Cardinality(file) = Len(rows)
  BY <1>10, <1>11, FS_Bijection
<1>13. {rows[i].oid : i \in DOMAIN rows} = {d.oid : d \in file}
  BY <1>6 DEF RowsAre
<1> QED
  BY <1>12, <1>13

\* THEOREM: the downloads page, once its removals are done, shows the records of
\* the store, each once, up to rows swept while another removal went on, removals
\* that took several records, and writes that overlapped another session.
THEOREM RowsTellTheStore == DownSpec => []RowsMatchStore
<1>1. Shape /\ Stored /\ PageOK => RowsMatchStore
  BY RowsAgree DEF RowsMatchStore
<1> QED
  BY <1>1, ShapeHolds, PageHolds, PTL
=============================================================================
