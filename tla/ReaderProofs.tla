----------------------------- MODULE ReaderProofs -----------------------------
(***************************************************************************)
(* Proofs about Reader, for any number of calls, openings, books and       *)
(* pages: whose position is stored under a book, and where a reader opens. *)
(***************************************************************************)
EXTENDS Reader, EbookStoreProofs, SequenceTheorems

USE DEF Active, Ended, Loaded, Operated

-----------------------------------------------------------------------------
(* What a stretch of code has still to call, and what the calls are for. *)

Seeks(k, o) == <<getLocator(k, o)>>
Saves(k, o) == <<updateItem(k, o)>>

\* The position of a book is asked for by the opening of that book ...
Seeking(k, o) == stage[o] # "unused" /\ stage[o] # "looking" /\ k = book[o]

\* ... and stored by one whose reader was opened.
Saving(k, o) == stage[o] = "opened" /\ (k # NoKey => book[o] = k \/ o \in overtaken)

TodoOK ==
  \/ todo = <<>>
  \/ \E k \in Keys, o \in Openings :
       \/ todo = Seeks(k, o) /\ stage[o] = "seeking" /\ k = book[o]
       \/ todo = Saves(k, o) /\ Saving(k, o)

ThenOK == \A c \in Calls : pc[c] # "idle" =>
  \/ /\ method[c] = "EbookLocator.getLocator" /\ then[c].do = "open"
     /\ Seeking(key[c], then[c].by)
  \/ /\ method[c] = "EbookLocator.updateItem" /\ then[c].do = "saved"
     /\ Saving(key[c], then[c].by)

\* An opening asks for the position once.
OnceOK ==
  /\ \A c \in Calls : pc[c] \in Active /\ then[c].do = "open" => stage[then[c].by] = "seeking"
  /\ \A c, d \in Calls :
       /\ pc[c] # "idle" /\ then[c].do = "open" /\ pc[d] # "idle" /\ then[d].do = "open"
       /\ then[c].by = then[d].by
       => c = d
  /\ \A k \in Keys, o \in Openings : todo = Seeks(k, o) =>
       \A c \in Calls : pc[c] # "idle" /\ then[c].do = "open" => then[c].by # o

\* A report that is to come is the listener's or was overtaken by another reader.
ReportsOK ==
  /\ listener \in Openings => stage[listener] = "opened"
  /\ \A o \in Unreported :
       stage[o] = "opened" /\ listener \in Openings /\ (o = listener \/ o \in overtaken)

\* The types, and the shape of the caller's and the readers' state.
Shape == ReaderTypeOK /\ TodoOK /\ ThenOK /\ OnceOK /\ ReportsOK

\* The stretches differ by what they call.
LEMMA Stretches ==
  /\ \A k, o : /\ Seeks(k, o) # <<>> /\ Saves(k, o) # <<>>
               /\ Head(Seeks(k, o)) = getLocator(k, o) /\ Tail(Seeks(k, o)) = <<>>
               /\ Head(Saves(k, o)) = updateItem(k, o) /\ Tail(Saves(k, o)) = <<>>
  /\ \A k, o, j, p : /\ Seeks(k, o) # Saves(j, p)
                     /\ Seeks(k, o) = Seeks(j, p) => k = j /\ o = p
                     /\ Saves(k, o) = Saves(j, p) => k = j /\ o = p
<1>1. \A r : <<r>> # <<>> /\ Head(<<r>>) = r /\ Tail(<<r>>) = <<>>
  OBVIOUS
<1>2. \A r, s : <<r>> = <<s>> => r = s
  OBVIOUS
<1>3. \A k, o : /\ getLocator(k, o).k = k /\ getLocator(k, o).t.by = o /\ getLocator(k, o).t.do = "open"
                /\ updateItem(k, o).k = k /\ updateItem(k, o).t.by = o /\ updateItem(k, o).t.do = "saved"
  BY DEF getLocator, updateItem, Request, After
<1>4. "open" # "saved"
  OBVIOUS
<1> QED
  BY <1>1, <1>2, <1>3, <1>4 DEF Seeks, Saves

\* What each stretch is, as a sequence of requests.
LEMMA StretchTypes ==
  ASSUME NEW k \in Keys, NEW o \in Openings
  PROVE  {Seeks(k, o), Saves(k, o)} \subseteq Seq([m : Methods, k : Keys, t : Thens])
<1>1. After("open", o) \in Thens /\ After("saved", o) \in Thens
  BY ReaderAssumption DEF After, ReaderThens
<1>2. /\ getLocator(k, o) \in [m : Methods, k : Keys, t : Thens]
      /\ updateItem(k, o) \in [m : Methods, k : Keys, t : Thens]
  BY <1>1, ReaderAssumption DEF getLocator, updateItem, Request, ReaderMethods
<1> QED
  BY <1>2 DEF Seeks, Saves

\* A call that is made is the one its stretch asked for.
LEMMA CallCases ==
  ASSUME Shape, MakeCall
  PROVE  \E c \in Calls, k \in Keys, o \in Openings :
           /\ todo' = <<>>
           /\ \/ /\ Call(c, "EbookLocator.getLocator", k) /\ todo = Seeks(k, o)
                 /\ then' = [then EXCEPT ![c] = After("open", o)]
                 /\ stage[o] = "seeking" /\ k = book[o]
              \/ /\ Call(c, "EbookLocator.updateItem", k) /\ todo = Saves(k, o)
                 /\ then' = [then EXCEPT ![c] = After("saved", o)]
                 /\ Saving(k, o)
<1>1. PICK k \in Keys, o \in Openings :
        \/ todo = Seeks(k, o) /\ stage[o] = "seeking" /\ k = book[o]
        \/ todo = Saves(k, o) /\ Saving(k, o)
  BY DEF MakeCall, Idle, Shape, TodoOK
<1>2. PICK c \in Calls : /\ Call(c, Head(todo).m, Head(todo).k)
                         /\ then' = [then EXCEPT ![c] = Head(todo).t]
  BY DEF MakeCall
<1>3. todo' = Tail(todo)
  BY DEF MakeCall
<1>4. CASE todo = Seeks(k, o) /\ stage[o] = "seeking" /\ k = book[o]
  <2>1. /\ Head(todo).m = "EbookLocator.getLocator" /\ Head(todo).k = k
        /\ Head(todo).t = After("open", o) /\ Tail(todo) = <<>>
    BY <1>4, Stretches DEF getLocator, Request
  <2>2. Call(c, "EbookLocator.getLocator", k) /\ then' = [then EXCEPT ![c] = After("open", o)]
    BY <1>2, <2>1
  <2> QED
    BY <1>3, <1>4, <2>1, <2>2
<1>5. CASE todo = Saves(k, o) /\ Saving(k, o)
  <2>1. /\ Head(todo).m = "EbookLocator.updateItem" /\ Head(todo).k = k
        /\ Head(todo).t = After("saved", o) /\ Tail(todo) = <<>>
    BY <1>5, Stretches DEF updateItem, Request
  <2>2. Call(c, "EbookLocator.updateItem", k) /\ then' = [then EXCEPT ![c] = After("saved", o)]
    BY <1>2, <2>1
  <2> QED
    BY <1>3, <1>5, <2>1, <2>2
<1> QED
  BY <1>1, <1>4, <1>5

-----------------------------------------------------------------------------
(* Every step of the application is a step of the store.                   *)

\* The session of a call goes on: nothing else moves.
LEMMA SessionFacts ==
  ASSUME Inv, ThenOK, NEW c \in Calls, Session(c)
  PROVE  /\ Step(c) /\ todo = <<>> /\ UNCHANGED <<todo, then, method, key, before>>
         /\ pc[c] \in Active /\ pc'[c] \in Active
         /\ \A d \in Calls \ {c} : pc'[d] = pc[d] /\ result'[d] = result[d]
<1>1. Step(c) /\ todo = <<>> /\ UNCHANGED <<todo, then>>
  BY DEF Session, Step, Idle, callerVars
<1>2. pc[c] \in Active /\ UNCHANGED <<method, key, before>>
  BY DEF Session, Open, Insert, Remove, Find, Update, Upsert, InsertDocument, Tidy, Close
<1>3. AfterOp(c) \in {"tidy", "close"}
  BY <1>2 DEF AfterOp, ThenOK, Leaking
<1>4. pc'[c] \in Active /\ \A d \in Calls \ {c} : pc'[d] = pc[d] /\ result'[d] = result[d]
  BY <1>3 DEF Session, Open, Insert, Remove, Find, Update, Upsert, InsertDocument, Tidy, Close, Inv, TypeOK
<1> QED
  BY <1>1, <1>2, <1>4

\* A call that returns does nothing but end.
LEMMA ReturnFacts ==
  ASSUME Inv, NEW c \in Calls, Return(c)
  PROVE  /\ Step(c) /\ todo = <<>> /\ UNCHANGED <<todo, then, method, key, before, result>>
         /\ UNCHANGED <<pages, book, pageOf, fromList, reports>>
         /\ pc[c] = "close" /\ pc'[c] = "returned"
         /\ \A d \in Calls \ {c} : pc'[d] = pc[d]
  BY DEF Return, LocatorReturned, Saved, Close, Step, Idle, Inv, TypeOK

\* The process is stopped: nothing is under way any more.
LEMMA KillFacts ==
  ASSUME Inv, KillApp
  PROVE  /\ Kill \/ UNCHANGED vars
         /\ UNCHANGED <<then, method, key, before, result, book, fromList, start, overtaken>>
         /\ todo' = <<>> /\ pages' = <<>> /\ readers' = <<>> /\ reports' = <<>>
         /\ listener' = NoOpening /\ pageOf' = [o \in Openings |-> 0]
         /\ stage' = [o \in Openings |-> IF stage[o] \in {"looking", "seeking"}
                                         THEN "nothing" ELSE stage[o]]
         /\ \A d \in Calls : pc'[d] = IF pc[d] \in Active THEN "killed" ELSE pc[d]
<1>1. /\ Kill \/ (Quiet /\ UNCHANGED vars)
      /\ UNCHANGED <<then, book, fromList, start, overtaken>>
      /\ todo' = <<>> /\ pages' = <<>> /\ readers' = <<>> /\ reports' = <<>>
      /\ listener' = NoOpening /\ pageOf' = [o \in Openings |-> 0]
      /\ stage' = [o \in Openings |-> IF stage[o] \in {"looking", "seeking"}
                                      THEN "nothing" ELSE stage[o]]
  BY DEF KillApp, KillCaller
<1>2. CASE Kill
  BY <1>1, <1>2 DEF Kill, Inv, TypeOK
<1>3. CASE Quiet /\ UNCHANGED vars
  BY <1>1, <1>3 DEF Quiet, vars
<1> QED
  BY <1>1, <1>2, <1>3

\* A step of the user, or of what runs between two calls.
Tap ==
  \/ \E p \in Books \union {"downloads"} : OpenPage(p)
  \/ Back \/ CloseReader \/ Deliver
  \/ \E o \in Openings : TapRead(o) \/ Looked(o) \/ \E k \in Books : TapRow(o, k)

\* A step is a tap, a call, a step of a session, a return, a stop or none.
LEMMA StepCases ==
  ASSUME [ReaderNext]_allVars
  PROVE  \/ Tap \/ (MakeCall /\ UNCHANGED readerVars)
         \/ \E c \in Calls : Session(c) /\ UNCHANGED readerVars
         \/ \E c \in Calls : Return(c)
         \/ KillApp \/ UNCHANGED allVars
  BY DEF ReaderNext, Tap

\* Taps leave the store and the purposes alone.
LEMMA TapFacts == Tap => UNCHANGED <<vars, then>>
  BY DEF Tap, OpenPage, Back, CloseReader, Deliver, TapRead, Looked, TapRow, callerVars

\* What the application does is, for the store, a call, a step of one or a stop.
LEMMA StoreStep ==
  ASSUME Shape, Inv, [ReaderNext]_allVars
  PROVE  [Next]_vars
<1>1. CASE UNCHANGED allVars
  BY <1>1 DEF allVars
<1>2. CASE MakeCall
  <2>1. "EbookLocator.getLocator" \in Methods /\ "EbookLocator.updateItem" \in Methods
    BY ReaderAssumption DEF ReaderMethods
  <2>2. \E c \in Calls, m \in Methods, k \in Keys : Call(c, m, k)
    BY <1>2, <2>1, CallCases
  <2> QED
    BY <2>2 DEF Next
<1>3. ASSUME NEW c \in Calls, Session(c) PROVE Next
  BY <1>3, SessionFacts DEF Next, Shape
<1>4. ASSUME NEW c \in Calls, Return(c) PROVE Next
  BY <1>4, ReturnFacts DEF Next
<1>5. CASE KillApp
  BY <1>5, KillFacts DEF Next
<1>6. CASE Tap
  BY <1>6, TapFacts
<1> QED
  BY <1>1, <1>2, <1>3, <1>4, <1>5, <1>6, StepCases

-----------------------------------------------------------------------------
(* The shape is kept. *)

Rng(s) == {s[i] : i \in DOMAIN s}

\* What is in a sequence that grows at its end or loses one.
LEMMA SeqFacts ==
  ASSUME NEW S, NEW s \in Seq(S)
  PROVE  /\ Rng(s) \subseteq S /\ Rng(<<>>) = {}
         /\ \A x \in S : /\ Append(s, x) \in Seq(S) /\ Len(Append(s, x)) = Len(s) + 1
                         /\ Rng(Append(s, x)) = Rng(s) \union {x}
         /\ s # <<>> =>
              /\ s[Len(s)] \in Rng(s) /\ Head(s) \in Rng(s)
              /\ SubSeq(s, 1, Len(s) - 1) \in Seq(S) /\ Rng(SubSeq(s, 1, Len(s) - 1)) \subseteq Rng(s)
              /\ Len(SubSeq(s, 1, Len(s) - 1)) = Len(s) - 1
              /\ Tail(s) \in Seq(S) /\ Rng(Tail(s)) \subseteq Rng(s)
<1>1. Rng(s) \subseteq S /\ Rng(<<>>) = {}
  BY DEF Rng
<1>2. ASSUME NEW x \in S
      PROVE  /\ Append(s, x) \in Seq(S) /\ Len(Append(s, x)) = Len(s) + 1
             /\ Rng(Append(s, x)) = Rng(s) \union {x}
  <2>1. /\ Append(s, x) \in Seq(S) /\ Len(Append(s, x)) = Len(s) + 1 /\ Len(s) \in Nat
        /\ \A i \in 1..Len(s) : Append(s, x)[i] = s[i]
        /\ Append(s, x)[Len(s) + 1] = x
    OBVIOUS
  <2>2. DOMAIN s = 1..Len(s) /\ DOMAIN Append(s, x) = 1..(Len(s) + 1)
    BY <2>1
  <2> QED
    BY <2>1, <2>2 DEF Rng
<1>3. ASSUME s # <<>>
      PROVE  /\ s[Len(s)] \in Rng(s) /\ Head(s) \in Rng(s)
             /\ SubSeq(s, 1, Len(s) - 1) \in Seq(S) /\ Rng(SubSeq(s, 1, Len(s) - 1)) \subseteq Rng(s)
             /\ Len(SubSeq(s, 1, Len(s) - 1)) = Len(s) - 1
             /\ Tail(s) \in Seq(S) /\ Rng(Tail(s)) \subseteq Rng(s)
  <2>1. Len(s) \in Nat \ {0} /\ DOMAIN s = 1..Len(s) /\ \A i \in 1..Len(s) : s[i] \in S
    BY <1>3
  <2>2. \A n \in Nat \ {0} : n \in 1..n /\ 1 \in 1..n /\ (IF 1 <= n - 1 THEN n - 1 - 1 + 1 ELSE 0) = n - 1
    OBVIOUS
  <2>3. s[Len(s)] \in Rng(s) /\ Head(s) \in Rng(s)
    BY <1>3, <2>1, <2>2 DEF Rng
  <2> DEFINE t == SubSeq(s, 1, Len(s) - 1)
  <2>4. t \in Seq(S)
    BY <2>1, SubSeqProperties
  <2>5. Len(t) = IF 1 <= Len(s) - 1 THEN Len(s) - 1 - 1 + 1 ELSE 0
    BY <2>1, SubSeqProperties
  <2>6. \A i \in 1..(Len(s) - 1 - 1 + 1) : t[i] = s[1 + i - 1]
    BY <2>1, SubSeqProperties
  <2> HIDE DEF t
  <2>7. Len(t) = Len(s) - 1 /\ DOMAIN t = 1..(Len(s) - 1) /\ \A i \in 1..(Len(s) - 1) : t[i] = s[i]
    <3>1. Len(t) = Len(s) - 1
      BY <2>1, <2>2, <2>5
    <3>2. Len(s) - 1 - 1 + 1 = Len(s) - 1 /\ \A i \in 1..(Len(s) - 1) : 1 + i - 1 = i
      BY <2>1
    <3>3. \A i \in 1..(Len(s) - 1) : t[i] = s[i]
      BY <2>6, <3>2
    <3>4. DOMAIN t = 1..Len(t)
      BY <2>4
    <3> QED
      BY <3>1, <3>3, <3>4
  <2>8. Rng(t) \subseteq Rng(s)
    BY <2>1, <2>7 DEF Rng
  <2>9. Tail(s) \in Seq(S) /\ Len(Tail(s)) = Len(s) - 1 /\ \A i \in 1..(Len(s) - 1) : Tail(s)[i] = s[i + 1]
    BY <1>3
  <2>10. Rng(Tail(s)) \subseteq Rng(s)
    BY <2>1, <2>9 DEF Rng
  <2> QED
    BY <2>3, <2>4, <2>7, <2>8, <2>9, <2>10 DEF t
<1> QED
  BY <1>1, <1>2, <1>3

\* An opening that has asked for its position keeps its book, and an opened
\* reader has been opened.
LEMMA OpeningStays ==
  ASSUME Shape, Inv, [ReaderNext]_allVars, NEW o \in Openings, stage[o] \notin {"unused", "looking"}
  PROVE  /\ stage'[o] \notin {"unused", "looking"} /\ book'[o] = book[o]
         /\ stage[o] = "opened" => stage'[o] = "opened"
         /\ o \in overtaken => o \in overtaken'
<1>1. /\ stage \in [Openings -> Stages] /\ book \in [Openings -> Books]
      /\ then \in [Calls -> Thens] /\ \A t \in Thens : t.by \in Openings
  BY ReaderAssumption DEF Shape, ReaderTypeOK, CallerTypeOK, ReaderThens
<1>2. CASE Tap
  BY <1>1, <1>2 DEF Tap, OpenPage, Back, CloseReader, Deliver, TapRead, Looked, TapRow, Stages
<1>3. CASE UNCHANGED readerVars
  BY <1>3 DEF readerVars
<1>4. ASSUME NEW c \in Calls, Return(c)
      PROVE  /\ stage'[o] \notin {"unused", "looking"} /\ book'[o] = book[o]
             /\ stage[o] = "opened" => stage'[o] = "opened"
             /\ o \in overtaken => o \in overtaken'
  <2>1. book' = book /\ pc[c] = "close"
    BY <1>4, ReturnFacts
  <2>2. CASE LocatorReturned(c)
    <3>1. then[c].do = "open" /\ stage[then[c].by] = "seeking"
      BY <2>1, <2>2 DEF LocatorReturned, Shape, OnceOK
    <3>2. /\ then[c].by \in Openings /\ overtaken \subseteq overtaken'
          /\ \E x \in {"opened", "nothing"} : stage' = [stage EXCEPT ![then[c].by] = x]
      BY <1>1, <2>2 DEF LocatorReturned
    <3> QED
      BY <1>1, <2>1, <3>1, <3>2
  <2>3. CASE Saved(c)
    BY <2>1, <2>3 DEF Saved
  <2> QED
    BY <1>4, <2>2, <2>3 DEF Return
<1>5. CASE KillApp
  BY <1>1, <1>5, KillFacts
<1>6. CASE UNCHANGED allVars
  BY <1>6, <1>3 DEF allVars, readerVars
<1> QED
  BY <1>2, <1>3, <1>4, <1>5, <1>6, StepCases

\* What an opening has asked for, or stores, stays right.
LEMMA RightStays ==
  ASSUME Shape, Inv, [ReaderNext]_allVars, NEW o \in Openings, NEW k
  PROVE  /\ Seeking(k, o) => Seeking(k, o)'
         /\ Saving(k, o) => Saving(k, o)'
  BY OpeningStays DEF Seeking, Saving

\* What a made call is for does not change.
LEMMA PurposeStays ==
  ASSUME Shape, Inv, [ReaderNext]_allVars, NEW c \in Calls, pc[c] # "idle"
  PROVE  then'[c] = then[c]
<1>1. CASE MakeCall
  BY <1>1 DEF MakeCall, Call, Shape, ReaderTypeOK, CallerTypeOK
<1>2. CASE ~MakeCall
  BY <1>2, StepCases, TapFacts, SessionFacts, ReturnFacts, KillFacts
     DEF Shape, allVars, callerVars, Session, Return, KillApp, KillCaller
<1> QED
  BY <1>1, <1>2

\* The purposes of the calls stay right.
LEMMA ThenStep ==
  ASSUME Shape, Inv, [ReaderNext]_allVars
  PROVE  ThenOK'
<1>1. \A c \in Calls : then[c].by \in Openings
  BY ReaderAssumption DEF Shape, ReaderTypeOK, CallerTypeOK, ReaderThens
<1>2. ASSUME NEW c \in Calls, pc[c] # "idle"
      PROVE  \/ /\ method'[c] = "EbookLocator.getLocator" /\ then'[c].do = "open"
                /\ Seeking(key[c], then[c].by)'
             \/ /\ method'[c] = "EbookLocator.updateItem" /\ then'[c].do = "saved"
                /\ Saving(key[c], then[c].by)'
  <2>1. then'[c] = then[c] /\ method'[c] = method[c] /\ key'[c] = key[c]
    BY <1>2, PurposeStays, StoreStep, MadeStays
  <2>2. then[c].by \in Openings
    BY <1>1
  <2>3. /\ Seeking(key[c], then[c].by) => Seeking(key[c], then[c].by)'
        /\ Saving(key[c], then[c].by) => Saving(key[c], then[c].by)'
    BY <2>1, <2>2, OpeningStays DEF Seeking, Saving
  <2> QED
    BY <1>2, <2>1, <2>3 DEF Shape, ThenOK
<1>3. CASE MakeCall /\ UNCHANGED readerVars
  <2>1. PICK c \in Calls, k \in Keys, o \in Openings :
          \/ /\ Call(c, "EbookLocator.getLocator", k)
             /\ then' = [then EXCEPT ![c] = After("open", o)]
             /\ stage[o] = "seeking" /\ k = book[o]
          \/ /\ Call(c, "EbookLocator.updateItem", k)
             /\ then' = [then EXCEPT ![c] = After("saved", o)]
             /\ Saving(k, o)
    BY <1>3, CallCases
  <2>2. /\ key'[c] = k /\ \A d \in Calls \ {c} : pc'[d] = pc[d]
        /\ \/ /\ method'[c] = "EbookLocator.getLocator" /\ then'[c] = After("open", o)
              /\ stage[o] = "seeking" /\ k = book[o]
           \/ /\ method'[c] = "EbookLocator.updateItem" /\ then'[c] = After("saved", o)
              /\ Saving(k, o)
    BY <2>1 DEF Call, Shape, ReaderTypeOK, CallerTypeOK, TypeOK
  <2>3. UNCHANGED <<stage, book, overtaken>>
    BY <1>3 DEF readerVars
  <2>4. \/ /\ method'[c] = "EbookLocator.getLocator" /\ then'[c].do = "open"
           /\ Seeking(key[c], then[c].by)'
        \/ /\ method'[c] = "EbookLocator.updateItem" /\ then'[c].do = "saved"
           /\ Saving(key[c], then[c].by)'
    BY <2>2, <2>3 DEF After, Seeking, Saving
  <2> QED
    BY <1>2, <2>2, <2>4 DEF ThenOK
<1>4. CASE ~(MakeCall /\ UNCHANGED readerVars)
  <2>1. ASSUME NEW c \in Calls PROVE pc'[c] # "idle" => pc[c] # "idle"
    BY <1>4, StepCases, TapFacts, SessionFacts, ReturnFacts, KillFacts DEF Shape, allVars, vars
  <2> QED
    BY <1>2, <2>1 DEF ThenOK
<1> QED
  BY <1>3, <1>4

\* The types that the steps need.
LEMMA Typed ==
  ASSUME Shape
  PROVE  /\ stage \in [Openings -> Stages] /\ book \in [Openings -> Books]
         /\ pageOf \in [Openings -> 0..MaxPages] /\ start \in [Openings -> SUBSET Calls]
         /\ readers \in Seq(Openings) /\ reports \in Seq(Openings)
         /\ pages \in Seq(Books \union {"downloads"}) /\ Len(pages) <= MaxPages
         /\ then \in [Calls -> Thens] /\ \A c \in Calls : then[c].by \in Openings
         /\ Books \subseteq Keys /\ NoKey \in Keys /\ NoOpening \notin Openings
         /\ MaxPages \in Nat \ {0}
         /\ Unreported = Rng(readers) \union Rng(reports) /\ Unreported \subseteq Openings
         /\ pc \in [Calls -> {"idle"} \union Active \union Ended]
<1>1. Unreported = Rng(readers) \union Rng(reports)
  BY DEF Unreported, Rng
<1>2. Rng(readers) \subseteq Openings /\ Rng(reports) \subseteq Openings
  BY SeqFacts DEF Shape, ReaderTypeOK
<1>3. then \in [Calls -> Thens] /\ \A t \in Thens : t.by \in Openings
  BY ReaderAssumption DEF Shape, ReaderTypeOK, CallerTypeOK, ReaderThens
<1> QED
  BY <1>1, <1>2, <1>3, ReaderAssumption DEF Shape, ReaderTypeOK, TypeOK, Books

\* An opening still asks for its position once.
LEMMA OnceStep ==
  ASSUME Shape, Inv, [ReaderNext]_allVars
  PROVE  OnceOK'
<1>1. OnceOK /\ ThenOK /\ TodoOK
  BY DEF Shape
<1>2. CASE Tap
  <2>1. UNCHANGED <<pc, then>>
    BY <1>2, TapFacts DEF vars
  <2>2. \A o \in Openings : stage[o] = "seeking" => stage'[o] = "seeking"
    BY <1>2, Typed DEF Tap, OpenPage, Back, CloseReader, Deliver, TapRead, Looked, TapRow
  <2>3. ASSUME NEW k \in Keys, NEW o \in Openings, todo' = Seeks(k, o)
        PROVE  \A c \in Calls : pc[c] # "idle" /\ then[c].do = "open" => then[c].by # o
    <3>1. CASE todo' = todo
      BY <1>1, <2>3, <3>1 DEF OnceOK
    <3>2. CASE todo' # todo
      <4>1. \/ Deliver
            \/ \E p \in Openings : Looked(p) \/ \E j \in Books : TapRow(p, j)
        BY <1>2, <3>2 DEF Tap, OpenPage, Back, CloseReader, TapRead, callerVars
      <4>2. ~Deliver
        <5>1. Deliver => todo' = Saves(BookOf(listener), Head(reports))
          BY DEF Deliver, Saves
        <5> QED
          BY <2>3, <5>1, Stretches
      <4>3. PICK p \in Openings : Looked(p) \/ \E j \in Books : TapRow(p, j)
        BY <4>1, <4>2
      <4>4. stage[p] \in {"looking", "unused"} /\ \E j : todo' = Seeks(j, p)
        BY <3>2, <4>3 DEF Looked, TapRow, Seeks
      <4>5. p = o
        BY <2>3, <4>4, Stretches
      <4> QED
        BY <1>1, <4>4, <4>5 DEF ThenOK, Seeking
    <3> QED
      BY <3>1, <3>2
  <2> QED
    BY <1>1, <2>1, <2>2, <2>3, Typed DEF OnceOK
<1>3. CASE MakeCall /\ UNCHANGED readerVars
  <2>1. PICK c \in Calls, k \in Keys, o \in Openings :
          /\ todo' = <<>>
          /\ \/ /\ Call(c, "EbookLocator.getLocator", k) /\ todo = Seeks(k, o)
                /\ then' = [then EXCEPT ![c] = After("open", o)]
                /\ stage[o] = "seeking"
             \/ /\ Call(c, "EbookLocator.updateItem", k)
                /\ then' = [then EXCEPT ![c] = After("saved", o)]
    BY <1>3, CallCases
  <2>2. pc'[c] = "path" /\ \A d \in Calls \ {c} : pc'[d] = pc[d] /\ then'[d] = then[d]
    BY <2>1, Typed DEF Call
  <2>3. \/ /\ todo = Seeks(k, o) /\ stage[o] = "seeking"
           /\ then'[c].do = "open" /\ then'[c].by = o
        \/ then'[c].do # "open"
    BY <2>1, Typed DEF After
  <2>4. \A j \in Keys, p \in Openings : todo' # Seeks(j, p)
    BY <2>1, Stretches
  <2>5. stage' = stage
    BY <1>3 DEF readerVars
  <2>6. \A d \in Calls \ {c} : pc'[d] # "idle" /\ then'[d].do = "open" /\ then'[c].do = "open" =>
          then'[d].by # then'[c].by
    BY <1>1, <2>2, <2>3 DEF OnceOK
  <2>7. \A d \in Calls : pc'[d] \in Active /\ then'[d].do = "open" => stage'[then'[d].by] = "seeking"
    BY <1>1, <2>2, <2>3, <2>5 DEF OnceOK
  <2>8. \A d, e \in Calls :
          /\ pc'[d] # "idle" /\ then'[d].do = "open" /\ pc'[e] # "idle" /\ then'[e].do = "open"
          /\ then'[d].by = then'[e].by
          => d = e
    BY <1>1, <2>2, <2>6 DEF OnceOK
  <2> QED
    BY <2>4, <2>7, <2>8 DEF OnceOK
<1>4. ASSUME NEW c \in Calls, Session(c) /\ UNCHANGED readerVars
      PROVE  OnceOK'
  <2>1. /\ UNCHANGED <<todo, then, stage>> /\ pc[c] \in Active /\ pc'[c] \in Active
        /\ \A d \in Calls \ {c} : pc'[d] = pc[d]
    BY <1>1, <1>4, SessionFacts DEF readerVars
  <2>2. \A d \in Calls : pc'[d] \in Active <=> pc[d] \in Active
    BY <2>1
  <2>3. \A d \in Calls : pc'[d] # "idle" <=> pc[d] # "idle"
    BY <2>1
  <2> QED
    BY <1>1, <2>1, <2>2, <2>3 DEF OnceOK
<1>5. ASSUME NEW c \in Calls, Return(c)
      PROVE  OnceOK'
  <2>1. /\ todo' = <<>> /\ then' = then /\ pc[c] = "close" /\ pc'[c] = "returned"
        /\ \A d \in Calls \ {c} : pc'[d] = pc[d]
    BY <1>5, ReturnFacts
  <2>2. ASSUME NEW d \in Calls \ {c}, pc[d] \in Active, then[d].do = "open"
        PROVE  stage'[then[d].by] = stage[then[d].by]
    <3>1. then[c].do = "open" => then[c].by # then[d].by
      BY <1>1, <2>1, <2>2 DEF OnceOK
    <3>2. LocatorReturned(c) \/ Saved(c)
      BY <1>5 DEF Return
    <3> QED
      BY <3>1, <3>2, Typed DEF LocatorReturned, Saved
  <2>3. \A d \in Calls : pc'[d] \in Active /\ then'[d].do = "open" => stage'[then'[d].by] = "seeking"
    BY <1>1, <2>1, <2>2 DEF OnceOK
  <2>4. \A k \in Keys, o \in Openings : todo' # Seeks(k, o)
    BY <2>1, Stretches
  <2>5. \A d \in Calls : pc'[d] # "idle" => pc[d] # "idle"
    BY <2>1
  <2> QED
    BY <1>1, <2>1, <2>3, <2>4, <2>5 DEF OnceOK
<1>6. CASE KillApp
  <2>1. /\ todo' = <<>> /\ then' = then
        /\ \A d \in Calls : pc'[d] = IF pc[d] \in Active THEN "killed" ELSE pc[d]
    BY <1>6, KillFacts
  <2>2. \A d \in Calls : pc'[d] \notin Active /\ (pc'[d] # "idle" => pc[d] # "idle")
    BY <2>1
  <2>3. \A k \in Keys, o \in Openings : todo' # Seeks(k, o)
    BY <2>1, Stretches
  <2> QED
    BY <1>1, <2>1, <2>2, <2>3 DEF OnceOK
<1>7. CASE UNCHANGED allVars
  BY <1>1, <1>7 DEF allVars, vars, callerVars, readerVars, OnceOK, Seeks, getLocator, Request, After
<1> QED
  BY <1>2, <1>3, <1>4, <1>5, <1>6, <1>7, StepCases

\* What a stretch has still to call stays right.
LEMMA TodoStep ==
  ASSUME Shape, Inv, [ReaderNext]_allVars
  PROVE  TodoOK'
<1>1. CASE todo' = <<>>
  BY <1>1 DEF TodoOK
<1>2. CASE todo' = todo /\ UNCHANGED <<stage, book, overtaken>>
  BY <1>2 DEF Shape, TodoOK, Seeks, Saves, Saving, getLocator, updateItem, Request, After
<1>3. CASE Tap
  <2>1. CASE \E o \in Openings : Looked(o)
    <3>1. PICK o \in Openings : Looked(o)
      BY <2>1
    <3>2. todo' = <<>> \/ (todo' = Seeks(book[o], o) /\ stage'[o] = "seeking" /\ book' = book)
      BY <3>1, Typed DEF Looked, Starts, Idle, Seeks
    <3>3. book[o] \in Keys
      BY Typed
    <3>4. CASE todo' = Seeks(book[o], o) /\ stage'[o] = "seeking" /\ book' = book
      BY <3>3, <3>4 DEF TodoOK, Seeks, getLocator, Request, After
    <3> QED
      BY <1>1, <3>2, <3>4
  <2>2. CASE \E o \in Openings, k \in Books : TapRow(o, k)
    <3>1. PICK o \in Openings, k \in Books : TapRow(o, k)
      BY <2>2
    <3>2. todo' = Seeks(k, o) /\ stage'[o] = "seeking" /\ book'[o] = k /\ k \in Keys
      BY <3>1, Typed DEF TapRow, Seeks
    <3> QED
      BY <3>2 DEF TodoOK, Seeks, getLocator, Request, After
  <2>3. CASE Deliver
    <3>1. /\ todo' = Saves(BookOf(listener), Head(reports))
          /\ UNCHANGED <<stage, book, overtaken>> /\ reports # <<>>
      BY <2>3 DEF Deliver, Saves
    <3>2. Head(reports) \in Unreported
      BY <3>1, Typed, SeqFacts
    <3>3. stage[Head(reports)] = "opened" /\ listener \in Openings
          /\ (Head(reports) = listener \/ Head(reports) \in overtaken)
      BY <3>2 DEF Shape, ReportsOK
    <3>4. BookOf(listener) \in Keys /\ Head(reports) \in Openings
      BY <3>2, <3>3, Typed DEF BookOf
    <3>5. PICK k \in Keys, o \in Openings : k = BookOf(listener) /\ o = Head(reports)
      BY <3>4
    <3>6. Saving(k, o)'
      BY <3>1, <3>3, <3>5, Typed DEF Saving, BookOf
    <3> QED
      BY <1>1, <3>1, <3>5, <3>6 DEF TodoOK, Saves, updateItem, Request, After
  <2>4. CASE ~Deliver /\ ~(\E o \in Openings : Looked(o) \/ \E k \in Books : TapRow(o, k))
    <3>1. \/ todo' = todo /\ UNCHANGED <<stage, book, overtaken>>
          \/ todo' = <<>>
      BY <1>3, <2>4 DEF Tap, OpenPage, Back, CloseReader, TapRead, callerVars, Uncovered, Idle
    <3> QED
      BY <1>1, <1>2, <3>1
  <2> QED
    BY <2>1, <2>2, <2>3, <2>4
<1>4. CASE MakeCall /\ UNCHANGED readerVars
  BY <1>1, <1>4, CallCases
<1>5. ASSUME NEW c \in Calls, (Session(c) /\ UNCHANGED readerVars) \/ Return(c)
      PROVE  TodoOK'
  BY <1>1, <1>5, SessionFacts, ReturnFacts DEF Shape
<1>6. CASE KillApp
  BY <1>1, <1>6, KillFacts
<1>7. CASE UNCHANGED allVars
  BY <1>2, <1>7 DEF allVars, callerVars, readerVars
<1> QED
  BY <1>3, <1>4, <1>5, <1>6, <1>7, StepCases

\* What is reported is the listener's, or another reader was opened since.
LEMMA ReportsStep ==
  ASSUME Shape, Inv, [ReaderNext]_allVars
  PROVE  ReportsOK'
<1>1. ReportsOK /\ OnceOK
  BY DEF Shape
<1>2. \A o \in Openings : stage[o] = "opened" => stage'[o] = "opened" /\ (o \in overtaken => o \in overtaken')
  BY OpeningStays
<1>3. ASSUME listener' = listener, Unreported' \subseteq Unreported
      PROVE  ReportsOK'
  BY <1>1, <1>2, <1>3, Typed DEF ReportsOK
<1>4. Unreported' = Rng(readers') \union Rng(reports')
  BY DEF Unreported, Rng
<1>5. CASE UNCHANGED <<readers, reports, listener>>
  BY <1>3, <1>4, <1>5, Typed
<1>6. CASE Tap
  <2>1. CASE CloseReader
    <3>1. /\ readers # <<>> /\ listener' = listener /\ readers' = SubSeq(readers, 1, Len(readers) - 1)
          /\ reports' = Append(reports, readers[Len(readers)])
      BY <2>1 DEF CloseReader
    <3>2. /\ readers[Len(readers)] \in Rng(readers) /\ readers[Len(readers)] \in Openings
          /\ Rng(readers') \subseteq Rng(readers)
      BY <3>1, Typed, SeqFacts
    <3>3. Rng(reports') = Rng(reports) \union {readers[Len(readers)]}
      BY <3>1, <3>2, Typed, SeqFacts
    <3> QED
      BY <1>3, <1>4, <3>1, <3>2, <3>3, Typed
  <2>2. CASE Deliver
    <3>1. reports # <<>> /\ listener' = listener /\ readers' = readers /\ reports' = Tail(reports)
      BY <2>2 DEF Deliver
    <3>2. Rng(reports') \subseteq Rng(reports)
      BY <3>1, Typed, SeqFacts
    <3> QED
      BY <1>3, <1>4, <3>1, <3>2, Typed
  <2>3. CASE ~CloseReader /\ ~Deliver
    BY <1>5, <1>6, <2>3 DEF Tap, OpenPage, Back, TapRead, Looked, TapRow
  <2> QED
    BY <2>1, <2>2, <2>3
<1>7. CASE UNCHANGED readerVars
  BY <1>5, <1>7 DEF readerVars
<1>8. ASSUME NEW c \in Calls, Return(c)
      PROVE  ReportsOK'
  <2>1. reports' = reports /\ pc[c] = "close"
    BY <1>8, ReturnFacts
  <2>2. CASE Saved(c)
    BY <1>5, <2>1, <2>2 DEF Saved
  <2>3. CASE LocatorReturned(c)
    <3>1. PICK o \in Openings : o = then[c].by
      BY Typed
    <3>2. CASE stage'[o] = "opened"
      <4>1. /\ stage'[o] = "opened" /\ readers' = Append(readers, o) /\ listener' = o
            /\ overtaken' = overtaken \union Unreported
        BY <2>3, <3>1, <3>2, Typed DEF LocatorReturned
      <4>2. Unreported' = Unreported \union {o}
        BY <1>4, <2>1, <4>1, Typed, SeqFacts
      <4>3. \A p \in Unreported : p \in Openings /\ stage'[p] = "opened" /\ p \in overtaken'
        BY <1>1, <1>2, <4>1, Typed DEF ReportsOK
      <4> QED
        BY <4>1, <4>2, <4>3 DEF ReportsOK
    <3>3. CASE stage'[o] # "opened"
      BY <1>5, <2>1, <2>3, <3>1, <3>3, Typed DEF LocatorReturned
    <3> QED
      BY <3>2, <3>3
  <2> QED
    BY <1>8, <2>2, <2>3 DEF Return
<1>9. CASE KillApp
  <2>1. listener' = NoOpening /\ Rng(readers') = {} /\ Rng(reports') = {}
    BY <1>9, KillFacts DEF Rng
  <2> QED
    BY <1>4, <2>1, Typed DEF ReportsOK
<1>10. CASE UNCHANGED allVars
  BY <1>5, <1>10 DEF allVars, readerVars
<1> QED
  BY <1>6, <1>7, <1>8, <1>9, <1>10, StepCases

\* The types are kept.
LEMMA TypeStep ==
  ASSUME Shape, Inv, Inv', [ReaderNext]_allVars
  PROVE  ReaderTypeOK'
<1>1. TypeOK' /\ ReaderTypeOK
  BY DEF Inv, Shape
<1>2. CallerTypeOK'
  <2>1. todo' \in Seq([m : Methods, k : Keys, t : Thens])
    <3>1. TodoOK'
      BY TodoStep
    <3>2. todo' = <<>> \/ \E k \in Keys, o \in Openings : todo' = Seeks(k, o) \/ todo' = Saves(k, o)
      BY <3>1 DEF TodoOK, Seeks, Saves, getLocator, updateItem, Request, After
    <3>3. ASSUME NEW k \in Keys, NEW o \in Openings
          PROVE  /\ Seeks(k, o) \in Seq([m : Methods, k : Keys, t : Thens])
                 /\ Saves(k, o) \in Seq([m : Methods, k : Keys, t : Thens])
      BY StretchTypes
    <3>4. <<>> \in Seq([m : Methods, k : Keys, t : Thens])
      OBVIOUS
    <3> QED
      BY <3>2, <3>3, <3>4
  <2>2. then' \in [Calls -> Thens]
    <3>1. CASE MakeCall
      <4>1. \A o \in Openings : After("open", o) \in Thens /\ After("saved", o) \in Thens
        BY ReaderAssumption DEF After, ReaderThens
      <4> QED
        BY <3>1, <4>1, CallCases, Typed
    <3>2. CASE ~MakeCall
      BY <3>2, StepCases, TapFacts, SessionFacts, ReturnFacts, KillFacts, Typed
         DEF Shape, allVars, callerVars
    <3> QED
      BY <3>1, <3>2
  <2> QED
    BY <2>1, <2>2 DEF CallerTypeOK
<1>3. ASSUME UNCHANGED readerVars
      PROVE  ReaderTypeOK'
  BY <1>1, <1>2, <1>3 DEF ReaderTypeOK, readerVars
<1>4. CASE Tap
  <2>1. CASE \E p \in Books \union {"downloads"} : OpenPage(p)
    <3>1. PICK p \in Books \union {"downloads"} : OpenPage(p)
      BY <2>1
    <3>2. /\ pages' \in Seq(Books \union {"downloads"}) /\ Len(pages') = Len(pages) + 1
          /\ Len(pages) < MaxPages /\ Len(pages) \in Nat
      BY <3>1, Typed, SeqFacts DEF OpenPage
    <3>3. Len(pages') <= MaxPages
      BY <3>2, Typed
    <3> QED
      BY <1>1, <1>2, <3>1, <3>2, <3>3 DEF ReaderTypeOK, OpenPage
  <2>2. CASE Back
    <3>1. /\ pages' \in Seq(Books \union {"downloads"}) /\ Len(pages') = Len(pages) - 1
          /\ Len(pages) \in Nat
      BY <2>2, Typed, SeqFacts DEF Back
    <3>2. Len(pages') <= MaxPages
      BY <3>1, Typed
    <3>3. pageOf' \in [Openings -> 0..MaxPages]
      BY <2>2, Typed DEF Back
    <3> QED
      BY <1>1, <1>2, <2>2, <3>1, <3>2, <3>3 DEF ReaderTypeOK, Back
  <2>3. CASE CloseReader
    <3>1. readers # <<>>
      BY <2>3 DEF CloseReader
    <3>2. readers[Len(readers)] \in Openings /\ SubSeq(readers, 1, Len(readers) - 1) \in Seq(Openings)
      BY <3>1, Typed, SeqFacts
    <3>3. readers' \in Seq(Openings) /\ reports' \in Seq(Openings)
      BY <2>3, <3>2, Typed, SeqFacts DEF CloseReader
    <3> QED
      BY <1>1, <1>2, <2>3, <3>3 DEF ReaderTypeOK, CloseReader
  <2>4. CASE Deliver
    <3>1. reports' \in Seq(Openings)
      BY <2>4, Typed, SeqFacts DEF Deliver
    <3> QED
      BY <1>1, <1>2, <2>4, <3>1 DEF ReaderTypeOK, Deliver
  <2>5. ASSUME NEW o \in Openings, TapRead(o) PROVE ReaderTypeOK'
    <3>1. Len(pages) \in 1..MaxPages /\ pages[Len(pages)] \in Books
      <4>1. pages # <<>> /\ pages[Len(pages)] # "downloads"
        BY <2>5 DEF TapRead
      <4>2. pages[Len(pages)] \in Books \union {"downloads"} /\ Len(pages) \in Nat \ {0}
        BY <4>1, Typed
      <4> QED
        BY <4>1, <4>2, Typed
    <3>2. /\ stage' \in [Openings -> Stages] /\ book' \in [Openings -> Books]
          /\ pageOf' \in [Openings -> 0..MaxPages]
      BY <2>5, <3>1, Typed DEF TapRead, Stages
    <3> QED
      BY <1>1, <1>2, <2>5, <3>2 DEF ReaderTypeOK, TapRead
  <2>6. ASSUME NEW o \in Openings, Looked(o) PROVE ReaderTypeOK'
    <3>1. stage' \in [Openings -> Stages]
      BY <2>6, Typed DEF Looked, Stages
    <3> QED
      BY <1>1, <1>2, <2>6, <3>1 DEF ReaderTypeOK, Looked
  <2>7. ASSUME NEW o \in Openings, NEW k \in Books, TapRow(o, k) PROVE ReaderTypeOK'
    <3>1. 1 \in 0..MaxPages
      BY Typed
    <3>2. /\ stage' \in [Openings -> Stages] /\ book' \in [Openings -> Books]
          /\ pageOf' \in [Openings -> 0..MaxPages] /\ fromList' \in SUBSET Openings
      BY <1>1, <2>7, <3>1, Typed DEF TapRow, Stages, ReaderTypeOK
    <3> QED
      BY <1>1, <1>2, <2>7, <3>2 DEF ReaderTypeOK, TapRow
  <2> QED
    BY <1>4, <2>1, <2>2, <2>3, <2>4, <2>5, <2>6, <2>7 DEF Tap
<1>5. ASSUME NEW c \in Calls, Return(c)
      PROVE  ReaderTypeOK'
  <2>1. UNCHANGED <<pages, book, pageOf, fromList, reports>>
    BY <1>5, ReturnFacts
  <2>2. CASE Saved(c)
    BY <1>1, <1>2, <2>1, <2>2 DEF Saved, ReaderTypeOK
  <2>3. CASE LocatorReturned(c)
    <3>1. PICK o \in Openings : o = then[c].by
      BY Typed
    <3>2. stage' \in [Openings -> Stages]
      BY <2>3, <3>1, Typed DEF LocatorReturned, Stages
    <3>3. CASE stage'[o] = "opened"
      <4>1. \A d \in result[c] : d.by \in Calls
        BY DEF Inv, TypeOK, Document
      <4>2. PICK s \in IF result[c] = {} THEN {{}} ELSE {{d.by} : d \in result[c]} :
              start' = [start EXCEPT ![o] = s]
        BY <2>3, <3>1, <3>3, Typed DEF LocatorReturned
      <4>3. s \in SUBSET Calls
        BY <4>1, <4>2
      <4>4. start' \in [Openings -> SUBSET Calls]
        BY <4>2, <4>3, Typed
      <4>5. /\ readers' = Append(readers, o) /\ listener' = o
            /\ overtaken' = overtaken \union Unreported
        BY <2>3, <3>1, <3>3, Typed DEF LocatorReturned
      <4>6. readers' \in Seq(Openings) /\ overtaken' \in SUBSET Openings
        BY <1>1, <4>5, Typed, SeqFacts DEF ReaderTypeOK
      <4> QED
        BY <1>1, <1>2, <2>1, <3>2, <4>4, <4>5, <4>6 DEF ReaderTypeOK
    <3>4. CASE stage'[o] # "opened"
      BY <1>1, <1>2, <2>1, <2>3, <3>1, <3>2, <3>4, Typed DEF LocatorReturned, ReaderTypeOK
    <3> QED
      BY <3>3, <3>4
  <2> QED
    BY <1>5, <2>2, <2>3 DEF Return
<1>6. CASE KillApp
  <2>1. /\ UNCHANGED <<book, fromList, start, overtaken>>
        /\ pages' = <<>> /\ readers' = <<>> /\ reports' = <<>>
        /\ listener' = NoOpening /\ pageOf' = [o \in Openings |-> 0]
        /\ stage' = [o \in Openings |-> IF stage[o] \in {"looking", "seeking"}
                                        THEN "nothing" ELSE stage[o]]
    BY <1>6, KillFacts
  <2>2. stage' \in [Openings -> Stages] /\ pageOf' \in [Openings -> 0..MaxPages]
    BY <2>1, Typed DEF Stages
  <2>3. pages' \in Seq(Books \union {"downloads"}) /\ Len(pages') = 0 /\ 0 <= MaxPages
        /\ readers' \in Seq(Openings) /\ reports' \in Seq(Openings)
    BY <2>1, Typed
  <2> QED
    BY <1>1, <1>2, <2>1, <2>2, <2>3 DEF ReaderTypeOK
<1>7. CASE UNCHANGED allVars
  BY <1>3, <1>7 DEF allVars, readerVars
<1> QED
  BY <1>3, <1>4, <1>5, <1>6, <1>7, StepCases

\* Every step keeps the shape.
LEMMA ShapeStep == Shape /\ Inv /\ [ReaderNext]_allVars => Shape' /\ Inv'
<1> SUFFICES ASSUME Shape, Inv, [ReaderNext]_allVars PROVE Shape' /\ Inv'
  OBVIOUS
<1>1. Inv'
  BY StoreStep, InvStep
<1> QED
  BY <1>1, TypeStep, TodoStep, ThenStep, OnceStep, ReportsStep DEF Shape

LEMMA ShapeInit == ReaderInit => Shape /\ Inv
<1> SUFFICES ASSUME ReaderInit PROVE Shape /\ Inv
  OBVIOUS
<1>1. Inv /\ TypeOK
  BY InitInv DEF ReaderInit, Inv
<1>2. (CHOOSE k \in Books : TRUE) \in Books /\ (CHOOSE t \in Thens : TRUE) \in Thens
  BY ReaderAssumption, ThensAssumption DEF Books
<1>3. \A c \in Calls : pc[c] = "idle"
  BY DEF ReaderInit, Init
<1>4. ReaderTypeOK
  <2>1. CallerTypeOK
    BY <1>2 DEF ReaderInit, CallerTypeOK
  <2>2. Len(pages) = 0 /\ 0 <= MaxPages /\ 0 \in 0..MaxPages
    BY ReaderAssumption DEF ReaderInit
  <2> QED
    BY <1>1, <1>2, <2>1, <2>2 DEF ReaderInit, ReaderTypeOK, Stages
<1>5. Unreported = {}
  BY DEF ReaderInit, Unreported
<1>6. TodoOK /\ ThenOK /\ ReportsOK
  BY <1>3, <1>5, ReaderAssumption DEF ReaderInit, TodoOK, ThenOK, ReportsOK
<1>7. OnceOK
  BY <1>3 DEF OnceOK
<1> QED
  BY <1>1, <1>4, <1>6, <1>7 DEF Shape

LEMMA ShapeHolds == ReaderSpec => [](Shape /\ Inv)
  BY ShapeInit, ShapeStep, PTL DEF ReaderSpec

\* THEOREM: every variable of Reader keeps its type.
THEOREM ReaderTypeCorrect == ReaderSpec => []ReaderTypeOK
<1>1. Shape => ReaderTypeOK
  BY DEF Shape
<1> QED
  BY <1>1, ShapeHolds, PTL

\* THEOREM: reading books uses the store of the positions as EbookStore says
\* its callers do, so everything proved of a store holds of this one.
THEOREM ReaderImplementsStore == ReaderSpec => Spec
<1>1. ReaderInit => Init
  BY DEF ReaderInit
<1>2. Shape /\ Inv /\ [ReaderNext]_allVars => [Next]_vars
  BY StoreStep
<1> QED
  BY <1>1, <1>2, ShapeHolds, PTL DEF ReaderSpec, Spec

-----------------------------------------------------------------------------
(* Whose position is stored, and where a reader opens. *)

\* THEOREM: a position stored under a book was reported by a reader of that
\* book, unless another reader was opened before the report was delivered: any
\* number of readers, listeners and stops.
THEOREM PositionsAreOwn == ReaderSpec => []PositionIsOwn
<1>1. Shape /\ Inv /\ Origin /\ KeysOK => PositionIsOwn
  <2> SUFFICES ASSUME Shape, Inv, Origin, KeysOK, NEW d \in file, d.key # NoKey
               PROVE  book[then[d.by].by] = d.key \/ then[d.by].by \in overtaken
    BY DEF PositionIsOwn
  <2>1. d.by \in Calls /\ wrote[d.by] # "none" /\ d.key = key[d.by]
    BY DEF Origin, Traced, Written, TypeOK, Document
  <2>2. pc[d.by] # "idle" /\ method[d.by] \in Inserting \union Upserting
    BY <2>1 DEF Origin, WroteAtOp, KeysOK
  <2>3. method[d.by] # "EbookLocator.getLocator"
    BY <2>2 DEF Inserting, Upserting
  <2> QED
    BY <2>1, <2>2, <2>3 DEF Shape, ThenOK, Saving
<1> QED
  BY <1>1, ShapeHolds, ReaderImplementsStore, OriginHolds, KeysHold, PTL

\* A reader opened at a document that getLocator found, if it found one.
StartInv ==
  \A c \in Calls :
    pc[c] = "returned" /\ then[c].do = "open" /\ stage[then[c].by] = "opened" =>
      \E s \in IF result[c] = {} THEN {{}} ELSE {{d.by} : d \in result[c]} : start[then[c].by] = s

LEMMA StartStep == Shape /\ Inv /\ StartInv /\ [ReaderNext]_allVars => StartInv'
<1> SUFFICES ASSUME Shape, Inv, StartInv, [ReaderNext]_allVars,
                    NEW c \in Calls, pc'[c] = "returned", then'[c].do = "open",
                    stage'[then'[c].by] = "opened"
             PROVE  \E s \in IF result'[c] = {} THEN {{}} ELSE {{d.by} : d \in result'[c]} :
                      start'[then'[c].by] = s
  BY DEF StartInv
<1>1. CASE pc[c] = "returned"
  <2>1. then'[c] = then[c] /\ result'[c] = result[c]
    BY <1>1, PurposeStays, StoreStep, EndedStays
  <2>2. PICK o \in Openings : o = then[c].by
    BY Typed
  <2>3. stage[o] \notin {"unused", "looking"}
    <3>1. ThenOK /\ then[c].do = "open"
      BY <2>1 DEF Shape
    <3> QED
      BY <1>1, <2>2, <3>1 DEF ThenOK, Seeking, Saving
  <2>4. start'[o] = start[o] /\ stage[o] = "opened"
    <3>1. CASE Tap
      BY <2>1, <2>2, <2>3, <3>1, Typed
         DEF Tap, OpenPage, Back, CloseReader, Deliver, TapRead, Looked, TapRow
    <3>2. CASE UNCHANGED <<start, stage>>
      BY <2>1, <2>2, <3>2
    <3>3. ASSUME NEW b \in Calls, Return(b)
          PROVE  start'[o] = start[o] /\ stage[o] = "opened"
      <4>1. pc[b] = "close" /\ (LocatorReturned(b) \/ Saved(b))
        BY <3>3, ReturnFacts DEF Return
      <4>2. CASE Saved(b)
        BY <3>2, <4>2 DEF Saved
      <4>3. CASE LocatorReturned(b)
        <5>1. then[b].do = "open" /\ then[b].by # o
          BY <1>1, <2>1, <2>2, <4>1, <4>3 DEF Shape, OnceOK, LocatorReturned
        <5> QED
          BY <2>1, <2>2, <4>3, <5>1, Typed DEF LocatorReturned
      <4> QED
        BY <4>1, <4>2, <4>3
    <3>4. CASE KillApp
      BY <2>1, <2>2, <3>4, KillFacts, Typed
    <3>5. CASE UNCHANGED readerVars \/ UNCHANGED allVars
      BY <3>2, <3>5 DEF readerVars, allVars
    <3> QED
      BY <3>1, <3>3, <3>4, <3>5, StepCases
  <2> QED
    BY <1>1, <2>1, <2>2, <2>4 DEF StartInv
<1>2. CASE pc[c] # "returned"
  <2>1. ASSUME ~Return(c) PROVE FALSE
    <3>1. CASE Tap \/ UNCHANGED allVars
      BY <1>2, <3>1, TapFacts DEF vars, allVars
    <3>2. CASE MakeCall
      BY <1>2, <3>2, CallCases, Typed DEF Call
    <3>3. ASSUME NEW b \in Calls, Session(b) \/ (b # c /\ Return(b)) PROVE FALSE
      BY <1>2, <3>3, SessionFacts, ReturnFacts DEF Shape
    <3>4. CASE KillApp
      BY <1>2, <3>4, KillFacts
    <3> QED
      BY <2>1, <3>1, <3>2, <3>3, <3>4, StepCases
  <2>2. /\ then' = then /\ pc[c] = "close" /\ result' = result
        /\ LocatorReturned(c) \/ Saved(c)
    BY <2>1, ReturnFacts DEF Return
  <2>3. PICK o \in Openings : o = then[c].by
    BY Typed
  <2>4. LocatorReturned(c) /\ stage[o] = "seeking"
    BY <2>2, <2>3 DEF Saved, Shape, OnceOK
  <2>5. stage'[o] = "opened"
    BY <2>2, <2>3
  <2>6. PICK s \in IF result[c] = {} THEN {{}} ELSE {{d.by} : d \in result[c]} :
          start' = [start EXCEPT ![o] = s]
    BY <2>3, <2>4, <2>5, Typed DEF LocatorReturned
  <2> QED
    BY <2>2, <2>3, <2>6, Typed
<1> QED
  BY <1>1, <1>2

\* The application never removes a position, nor tidies the store of them.
LEMMA OnlyGrows == Shape => Untidied /\ Unremoved
  BY DEF Shape, ThenOK, Untidied, Unremoved, Tidying, Removing

\* THEOREM: a reader opens at the latest position stored for its book, or at
\* one stored at the same time.
THEOREM ResumesAtTheLatest == ReaderSpec => []ResumesWhereLeft
<1>1. ReaderInit => StartInv
  BY DEF ReaderInit, Init, StartInv
<1>2. ReaderSpec => []StartInv
  BY <1>1, StartStep, ShapeHolds, PTL DEF ReaderSpec
<1>3. Shape /\ Inv /\ StartInv /\ Origin /\ KeysOK /\ GrowInv => ResumesWhereLeft
  <2> SUFFICES ASSUME Shape, Inv, StartInv, Origin, KeysOK, GrowInv,
                      NEW c \in Calls, pc[c] = "returned", then[c].do = "open",
                      stage[then[c].by] = "opened",
                      NEW v \in before[c], method[v] \in Upserting, pc[v] = "returned", key[v] = key[c]
               PROVE  \E u \in start[then[c].by] : u = v \/ v \in before[u] \/ Concurrent(u, v)
    BY DEF ResumesWhereLeft
  <2>1. GrowOK
    BY OnlyGrows DEF GrowInv
  <2>2. method[c] = "EbookLocator.getLocator"
    BY DEF Shape, ThenOK
  <2>3. Answered(c) /\ Updating(v) /\ Selects(c, v) /\ method[c] \in Finding
    BY <2>2 DEF Answered, Updating, Selects, Finding
  <2>4. v \in Calls
    BY DEF Inv, TypeOK
  <2>5. Seen(result[c], v)
    BY <2>1, <2>3 DEF GrowOK
  <2>6. PICK d \in result[c] : start[then[c].by] = {d.by}
    BY <2>5 DEF Seen, StartInv
  <2>7. d.key = key[c]
    BY <2>2 DEF KeysOK, WholeStore
  <2>8. d.by \notin before[v]
    BY <2>5, <2>7 DEF Seen
  <2>9. d.by \in Calls /\ pc[d.by] # "idle"
    BY DEF Origin, Traced, Written, WroteAtOp, TypeOK, Document
  <2> QED
    BY <2>4, <2>6, <2>8, <2>9 DEF Concurrent
<1> QED
  BY <1>2, <1>3, ShapeHolds, ReaderImplementsStore, OriginHolds, KeysHold, GrowHolds, PTL

=============================================================================
