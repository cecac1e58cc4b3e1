--------------------------- MODULE FavoritesProofs ---------------------------
(***************************************************************************)
(* Proofs about Favorites, for any number of calls, books and stacked      *)
(* pages: the heart and the list of favourites tell what the store holds,  *)
(* and a book is a favourite once, up to the calls that overlap.           *)
(***************************************************************************)
EXTENDS Favorites, EbookStoreProofs, SequenceTheorems

USE DEF Active, Ended, Loaded, Operated

-----------------------------------------------------------------------------
(* What a stretch of code has still to call, and what the calls are for. *)

Checks(k)  == <<checkFav(k)>>
Removes(k) == <<Request("EbookFavorite.remove", k, "nothing"), checkFav(k)>>
Adds(k)    == <<Request("EbookFavorite.addFavorites", k, "checkFav")>>
Loads(k)   == <<Request("EbookFavorite.listAll", k, "addAll")>>

TodoOK == todo = <<>> \/ \E k \in Keys : todo \in {Checks(k), Removes(k), Adds(k), Loads(k)}

Purpose == [m \in FavoriteMethods |->
  CASE m = "EbookFavorite.addFavorites" -> "checkFav"
    [] m = "EbookFavorite.remove" -> "nothing"
    [] m = "EbookFavorite.listAll" -> "addAll"
    [] m = "EbookFavorite.check" -> "setFav"]

ThenOK == \A c \in Calls :
  pc[c] # "idle" => method[c] \in FavoriteMethods /\ then[c] = Purpose[method[c]]

\* The types, and the shape of the caller's state.
Shape == ViewTypeOK /\ TodoOK /\ ThenOK

\* The stretches differ by what they call, and are made call by call.
LEMMA Stretches ==
  /\ \A k : /\ Checks(k) # <<>> /\ Removes(k) # <<>> /\ Adds(k) # <<>> /\ Loads(k) # <<>>
            /\ Head(Checks(k)) = checkFav(k) /\ Tail(Checks(k)) = <<>>
            /\ Head(Removes(k)) = Request("EbookFavorite.remove", k, "nothing")
            /\ Tail(Removes(k)) = Checks(k)
            /\ Head(Adds(k)) = Request("EbookFavorite.addFavorites", k, "checkFav")
            /\ Tail(Adds(k)) = <<>>
            /\ Head(Loads(k)) = Request("EbookFavorite.listAll", k, "addAll")
            /\ Tail(Loads(k)) = <<>>
  /\ \A k, j : /\ Checks(k) # Removes(j) /\ Checks(k) # Adds(j) /\ Checks(k) # Loads(j)
               /\ Removes(k) # Adds(j) /\ Removes(k) # Loads(j) /\ Adds(k) # Loads(j)
               /\ Checks(k) = Checks(j) => k = j
               /\ Removes(k) = Removes(j) => k = j
               /\ Adds(k) = Adds(j) => k = j
<1>1. \A r, s : /\ <<r>> # <<>> /\ <<r, s>> # <<>> /\ Head(<<r>>) = r /\ Tail(<<r>>) = <<>>
                /\ Head(<<r, s>>) = r /\ Tail(<<r, s>>) = <<s>>
  OBVIOUS
<1>2. \A r, s, t : <<r>> # <<s, t>> /\ (<<r>> = <<s>> => r = s)
  OBVIOUS
<1>3. \A k, j : /\ checkFav(k).t = "setFav" /\ checkFav(k).k = k
                /\ Request("EbookFavorite.addFavorites", k, "checkFav").t = "checkFav"
                /\ Request("EbookFavorite.addFavorites", k, "checkFav").k = k
                /\ Request("EbookFavorite.listAll", k, "addAll").t = "addAll"
  BY DEF checkFav, Request
<1>4. \A r, s, t, u : <<r, s>> = <<t, u>> => s = u
  OBVIOUS
<1> QED
  BY <1>1, <1>2, <1>3, <1>4 DEF Checks, Removes, Adds, Loads

\* What each stretch is, as a sequence of requests.
LEMMA StretchTypes ==
  ASSUME NEW k \in Keys
  PROVE  {Checks(k), Removes(k), Adds(k), Loads(k)} \subseteq Seq([m : Methods, k : Keys, t : Thens])
<1>1. \A m \in Methods, t \in Thens : Request(m, k, t) \in [m : Methods, k : Keys, t : Thens]
  BY DEF Request
<1>2. /\ checkFav(k) \in [m : Methods, k : Keys, t : Thens]
      /\ Request("EbookFavorite.remove", k, "nothing") \in [m : Methods, k : Keys, t : Thens]
      /\ Request("EbookFavorite.addFavorites", k, "checkFav") \in [m : Methods, k : Keys, t : Thens]
      /\ Request("EbookFavorite.listAll", k, "addAll") \in [m : Methods, k : Keys, t : Thens]
  BY <1>1, FavoriteAssumption DEF checkFav, FavoriteMethods, FavoriteThens
<1> QED
  BY <1>2 DEF Checks, Removes, Adds, Loads

\* A call that is made is the next one of its stretch.
LEMMA CallCases ==
  ASSUME Shape, Inv, MakeCall
  PROVE  \E c \in Calls, k \in Keys, m \in FavoriteMethods :
           /\ m \in Methods
           /\ Call(c, m, k) /\ then' = [then EXCEPT ![c] = Purpose[m]]
           /\ \/ m = "EbookFavorite.check" /\ todo = Checks(k) /\ todo' = <<>>
              \/ m = "EbookFavorite.remove" /\ todo = Removes(k) /\ todo' = Checks(k)
              \/ m = "EbookFavorite.addFavorites" /\ todo = Adds(k) /\ todo' = <<>>
              \/ m = "EbookFavorite.listAll" /\ todo = Loads(k) /\ todo' = <<>>
<1>1. PICK k \in Keys : todo \in {Checks(k), Removes(k), Adds(k), Loads(k)}
  BY DEF MakeCall, Idle, Shape, TodoOK
<1>2. PICK c \in Calls : /\ Call(c, Head(todo).m, Head(todo).k)
                         /\ then' = [then EXCEPT ![c] = Head(todo).t]
  BY DEF MakeCall
<1>3. todo' = Tail(todo)
  BY DEF MakeCall
<1>4. \A m, t : Request(m, k, t).m = m /\ Request(m, k, t).k = k /\ Request(m, k, t).t = t
  BY DEF Request
<1>5. /\ Purpose["EbookFavorite.check"] = "setFav" /\ Purpose["EbookFavorite.remove"] = "nothing"
      /\ Purpose["EbookFavorite.addFavorites"] = "checkFav" /\ Purpose["EbookFavorite.listAll"] = "addAll"
  BY DEF Purpose, FavoriteMethods
<1>6. CASE todo = Checks(k)
  <2>1. Head(todo) = Request("EbookFavorite.check", k, Purpose["EbookFavorite.check"]) /\ Tail(todo) = <<>>
    BY <1>5, <1>6, Stretches DEF checkFav
  <2>4. /\ Head(todo).m = "EbookFavorite.check" /\ Head(todo).k = k
        /\ Head(todo).t = Purpose["EbookFavorite.check"]
    BY <1>4, <2>1
  <2>2. /\ Call(c, "EbookFavorite.check", k)
        /\ then' = [then EXCEPT ![c] = Purpose["EbookFavorite.check"]]
        /\ todo' = <<>>
    BY <1>2, <1>3, <2>1, <2>4
  <2>3. "EbookFavorite.check" \in FavoriteMethods /\ "EbookFavorite.check" \in Methods
    BY FavoriteAssumption DEF FavoriteMethods
  <2> QED
    BY <1>6, <2>2, <2>3
<1>7. CASE todo = Removes(k)
  <2>1. Head(todo) = Request("EbookFavorite.remove", k, Purpose["EbookFavorite.remove"]) /\ Tail(todo) = Checks(k)
    BY <1>5, <1>7, Stretches DEF checkFav
  <2>4. /\ Head(todo).m = "EbookFavorite.remove" /\ Head(todo).k = k
        /\ Head(todo).t = Purpose["EbookFavorite.remove"]
    BY <1>4, <2>1
  <2>2. /\ Call(c, "EbookFavorite.remove", k)
        /\ then' = [then EXCEPT ![c] = Purpose["EbookFavorite.remove"]]
        /\ todo' = Checks(k)
    BY <1>2, <1>3, <2>1, <2>4
  <2>3. "EbookFavorite.remove" \in FavoriteMethods /\ "EbookFavorite.remove" \in Methods
    BY FavoriteAssumption DEF FavoriteMethods
  <2> QED
    BY <1>7, <2>2, <2>3
<1>8. CASE todo = Adds(k)
  <2>1. Head(todo) = Request("EbookFavorite.addFavorites", k, Purpose["EbookFavorite.addFavorites"]) /\ Tail(todo) = <<>>
    BY <1>5, <1>8, Stretches DEF checkFav
  <2>4. /\ Head(todo).m = "EbookFavorite.addFavorites" /\ Head(todo).k = k
        /\ Head(todo).t = Purpose["EbookFavorite.addFavorites"]
    BY <1>4, <2>1
  <2>2. /\ Call(c, "EbookFavorite.addFavorites", k)
        /\ then' = [then EXCEPT ![c] = Purpose["EbookFavorite.addFavorites"]]
        /\ todo' = <<>>
    BY <1>2, <1>3, <2>1, <2>4
  <2>3. "EbookFavorite.addFavorites" \in FavoriteMethods /\ "EbookFavorite.addFavorites" \in Methods
    BY FavoriteAssumption DEF FavoriteMethods
  <2> QED
    BY <1>8, <2>2, <2>3
<1>9. CASE todo = Loads(k)
  <2>1. Head(todo) = Request("EbookFavorite.listAll", k, Purpose["EbookFavorite.listAll"]) /\ Tail(todo) = <<>>
    BY <1>5, <1>9, Stretches DEF checkFav
  <2>4. /\ Head(todo).m = "EbookFavorite.listAll" /\ Head(todo).k = k
        /\ Head(todo).t = Purpose["EbookFavorite.listAll"]
    BY <1>4, <2>1
  <2>2. /\ Call(c, "EbookFavorite.listAll", k)
        /\ then' = [then EXCEPT ![c] = Purpose["EbookFavorite.listAll"]]
        /\ todo' = <<>>
    BY <1>2, <1>3, <2>1, <2>4
  <2>3. "EbookFavorite.listAll" \in FavoriteMethods /\ "EbookFavorite.listAll" \in Methods
    BY FavoriteAssumption DEF FavoriteMethods
  <2> QED
    BY <1>9, <2>2, <2>3
<1> QED
  BY <1>1, <1>6, <1>7, <1>8, <1>9

-----------------------------------------------------------------------------
(* Every step of the application is a step of the store.                   *)

\* The session of a call goes on: nothing else moves.
LEMMA SessionFacts ==
  ASSUME Inv, ThenOK, NEW c \in Calls, Session(c)
  PROVE  /\ Step(c) /\ todo = <<>> /\ UNCHANGED <<todo, then, method, key, before>>
         /\ pc[c] \in Active /\ pc'[c] \in Active
         /\ \A d \in Calls \ {c} : pc'[d] = pc[d] /\ result'[d] = result[d]
<1>1. Step(c) /\ todo = <<>> /\ UNCHANGED <<todo, then>>
  BY DEF Session, Step, Idle, callerVars
<1>2. pc[c] \in Active /\ UNCHANGED <<method, key, before>>
  BY DEF Session, Open, Insert, Remove, Find, Update, Upsert, InsertDocument, Tidy, Close
<1>3. AfterOp(c) \in {"tidy", "close"}
  BY <1>2 DEF AfterOp, ThenOK, FavoriteMethods, Leaking
<1>4. pc'[c] \in Active /\ \A d \in Calls \ {c} : pc'[d] = pc[d] /\ result'[d] = result[d]
  BY <1>3 DEF Session, Open, Insert, Remove, Find, Update, Upsert, InsertDocument, Tidy, Close, Inv, TypeOK
<1> QED
  BY <1>1, <1>2, <1>4

\* A call that returns does nothing but end.
LEMMA ReturnFacts ==
  ASSUME Inv, NEW c \in Calls, Return(c)
  PROVE  /\ Step(c) /\ todo = <<>> /\ UNCHANGED <<then, method, key, before, result, file, pages, stacked>>
         /\ pc[c] = "close" /\ pc'[c] = "returned"
         /\ \A d \in Calls \ {c} : pc'[d] = pc[d]
  BY DEF Return, Close, Step, Idle, Inv, TypeOK

\* The process is stopped: nothing is under way any more, and the application
\* starts with an empty navigator.
LEMMA KillFacts ==
  ASSUME Inv, KillApp
  PROVE  /\ Kill \/ UNCHANGED vars
         /\ UNCHANGED <<then, method, key, before, result, file, stacked>>
         /\ todo' = <<>> /\ pages' = <<>> /\ favorite' = FALSE /\ checked' = {}
         /\ list' = NoDocuments /\ loading' = TRUE
         /\ \A d \in Calls : pc'[d] = IF pc[d] \in Active THEN "killed" ELSE pc[d]
<1>1. /\ Kill \/ (Quiet /\ UNCHANGED vars)
      /\ UNCHANGED <<then, stacked>> /\ todo' = <<>> /\ pages' = <<>> /\ favorite' = FALSE
      /\ checked' = {} /\ list' = NoDocuments /\ loading' = TRUE
  BY DEF KillApp, KillCaller
<1>2. CASE Kill
  BY <1>1, <1>2 DEF Kill, Inv, TypeOK
<1>3. CASE Quiet /\ UNCHANGED vars
  BY <1>1, <1>3 DEF Quiet, vars
<1> QED
  BY <1>1, <1>2, <1>3

\* What the application does is, for the store, a call, a step of one or a stop.
LEMMA StoreStep ==
  ASSUME Shape, Inv, [FavNext]_allVars
  PROVE  [Next]_vars
<1>1. CASE UNCHANGED allVars
  BY <1>1 DEF allVars
<1>2. CASE MakeCall
  BY <1>2, CallCases DEF Next
<1>3. ASSUME NEW c \in Calls, Session(c) PROVE Next
  BY <1>3, SessionFacts DEF Next, Shape
<1>4. ASSUME NEW c \in Calls, Return(c) PROVE Next
  BY <1>4, ReturnFacts DEF Next
<1>5. CASE KillApp
  BY <1>5, KillFacts DEF Next
<1>6. CASE (\E k \in Keys : OpenDetail(k)) \/ CloseDetail \/ TapFavorite \/ ShowFavorites
  BY <1>6 DEF OpenDetail, CloseDetail, TapFavorite, ShowFavorites
<1> QED
  BY <1>1, <1>2, <1>3, <1>4, <1>5, <1>6 DEF FavNext

\* The top page is a book.
LEMMA TopPage ==
  ASSUME ViewTypeOK, pages # <<>>
  PROVE  /\ pages[Len(pages)] \in Keys
         /\ SubSeq(pages, 1, Len(pages) - 1) \in Seq(Keys)
         /\ Len(SubSeq(pages, 1, Len(pages) - 1)) = Len(pages) - 1
<1>1. /\ pages \in Seq(Keys) /\ Len(pages) \in Nat \ {0}
      /\ \A i \in 1..Len(pages) : pages[i] \in Keys
  BY DEF ViewTypeOK
<1>2. SubSeq(pages, 1, Len(pages) - 1) \in Seq(Keys)
  BY <1>1, SubSeqProperties
<1>3. Len(SubSeq(pages, 1, Len(pages) - 1)) = IF 1 <= Len(pages) - 1 THEN Len(pages) - 1 ELSE 0
  BY <1>1, SubSeqProperties
<1>4. \A n \in Nat \ {0} : n \in 1..n /\ (IF 1 <= n - 1 THEN n - 1 ELSE 0) = n - 1
  OBVIOUS
<1>5. Len(pages) \in 1..Len(pages) /\ Len(SubSeq(pages, 1, Len(pages) - 1)) = Len(pages) - 1
  BY <1>1, <1>3, <1>4
<1> QED
  BY <1>1, <1>2, <1>5

\* A stretch leaves the caller's state in shape.
LEMMA ShapeStep ==
  ASSUME Shape, Inv, [FavNext]_allVars
  PROVE  Shape'
<1>1. TypeOK'
  BY StoreStep, NextType DEF Inv
<1>2. /\ pages \in Seq(Keys) /\ Len(pages) <= MaxPages /\ then \in [Calls -> Thens]
      /\ favorite \in BOOLEAN /\ loading \in BOOLEAN /\ stacked \in BOOLEAN
      /\ checked \in SUBSET Calls /\ list \in [Calls -> Nat]
  BY DEF Shape, ViewTypeOK, CallerTypeOK
<1>3. NoDocuments \in [Calls -> Nat]
  BY DEF NoDocuments
<1>4. TodoOK' => todo' \in Seq([m : Methods, k : Keys, t : Thens])
  <2>1. <<>> \in Seq([m : Methods, k : Keys, t : Thens])
    OBVIOUS
  <2> QED
    BY <2>1, StretchTypes DEF TodoOK
<1>5. CASE UNCHANGED allVars
  BY <1>5 DEF allVars, vars, callerVars, viewVars, Shape, ViewTypeOK, TypeOK, CallerTypeOK, TodoOK, ThenOK
<1>6. ASSUME NEW k \in Keys, OpenDetail(k) PROVE Shape'
  <2>1. /\ todo' = Checks(k) /\ pages' = Append(pages, k) /\ Len(pages) < MaxPages
        /\ stacked' = (stacked \/ pages # <<>>)
        /\ UNCHANGED <<vars, then, favorite, checked, list, loading>>
    BY <1>6 DEF OpenDetail, Checks
  <2>2. pages' \in Seq(Keys) /\ Len(pages') <= MaxPages
    BY <1>2, <2>1, PagesAssumption
  <2>3. TodoOK' /\ ThenOK'
    BY <2>1 DEF TodoOK, ThenOK, Shape, vars
  <2> QED
    BY <1>1, <1>2, <1>4, <2>1, <2>2, <2>3 DEF Shape, ViewTypeOK, CallerTypeOK
<1>7. CASE CloseDetail
  <2>1. /\ pages' = SubSeq(pages, 1, Len(pages) - 1) /\ pages # <<>>
        /\ UNCHANGED <<vars, todo, then, favorite, checked, list, loading, stacked>>
    BY <1>7 DEF CloseDetail, callerVars
  <2>2. pages' \in Seq(Keys) /\ Len(pages') <= MaxPages
    BY <1>2, <2>1, TopPage, PagesAssumption DEF Shape
  <2>3. TodoOK' /\ ThenOK'
    BY <2>1 DEF TodoOK, ThenOK, Shape, vars
  <2> QED
    BY <1>1, <1>2, <1>4, <2>1, <2>2, <2>3 DEF Shape, ViewTypeOK, CallerTypeOK
<1>8. CASE TapFavorite \/ ShowFavorites
  <2>1. \E k \in Keys : todo' \in {Removes(k), Adds(k), Loads(k)}
    <3>1. CASE TapFavorite
      BY <3>1, TopPage DEF TapFavorite, Removes, Adds, Shape
    <3>2. CASE ShowFavorites
      <4>1. (CHOOSE k \in Keys : TRUE) \in Keys
        BY StoreAssumption
      <4> QED
        BY <3>2, <4>1 DEF ShowFavorites, Loads
    <3> QED
      BY <1>8, <3>1, <3>2
  <2>2. /\ UNCHANGED <<vars, then, pages, favorite, checked, stacked>>
        /\ list' \in {list, NoDocuments} /\ loading' \in {loading, TRUE}
    BY <1>8 DEF TapFavorite, ShowFavorites, viewVars
  <2>3. TodoOK' /\ ThenOK'
    BY <2>1, <2>2 DEF TodoOK, ThenOK, Shape, vars
  <2> QED
    BY <1>1, <1>2, <1>3, <1>4, <2>2, <2>3 DEF Shape, ViewTypeOK, CallerTypeOK
<1>9. CASE MakeCall /\ UNCHANGED viewVars
  <2>1. PICK c \in Calls, k \in Keys, m \in FavoriteMethods :
          /\ Call(c, m, k) /\ then' = [then EXCEPT ![c] = Purpose[m]]
          /\ todo' \in {<<>>, Checks(k)}
    BY <1>9, CallCases
  <2>2. Purpose[m] \in Thens
    BY FavoriteAssumption DEF Purpose, FavoriteMethods, FavoriteThens
  <2>3. then' \in [Calls -> Thens] /\ TodoOK'
    BY <1>2, <2>1, <2>2 DEF TodoOK
  <2>4. ThenOK'
    BY <1>2, <2>1 DEF Call, ThenOK, Shape, Inv, TypeOK
  <2> QED
    BY <1>1, <1>2, <1>4, <1>9, <2>3, <2>4 DEF Shape, ViewTypeOK, CallerTypeOK, viewVars
<1>10. ASSUME NEW c \in Calls, Session(c), UNCHANGED viewVars PROVE Shape'
  <2>1. TodoOK' /\ ThenOK'
    BY <1>10, SessionFacts DEF TodoOK, ThenOK, Shape
  <2> QED
    BY <1>1, <1>2, <1>4, <1>10, <2>1, SessionFacts DEF Shape, ViewTypeOK, CallerTypeOK, viewVars
<1>11. ASSUME NEW c \in Calls, Return(c) PROVE Shape'
  <2>1. /\ UNCHANGED <<then, method, key, pages, stacked>> /\ todo = <<>>
        /\ \A d \in Calls : pc'[d] # "idle" => pc[d] # "idle"
    BY <1>11, ReturnFacts
  <2>2. todo' \in {<<>>, Checks(key[c])} /\ key[c] \in Keys
    BY <1>11, <2>1 DEF Return, AddReturned, CheckReturned, ListReturned, RemoveReturned, Checks, Inv, TypeOK
  <2>3. favorite' \in BOOLEAN /\ loading' \in BOOLEAN /\ checked' \in SUBSET Calls
    BY <1>2, <1>11 DEF Return, AddReturned, CheckReturned, ListReturned, RemoveReturned
  <2>4. list' \in [Calls -> Nat]
    BY <1>2, <1>11 DEF Return, AddReturned, CheckReturned, ListReturned, RemoveReturned
  <2>5. TodoOK' /\ ThenOK'
    BY <2>1, <2>2 DEF TodoOK, ThenOK, Shape
  <2> QED
    BY <1>1, <1>2, <1>4, <2>1, <2>3, <2>4, <2>5 DEF Shape, ViewTypeOK, CallerTypeOK
<1>12. CASE KillApp
  <2>1. TodoOK' /\ ThenOK'
    BY <1>12, KillFacts DEF TodoOK, ThenOK, Shape
  <2>2. pages' \in Seq(Keys) /\ Len(pages') <= MaxPages
    BY <1>12, KillFacts, PagesAssumption
  <2> QED
    BY <1>1, <1>2, <1>3, <1>4, <1>12, <2>1, <2>2, KillFacts DEF Shape, ViewTypeOK, CallerTypeOK
<1> QED
  BY <1>5, <1>6, <1>7, <1>8, <1>9, <1>10, <1>11, <1>12 DEF FavNext

\* The application starts in shape.
LEMMA ShapeInit == FavInit => Shape
<1> SUFFICES ASSUME FavInit PROVE Shape
  OBVIOUS
<1>1. TypeOK
  BY InitType DEF FavInit
<1>2. /\ todo = <<>> /\ pages = <<>> /\ favorite = FALSE /\ checked = {} /\ list = NoDocuments
      /\ loading = TRUE /\ stacked = FALSE /\ \A c \in Calls : pc[c] = "idle"
      /\ then = [c \in Calls |-> CHOOSE t \in Thens : TRUE]
  BY DEF FavInit, CallerInit, Init
<1>3. (CHOOSE t \in Thens : TRUE) \in Thens
  BY ThensAssumption
<1>4. NoDocuments \in [Calls -> Nat]
  BY DEF NoDocuments
<1>5. then \in [Calls -> Thens] /\ todo \in Seq([m : Methods, k : Keys, t : Thens])
  BY <1>2, <1>3
<1>6. pages \in Seq(Keys) /\ Len(pages) <= MaxPages
  BY <1>2, PagesAssumption
<1>7. TodoOK /\ ThenOK
  BY <1>2 DEF TodoOK, ThenOK
<1> QED
  BY <1>1, <1>2, <1>4, <1>5, <1>6, <1>7 DEF Shape, ViewTypeOK, CallerTypeOK

\* Type correctness, with the store's invariant, which the steps rely on.
LEMMA ShapeHolds == FavSpec => [](Shape /\ Inv)
<1>1. FavInit => Shape /\ Inv
  BY ShapeInit, InitInv DEF FavInit
<1>2. Shape /\ Inv /\ [FavNext]_allVars => (Shape /\ Inv)'
  BY ShapeStep, StoreStep, InvStep
<1> QED
  BY <1>1, <1>2, PTL DEF FavSpec

\* THEOREM: in every reachable state the variables have their types.
THEOREM FavTypeCorrect == FavSpec => []ViewTypeOK
  BY ShapeHolds, PTL DEF Shape

\* THEOREM: the favourites, their page and their list use the store as its
\* specification says: whatever holds of the store holds here.
THEOREM FavImplementsStore == FavSpec => Spec
<1>1. FavInit => Init
  BY DEF FavInit
<1>2. Shape /\ Inv /\ [FavNext]_allVars => [Next]_vars
  BY StoreStep
<1> QED
  BY <1>1, <1>2, ShapeHolds, PTL DEF FavSpec, Spec

-----------------------------------------------------------------------------
(* The heart: whatever is written after the check() that set the flag is    *)
(* followed by another check().                                             *)

\* The running stretch ends with a check().
CheckDue == \E k \in Keys : todo \in {Checks(k), Removes(k)}

\* The flag is the answer of the check() that set it last.
FlagIsAnswer == \A f \in checked :
  pc[f] = "returned" /\ then[f] = "setFav" /\ (favorite <=> result[f] # {})

\* A check() that was made after that one has not returned.
LatestSets == \A f \in checked, g \in Calls :
  f \in before[g] /\ then[g] = "setFav" => pc[g] \in Active

\* A write that was made after it has been, or will be, followed by a check().
WritesRechecked == \A f \in checked, w \in Calls :
  f \in before[w] /\ Writes(w) =>
    \/ CheckDue
    \/ then[w] = "checkFav" /\ pc[w] \in Active
    \/ \E g \in Calls : then[g] = "setFav" /\ f \in before[g]

HeartInv == FlagIsAnswer /\ LatestSets /\ WritesRechecked

\* A removal or an addition is what its purpose says.
LEMMA WritePurpose ==
  ASSUME Shape, NEW c \in Calls, pc[c] # "idle"
  PROVE  /\ method[c] \in FavoriteMethods
         /\ Writes(c) <=> then[c] \in {"checkFav", "nothing"}
         /\ then[c] = "setFav" <=> method[c] = "EbookFavorite.check"
         /\ then[c] = "addAll" <=> method[c] = "EbookFavorite.listAll"
         /\ then[c] = "checkFav" <=> method[c] = "EbookFavorite.addFavorites"
         /\ then[c] = "nothing" <=> method[c] = "EbookFavorite.remove"
  BY DEF Shape, ThenOK, Purpose, FavoriteMethods, Writes, Inserting, Removing

\* Only calls that have been made have others before them.
LEMMA HasBefore ==
  ASSUME Inv, NEW c \in Calls, NEW f \in before[c]
  PROVE  f \in Calls /\ pc[c] # "idle" /\ pc[f] \in Ended
  BY DEF Inv, TypeOK, BeforeOK

\* The flag keeps up with the writes.
LEMMA HeartStep ==
  ASSUME Shape, Inv, HeartInv, [FavNext]_allVars
  PROVE  HeartInv'
<1>1. CASE UNCHANGED allVars
  BY <1>1 DEF allVars, vars, callerVars, viewVars, HeartInv, FlagIsAnswer, LatestSets,
              WritesRechecked, CheckDue, Writes
<1>2. CASE (\E k \in Keys : OpenDetail(k)) \/ CloseDetail \/ TapFavorite \/ ShowFavorites
  <2>1. UNCHANGED <<vars, then, checked, favorite>> /\ (todo = <<>> \/ todo' = todo)
    BY <1>2 DEF OpenDetail, CloseDetail, TapFavorite, ShowFavorites, Starts, Idle, callerVars, viewVars
  <2>2. CheckDue => CheckDue'
    BY <2>1, Stretches DEF CheckDue
  <2> QED
    BY <2>1, <2>2 DEF vars, HeartInv, FlagIsAnswer, LatestSets, WritesRechecked, Writes
<1>3. CASE MakeCall /\ UNCHANGED viewVars
  <2>1. PICK c \in Calls, k \in Keys, m \in FavoriteMethods :
          /\ Call(c, m, k) /\ then' = [then EXCEPT ![c] = Purpose[m]]
          /\ \/ m = "EbookFavorite.check" /\ todo = Checks(k) /\ todo' = <<>>
             \/ m = "EbookFavorite.remove" /\ todo = Removes(k) /\ todo' = Checks(k)
             \/ m = "EbookFavorite.addFavorites" /\ todo = Adds(k) /\ todo' = <<>>
             \/ m = "EbookFavorite.listAll" /\ todo = Loads(k) /\ todo' = <<>>
    BY <1>3, CallCases
  <2>2. /\ pc[c] = "idle" /\ pc'[c] = "path" /\ method'[c] = m /\ then'[c] = Purpose[m]
        /\ before'[c] = {d \in Calls : pc[d] \in Ended} /\ UNCHANGED result
        /\ \A d \in Calls \ {c} : /\ pc'[d] = pc[d] /\ before'[d] = before[d]
                                  /\ method'[d] = method[d] /\ then'[d] = then[d]
    BY <2>1 DEF Call, Shape, ViewTypeOK, TypeOK, CallerTypeOK
  <2>3. UNCHANGED <<checked, favorite>>
    BY <1>3 DEF viewVars
  <2>4. FlagIsAnswer'
    BY <2>2, <2>3 DEF HeartInv, FlagIsAnswer, Shape, ViewTypeOK
  <2>5. LatestSets'
    BY <2>2, <2>3 DEF HeartInv, LatestSets
  <2>6. WritesRechecked'
    <3> SUFFICES ASSUME NEW f \in checked, NEW w \in Calls, f \in before'[w], Writes(w)'
                 PROVE  \/ CheckDue'
                        \/ then'[w] = "checkFav" /\ pc'[w] \in Active
                        \/ \E g \in Calls : then'[g] = "setFav" /\ f \in before'[g]
      BY <2>3 DEF WritesRechecked
    <3>1. CASE m = "EbookFavorite.check"
      <4>1. then'[c] = "setFav"
        BY <2>2, <3>1 DEF Purpose, FavoriteMethods
      <4>2. f \in before'[c]
        BY <2>2 DEF HeartInv, FlagIsAnswer, Shape, ViewTypeOK
      <4> QED
        BY <4>1, <4>2
    <3>2. CASE m = "EbookFavorite.remove"
      BY <2>1, <3>2, Stretches DEF CheckDue
    <3>3. CASE m \in {"EbookFavorite.addFavorites", "EbookFavorite.listAll"}
      <4>1. ~CheckDue
        BY <2>1, <3>3, Stretches DEF CheckDue
      <4>2. CASE w = c
        BY <2>2, <3>3, <4>2 DEF Purpose, FavoriteMethods, Writes, Inserting, Removing
      <4>3. CASE w # c
        <5>1. Writes(w) /\ f \in before[w]
          BY <2>2, <4>3 DEF Writes
        <5>2. \/ then[w] = "checkFav" /\ pc[w] \in Active
              \/ \E g \in Calls : then[g] = "setFav" /\ f \in before[g]
          BY <4>1, <5>1 DEF HeartInv, WritesRechecked
        <5>3. \A g \in Calls : f \in before[g] => g # c
          BY <2>2, HasBefore
        <5> QED
          BY <2>2, <4>3, <5>2, <5>3
      <4> QED
        BY <4>2, <4>3
    <3> QED
      BY <2>1, <3>1, <3>2, <3>3
  <2> QED
    BY <2>4, <2>5, <2>6 DEF HeartInv
<1>4. ASSUME NEW c \in Calls, Session(c), UNCHANGED viewVars PROVE HeartInv'
  <2>1. /\ UNCHANGED <<todo, then, method, before, favorite, checked>>
        /\ pc[c] \in Active /\ pc'[c] \in Active
        /\ \A d \in Calls \ {c} : pc'[d] = pc[d] /\ result'[d] = result[d]
    BY <1>4, SessionFacts DEF Shape, viewVars
  <2>2. c \notin checked
    BY <2>1 DEF HeartInv, FlagIsAnswer
  <2>3. FlagIsAnswer'
    BY <2>1, <2>2 DEF HeartInv, FlagIsAnswer, Shape, ViewTypeOK
  <2>4. LatestSets'
    BY <2>1 DEF HeartInv, LatestSets
  <2>5. WritesRechecked'
    BY <2>1 DEF HeartInv, WritesRechecked, Writes, CheckDue
  <2> QED
    BY <2>3, <2>4, <2>5 DEF HeartInv
<1>5. ASSUME NEW c \in Calls, Return(c) PROVE HeartInv'
  <2>1. /\ UNCHANGED <<then, method, key, before, result>> /\ todo = <<>>
        /\ pc[c] = "close" /\ pc'[c] = "returned"
        /\ \A d \in Calls \ {c} : pc'[d] = pc[d]
    BY <1>5, ReturnFacts
  <2>2. \A g \in Calls : c \notin before[g]
    BY <2>1, NotBefore
  <2>3. CASE CheckReturned(c)
    BY <2>1, <2>2, <2>3, ZenonT(60) DEF CheckReturned, HeartInv, FlagIsAnswer, LatestSets, WritesRechecked
  <2>4. CASE then[c] # "setFav" /\ UNCHANGED <<favorite, checked>>
    <3>1. FlagIsAnswer'
      BY <2>1, <2>4 DEF HeartInv, FlagIsAnswer, Shape, ViewTypeOK
    <3>2. LatestSets'
      BY <2>1, <2>4 DEF HeartInv, LatestSets
    <3>3. then[c] = "checkFav" => CheckDue'
      BY <1>5, <2>1 DEF Return, AddReturned, CheckReturned, ListReturned, RemoveReturned, CheckDue,
                        Checks, Inv, TypeOK
    <3>4. ~CheckDue
      BY <2>1, Stretches DEF CheckDue
    <3>5. WritesRechecked'
      BY <2>1, <2>4, <3>3, <3>4 DEF HeartInv, WritesRechecked, Writes
    <3> QED
      BY <3>1, <3>2, <3>5 DEF HeartInv
  <2> QED
    BY <1>5, <2>3, <2>4 DEF Return, AddReturned, ListReturned, RemoveReturned
<1>6. CASE KillApp
  BY <1>6, KillFacts DEF HeartInv, FlagIsAnswer, LatestSets, WritesRechecked
<1> QED
  BY <1>1, <1>2, <1>3, <1>4, <1>5, <1>6 DEF FavNext

\* At rest no write follows the check() that set the flag.
LEMMA NothingFollows ==
  ASSUME Shape, Inv, HeartInv, Quiet, NEW f \in checked, NEW w \in Calls, Writes(w)
  PROVE  f \notin before[w]
<1>1. todo = <<>> /\ \A c \in Calls : pc[c] \notin Active
  BY DEF Quiet, Idle
<1>2. ~CheckDue
  BY <1>1, Stretches DEF CheckDue
<1> QED
  BY <1>1, <1>2 DEF HeartInv, WritesRechecked, LatestSets

\* At rest the flag agrees with the file, where nothing overlapped.
LEMMA HeartAgrees ==
  ASSUME Shape, Inv, Origin, KeysOK, HeartInv
  PROVE  HeartIsRight
<1> SUFFICES ASSUME Quiet, NEW f \in checked,
                    \A w \in Calls : Writes(w) /\ key[w] = key[f] =>
                                       ~Concurrent(w, f) /\ ~Overwritable(w)
             PROVE  favorite <=> \E d \in file : d.key = key[f]
  BY DEF HeartIsRight
<1>1. /\ f \in Calls /\ pc[f] = "returned" /\ then[f] = "setFav" /\ (favorite <=> result[f] # {})
  BY DEF HeartInv, FlagIsAnswer, Shape, ViewTypeOK
<1>2. method[f] = "EbookFavorite.check" /\ method[f] \notin WholeStore /\ Answered(f)
  BY <1>1, WritePurpose DEF WholeStore, Answered, Finding
\* Writes to this book are over before the check() starts.
<1>3. ASSUME NEW w \in Calls, Writes(w), key[w] = key[f], pc[w] # "idle"
      PROVE  w \in before[f] /\ ~Overwritable(w)
  <2>1. w # f
    BY <1>1, <1>3, WritePurpose
  <2>2. f \notin before[w]
    BY <1>3, NothingFollows
  <2> QED
    BY <1>1, <1>3, <2>1, <2>2 DEF Concurrent
<1>4. ASSUME NEW a \in Calls, wrote[a] = "inserted", key[a] = key[f]
      PROVE  a \in before[f] /\ ~Overwritable(a)
  <2>1. pc[a] # "idle" /\ method[a] \in Inserting \union Upserting
    BY <1>4 DEF Inv, WroteOK, KeysOK
  <2>2. Writes(a)
    BY <2>1, WritePurpose DEF Writes, Upserting, FavoriteMethods
  <2> QED
    BY <1>3, <1>4, <2>1, <2>2
<1>5. ASSUME NEW a \in Calls, key[a] = key[f], NEW m \in Calls, a \in removed[m]
      PROVE  m \in before[f] /\ ~Overwritable(m)
  <2>1. pc[m] # "idle" /\ method[m] \in Removing
    BY <1>5 DEF Inv, RemovedOK, KeysOK
  <2>2. Writes(m) /\ method[m] = "EbookFavorite.remove" /\ method[m] \notin WholeStore
    BY <2>1, WritePurpose DEF Writes, Removing, FavoriteMethods, WholeStore
  <2>3. key[m] = key[f]
    BY <1>5, <2>2 DEF KeysOK
  <2> QED
    BY <1>3, <2>1, <2>2, <2>3
<1>6. ASSUME NEW d \in file, d.key = key[f] PROVE favorite
  <2>1. d.oid \in Calls /\ wrote[d.oid] = "inserted" /\ key[d.oid] = key[f] /\ Holds(file, d.oid)
    BY <1>6 DEF Inv, TypeOK, DocsOK, Document, Holds
  <2>2. d.oid \in before[f] /\ ~Overwritable(d.oid)
    BY <1>4, <2>1
  <2>3. Holds(result[f], d.oid) \/ Taken(d.oid)
    BY <1>1, <1>2, <2>1, <2>2 DEF Inv, ReadYourWrites, Selects
  <2>4. ~Taken(d.oid)
    BY <1>5, <2>1 DEF Taken, Inv, NoResurrection
  <2> QED
    BY <1>1, <2>3, <2>4 DEF Holds
<1>7. ASSUME favorite PROVE \E d \in file : d.key = key[f]
  <2>1. PICK d \in result[f] : TRUE
    BY <1>1, <1>7
  <2>2. /\ d.oid \in Calls /\ wrote[d.oid] = "inserted" /\ d.key = key[d.oid] /\ d.key = key[f]
        /\ Holds(result[f], d.oid)
    <3>1. d \in Document /\ Written(d, wrote, key)
      BY <1>1, <2>1 DEF Inv, TypeOK, Origin, Traced
    <3>2. d.key = key[f]
      BY <1>1, <1>2, <2>1 DEF KeysOK
    <3> QED
      BY <2>1, <3>1, <3>2 DEF Written, Document, Holds
  <2>3. ~Overwritable(d.oid)
    BY <1>4, <2>2
  <2>4. ~Taken(d.oid)
    BY <1>1, <1>2, <1>5, <2>2 DEF Taken, Inv, ReadYourRemoves
  <2>5. Holds(file, d.oid)
    BY <2>2, <2>3, <2>4 DEF Inv, DurableAdd
  <2>6. PICK e \in file : e.oid = d.oid
    BY <2>5 DEF Holds
  <2> QED
    BY <2>2, <2>6 DEF Inv, DocsOK
<1> QED
  BY <1>6, <1>7

\* THEOREM: for any number of calls, books and pages: at rest the heart tells
\* what the store holds, up to the writes that overlapped.
THEOREM HeartTellsTheStore == FavSpec => []HeartIsRight
<1>1. FavInit => HeartInv
  BY DEF FavInit, HeartInv, FlagIsAnswer, LatestSets, WritesRechecked
<1>2. FavSpec => [](Shape /\ Inv /\ HeartInv)
  BY <1>1, ShapeHolds, HeartStep, PTL DEF FavSpec
<1> QED
  BY <1>2, FavImplementsStore, OriginHolds, KeysHold, HeartAgrees, PTL

-----------------------------------------------------------------------------
(* The list: a load clears it, and nothing but its own return fills it.     *)

\* A load of the list has been started and has not returned.
LoadDue == \/ \E k \in Keys : todo = Loads(k)
           \/ \E c \in Calls : then[c] = "addAll" /\ pc[c] \in Active

\* The list of what a listAll() has found.
Listed(l) == [a \in Calls |-> IF Holds(result[l], a) THEN 1 ELSE 0]

ListInv ==
  LoadsOverlapped \/
    /\ LoadDue => loading /\ list = NoDocuments
    /\ ~loading => \E l \in Calls :
                     then[l] = "addAll" /\ pc[l] = "returned" /\ list = Listed(l)

\* What a made call is for does not change.
LEMMA PurposeStays ==
  ASSUME Shape, Inv, [FavNext]_allVars, NEW c \in Calls, pc[c] # "idle"
  PROVE  then'[c] = then[c]
<1>1. CASE MakeCall
  BY <1>1 DEF MakeCall, Call, Shape, ViewTypeOK, CallerTypeOK
<1>2. CASE ~MakeCall
  BY <1>2 DEF FavNext, OpenDetail, CloseDetail, TapFavorite, ShowFavorites, Session, Return, KillApp,
              KillCaller, allVars, callerVars
<1> QED
  BY <1>1, <1>2

\* Loads that overlapped have overlapped for good.
LEMMA OverlapStays ==
  ASSUME Shape, Inv, [FavNext]_allVars, LoadsOverlapped
  PROVE  LoadsOverlapped'
<1>1. PICK l \in Calls, o \in Calls : then[l] = "addAll" /\ then[o] = "addAll" /\ Concurrent(l, o)
  BY DEF LoadsOverlapped
<1>2. then'[l] = "addAll" /\ then'[o] = "addAll"
  BY <1>1, PurposeStays DEF Concurrent
<1>3. Concurrent(l, o)'
  BY <1>1, StoreStep, ConcurrentStays
<1> QED
  BY <1>2, <1>3 DEF LoadsOverlapped

\* The list keeps up with the loads.
LEMMA ListStep ==
  ASSUME Shape, Inv, ListInv, [FavNext]_allVars
  PROVE  ListInv'
<1>1. CASE LoadsOverlapped
  BY <1>1, OverlapStays DEF ListInv
<1> SUFFICES ASSUME ~LoadsOverlapped, ~LoadsOverlapped'
             PROVE  /\ LoadDue' => loading' /\ list' = NoDocuments
                    /\ ~loading' => \E l \in Calls :
                         then'[l] = "addAll" /\ pc'[l] = "returned" /\ list' = Listed(l)'
  BY <1>1 DEF ListInv, NoDocuments
<1>2. /\ LoadDue => loading /\ list = NoDocuments
      /\ ~loading => \E l \in Calls :
           then[l] = "addAll" /\ pc[l] = "returned" /\ list = Listed(l)
  BY DEF ListInv
<1>3. ASSUME NEW l \in Calls, then[l] = "addAll", pc[l] = "returned"
      PROVE  then'[l] = "addAll" /\ pc'[l] = "returned" /\ Listed(l)' = Listed(l)
  <2>1. then'[l] = "addAll" /\ pc'[l] = "returned" /\ result'[l] = result[l]
    BY <1>3, StoreStep, EndedStays, PurposeStays
  <2> QED
    BY <2>1 DEF Listed, Holds
\* A step that starts no load and leaves the list alone.
<1>4. ASSUME UNCHANGED <<list, loading>>, LoadDue' => LoadDue
      PROVE  /\ LoadDue' => loading' /\ list' = NoDocuments
             /\ ~loading' => \E l \in Calls :
                  then'[l] = "addAll" /\ pc'[l] = "returned" /\ list' = Listed(l)'
  <2>1. ASSUME ~loading'
        PROVE  \E l \in Calls : then'[l] = "addAll" /\ pc'[l] = "returned" /\ list' = Listed(l)'
    <3>1. PICK l \in Calls : then[l] = "addAll" /\ pc[l] = "returned" /\ list = Listed(l)
      BY <1>2, <1>4, <2>1
    <3>2. then'[l] = "addAll" /\ pc'[l] = "returned" /\ list' = Listed(l)'
      BY <1>3, <1>4, <3>1
    <3> QED
      BY <3>2
  <2> QED
    BY <1>2, <1>4, <2>1
<1>5. CASE UNCHANGED allVars
  <2>1. UNCHANGED <<list, loading>> /\ (LoadDue' => LoadDue)
    BY <1>5 DEF allVars, vars, callerVars, viewVars, LoadDue
  <2> QED
    BY <1>4, <2>1
<1>6. CASE (\E k \in Keys : OpenDetail(k)) \/ CloseDetail \/ TapFavorite
  <2>1. UNCHANGED <<vars, then, list, loading>>
    BY <1>6 DEF OpenDetail, CloseDetail, TapFavorite, callerVars, viewVars
  <2>2. (\E k : todo' \in {Checks(k), Removes(k), Adds(k)}) \/ todo' = todo
    BY <1>6 DEF OpenDetail, CloseDetail, TapFavorite, Checks, Removes, Adds, callerVars
  <2>3. LoadDue' => LoadDue
    BY <2>1, <2>2, Stretches DEF LoadDue, vars
  <2> QED
    BY <1>4, <2>1, <2>3
<1>7. CASE ShowFavorites
  BY <1>7 DEF ShowFavorites
<1>8. CASE MakeCall /\ UNCHANGED viewVars
  <2>1. PICK c \in Calls, k \in Keys, m \in FavoriteMethods :
          /\ Call(c, m, k) /\ then' = [then EXCEPT ![c] = Purpose[m]]
          /\ \/ m = "EbookFavorite.check" /\ todo = Checks(k) /\ todo' = <<>>
             \/ m = "EbookFavorite.remove" /\ todo = Removes(k) /\ todo' = Checks(k)
             \/ m = "EbookFavorite.addFavorites" /\ todo = Adds(k) /\ todo' = <<>>
             \/ m = "EbookFavorite.listAll" /\ todo = Loads(k) /\ todo' = <<>>
    BY <1>8, CallCases
  <2>2. UNCHANGED <<list, loading>>
    BY <1>8 DEF viewVars
  <2>3. /\ pc'[c] = "path" /\ then'[c] = Purpose[m]
        /\ \A d \in Calls \ {c} : pc'[d] = pc[d] /\ then'[d] = then[d]
    BY <2>1 DEF Call, Shape, ViewTypeOK, TypeOK, CallerTypeOK
  <2>4. then'[c] = "addAll" => todo = Loads(k)
    BY <2>1, <2>3 DEF Purpose, FavoriteMethods
  <2>5. LoadDue' => LoadDue
    BY <2>1, <2>3, <2>4, Stretches DEF LoadDue
  <2> QED
    BY <1>4, <2>2, <2>5
<1>9. ASSUME NEW c \in Calls, Session(c), UNCHANGED viewVars
      PROVE  UNCHANGED <<list, loading>> /\ (LoadDue' => LoadDue)
  BY <1>9, SessionFacts DEF LoadDue, Shape, viewVars
<1>10. ASSUME NEW c \in Calls, Return(c)
       PROVE  /\ LoadDue' => loading' /\ list' = NoDocuments
              /\ ~loading' => \E l \in Calls :
                   then'[l] = "addAll" /\ pc'[l] = "returned" /\ list' = Listed(l)'
  <2>1. /\ UNCHANGED <<then, result>> /\ todo = <<>> /\ pc[c] = "close" /\ pc'[c] = "returned"
        /\ \A d \in Calls \ {c} : pc'[d] = pc[d]
    BY <1>10, ReturnFacts
  <2>2. todo' = <<>> \/ \E k : todo' = Checks(k)
    BY <1>10, <2>1 DEF Return, AddReturned, CheckReturned, ListReturned, RemoveReturned, Checks
  <2>3. LoadDue' => \E d \in Calls \ {c} : then[d] = "addAll" /\ pc[d] \in Active
    BY <2>1, <2>2, Stretches DEF LoadDue
  <2>4. CASE ListReturned(c)
    <3>1. then[c] = "addAll" /\ LoadDue
      BY <2>1, <2>4 DEF ListReturned, LoadDue
    <3>2. ~LoadDue'
      <4> SUFFICES ASSUME NEW d \in Calls \ {c}, then[d] = "addAll", pc[d] \in Active PROVE FALSE
        BY <2>3
      <4>1. Concurrent(c, d)
        BY <2>1, NotBefore DEF Concurrent
      <4> QED
        BY <3>1, <4>1 DEF LoadsOverlapped
    <3>3. list' = Listed(c)'
      <4>1. list = NoDocuments
        BY <1>2, <3>1
      <4>2. list' = [a \in Calls |-> IF Holds(result[c], a) THEN 0 + 1 ELSE 0]
        BY <2>4, <4>1 DEF ListReturned, NoDocuments
      <4>3. Listed(c)' = [a \in Calls |-> IF Holds(result[c], a) THEN 1 ELSE 0]
        BY <2>1 DEF Listed, Holds
      <4> QED
        BY <4>2, <4>3
    <3> QED
      BY <2>1, <3>1, <3>2, <3>3
  <2>5. CASE UNCHANGED <<list, loading>>
    <3>1. LoadDue' => LoadDue
      BY <2>3 DEF LoadDue
    <3> QED
      BY <1>4, <2>5, <3>1
  <2> QED
    BY <1>10, <2>4, <2>5 DEF Return, AddReturned, CheckReturned, RemoveReturned
<1>11. CASE KillApp
  BY <1>11, KillFacts DEF NoDocuments
<1> QED
  BY <1>4, <1>5, <1>6, <1>7, <1>8, <1>9, <1>10, <1>11 DEF FavNext

\* THEOREM: for any number of calls and books: a loaded list is the answer of one
\* listAll(), each document once, unless loads overlapped.
THEOREM ListTellsOneAnswer == FavSpec => []ListIsOneAnswer
<1>1. FavInit => ListInv
  BY Stretches DEF FavInit, CallerInit, Init, ListInv, LoadDue
<1>2. FavSpec => [](Shape /\ Inv /\ ListInv)
  BY <1>1, ShapeHolds, ListStep, PTL DEF FavSpec
<1>3. ListInv => ListIsOneAnswer
  BY DEF ListInv, ListIsOneAnswer, Listed
<1> QED
  BY <1>2, <1>3, PTL

-----------------------------------------------------------------------------
(* A book is a favourite once: an addition rests on a check() of that book  *)
(* that found nothing, or overlaps one.                                     *)

\* A call is, or must be, followed by a check() of its own key.
SetsFlag(c) == then[c] \in {"setFav", "checkFav"}

\* A check() and another call overlapped, and one of them has ended.
Crossed == \E f, c \in Calls :
  then[f] = "setFav" /\ Concurrent(f, c) /\ (pc[f] \in Ended \/ pc[c] \in Ended)

\* How the flag is about the book k of the page: its check() is still to come or
\* under way, or was the last one to answer and none of another book follows.
Asked(k) ==
  \/ todo = Checks(k)
  \/ \E c \in Calls : then[c] = "setFav" /\ key[c] = k /\ pc[c] \in Active
  \/ \E f \in checked :
       /\ key[f] = k
       /\ \A c \in Calls : f \in before[c] /\ SetsFlag(c) => key[c] = k
       /\ \A j \in Keys : todo \in {Checks(j), Removes(j), Adds(j)} => j = k
  \/ Crossed

\* A check() overlapped a call before b, or b itself.
NotCalm(b) == \E f, c \in Calls :
  then[f] = "setFav" /\ Concurrent(f, c) /\ {f, c} \intersect ({b} \union before[b]) # {}

\* An addition was made because a check() had not found the book, after all the
\* earlier additions of that book.
Founded(b) ==
  stacked \/ NotCalm(b) \/
    \E f \in before[b] :
      /\ then[f] = "setFav" /\ pc[f] = "returned" /\ key[f] = key[b] /\ result[f] = {}
      /\ \A a \in before[b] : method[a] \in Inserting /\ key[a] = key[b] => a \in before[f]

CalmInv ==
  /\ ~stacked => Len(pages) <= 1
  /\ ~stacked /\ pages # <<>> => Asked(pages[Len(pages)])
  /\ \A k \in Keys : todo = Adds(k) => ~favorite /\ pages # <<>> /\ k = pages[Len(pages)]
  /\ \A b \in Calls : pc[b] # "idle" /\ method[b] \in Inserting => Founded(b)

\* Calls that overlapped have done so for good.
LEMMA CrossedStays ==
  ASSUME Shape, Inv, [FavNext]_allVars, Crossed
  PROVE  Crossed'
<1>1. PICK f \in Calls, c \in Calls :
        then[f] = "setFav" /\ Concurrent(f, c) /\ (pc[f] \in Ended \/ pc[c] \in Ended)
  BY DEF Crossed
<1>2. then'[f] = "setFav" /\ Concurrent(f, c)'
  BY <1>1, PurposeStays, StoreStep, ConcurrentStays DEF Concurrent
<1>3. pc'[f] \in Ended \/ pc'[c] \in Ended
  BY <1>1, StoreStep, EndedStays
<1> QED
  BY <1>2, <1>3 DEF Crossed

\* What an addition rests on stays.
LEMMA FoundedStays ==
  ASSUME Shape, Inv, [FavNext]_allVars, stacked => stacked',
         NEW b \in Calls, pc[b] # "idle", Founded(b)
  PROVE  Founded(b)'
<1>1. key'[b] = key[b] /\ before'[b] = before[b]
  BY StoreStep, MadeStays
<1>2. CASE stacked
  BY <1>2 DEF Founded
<1>3. CASE NotCalm(b)
  <2>1. PICK f \in Calls, c \in Calls :
          /\ then[f] = "setFav" /\ Concurrent(f, c)
          /\ {f, c} \intersect ({b} \union before[b]) # {}
    BY <1>3 DEF NotCalm
  <2>2. then'[f] = "setFav" /\ Concurrent(f, c)'
    BY <2>1, PurposeStays, StoreStep, ConcurrentStays DEF Concurrent
  <2>3. NotCalm(b)'
    BY <1>1, <2>1, <2>2 DEF NotCalm
  <2> QED
    BY <2>3 DEF Founded
<1>4. CASE \E f \in before[b] :
             /\ then[f] = "setFav" /\ pc[f] = "returned" /\ key[f] = key[b] /\ result[f] = {}
             /\ \A a \in before[b] : method[a] \in Inserting /\ key[a] = key[b] => a \in before[f]
  <2>1. PICK f \in before[b] :
             /\ then[f] = "setFav" /\ pc[f] = "returned" /\ key[f] = key[b] /\ result[f] = {}
             /\ \A a \in before[b] : method[a] \in Inserting /\ key[a] = key[b] => a \in before[f]
    BY <1>4
  <2>2. f \in Calls
    BY HasBefore
  <2>3. then'[f] = "setFav" /\ pc'[f] = "returned" /\ key'[f] = key[b] /\ result'[f] = {}
        /\ before'[f] = before[f]
    BY <2>1, <2>2, StoreStep, EndedStays, PurposeStays, MadeStays
  <2>4. \A a \in before[b] : method'[a] = method[a] /\ key'[a] = key[a]
    BY HasBefore, StoreStep, MadeStays
  <2> QED
    BY <1>1, <2>1, <2>3, <2>4 DEF Founded
<1> QED
  BY <1>2, <1>3, <1>4 DEF Founded

\* The addition that a tap leads to is founded.
LEMMA AddFounded ==
  ASSUME Shape, Inv, HeartInv, CalmInv, MakeCall, UNCHANGED viewVars,
         NEW c \in Calls, NEW k \in Keys, Call(c, "EbookFavorite.addFavorites", k),
         todo = Adds(k), then' = [then EXCEPT ![c] = "checkFav"]
  PROVE  Founded(c)'
<1>1. /\ pc[c] = "idle" /\ pc'[c] = "path" /\ key'[c] = k
      /\ before'[c] = {d \in Calls : pc[d] \in Ended} /\ result' = result
      /\ \A d \in Calls \ {c} : /\ pc'[d] = pc[d] /\ before'[d] = before[d] /\ key'[d] = key[d]
                                /\ method'[d] = method[d] /\ then'[d] = then[d]
  BY DEF Call, Shape, ViewTypeOK, TypeOK, CallerTypeOK
<1>2. ~favorite /\ pages # <<>> /\ k = pages[Len(pages)]
  BY DEF CalmInv
<1>3. [FavNext]_allVars /\ [Next]_vars
  BY StoreStep DEF FavNext
\* A check() under way is concurrent with the addition.
<1>4. ASSUME NEW g \in Calls, then[g] = "setFav", pc[g] \in Active PROVE NotCalm(c)'
  <2>1. g # c /\ then'[g] = "setFav" /\ g \notin before'[c] /\ pc'[g] # "idle"
    BY <1>1, <1>4
  <2>2. c \notin before'[g]
    BY <1>1, <2>1, HasBefore
  <2>3. Concurrent(g, c)'
    BY <1>1, <2>1, <2>2 DEF Concurrent
  <2> QED
    BY <2>1, <2>3 DEF NotCalm
<1>5. ASSUME NEW f \in Calls, NEW g \in Calls, then[f] = "setFav", Concurrent(f, g),
             pc[f] \in Ended \/ pc[g] \in Ended
      PROVE  NotCalm(c)'
  <2>1. then'[f] = "setFav" /\ Concurrent(f, g)'
    BY <1>3, <1>5, PurposeStays, ConcurrentStays DEF Concurrent
  <2>2. f \in before'[c] \/ g \in before'[c]
    BY <1>1, <1>5
  <2> QED
    BY <2>1, <2>2 DEF NotCalm
<1>6. CASE stacked
  BY <1>6 DEF Founded, viewVars
<1>7. CASE ~stacked
  <2>1. Asked(k)
    BY <1>2, <1>7 DEF CalmInv
  <2>2. todo # Checks(k)
    BY Stretches
  <2>3. CASE \E g \in Calls : then[g] = "setFav" /\ key[g] = k /\ pc[g] \in Active
    BY <1>4, <2>3 DEF Founded
  <2>4. CASE Crossed
    BY <1>5, <2>4 DEF Crossed, Founded
  <2>5. CASE \E f \in checked : key[f] = k
    <3>1. PICK f \in checked : key[f] = k
      BY <2>5
    <3>2. f \in Calls /\ pc[f] = "returned" /\ then[f] = "setFav" /\ result[f] = {}
      BY <1>2 DEF HeartInv, FlagIsAnswer, Shape, ViewTypeOK
    <3>3. SUFFICES ASSUME ~NotCalm(c)' PROVE Founded(c)'
      BY DEF Founded
    <3>4. f # c /\ f \in before'[c] /\ then'[f] = "setFav" /\ pc'[f] = "returned" /\ key'[f] = k
          /\ result'[f] = {}
      BY <1>1, <3>1, <3>2
    <3>5. ASSUME NEW a \in before'[c], method'[a] \in Inserting, key'[a] = k
          PROVE  a \in before'[f]
      <4>1. a \in Calls /\ a # c /\ pc[a] \in Ended /\ method[a] \in Inserting
        BY <1>1, <3>5
      <4>2. Writes(a) /\ a # f
        BY <3>2, <4>1, WritePurpose DEF Writes
      <4>3. f \notin before[a]
        <5> SUFFICES ASSUME f \in before[a] PROVE FALSE
          OBVIOUS
        <5>1. ~CheckDue
          BY Stretches DEF CheckDue
        <5>2. PICK g \in Calls : then[g] = "setFav" /\ f \in before[g]
          BY <4>1, <4>2, <5>1 DEF HeartInv, WritesRechecked
        <5>3. pc[g] \in Active
          BY <5>2 DEF HeartInv, LatestSets
        <5> QED
          BY <1>4, <3>3, <5>2, <5>3
      <4>4. ~Concurrent(f, a)
        BY <1>5, <3>2, <3>3, <4>1
      <4>5. a \in before[f]
        BY <3>2, <4>1, <4>2, <4>3, <4>4 DEF Concurrent
      <4> QED
        BY <1>1, <3>4, <4>5
    <3> QED
      BY <1>1, <3>4, <3>5 DEF Founded
  <2> QED
    BY <2>1, <2>2, <2>3, <2>4, <2>5 DEF Asked
<1> QED
  BY <1>6, <1>7

\* The page on the navigator stays asked about while calls are made and return.
LEMMA AskedStays ==
  ASSUME Shape, Inv, HeartInv, [FavNext]_allVars, NEW k \in Keys, Asked(k),
         \/ TapFavorite /\ k = pages[Len(pages)]
         \/ MakeCall /\ UNCHANGED viewVars
         \/ \E c \in Calls : Session(c) /\ UNCHANGED viewVars
         \/ \E c \in Calls : Return(c)
  PROVE  Asked(k)'
<1>1. CASE Crossed
  BY <1>1, CrossedStays DEF Asked
<1>2. CASE TapFavorite /\ k = pages[Len(pages)]
  <2>1. UNCHANGED <<vars, then, checked>> /\ todo = <<>>
    BY <1>2 DEF TapFavorite, Starts, Idle, viewVars
  <2>2. todo' \in {Removes(k), Adds(k)}
    BY <1>2 DEF TapFavorite, Removes, Adds
  <2>3. todo # Checks(k) /\ \A j \in Keys : todo' \in {Checks(j), Removes(j), Adds(j)} => j = k
    BY <2>1, <2>2, Stretches
  <2> QED
    BY <1>1, <2>1, <2>3 DEF Asked, SetsFlag, vars
<1>3. CASE MakeCall /\ UNCHANGED viewVars
  <2>1. PICK c \in Calls, b \in Keys, m \in FavoriteMethods :
          /\ Call(c, m, b) /\ then' = [then EXCEPT ![c] = Purpose[m]]
          /\ \/ m = "EbookFavorite.check" /\ todo = Checks(b) /\ todo' = <<>>
             \/ m = "EbookFavorite.remove" /\ todo = Removes(b) /\ todo' = Checks(b)
             \/ m = "EbookFavorite.addFavorites" /\ todo = Adds(b) /\ todo' = <<>>
             \/ m = "EbookFavorite.listAll" /\ todo = Loads(b) /\ todo' = <<>>
    BY <1>3, CallCases
  <2>2. /\ pc[c] = "idle" /\ pc'[c] = "path" /\ key'[c] = b /\ then'[c] = Purpose[m]
        /\ checked' = checked
        /\ \A d \in Calls \ {c} : /\ pc'[d] = pc[d] /\ before'[d] = before[d]
                                  /\ key'[d] = key[d] /\ then'[d] = then[d]
    BY <1>3, <2>1 DEF Call, Shape, ViewTypeOK, TypeOK, CallerTypeOK, viewVars
  <2>3. /\ Purpose["EbookFavorite.check"] = "setFav"
        /\ then'[c] \in {"setFav", "checkFav"} => todo \in {Checks(b), Adds(b)}
    BY <2>1, <2>2 DEF Purpose, FavoriteMethods
  <2>4. CASE todo = Checks(k)
    <3>1. b = k /\ m = "EbookFavorite.check"
      BY <2>1, <2>4, Stretches
    <3> QED
      BY <2>2, <2>3, <3>1 DEF Asked
  <2>5. CASE \E g \in Calls : then[g] = "setFav" /\ key[g] = k /\ pc[g] \in Active
    <3>1. PICK g \in Calls : then[g] = "setFav" /\ key[g] = k /\ pc[g] \in Active
      BY <2>5
    <3>2. g # c
      BY <2>2, <3>1
    <3> QED
      BY <2>2, <3>1, <3>2 DEF Asked
  <2>6. ASSUME NEW f \in checked, key[f] = k,
               \A d \in Calls : f \in before[d] /\ SetsFlag(d) => key[d] = k,
               \A j \in Keys : todo \in {Checks(j), Removes(j), Adds(j)} => j = k
        PROVE  Asked(k)'
    <3>1. f # c /\ f \in Calls
      BY <2>2 DEF HeartInv, FlagIsAnswer, Shape, ViewTypeOK
    <3>2. \A d \in Calls : f \in before'[d] /\ SetsFlag(d)' => key'[d] = k
      BY <2>2, <2>3, <2>6 DEF SetsFlag
    <3>3. \A j \in Keys : todo' \in {Checks(j), Removes(j), Adds(j)} => j = k
      BY <2>1, <2>6, Stretches
    <3> QED
      BY <2>2, <2>6, <3>1, <3>2, <3>3 DEF Asked
  <2> QED
    BY <1>1, <2>4, <2>5, <2>6 DEF Asked
<1>4. ASSUME NEW c \in Calls, Session(c), UNCHANGED viewVars PROVE Asked(k)'
  <2>1. /\ UNCHANGED <<todo, then, key, before, checked>>
        /\ pc[c] \in Active /\ pc'[c] \in Active
        /\ \A d \in Calls \ {c} : pc'[d] = pc[d]
    BY <1>4, SessionFacts DEF Shape, viewVars
  <2> QED
    BY <1>1, <2>1 DEF Asked, SetsFlag
<1>5. ASSUME NEW c \in Calls, Return(c) PROVE Asked(k)'
  <2>1. /\ UNCHANGED <<then, method, key, before, result>> /\ todo = <<>>
        /\ pc[c] = "close" /\ pc'[c] = "returned"
        /\ \A d \in Calls \ {c} : pc'[d] = pc[d]
    BY <1>5, ReturnFacts
  <2>2. \A g \in Calls : c \notin before[g]
    BY <2>1, NotBefore
  <2>3. ASSUME then[c] = "setFav", key[c] = k PROVE Asked(k)'
    <3>1. checked' = {c} /\ todo' = <<>>
      BY <1>5, <2>1, <2>3 DEF Return, AddReturned, CheckReturned, ListReturned, RemoveReturned
    <3>2. \A j \in Keys : todo' \notin {Checks(j), Removes(j), Adds(j)}
      BY <3>1, Stretches
    <3> QED
      BY <2>1, <2>2, <2>3, <3>1, <3>2 DEF Asked
  <2>4. CASE \E g \in Calls : then[g] = "setFav" /\ key[g] = k /\ pc[g] \in Active
    <3>1. PICK g \in Calls : then[g] = "setFav" /\ key[g] = k /\ pc[g] \in Active
      BY <2>4
    <3>2. CASE g = c
      BY <2>3, <3>1, <3>2
    <3>3. CASE g # c
      BY <2>1, <3>1, <3>3 DEF Asked
    <3> QED
      BY <3>2, <3>3
  <2>5. ASSUME NEW f \in checked, key[f] = k,
               \A d \in Calls : f \in before[d] /\ SetsFlag(d) => key[d] = k
        PROVE  Asked(k)'
    <3>1. f \in Calls /\ pc[f] = "returned" /\ then[f] = "setFav" /\ f # c
      BY <2>1 DEF HeartInv, FlagIsAnswer, Shape, ViewTypeOK
    <3>2. CASE f \notin before[c]
      <4>1. Concurrent(f, c)
        BY <2>1, <2>2, <3>1, <3>2 DEF Concurrent
      <4>2. Crossed
        BY <3>1, <4>1 DEF Crossed
      <4> QED
        BY <4>2, CrossedStays DEF Asked
    <3>3. CASE f \in before[c] /\ then[c] = "setFav"
      BY <2>3, <2>5, <3>3 DEF SetsFlag
    <3>4. CASE f \in before[c] /\ then[c] = "checkFav"
      <4>1. key[c] = k
        BY <2>5, <3>4 DEF SetsFlag
      <4>2. todo' = Checks(k)
        BY <1>5, <3>4, <4>1 DEF Return, AddReturned, CheckReturned, ListReturned, RemoveReturned, Checks
      <4> QED
        BY <4>2 DEF Asked
    <3>5. CASE then[c] \notin {"setFav", "checkFav"}
      <4>1. checked' = checked /\ todo' = <<>>
        BY <1>5, <2>1, <3>5 DEF Return, AddReturned, CheckReturned, ListReturned, RemoveReturned
      <4>2. \A j \in Keys : todo' \notin {Checks(j), Removes(j), Adds(j)}
        BY <4>1, Stretches
      <4> QED
        BY <2>1, <2>5, <4>1, <4>2 DEF Asked, SetsFlag
    <3> QED
      BY <3>2, <3>3, <3>4, <3>5
  <2>6. todo # Checks(k)
    BY <2>1, Stretches
  <2> QED
    BY <1>1, <2>4, <2>5, <2>6 DEF Asked
<1> QED
  BY <1>2, <1>3, <1>4, <1>5

\* Additions stay founded, and new ones are.
LEMMA CalmStep ==
  ASSUME Shape, Inv, HeartInv, CalmInv, [FavNext]_allVars
  PROVE  CalmInv'
<1>1. stacked => stacked'
  BY DEF FavNext, OpenDetail, CloseDetail, TapFavorite, ShowFavorites, Session, Return, KillApp,
         allVars, viewVars
<1>2. ASSUME NEW b \in Calls, pc[b] # "idle", method'[b] \in Inserting PROVE Founded(b)'
  <2>1. Founded(b)
    BY <1>2, StoreStep, MadeStays DEF CalmInv
  <2> QED
    BY <1>1, <1>2, <2>1, FoundedStays
<1>3. \A b \in Calls : pc'[b] # "idle" /\ method'[b] \in Inserting => Founded(b)'
  <2>1. CASE MakeCall /\ UNCHANGED viewVars
    <3>1. PICK c \in Calls, k \in Keys, m \in FavoriteMethods :
            /\ Call(c, m, k) /\ then' = [then EXCEPT ![c] = Purpose[m]]
            /\ m = "EbookFavorite.addFavorites" => todo = Adds(k)
      BY <2>1, CallCases
    <3>2. method'[c] = m /\ \A d \in Calls \ {c} : pc'[d] = pc[d]
      BY <3>1 DEF Call, Inv, TypeOK
    <3>3. m \in Inserting => m = "EbookFavorite.addFavorites"
      BY DEF Inserting, FavoriteMethods
    <3>4. Purpose["EbookFavorite.addFavorites"] = "checkFav"
      BY DEF Purpose, FavoriteMethods
    <3>5. m \in Inserting => Founded(c)'
      BY <2>1, <3>1, <3>3, <3>4, AddFounded
    <3> QED
      BY <1>2, <3>2, <3>5
  <2>2. CASE ~(MakeCall /\ UNCHANGED viewVars)
    <3>1. ASSUME NEW b \in Calls PROVE pc'[b] # "idle" => pc[b] # "idle"
      <4>1. CASE UNCHANGED vars
        BY <4>1 DEF vars
      <4>2. ASSUME NEW c \in Calls, Session(c) \/ Return(c) PROVE pc'[b] # "idle" => pc[b] # "idle"
        BY <4>2, SessionFacts, ReturnFacts DEF Shape
      <4>3. CASE KillApp
        BY <4>3, KillFacts
      <4>4. CASE (\E k \in Keys : OpenDetail(k)) \/ CloseDetail \/ TapFavorite \/ ShowFavorites
        BY <4>1, <4>4 DEF OpenDetail, CloseDetail, TapFavorite, ShowFavorites
      <4> QED
        BY <2>2, <4>1, <4>2, <4>3, <4>4 DEF FavNext, allVars
    <3> QED
      BY <1>2, <3>1
  <2> QED
    BY <2>1, <2>2
<1>4. pages \in Seq(Keys) /\ (pages # <<>> => pages[Len(pages)] \in Keys)
  BY TopPage DEF Shape, ViewTypeOK
<1>5. CASE \/ TapFavorite \/ (MakeCall /\ UNCHANGED viewVars)
           \/ \E c \in Calls : Session(c) /\ UNCHANGED viewVars
           \/ \E c \in Calls : Return(c)
  <2>1. UNCHANGED <<pages, stacked>>
    BY <1>5, ReturnFacts DEF TapFavorite, viewVars
  <2>2. ~stacked /\ pages # <<>> => Asked(pages[Len(pages)])'
    <3> SUFFICES ASSUME ~stacked, pages # <<>> PROVE Asked(pages[Len(pages)])'
      OBVIOUS
    <3>1. PICK k \in Keys : k = pages[Len(pages)]
      BY <1>4
    <3>2. Asked(k)
      BY <3>1 DEF CalmInv
    <3>3. Asked(k)'
      BY <1>5, <3>1, <3>2, AskedStays
    <3> QED
      BY <2>1, <3>1, <3>3
  <2>3. ASSUME NEW k \in Keys, todo' = Adds(k)
        PROVE  ~favorite' /\ pages' # <<>> /\ k = pages'[Len(pages')]
    <3>1. CASE TapFavorite
      <4>1. pages # <<>> /\ UNCHANGED <<pages, favorite>>
            /\ todo' = IF favorite THEN Removes(pages[Len(pages)]) ELSE Adds(pages[Len(pages)])
        BY <3>1 DEF TapFavorite, viewVars, Removes, Adds
      <4> QED
        BY <2>3, <4>1, Stretches
    <3>2. CASE MakeCall /\ UNCHANGED viewVars
      <4>1. \E b \in Keys : todo' \in {<<>>, Checks(b)}
        BY <3>2, CallCases
      <4> QED
        BY <2>3, <4>1, Stretches
    <3>3. ASSUME NEW c \in Calls, Session(c) \/ Return(c) PROVE FALSE
      <4>1. todo' = <<>> \/ \E j : todo' = Checks(j)
        BY <3>3, SessionFacts, ReturnFacts
           DEF Return, AddReturned, CheckReturned, ListReturned, RemoveReturned, Checks, Shape
      <4> QED
        BY <2>3, <4>1, Stretches
    <3> QED
      BY <1>5, <3>1, <3>2, <3>3
  <2> QED
    BY <1>3, <2>1, <2>2, <2>3 DEF CalmInv
<1>6. CASE ShowFavorites \/ KillApp
  <2>1. pages' = <<>> /\ \A k \in Keys : todo' # Adds(k)
    BY <1>6, KillFacts, Stretches DEF ShowFavorites, Loads
  <2> QED
    BY <1>3, <2>1 DEF CalmInv
<1>7. ASSUME NEW k \in Keys, OpenDetail(k) PROVE CalmInv'
  <2>1. /\ pages' = Append(pages, k) /\ stacked' = (stacked \/ pages # <<>>) /\ todo' = Checks(k)
    BY <1>7 DEF OpenDetail, Checks
  <2>2. ~stacked' => Len(pages') = 1 /\ pages'[1] = k
    <3>1. Len(Append(<<>>, k)) = 1 /\ Append(<<>>, k)[1] = k
      OBVIOUS
    <3> QED
      BY <2>1, <3>1
  <2>3. Asked(k)'
    BY <2>1 DEF Asked
  <2>4. ~stacked' => Asked(pages[Len(pages)])'
    BY <2>2, <2>3
  <2> QED
    BY <1>3, <2>1, <2>2, <2>4, Stretches DEF CalmInv
<1>8. CASE CloseDetail
  <2>1. pages' = SubSeq(pages, 1, Len(pages) - 1) /\ pages # <<>> /\ UNCHANGED stacked /\ todo' = <<>>
    BY <1>8 DEF CloseDetail, Idle, callerVars
  <2>2. pages' \in Seq(Keys) /\ Len(pages') = Len(pages) - 1
    BY <2>1, TopPage DEF Shape
  <2>3. ~stacked' => pages' = <<>>
    BY <1>4, <2>1, <2>2 DEF CalmInv
  <2> QED
    BY <1>3, <2>1, <2>3, Stretches DEF CalmInv
<1>9. CASE UNCHANGED allVars
  BY <1>9 DEF allVars, vars, callerVars, viewVars, CalmInv, Asked, SetsFlag, Crossed, Concurrent,
              Founded, NotCalm
<1>10. CASE FavNext
  <2>1. \/ (\E k \in Keys : OpenDetail(k)) \/ CloseDetail
        \/ ShowFavorites \/ KillApp
        \/ TapFavorite \/ (MakeCall /\ UNCHANGED viewVars)
        \/ \E c \in Calls : Session(c) /\ UNCHANGED viewVars
        \/ \E c \in Calls : Return(c)
    BY <1>10 DEF FavNext
  <2> QED
    BY <1>5, <1>6, <1>7, <1>8, <2>1
<1> QED
  BY <1>9, <1>10

\* Two documents of one book come from additions of which one is not founded.
LEMMA CalmKeepsOne ==
  ASSUME Shape, Inv, KeysOK, SoloOK, CalmInv
  PROVE  NoCalmDuplicate
<1> DEFINE Rough(a, b) ==
      \/ Concurrent(a, b)
      \/ \E f, c \in Calls :
           /\ then[f] = "setFav" /\ Concurrent(f, c)
           /\ {f, c} \intersect ({a, b} \union before[a] \union before[b]) # {}
<1>1. ASSUME ~stacked, NEW a \in Calls, NEW b \in Calls, a \in before[b],
             Holds(file, a), wrote[a] = "inserted", wrote[b] = "inserted", key[a] = key[b]
      PROVE  Rough(a, b)
  <2> SUFFICES ASSUME ~Rough(a, b) PROVE FALSE
    OBVIOUS
  <2>1. /\ pc[a] # "idle" /\ method[a] \in Inserting
        /\ pc[b] # "idle" /\ method[b] \in Inserting
    BY <1>1, WritePurpose DEF Inv, WroteOK, KeysOK, Upserting, FavoriteMethods
  <2>2. Founded(b) /\ ~NotCalm(b)
    BY <2>1 DEF CalmInv, NotCalm
  <2>3. PICK f \in before[b] :
          /\ then[f] = "setFav" /\ pc[f] = "returned" /\ key[f] = key[b] /\ result[f] = {}
          /\ \A o \in before[b] : method[o] \in Inserting /\ key[o] = key[b] => o \in before[f]
    BY <1>1, <2>2 DEF Founded
  <2>4. f \in Calls /\ Alone(f)
    BY <2>2, <2>3, HasBefore DEF NotCalm, Alone
  <2>5. a \in before[f]
    BY <1>1, <2>1, <2>3
  <2>6. Answered(f) /\ Selects(f, a)
    BY <1>1, <2>3, <2>4, WritePurpose DEF Answered, Finding, Selects
  <2>7. Holds(result[f], a) \/ Gone(a)
    BY <1>1, <2>4, <2>5, <2>6 DEF SoloOK
  <2> QED
    BY <1>1, <2>3, <2>7 DEF Holds, Gone
<1>2. ASSUME ~stacked, NEW d \in file, NEW e \in file, d.key = e.key, d.oid # e.oid
      PROVE  Rough(d.oid, e.oid)
  <2>1. /\ d.oid \in Calls /\ wrote[d.oid] = "inserted" /\ key[d.oid] = d.key /\ Holds(file, d.oid)
        /\ e.oid \in Calls /\ wrote[e.oid] = "inserted" /\ key[e.oid] = e.key /\ Holds(file, e.oid)
    BY DEF Inv, TypeOK, DocsOK, Document, Holds
  <2>2. pc[d.oid] # "idle" /\ pc[e.oid] # "idle"
    BY <2>1 DEF Inv, WroteOK
  <2>3. CASE d.oid \in before[e.oid]
    BY <1>1, <1>2, <2>1, <2>3
  <2>4. CASE e.oid \in before[d.oid]
    <3>1. Rough(e.oid, d.oid)
      BY <1>1, <1>2, <2>1, <2>4
    <3> QED
      BY <3>1 DEF Concurrent
  <2>5. CASE Concurrent(d.oid, e.oid)
    BY <2>5
  <2> QED
    BY <1>2, <2>2, <2>3, <2>4, <2>5 DEF Concurrent
<1> QED
  BY <1>2 DEF NoCalmDuplicate

\* THEOREM: for any number of calls and books: a book that is a favourite twice
\* was added while another call or a check() was under way.
THEOREM CalmAddsOnce == FavSpec => []NoCalmDuplicate
<1>1. FavInit => HeartInv /\ CalmInv
  BY Stretches DEF FavInit, CallerInit, Init, HeartInv, FlagIsAnswer, LatestSets, WritesRechecked, CalmInv
<1>2. FavSpec => [](Shape /\ Inv /\ HeartInv /\ CalmInv)
  BY <1>1, ShapeHolds, HeartStep, CalmStep, PTL DEF FavSpec
<1> QED
  BY <1>2, FavImplementsStore, SoloHolds, KeysHold, CalmKeepsOne, PTL
=============================================================================
