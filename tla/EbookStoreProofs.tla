--------------------------- MODULE EbookStoreProofs ---------------------------
(***************************************************************************)
(* Proofs about EbookStore for any number of calls, keys and any set of    *)
(* methods: what the stores keep and answer although nothing serialises    *)
(* their sessions.                                                         *)
(***************************************************************************)
EXTENDS EbookStore, TLAPS

\* The session of call s has read the file and may still write from its memory.
Loaded(s) == pc[s] \in {"op", "upsert", "tidy"}

\* The operation of call c is behind it.
Operated(c) == pc[c] \in {"tidy", "close", "returned", "leaked", "killed"}

BeforeOK == \A c \in Calls : /\ \A d \in before[c] : pc[d] \in Ended
                             /\ pc[c] = "idle" => before[c] = {}

WroteOK == \A c \in Calls : /\ wrote[c] = "inserted" => Operated(c)
                            /\ pc[c] = "upsert" => method[c] \in Upserting
                            /\ pc[c] = "tidy" => method[c] \in Tidying

RemovedOK == \A c \in Calls : /\ removed[c] # {} => Operated(c)
                              /\ \A a \in removed[c] : wrote[a] = "inserted"

DocsOK(S) == \A d \in S : wrote[d.oid] = "inserted" /\ d.key = key[d.oid]

MemOK == \A s \in Calls :
  /\ DocsOK(mem[s])
  /\ Loaded(s) =>
     /\ wrote[s] = "inserted" => Holds(mem[s], s)
     /\ \A a \in removed[s] : ~Holds(mem[s], a)
     /\ \A a \in before[s] :
          wrote[a] = "inserted" =>
            Holds(mem[s], a) \/ Taken(a) \/ Overwritable(a)
     /\ \A m \in before[s] : \A a \in removed[m] :
          Holds(mem[s], a) => Overwritable(m)

\* The inductive invariant: what a session has in memory is, as far as calls
\* that ended before it go, what the file owed it when it was opened.
Inv == /\ TypeOK /\ BeforeOK /\ WroteOK /\ RemovedOK /\ DocsOK(file) /\ MemOK
       /\ DurableAdd /\ NoResurrection /\ ReadYourWrites /\ ReadYourRemoves

-----------------------------------------------------------------------------
(* Facts every step shares. *)

USE DEF Active, Ended, Loaded, Operated

\* The operation of a call leads to tidy, to close or to an open handle.
LEMMA AfterOpCases ==
  \A c \in Calls : /\ AfterOp(c) \in {"tidy", "close", "leaked"}
                   /\ AfterOp(c) = "tidy" => method[c] \in Tidying
  BY DEF AfterOp

\* The initial values of method and key are a method and a key.
LEMMA InitType == Init => TypeOK
<1> SUFFICES ASSUME Init PROVE TypeOK
  OBVIOUS
<1>1. (CHOOSE m \in Methods : TRUE) \in AllMethods
  BY StoreAssumption
<1>2. (CHOOSE k \in Keys : TRUE) \in Keys
  BY StoreAssumption
<1> QED BY <1>1, <1>2 DEF Init, TypeOK

\* Matching and Updated stay within the documents; Updated changes no identity.
LEMMA UpdatedFacts ==
  ASSUME NEW c \in Calls, NEW S \in SUBSET Document
  PROVE  /\ Updated(c, S) \in SUBSET Document
         /\ \A a : Holds(Updated(c, S), a) <=> Holds(S, a)
         /\ DocsOK(S) => DocsOK(Updated(c, S))
<1>1. \A d \in Document : /\ [d EXCEPT !.by = c] \in Document
                          /\ [d EXCEPT !.by = c].oid = d.oid
                          /\ [d EXCEPT !.by = c].key = d.key
  BY DEF Document
<1>2. \A e \in Updated(c, S) : \E d \in S : e \in Document /\ e.oid = d.oid /\ e.key = d.key
  BY <1>1 DEF Updated
<1>3. \A d \in S : \E e \in Updated(c, S) : e.oid = d.oid
  BY <1>1 DEF Updated
<1> QED BY <1>2, <1>3 DEF Holds, DocsOK

\* Every step preserves the types of the state.
LEMMA NextType == TypeOK /\ [Next]_vars => TypeOK'
<1> SUFFICES ASSUME TypeOK, [Next]_vars PROVE TypeOK'
  OBVIOUS
<1>1. ASSUME NEW c \in Calls, NEW m \in Methods, NEW k \in Keys, Call(c, m, k)
      PROVE  TypeOK'
  BY <1>1, StoreAssumption DEF Call, TypeOK
<1>2. ASSUME NEW c \in Calls, Open(c) PROVE TypeOK'
  BY <1>2 DEF Open, TypeOK
<1>3. ASSUME NEW c \in Calls, Insert(c) \/ Upsert(c) PROVE TypeOK'
  BY <1>3, AfterOpCases DEF Insert, Upsert, InsertDocument, DocumentOf, Document, TypeOK
<1>4. ASSUME NEW c \in Calls, Remove(c) PROVE TypeOK'
  <2> DEFINE out == IF method[c] = "EbookDownload.removeById"
                    THEN mem[c] ELSE Matching(c, file \union mem[c])
  <2>1. out \in SUBSET Document
    BY DEF Matching, TypeOK
  <2>2. {e.oid : e \in out} \in SUBSET Calls
    BY <2>1 DEF Document
  <2>3. /\ mem' = [mem EXCEPT ![c] = @ \ out]
        /\ file' \in SUBSET file
        /\ removed' = [removed EXCEPT ![c] = {e.oid : e \in out}]
        /\ pc' = [pc EXCEPT ![c] = AfterOp(c)]
        /\ UNCHANGED <<method, key, result, before, wrote>>
    BY <1>4 DEF Remove
  <2> HIDE DEF out
  <2> QED BY <2>2, <2>3, AfterOpCases DEF TypeOK
<1>5. ASSUME NEW c \in Calls, Find(c) PROVE TypeOK'
  BY <1>5, AfterOpCases DEF Find, Matching, TypeOK
<1>6. ASSUME NEW c \in Calls, Update(c) PROVE TypeOK'
  <2>1. Updated(c, file) \in SUBSET Document /\ Updated(c, mem[c]) \in SUBSET Document
    BY UpdatedFacts DEF TypeOK
  <2> QED BY <1>6, <2>1, AfterOpCases DEF Update, TypeOK
<1>7. ASSUME NEW c \in Calls, Tidy(c) \/ Close(c) PROVE TypeOK'
  BY <1>7 DEF Tidy, Close, TypeOK
<1>8. CASE Kill
  BY <1>8 DEF Kill, TypeOK
<1>9. CASE UNCHANGED vars
  BY <1>9 DEF vars, TypeOK
<1> QED BY <1>1, <1>2, <1>3, <1>4, <1>5, <1>6, <1>7, <1>8, <1>9 DEF Next, Step

\* THEOREM: in every reachable state the variables have their types.
THEOREM TypeCorrect == Spec => []TypeOK
<1>1. Init => TypeOK
  BY InitType
<1> QED BY <1>1, NextType, PTL DEF Spec

-----------------------------------------------------------------------------
(* The inductive step, one lemma per kind of step. *)

\* Stuttering preserves the invariant.
LEMMA StutterStep == Inv /\ UNCHANGED vars => Inv'
  BY DEF vars, Inv, TypeOK, BeforeOK, WroteOK, RemovedOK, DocsOK, MemOK, Holds,
         DurableAdd, NoResurrection, ReadYourWrites, ReadYourRemoves, Taken,
         Overwritable, Concurrent, Answered, Selects

\* A step that makes no call keeps the real-time order of the calls.
LEMMA SameOrder ==
  ASSUME UNCHANGED <<before, method>>,
         \A c \in Calls : pc[c] = "idle" <=> pc'[c] = "idle"
  PROVE  \A c \in Calls : Overwritable(c)' <=> Overwritable(c)
  BY DEF Overwritable, Concurrent

\* Making a call keeps the invariant: the new call has done nothing yet.
LEMMA CallStep ==
  ASSUME Inv, NEW c \in Calls, NEW m \in Methods, NEW k \in Keys, Call(c, m, k)
  PROVE  Inv'
<1>1. TypeOK'
  BY NextType DEF Inv, Next
<1>2. /\ pc[c] = "idle" /\ pc' = [pc EXCEPT ![c] = "path"]
      /\ \A d \in Calls \ {c} : method'[d] = method[d] /\ key'[d] = key[d] /\ before'[d] = before[d]
      /\ before'[c] = {d \in Calls : pc[d] \in Ended}
      /\ UNCHANGED <<file, mem, result, wrote, removed>>
  BY DEF Call, Inv, TypeOK
<1>3. wrote[c] # "inserted" /\ removed[c] = {} /\ \A d \in Calls : c \notin removed[d] /\ c \notin before[d]
  BY <1>2 DEF Inv, WroteOK, RemovedOK, BeforeOK
<1>4. \A d \in Calls : Overwritable(d) => Overwritable(d)'
  BY <1>2, <1>3 DEF Overwritable, Concurrent, Inv, TypeOK
<1>5. \A d \in Calls : Taken(d)' <=> Taken(d)
  BY <1>2 DEF Taken
<1>6. BeforeOK' /\ WroteOK' /\ RemovedOK'
  BY <1>2, <1>3 DEF Inv, TypeOK, BeforeOK, WroteOK, RemovedOK
<1>7. \A S \in SUBSET Document : DocsOK(S) => DocsOK(S)'
  BY <1>2, <1>3 DEF DocsOK, Document
<1>8. DocsOK(file)'
  BY <1>2, <1>7 DEF Inv, TypeOK, DocsOK
<1>9. MemOK'
  <2>1. \A s \in Calls : DocsOK(mem[s])'
    BY <1>2, <1>7 DEF Inv, TypeOK, MemOK, DocsOK
  <2> QED BY <2>1, <1>2, <1>3, <1>4, <1>5 DEF Inv, TypeOK, MemOK, Holds
<1>10. DurableAdd' /\ NoResurrection'
  BY <1>2, <1>3, <1>4, <1>5 DEF Inv, TypeOK, DurableAdd, NoResurrection, Holds
<1>11. ReadYourWrites' /\ ReadYourRemoves'
  BY <1>2, <1>3, <1>4, <1>5 DEF Inv, TypeOK, ReadYourWrites, ReadYourRemoves, Holds, Answered, Selects
<1> QED BY <1>1, <1>6, <1>8, <1>9, <1>10, <1>11 DEF Inv

\* Opening keeps the invariant: the memory image takes over what the file owes.
LEMMA OpenStep ==
  ASSUME Inv, NEW c \in Calls, Open(c)
  PROVE  Inv'
<1>1. TypeOK'
  BY NextType DEF Inv, Next, Step
<1>2. /\ pc[c] = "path" /\ pc' = [pc EXCEPT ![c] = "op"]
      /\ mem'[c] = file /\ \A d \in Calls \ {c} : mem'[d] = mem[d]
      /\ UNCHANGED <<file, method, key, result, before, wrote, removed>>
  BY DEF Open, Inv, TypeOK
<1>3. \A d \in Calls : Overwritable(d)' <=> Overwritable(d)
  BY <1>2, SameOrder DEF Inv, TypeOK
<1>4. \A d \in Calls : Taken(d)' <=> Taken(d)
  BY <1>2 DEF Taken
<1>5. BeforeOK' /\ WroteOK' /\ RemovedOK' /\ DocsOK(file)'
  BY <1>2 DEF Inv, TypeOK, BeforeOK, WroteOK, RemovedOK, DocsOK
<1>6. MemOK'
  <2>1. wrote[c] # "inserted" /\ removed[c] = {}
    BY <1>2 DEF Inv, WroteOK, RemovedOK
  <2> SUFFICES ASSUME NEW s \in Calls
               PROVE  MemOK!(s)'
    BY DEF MemOK
  <2>2. CASE s = c
    BY <2>1, <2>2, <1>2, <1>3, <1>4 DEF Inv, TypeOK, DocsOK, Holds, DurableAdd, NoResurrection
  <2>3. CASE s # c
    BY <2>3, <1>2, <1>3, <1>4 DEF Inv, TypeOK, MemOK, DocsOK, Holds
  <2> QED BY <2>2, <2>3
<1>7. DurableAdd' /\ NoResurrection'
  BY <1>2, <1>3, <1>4 DEF Inv, TypeOK, DurableAdd, NoResurrection, Holds
<1>8. ReadYourWrites' /\ ReadYourRemoves'
  BY <1>2, <1>3, <1>4 DEF Inv, TypeOK, ReadYourWrites, ReadYourRemoves, Holds, Answered, Selects
<1> QED BY <1>1, <1>5, <1>6, <1>7, <1>8 DEF Inv

\* An insertion keeps the invariant: its document is in the file and, should
\* the same session tidy, in the memory it tidies from.
LEMMA InsertStep ==
  ASSUME Inv, NEW c \in Calls, Insert(c) \/ Upsert(c)
  PROVE  Inv'
<1>1. TypeOK'
  BY NextType DEF Inv, Next, Step
<1>2. /\ pc[c] \in {"op", "upsert"} /\ pc' = [pc EXCEPT ![c] = AfterOp(c)]
      /\ mem'[c] = mem[c] \union {DocumentOf(c)}
      /\ \A d \in Calls \ {c} : mem'[d] = mem[d] /\ wrote'[d] = wrote[d]
      /\ file' = file \union {DocumentOf(c)}
      /\ wrote'[c] = "inserted"
      /\ UNCHANGED <<method, key, result, before, removed>>
  BY DEF Insert, Upsert, InsertDocument, Inv, TypeOK
<1>3. /\ AfterOp(c) \in {"tidy", "close", "leaked"}
      /\ AfterOp(c) = "tidy" => method[c] \in Tidying
  BY AfterOpCases
<1>4. /\ DocumentOf(c) \in Document
      /\ DocumentOf(c).oid = c /\ DocumentOf(c).key = key[c]
  BY DEF DocumentOf, Document, Inv, TypeOK
<1>5. \A d \in Calls : Overwritable(d)' <=> Overwritable(d)
  BY <1>2, <1>3, SameOrder DEF Inv, TypeOK
<1>6. \A d \in Calls : Taken(d)' <=> Taken(d)
  BY <1>2 DEF Taken
<1>7. /\ wrote[c] # "inserted" /\ removed[c] = {}
      /\ \A d \in Calls : c \notin removed[d] /\ c \notin before[d]
  BY <1>2 DEF Inv, WroteOK, RemovedOK, BeforeOK
<1>8. BeforeOK' /\ WroteOK' /\ RemovedOK'
  BY <1>2, <1>3, <1>7 DEF Inv, TypeOK, BeforeOK, WroteOK, RemovedOK
<1>9. \A S \in SUBSET Document : DocsOK(S) =>
        \A d \in S \union {DocumentOf(c)} : wrote'[d.oid] = "inserted" /\ d.key = key[d.oid]
  <2>1. \A d \in Document : d.oid \in Calls
    BY DEF Document
  <2> QED BY <2>1, <1>2, <1>4 DEF DocsOK, Inv, TypeOK
<1>10. DocsOK(file)'
  BY <1>2, <1>9 DEF Inv, TypeOK, DocsOK
<1>11. MemOK'
  <2> SUFFICES ASSUME NEW s \in Calls PROVE MemOK!(s)'
    BY DEF MemOK
  <2>1. DocsOK(mem[s])'
    BY <1>2, <1>9 DEF Inv, TypeOK, MemOK, DocsOK
  <2>2. \A a \in Calls \ {c} : Holds(mem[s], a)' <=> Holds(mem[s], a)
    BY <1>2, <1>4 DEF Holds
  <2>3. Holds(mem[c], c)'
    BY <1>2, <1>4 DEF Holds
  <2>4. ASSUME Loaded(s)' PROVE Loaded(s)
    BY <2>4, <1>2, <1>3 DEF Inv, TypeOK
  <2> QED BY <2>1, <2>2, <2>3, <2>4, <1>2, <1>5, <1>6, <1>7, ZenonT(60) DEF Inv, TypeOK, MemOK
<1>12. \A a \in Calls \ {c} : Holds(file, a)' <=> Holds(file, a)
  BY <1>2, <1>4 DEF Holds
<1>13. DurableAdd' /\ NoResurrection'
  <2>1. Holds(file, c)'
    BY <1>2, <1>4 DEF Holds
  <2> QED BY <2>1, <1>2, <1>5, <1>6, <1>7, <1>12 DEF Inv, TypeOK, DurableAdd, NoResurrection
<1>14. ReadYourWrites' /\ ReadYourRemoves'
  <2>1. method[c] \notin Finding
    BY DEF Insert, Upsert, Inserting, Upserting, Finding, Inv, WroteOK
  <2> QED BY <2>1, <1>2, <1>3, <1>5, <1>6, <1>7
          DEF Inv, TypeOK, ReadYourWrites, ReadYourRemoves, Holds, Answered, Selects
<1> QED BY <1>1, <1>8, <1>10, <1>11, <1>13, <1>14 DEF Inv

\* A removal keeps the invariant: whatever it takes out is recorded as taken,
\* and neither the file nor the memory it may tidy from holds it any more.
LEMMA RemoveStep ==
  ASSUME Inv, NEW c \in Calls, Remove(c)
  PROVE  Inv'
<1> DEFINE out == IF method[c] = "EbookDownload.removeById"
                  THEN mem[c] ELSE Matching(c, file \union mem[c])
           ids == {e.oid : e \in out}
<1>1. TypeOK'
  BY NextType DEF Inv, Next, Step
<1>2. /\ pc[c] = "op" /\ pc' = [pc EXCEPT ![c] = AfterOp(c)]
      /\ mem'[c] = mem[c] \ out
      /\ \A d \in Calls \ {c} : mem'[d] = mem[d] /\ removed'[d] = removed[d]
      /\ file' = {d \in file : d.oid \notin ids}
      /\ removed'[c] = ids
      /\ UNCHANGED <<method, key, result, before, wrote>>
  BY DEF Remove, Inv, TypeOK
<1>3. /\ AfterOp(c) \in {"tidy", "close", "leaked"}
      /\ AfterOp(c) = "tidy" => method[c] \in Tidying
  BY AfterOpCases
<1>4. out \in SUBSET Document /\ DocsOK(out)
  BY DEF Matching, DocsOK, MemOK, Inv, TypeOK
<1>5. /\ \A d \in file : d \notin file' => d.oid \in ids
      /\ \A d \in mem[c] : d \in mem'[c] <=> d.oid \notin ids
  <2>1. \A d \in mem[c], e \in out : d.oid = e.oid => d \in out
    BY DEF Matching, DocsOK, MemOK, Inv
  <2> HIDE DEF out
  <2> QED BY <2>1, <1>2
<1>6. \A a \in ids : a \in Calls /\ wrote[a] = "inserted"
  BY <1>4 DEF DocsOK, Document
<1> HIDE DEF out, ids
<1>7. \A d \in Calls : Overwritable(d)' <=> Overwritable(d)
  BY <1>2, <1>3, SameOrder DEF Inv, TypeOK
<1>8. removed[c] = {} /\ \A d \in Calls : c \notin before[d]
  BY <1>2 DEF Inv, RemovedOK, BeforeOK
<1>9. \A d \in Calls : (Taken(d)' <=> Taken(d) \/ d \in ids)
  BY <1>2, <1>8 DEF Taken
<1>10. BeforeOK' /\ WroteOK' /\ RemovedOK'
  BY <1>2, <1>3, <1>6, <1>8 DEF Inv, TypeOK, BeforeOK, WroteOK, RemovedOK
<1>11. DocsOK(file)'
  BY <1>2 DEF Inv, DocsOK
<1>12. MemOK'
  <2> SUFFICES ASSUME NEW s \in Calls PROVE MemOK!(s)'
    BY DEF MemOK
  <2>1. DocsOK(mem[s])'
    BY <1>2 DEF Inv, MemOK, DocsOK
  <2>2. Loaded(s)' => Loaded(s)
    BY <1>2, <1>3 DEF Inv, TypeOK
  <2>3. \A a \in Calls : Holds(mem[s], a)' => Holds(mem[s], a)
    BY <1>2 DEF Holds
  <2>4. CASE s # c
    BY <2>1, <2>2, <2>4, <1>2, <1>7, <1>8, <1>9 DEF Inv, TypeOK, MemOK, Holds
  <2>5. CASE s = c
    <3>1. \A a \in Calls : Holds(mem[c], a)' <=> Holds(mem[c], a) /\ a \notin ids
      BY <1>2, <1>5 DEF Holds
    <3>2. wrote[c] # "inserted"
      BY <1>2 DEF Inv, WroteOK
    <3> QED BY <2>1, <2>2, <2>5, <3>1, <3>2, <1>2, <1>6, <1>7, <1>8, <1>9 DEF Inv, TypeOK, MemOK
  <2> QED BY <2>4, <2>5
<1>13. \A a \in Calls : Holds(file, a)' <=> Holds(file, a) /\ a \notin ids
  BY <1>2, <1>5 DEF Holds
<1>14. DurableAdd'
  BY <1>2, <1>7, <1>9, <1>13 DEF Inv, DurableAdd
<1>15. NoResurrection'
  BY <1>2, <1>6, <1>7, <1>13 DEF Inv, TypeOK, NoResurrection
<1>16. ReadYourWrites' /\ ReadYourRemoves'
  <2>1. method[c] \notin Finding
    BY DEF Remove, Removing, Finding
  <2> QED BY <2>1, <1>2, <1>7, <1>8, <1>9
          DEF Inv, TypeOK, ReadYourWrites, ReadYourRemoves, Holds, Answered, Selects
<1> QED BY <1>1, <1>10, <1>11, <1>12, <1>14, <1>15, <1>16 DEF Inv

\* A find keeps the invariant: it answers from the memory image.
LEMMA FindStep ==
  ASSUME Inv, NEW c \in Calls, Find(c)
  PROVE  Inv'
<1>1. TypeOK'
  BY NextType DEF Inv, Next, Step
<1>2. /\ pc[c] = "op" /\ pc' = [pc EXCEPT ![c] = AfterOp(c)]
      /\ result'[c] = Matching(c, mem[c])
      /\ \A d \in Calls \ {c} : result'[d] = result[d]
      /\ UNCHANGED <<file, method, key, mem, before, wrote, removed>>
  BY DEF Find, Inv, TypeOK
<1>3. /\ AfterOp(c) \in {"tidy", "close", "leaked"}
      /\ AfterOp(c) = "tidy" => method[c] \in Tidying
  BY AfterOpCases
<1>4. \A d \in Calls : Overwritable(d)' <=> Overwritable(d)
  BY <1>2, <1>3, SameOrder DEF Inv, TypeOK
<1>5. \A d \in Calls : Taken(d)' <=> Taken(d)
  BY <1>2 DEF Taken
<1>6. BeforeOK' /\ WroteOK' /\ RemovedOK' /\ DocsOK(file)' /\ MemOK'
  BY <1>2, <1>3, <1>4, <1>5
     DEF Inv, TypeOK, BeforeOK, WroteOK, RemovedOK, DocsOK, MemOK, Holds
<1>7. DurableAdd' /\ NoResurrection'
  BY <1>2, <1>4, <1>5 DEF Inv, DurableAdd, NoResurrection, Holds
<1>8. /\ \A a \in Calls : Selects(c, a) /\ Holds(mem[c], a) => Holds(result[c], a)'
      /\ \A a \in Calls : Holds(result[c], a)' => Holds(mem[c], a)
  BY <1>2 DEF Holds, Matching, Selects, Inv, MemOK, DocsOK
<1>9. \A f \in Calls \ {c} : /\ Answered(f)' <=> Answered(f)
                             /\ \A a \in Calls : Holds(result[f], a)' <=> Holds(result[f], a)
  BY <1>2 DEF Answered, Holds, Inv, TypeOK
<1>10. \A f, a \in Calls : Selects(f, a)' <=> Selects(f, a)
  BY <1>2 DEF Selects
<1>11. ReadYourWrites'
  BY <1>2, <1>4, <1>5, <1>8, <1>9, <1>10 DEF Inv, TypeOK, MemOK, ReadYourWrites
<1>12. ReadYourRemoves'
  BY <1>2, <1>4, <1>8, <1>9 DEF Inv, TypeOK, MemOK, ReadYourRemoves
<1> QED BY <1>1, <1>6, <1>7, <1>11, <1>12 DEF Inv

\* An update keeps the invariant: it changes no document's identity.
LEMMA UpdateStep ==
  ASSUME Inv, NEW c \in Calls, Update(c)
  PROVE  Inv'
<1>1. TypeOK'
  BY NextType DEF Inv, Next, Step
<1>2. /\ pc[c] = "op" /\ method[c] \in Upserting
      /\ pc'[c] \in {"upsert", "tidy", "close", "leaked"}
      /\ pc'[c] = "tidy" => method[c] \in Tidying
      /\ \A d \in Calls \ {c} : pc'[d] = pc[d] /\ mem'[d] = mem[d] /\ wrote'[d] = wrote[d]
      /\ mem'[c] = Updated(c, mem[c]) /\ file' = Updated(c, file)
      /\ wrote'[c] = "updated"
      /\ UNCHANGED <<method, key, result, before, removed>>
  BY AfterOpCases DEF Update, Inv, TypeOK
<1>3. /\ wrote[c] # "inserted" /\ removed[c] = {}
      /\ \A d \in Calls : c \notin removed[d] /\ c \notin before[d]
  BY <1>2 DEF Inv, WroteOK, RemovedOK, BeforeOK
<1>4. \A d \in Calls : Overwritable(d)' <=> Overwritable(d)
  BY <1>2, SameOrder DEF Inv, TypeOK
<1>5. \A d \in Calls : Taken(d)' <=> Taken(d)
  BY <1>2 DEF Taken
<1>6. \A a : Holds(file, a)' <=> Holds(file, a)
  BY <1>2, UpdatedFacts DEF Inv, TypeOK, Holds
<1>7. \A s \in Calls : \A a : Holds(mem[s], a)' <=> Holds(mem[s], a)
  <2>1. mem[c] \in SUBSET Document
    BY DEF Inv, TypeOK
  <2>2. \A a : Holds(Updated(c, mem[c]), a) <=> Holds(mem[c], a)
    BY <2>1, UpdatedFacts
  <2> QED BY <2>2, <1>2 DEF Holds
<1>8. BeforeOK' /\ WroteOK' /\ RemovedOK'
  BY <1>2, <1>3 DEF Inv, TypeOK, BeforeOK, WroteOK, RemovedOK
<1>9. \A S \in SUBSET Document : DocsOK(S) =>
        \A d \in S : wrote'[d.oid] = "inserted" /\ d.key = key'[d.oid]
  BY <1>2, <1>3 DEF DocsOK, Document
<1>10. DocsOK(file)' /\ \A s \in Calls : DocsOK(mem[s])'
  <2>1. /\ Updated(c, file) \in SUBSET Document /\ DocsOK(Updated(c, file))
        /\ Updated(c, mem[c]) \in SUBSET Document /\ DocsOK(Updated(c, mem[c]))
        /\ \A s \in Calls : mem[s] \in SUBSET Document /\ DocsOK(mem[s])
    BY UpdatedFacts DEF Inv, TypeOK, MemOK
  <2>2. \A d \in file' : wrote'[d.oid] = "inserted" /\ d.key = key'[d.oid]
    BY <2>1, <1>2, <1>9
  <2>3. \A s \in Calls : \A d \in mem'[s] : wrote'[d.oid] = "inserted" /\ d.key = key'[d.oid]
    BY <2>1, <1>2, <1>9
  <2> QED BY <2>2, <2>3 DEF DocsOK
<1>11. MemOK'
  BY <1>2, <1>3, <1>4, <1>5, <1>7, <1>10 DEF Inv, TypeOK, MemOK
<1>12. DurableAdd' /\ NoResurrection'
  BY <1>2, <1>3, <1>4, <1>5, <1>6 DEF Inv, DurableAdd, NoResurrection
<1>13. ReadYourWrites' /\ ReadYourRemoves'
  <2>1. method[c] \notin Finding
    BY <1>2 DEF Upserting, Finding
  <2> QED BY <2>1, <1>2, <1>3, <1>4, <1>5
          DEF Inv, TypeOK, ReadYourWrites, ReadYourRemoves, Holds, Answered, Selects
<1> QED BY <1>1, <1>8, <1>10, <1>11, <1>12, <1>13 DEF Inv

\* Tidying keeps the invariant: a document that the rewritten file lacks, or has
\* back, belongs to a call concurrent with this session.
LEMMA TidyStep ==
  ASSUME Inv, NEW c \in Calls, Tidy(c)
  PROVE  Inv'
<1>1. TypeOK'
  BY NextType DEF Inv, Next, Step
<1>2. /\ pc[c] = "tidy" /\ pc' = [pc EXCEPT ![c] = "close"]
      /\ file' = mem[c]
      /\ UNCHANGED <<method, key, mem, result, before, wrote, removed>>
  BY DEF Tidy
<1>3. \A d \in Calls : Overwritable(d)' <=> Overwritable(d)
  BY <1>2, SameOrder DEF Inv, TypeOK
<1>4. \A d \in Calls : Taken(d)' <=> Taken(d)
  BY <1>2 DEF Taken
<1>5. \A a \in Calls : Holds(file, a)' <=> Holds(mem[c], a)
  BY <1>2 DEF Holds
<1>6. BeforeOK' /\ WroteOK' /\ RemovedOK' /\ DocsOK(file)' /\ MemOK'
  BY <1>2, <1>3, <1>4 DEF Inv, TypeOK, BeforeOK, WroteOK, RemovedOK, DocsOK, MemOK, Holds
<1>7. \A a \in Calls : pc[a] # "idle" /\ a # c /\ ~Overwritable(a) => a \in before[c]
  BY <1>2 DEF Overwritable, Concurrent, Inv, BeforeOK, WroteOK
<1>8. DurableAdd'
  <2> SUFFICES ASSUME NEW a \in Calls, wrote[a] = "inserted", ~Taken(a), ~Overwritable(a)
               PROVE  Holds(mem[c], a)
    BY <1>2, <1>3, <1>4, <1>5 DEF DurableAdd
  <2>1. pc[a] # "idle"
    BY DEF Inv, WroteOK
  <2>2. a # c => a \in before[c]
    BY <2>1, <1>7
  <2> QED BY <2>2, <1>2 DEF Inv, MemOK
<1>9. NoResurrection'
  <2> SUFFICES ASSUME NEW m \in Calls, NEW a \in removed[m], Holds(mem[c], a), ~Overwritable(m)
               PROVE  FALSE
    BY <1>2, <1>3, <1>5 DEF NoResurrection, Inv, TypeOK
  <2>1. pc[m] # "idle"
    BY DEF Inv, RemovedOK
  <2>2. m # c => m \in before[c]
    BY <2>1, <1>7
  <2> QED BY <2>2, <1>2 DEF Inv, MemOK
<1>10. ReadYourWrites' /\ ReadYourRemoves'
  BY <1>2, <1>3, <1>4 DEF Inv, TypeOK, ReadYourWrites, ReadYourRemoves, Holds, Answered, Selects
<1> QED BY <1>1, <1>6, <1>8, <1>9, <1>10 DEF Inv

\* A call that ends, by returning or with the process, keeps the invariant.
LEMMA EndStep ==
  ASSUME Inv, (\E c \in Calls : Close(c)) \/ Kill
  PROVE  Inv'
<1>1. TypeOK'
  BY NextType DEF Inv, Next, Step
<1>2. /\ \A d \in Calls : \/ pc'[d] = pc[d] /\ (mem'[d] = mem[d] \/ (mem'[d] = {} /\ ~Loaded(d)))
                          \/ /\ pc[d] \in Active /\ pc'[d] \in {"returned", "killed"}
                             /\ mem'[d] = {}
                             /\ pc'[d] = "returned" => pc[d] = "close"
      /\ UNCHANGED <<file, method, key, result, before, wrote, removed>>
  <2>1. CASE \E c \in Calls : Close(c)
    <3> PICK c \in Calls : Close(c)
      BY <2>1
    <3> QED BY DEF Close, Inv, TypeOK
  <2>2. CASE Kill
    <3>1. \A d \in Calls : pc[d] \notin Active => ~Loaded(d)
      OBVIOUS
    <3> QED BY <2>2, <3>1 DEF Kill, Inv, TypeOK
  <2> QED BY <2>1, <2>2
<1>3. \A d \in Calls : Overwritable(d)' <=> Overwritable(d)
  BY <1>2, SameOrder
<1>4. \A d \in Calls : Taken(d)' <=> Taken(d)
  BY <1>2 DEF Taken
<1>5. BeforeOK' /\ WroteOK' /\ RemovedOK' /\ DocsOK(file)'
  BY <1>2 DEF Inv, TypeOK, BeforeOK, WroteOK, RemovedOK, DocsOK
<1>6. MemOK'
  <2> SUFFICES ASSUME NEW s \in Calls PROVE MemOK!(s)'
    BY DEF MemOK
  <2>1. CASE pc'[s] = pc[s] /\ mem'[s] = mem[s]
    BY <2>1, <1>2, <1>3, <1>4 DEF Inv, TypeOK, MemOK, DocsOK, Holds
  <2>2. CASE mem'[s] = {} /\ ~Loaded(s)'
    BY <2>2 DEF DocsOK
  <2> QED BY <2>1, <2>2, <1>2
<1>7. DurableAdd' /\ NoResurrection'
  BY <1>2, <1>3, <1>4 DEF Inv, DurableAdd, NoResurrection, Holds
<1>8. ReadYourWrites' /\ ReadYourRemoves'
  BY <1>2, <1>3, <1>4 DEF Inv, ReadYourWrites, ReadYourRemoves, Holds, Answered, Selects
<1> QED BY <1>1, <1>5, <1>6, <1>7, <1>8 DEF Inv

-----------------------------------------------------------------------------
(* The theorems. *)

\* The invariant holds initially.
LEMMA InitInv == Init => Inv
<1> SUFFICES ASSUME Init PROVE Inv
  OBVIOUS
<1>1. TypeOK
  BY InitType
<1> QED BY <1>1 DEF Init, Inv, TypeOK, BeforeOK, WroteOK, RemovedOK, DocsOK, MemOK, Holds,
               DurableAdd, NoResurrection, ReadYourWrites, ReadYourRemoves, Answered

\* Every step preserves the invariant.
LEMMA InvStep == Inv /\ [Next]_vars => Inv'
<1> SUFFICES ASSUME Inv, [Next]_vars PROVE Inv'
  OBVIOUS
<1>1. ASSUME NEW c \in Calls, Step(c) PROVE Inv'
  BY <1>1, OpenStep, InsertStep, RemoveStep, FindStep, UpdateStep, TidyStep, EndStep DEF Step
<1> QED BY <1>1, CallStep, EndStep, StutterStep DEF Next

\* The inductive invariant holds in every reachable state.
THEOREM Invariance == Spec => []Inv
  BY InitInv, InvStep, PTL DEF Spec

\* THEOREM: a document leaves the file only through a remove() or through the
\* tidy() of a session concurrent with its insertion.
THEOREM AddsAreDurable == Spec => []DurableAdd
  BY Invariance, PTL DEF Inv

\* THEOREM: a removed document comes back only through the tidy() of a session
\* concurrent with its removal.
THEOREM RemovedStaysRemoved == Spec => []NoResurrection
  BY Invariance, PTL DEF Inv

\* THEOREM: a find() sees what the calls that ended before it wrote, up to
\* removals and to sessions that were concurrent with those writes.
THEOREM ReadsSeeEarlierWrites == Spec => []ReadYourWrites
  BY Invariance, PTL DEF Inv

\* THEOREM: a find() does not see what a remove() that ended before it took
\* out, unless a session concurrent with that remove() put it back.
THEOREM ReadsSeeEarlierRemoves == Spec => []ReadYourRemoves
  BY Invariance, PTL DEF Inv

-----------------------------------------------------------------------------
(* Where documents come from: however many sessions overlap and rewrite the *)
(* file, nothing is ever in it, in a memory image or in an answer that a    *)
(* call did not write there for that book.                                  *)

\* Document d was inserted, and last written, by calls for its key, where w and
\* k tell what each call wrote and under which key.
Written(d, w, k) == /\ w[d.oid] = "inserted" /\ d.key = k[d.oid]
                    /\ w[d.by] # "none" /\ d.key = k[d.by]

\* A call that wrote has done its operation.
WroteAtOp == \A c \in Calls : wrote[c] # "none" => pc[c] \notin {"idle", "path", "op"}

Traced(S) == \A d \in S : Written(d, wrote, key)

\* A result is made of documents that are traced; so are memories and the file.
Origin == /\ TypeOK /\ WroteAtOp /\ Traced(file)
          /\ \A c \in Calls : Traced(mem[c]) /\ Traced(result[c])

\* What calls have written is never taken back or moved to another key.
Kept == \A c \in Calls :
  /\ wrote[c] = "inserted" => wrote'[c] = "inserted"
  /\ wrote[c] # "none" => wrote'[c] # "none" /\ key'[c] = key[c]

\* A document with an origin keeps it while Kept holds.
LEMMA WrittenKept ==
  ASSUME NEW S \in SUBSET Document, Traced(S), Kept
  PROVE  \A d \in S : Written(d, wrote', key')
<1> SUFFICES ASSUME NEW d \in S PROVE Written(d, wrote', key')
  OBVIOUS
<1>1. d.oid \in Calls /\ d.by \in Calls
  BY DEF Document
<1> QED
  BY <1>1 DEF Traced, Written, Kept

\* A step that makes the file, the memories and the answers of documents that
\* were there already gives none of them another origin.
LEMMA OriginKept ==
  ASSUME Origin, TypeOK', WroteAtOp', Kept,
         \A d \in file' : d \in file \/ (\E c \in Calls : d \in mem[c]) \/ Written(d, wrote', key'),
         \A c \in Calls : \A d \in mem'[c] : d \in file \/ d \in mem[c] \/ Written(d, wrote', key'),
         \A c \in Calls : \A d \in result'[c] : d \in result[c] \/ d \in mem[c]
  PROVE  Origin'
<1>1. /\ \A d \in file : Written(d, wrote', key')
      /\ \A c \in Calls : \A d \in mem[c] : Written(d, wrote', key')
      /\ \A c \in Calls : \A d \in result[c] : Written(d, wrote', key')
  BY WrittenKept DEF Origin, TypeOK
<1>2. Traced(file)'
  BY <1>1 DEF Traced
<1>3. \A c \in Calls : Traced(mem[c])' /\ Traced(result[c])'
  BY <1>1 DEF Traced
<1> QED
  BY <1>2, <1>3 DEF Origin

\* The document of a call that inserts comes from that call.
LEMMA InsertOrigin ==
  ASSUME Origin, TypeOK', NEW c \in Calls, Insert(c) \/ Upsert(c)
  PROVE  Origin'
<1>1. /\ pc[c] \in {"op", "upsert"} /\ pc' = [pc EXCEPT ![c] = AfterOp(c)]
      /\ mem' = [mem EXCEPT ![c] = @ \union {DocumentOf(c)}]
      /\ file' = file \union {DocumentOf(c)}
      /\ wrote' = [wrote EXCEPT ![c] = "inserted"]
      /\ UNCHANGED <<key, result>>
  BY DEF Insert, Upsert, InsertDocument
<1>2. WroteAtOp' /\ Kept
  BY <1>1, AfterOpCases DEF Origin, TypeOK, WroteAtOp, Kept
<1>3. Written(DocumentOf(c), wrote', key')
  BY <1>1 DEF Origin, TypeOK, Written, DocumentOf
<1>4. \A d \in file' : d \in file \/ Written(d, wrote', key')
  BY <1>1, <1>3
<1>5. \A b \in Calls : \A d \in mem'[b] : d \in mem[b] \/ Written(d, wrote', key')
  BY <1>1, <1>3 DEF Origin, TypeOK
<1>6. \A b \in Calls : \A d \in result'[b] : d \in result[b]
  BY <1>1
<1> QED
  BY <1>2, <1>4, <1>5, <1>6, OriginKept

\* A document an update changes was inserted as before and last written by it.
LEMMA UpdateOrigin ==
  ASSUME Origin, TypeOK', NEW c \in Calls, Update(c)
  PROVE  Origin'
<1>1. /\ pc[c] = "op" /\ method[c] \in Upserting /\ pc'[c] \notin {"idle", "path", "op"}
      /\ \A d \in Calls \ {c} : pc'[d] = pc[d]
      /\ mem' = [mem EXCEPT ![c] = Updated(c, @)] /\ file' = Updated(c, file)
      /\ wrote' = [wrote EXCEPT ![c] = "updated"]
      /\ UNCHANGED <<key, result>>
  BY AfterOpCases DEF Update, Origin, TypeOK
<1>2. WroteAtOp' /\ Kept
  BY <1>1 DEF Origin, TypeOK, WroteAtOp, Kept
<1>3. ASSUME NEW S \in SUBSET Document, Traced(S)
      PROVE  \A e \in Updated(c, S) : e \in S \/ Written(e, wrote', key')
  <2> SUFFICES ASSUME NEW d \in S, d \in Matching(c, S)
               PROVE  Written([d EXCEPT !.by = c], wrote', key')
    BY DEF Updated
  <2>1. d.key = key[c]
    BY <1>1 DEF Matching, Upserting, WholeStore
  <2>2. Written(d, wrote', key')
    BY <1>2, <1>3, WrittenKept
  <2>3. /\ [d EXCEPT !.by = c].oid = d.oid /\ [d EXCEPT !.by = c].key = d.key
        /\ [d EXCEPT !.by = c].by = c
    BY DEF Document
  <2>4. wrote'[c] # "none" /\ key'[c] = key[c]
    BY <1>1 DEF Origin, TypeOK
  <2> QED
    BY <2>1, <2>2, <2>3, <2>4 DEF Written
<1>4. \A d \in file' : d \in file \/ Written(d, wrote', key')
  BY <1>1, <1>3 DEF Origin, TypeOK
<1>5. \A b \in Calls : \A d \in mem'[b] : d \in mem[b] \/ Written(d, wrote', key')
  <2>1. \A d \in Updated(c, mem[c]) : d \in mem[c] \/ Written(d, wrote', key')
    BY <1>3 DEF Origin, TypeOK
  <2>2. mem'[c] = Updated(c, mem[c]) /\ \A b \in Calls \ {c} : mem'[b] = mem[b]
    BY <1>1 DEF Origin, TypeOK
  <2> QED
    BY <2>1, <2>2
<1> QED
  BY <1>1, <1>2, <1>4, <1>5, OriginKept DEF Origin, TypeOK

\* A step that neither writes nor makes a call hands documents on.
LEMMA OtherOrigin ==
  ASSUME Origin, TypeOK', NEW c \in Calls,
         Open(c) \/ Remove(c) \/ Find(c) \/ Tidy(c) \/ Close(c)
  PROVE  Origin'
<1>1. UNCHANGED <<wrote, key>>
  BY DEF Open, Remove, Find, Tidy, Close
<1>2. Kept
  BY <1>1 DEF Kept
<1>3. WroteAtOp'
  <2>1. pc'[c] \in {"op", "tidy", "close", "leaked", "returned"} /\ (pc'[c] = "op" => pc[c] = "path")
    BY AfterOpCases DEF Open, Remove, Find, Tidy, Close, Origin, TypeOK
  <2>2. \A d \in Calls \ {c} : pc'[d] = pc[d]
    BY DEF Open, Remove, Find, Tidy, Close, Origin, TypeOK
  <2> QED
    BY <1>1, <2>1, <2>2 DEF Origin, WroteAtOp
<1>4. \A d \in file' : d \in file \/ \E b \in Calls : d \in mem[b]
  BY DEF Open, Remove, Find, Tidy, Close
<1>5. \A b \in Calls : \A d \in mem'[b] : d \in file \/ d \in mem[b]
  BY DEF Open, Remove, Find, Tidy, Close, Origin, TypeOK
<1>6. \A b \in Calls : \A d \in result'[b] : d \in result[b] \/ d \in mem[b]
  BY DEF Open, Remove, Find, Tidy, Close, Matching, Origin, TypeOK
<1> QED
  BY <1>2, <1>3, <1>4, <1>5, <1>6, OriginKept

\* A call that is made has written nothing; a process that stops writes nothing.
LEMMA CallOrigin ==
  ASSUME Origin, TypeOK',
         \/ \E c \in Calls, m \in Methods, k \in Keys : Call(c, m, k)
         \/ Kill \/ UNCHANGED vars
  PROVE  Origin'
<1>1. CASE Kill \/ UNCHANGED vars
  <2>1. Kept /\ WroteAtOp'
    BY <1>1 DEF Kill, vars, Kept, Origin, TypeOK, WroteAtOp
  <2>2. /\ file' = file /\ \A b \in Calls : mem'[b] \in {mem[b], {}} /\ result'[b] = result[b]
    BY <1>1 DEF Kill, vars
  <2> QED
    BY <2>1, <2>2, OriginKept
<1>2. ASSUME NEW c \in Calls, NEW m \in Methods, NEW k \in Keys, Call(c, m, k)
      PROVE  Origin'
  <2>1. Kept /\ WroteAtOp'
    BY <1>2 DEF Call, Kept, Origin, TypeOK, WroteAtOp
  <2>2. UNCHANGED <<file, mem, result>>
    BY <1>2 DEF Call
  <2> QED
    BY <2>1, <2>2, OriginKept
<1> QED
  BY <1>1, <1>2

\* Nothing is stored at first.
LEMMA OriginInit == Init => Origin
<1> SUFFICES ASSUME Init PROVE Origin
  OBVIOUS
<1> QED
  BY InitType DEF Init, Origin, WroteAtOp, Traced

\* A step moves and copies documents, or writes one that has its origin.
LEMMA OriginStep == Origin /\ [Next]_vars => Origin'
<1> SUFFICES ASSUME Origin, [Next]_vars PROVE Origin'
  OBVIOUS
<1>1. TypeOK'
  BY NextType DEF Origin
<1>2. ASSUME NEW c \in Calls, Step(c) PROVE Origin'
  BY <1>1, <1>2, InsertOrigin, UpdateOrigin, OtherOrigin DEF Step
<1> QED
  BY <1>1, <1>2, CallOrigin DEF Next

\* Every document has an origin in every state.
LEMMA OriginHolds == Spec => []Origin
  BY OriginInit, OriginStep, PTL DEF Spec

\* THEOREM: nothing in a store is made up: what is in its file, in a memory or
\* in an answer was inserted by a call for that book and last written by one.
THEOREM NothingFabricated == Spec => []NoFabrication
<1>1. Origin => NoFabrication
  BY DEF Origin, NoFabrication, Traced, Written
<1> QED
  BY <1>1, OriginHolds, PTL

-----------------------------------------------------------------------------
(* What a find() that ran alone did not answer, the store does not have: no  *)
(* session could still bring it back.                                       *)

\* No call ran at the same time as call f.
Alone(f) == \A c \in Calls : ~Concurrent(f, c)

\* The document of call a is neither in the file nor in an image it could be
\* rewritten from.
Gone(a) == ~Holds(file, a) /\ \A s \in Calls : Loaded(s) => ~Holds(mem[s], a)

SoloOK == \A f \in Calls : Alone(f) =>
  /\ pc[f] = "op" => mem[f] = file
  /\ Answered(f) => \A a \in before[f] :
       wrote[a] = "inserted" /\ Selects(f, a) => Holds(result[f], a) \/ Gone(a)

\* Two calls under way are concurrent.
LEMMA ActiveAlone ==
  ASSUME Inv, NEW f \in Calls, Alone(f), pc[f] \in Active
  PROVE  \A c \in Calls \ {f} : pc[c] \notin Active
  BY DEF Alone, Concurrent, Inv, BeforeOK

\* A call that has been made stays made, at the same time as the same calls.
LEMMA MadeStays ==
  ASSUME Inv, [Next]_vars, NEW c \in Calls, pc[c] # "idle"
  PROVE  pc'[c] # "idle" /\ before'[c] = before[c] /\ method'[c] = method[c] /\ key'[c] = key[c]
<1>1. ASSUME NEW b \in Calls, NEW m \in Methods, NEW k \in Keys, Call(b, m, k)
      PROVE  pc'[c] # "idle" /\ before'[c] = before[c] /\ method'[c] = method[c] /\ key'[c] = key[c]
  BY <1>1 DEF Call, Inv, TypeOK
<1>2. ASSUME NEW b \in Calls, Step(b)
      PROVE  pc'[c] # "idle" /\ before'[c] = before[c] /\ method'[c] = method[c] /\ key'[c] = key[c]
  BY <1>2, AfterOpCases
     DEF Step, Open, Insert, Remove, Find, Update, Upsert, InsertDocument, Tidy, Close, Inv, TypeOK
<1>3. CASE Kill \/ UNCHANGED vars
  BY <1>3 DEF Kill, vars, Inv, TypeOK
<1> QED
  BY <1>1, <1>2, <1>3 DEF Next

\* Calls that ran at the same time stay so.
LEMMA ConcurrentStays ==
  ASSUME Inv, [Next]_vars, NEW c \in Calls, NEW d \in Calls, Concurrent(c, d)
  PROVE  Concurrent(c, d)'
  BY MadeStays DEF Concurrent

\* What is gone when its insertion is over does not come back.
LEMMA GoneStays ==
  ASSUME Inv, [Next]_vars, NEW a \in Calls, pc[a] \in Ended, Gone(a)
  PROVE  Gone(a)'
<1>1. ASSUME NEW c \in Calls, Step(c) PROVE Gone(a)'
  <2>1. CASE Open(c)
    BY <2>1 DEF Open, Gone, Holds, Inv, TypeOK
  <2>2. CASE Insert(c) \/ Upsert(c)
    <3>1. c # a
      BY <2>2 DEF Insert, Upsert
    <3> QED
      BY <2>2, <3>1, AfterOpCases DEF Insert, Upsert, InsertDocument, DocumentOf, Gone, Holds, Inv, TypeOK
  <2>3. CASE Remove(c)
    BY <2>3, AfterOpCases DEF Remove, Gone, Holds, Inv, TypeOK
  <2>4. CASE Find(c) \/ Tidy(c) \/ Close(c)
    BY <2>4, AfterOpCases DEF Find, Tidy, Close, Gone, Holds, Inv, TypeOK
  <2>5. CASE Update(c)
    <3>1. /\ Holds(Updated(c, file), a) <=> Holds(file, a)
          /\ Holds(Updated(c, mem[c]), a) <=> Holds(mem[c], a)
      <4>1. file \in SUBSET Document /\ mem[c] \in SUBSET Document
        BY DEF Inv, TypeOK
      <4> QED
        BY <4>1, UpdatedFacts
    <3>2. /\ pc[c] = "op" /\ file' = Updated(c, file) /\ mem'[c] = Updated(c, mem[c])
          /\ \A s \in Calls \ {c} : mem'[s] = mem[s] /\ pc'[s] = pc[s]
      BY <2>5 DEF Update, Inv, TypeOK
    <3> QED
      BY <3>1, <3>2 DEF Gone, Holds
  <2> QED
    BY <1>1, <2>1, <2>2, <2>3, <2>4, <2>5 DEF Step
<1>2. ASSUME NEW c \in Calls, NEW m \in Methods, NEW k \in Keys, Call(c, m, k)
      PROVE  Gone(a)'
  BY <1>2 DEF Call, Gone, Holds, Inv, TypeOK
<1>3. CASE Kill \/ UNCHANGED vars
  BY <1>3 DEF Kill, vars, Gone, Holds, Inv, TypeOK
<1> QED
  BY <1>1, <1>2, <1>3 DEF Next

\* A find() answers from an image that is the file, if nothing else is under way.
LEMMA FindsAlone ==
  ASSUME Inv, NEW f \in Calls, Alone(f), mem[f] = file, Find(f),
         NEW a \in before[f], wrote[a] = "inserted", Selects(f, a)
  PROVE  Holds(result'[f], a) \/ Gone(a)'
<1>1. /\ pc[f] = "op" /\ result'[f] = Matching(f, file) /\ UNCHANGED <<file, mem>>
      /\ \A c \in Calls \ {f} : pc'[c] = pc[c]
  BY DEF Find, Inv, TypeOK
<1>2. CASE Holds(file, a)
  <2>1. PICK d \in file : d.oid = a
    BY <1>2 DEF Holds
  <2>2. d \in Matching(f, file)
    BY <2>1 DEF Matching, Selects, Inv, DocsOK
  <2> QED
    BY <1>1, <2>1, <2>2 DEF Holds
<1>3. CASE ~Holds(file, a)
  <2>1. \A s \in Calls \ {f} : ~Loaded(s)'
    BY <1>1, ActiveAlone
  <2> QED
    BY <1>1, <1>3, <2>1 DEF Gone, Holds
<1> QED
  BY <1>2, <1>3

\* The answers of lone calls stay true.
LEMMA SoloStep ==
  ASSUME Inv, SoloOK, [Next]_vars
  PROVE  SoloOK'
<1> SUFFICES ASSUME NEW f \in Calls, Alone(f)'
             PROVE  /\ pc'[f] = "op" => mem'[f] = file'
                    /\ Answered(f)' => \A a \in before'[f] :
                         wrote'[a] = "inserted" /\ Selects(f, a)' => Holds(result'[f], a) \/ Gone(a)'
  BY DEF SoloOK
<1>1. CASE pc[f] = "idle"
  <2>1. pc'[f] \in {"idle", "path", "killed"}
    BY <1>1 DEF Next, Step, Call, Open, Insert, Remove, Find, Update, Upsert, Tidy, Close, Kill,
                vars, Inv, TypeOK
  <2>2. pc'[f] # "killed"
    BY <1>1 DEF Next, Step, Call, Open, Insert, Remove, Find, Update, Upsert, Tidy, Close, Kill,
                vars, Inv, TypeOK
  <2> QED
    BY <2>1, <2>2 DEF Answered
<1>2. CASE pc[f] # "idle"
  <2>1. Alone(f)
    BY <1>2, ConcurrentStays DEF Alone
  <2>2. \A a \in before[f] : a \in Calls /\ pc[a] \in Ended
    BY DEF Inv, TypeOK, BeforeOK
  <2>3. /\ before'[f] = before[f] /\ method'[f] = method[f] /\ key'[f] = key[f]
        /\ \A a \in before[f] : key'[a] = key[a]
    BY <1>2, <2>2, MadeStays
  <2>4. \A a \in before[f] : wrote'[a] = "inserted" => wrote[a] = "inserted"
    BY <2>2 DEF Next, Step, Call, Open, Insert, Remove, Find, Update, Upsert, InsertDocument, Tidy,
                Close, Kill, vars, Inv, TypeOK
  <2>5. pc'[f] = "op" => mem'[f] = file'
    <3> SUFFICES ASSUME pc'[f] = "op" PROVE mem'[f] = file'
      OBVIOUS
    <3>1. CASE Open(f)
      BY <3>1 DEF Open, Inv, TypeOK
    <3>2. CASE pc[f] = "op" /\ UNCHANGED <<file, mem>>
      BY <2>1, <3>2 DEF SoloOK
    <3>3. pc[f] \in Active
      BY <1>2 DEF Next, Step, Call, Open, Insert, Remove, Find, Update, Upsert, Tidy, Close, Kill,
                  vars, Inv, TypeOK
    <3>4. ASSUME NEW c \in Calls, Step(c) PROVE c = f
      BY <2>1, <3>3, <3>4, ActiveAlone
         DEF Step, Open, Insert, Remove, Find, Update, Upsert, Tidy, Close
    <3>5. ASSUME Step(f) PROVE Open(f)
      BY <3>5, AfterOpCases DEF Step, Insert, Remove, Find, Update, Upsert, Tidy, Close, Inv, TypeOK
    <3>6. CASE \E c \in Calls, m \in Methods, k \in Keys : Call(c, m, k)
      BY <3>2, <3>6 DEF Call, Inv, TypeOK
    <3>7. CASE Kill
      BY <3>7 DEF Kill, Inv, TypeOK
    <3>8. CASE UNCHANGED vars
      BY <3>2, <3>8 DEF vars
    <3> QED
      BY <3>1, <3>4, <3>5, <3>6, <3>7, <3>8 DEF Next
  <2>6. ASSUME Answered(f)', NEW a \in before[f], wrote[a] = "inserted", Selects(f, a)
        PROVE  Holds(result'[f], a) \/ Gone(a)'
    <3>1. CASE Answered(f)
      <4>1. result'[f] = result[f]
        BY <3>1 DEF Next, Step, Call, Open, Insert, Remove, Find, Update, Upsert, InsertDocument,
                    Tidy, Close, Kill, vars, Inv, TypeOK, Answered
      <4>2. Holds(result[f], a) \/ Gone(a)
        BY <2>1, <2>6, <3>1 DEF SoloOK
      <4> QED
        BY <2>2, <4>1, <4>2, GoneStays DEF Holds
    <3>2. CASE ~Answered(f)
      <4>1. Find(f)
        <5>1. method[f] \in Finding /\ pc'[f] \in {"tidy", "close", "returned"}
              /\ pc[f] \notin {"tidy", "close", "returned"}
          BY <2>3, <2>6, <3>2 DEF Answered
        <5>2. \A c \in Calls \ {f} : Step(c) => pc'[f] = pc[f]
          BY DEF Step, Open, Insert, Remove, Find, Update, Upsert, Tidy, Close, Inv, TypeOK
        <5>3. Step(f) => Find(f)
          BY <5>1 DEF Step, Open, Insert, Remove, Update, Upsert, Tidy, Close, Inv, TypeOK, WroteOK,
                      Finding, Inserting, Removing, Upserting
        <5>4. (\E c \in Calls, m \in Methods, k \in Keys : Call(c, m, k)) => pc'[f] \in {pc[f], "path"}
          BY DEF Call, Inv, TypeOK
        <5>5. Kill \/ UNCHANGED vars => pc'[f] \in {pc[f], "killed"}
          BY DEF Kill, vars, Inv, TypeOK
        <5> QED
          BY <5>1, <5>2, <5>3, <5>4, <5>5 DEF Next
      <4>2. mem[f] = file
        BY <2>1, <4>1 DEF SoloOK, Find
      <4> QED
        BY <2>1, <2>6, <4>1, <4>2, FindsAlone
    <3> QED
      BY <3>1, <3>2
  <2> QED
    BY <2>3, <2>4, <2>5, <2>6 DEF Selects
<1> QED
  BY <1>1, <1>2

\* What a find() that ran alone did not answer is gone.
LEMMA SoloHolds == Spec => []SoloOK
<1>1. Init => SoloOK
  BY DEF Init, SoloOK, Answered
<1> QED
  BY <1>1, SoloStep, Invariance, PTL DEF Spec

\* What a call that has ended did is settled.
LEMMA EndedStays ==
  ASSUME Inv, [Next]_vars, NEW c \in Calls, pc[c] \in Ended
  PROVE  /\ pc'[c] = pc[c] /\ result'[c] = result[c]
         /\ wrote'[c] = wrote[c] /\ removed'[c] = removed[c]
<1>1. ASSUME NEW b \in Calls, NEW m \in Methods, NEW k \in Keys, Call(b, m, k)
      PROVE  pc'[c] = pc[c] /\ UNCHANGED <<result, wrote, removed>>
  BY <1>1 DEF Call, Inv, TypeOK
<1>2. ASSUME NEW b \in Calls, Step(b)
      PROVE  /\ pc'[c] = pc[c] /\ result'[c] = result[c]
             /\ wrote'[c] = wrote[c] /\ removed'[c] = removed[c]
  BY <1>2 DEF Step, Open, Insert, Remove, Find, Update, Upsert, InsertDocument, Tidy, Close, Inv, TypeOK
<1>3. CASE Kill \/ UNCHANGED vars
  BY <1>3 DEF Kill, vars, Inv, TypeOK
<1> QED
  BY <1>1, <1>2, <1>3 DEF Next

-----------------------------------------------------------------------------
(* A call inserts, removes and answers what its method and its key select. *)

KeysOK == \A c \in Calls :
  /\ wrote[c] # "none" => method[c] \in Inserting \union Upserting
  /\ removed[c] # {} => method[c] \in Removing
  /\ method[c] \notin WholeStore =>
       /\ \A a \in removed[c] : key[a] = key[c]
       /\ \A d \in result[c] : d.key = key[c]

\* A call that has not been made has neither written nor answered.
Unmade == \A c \in Calls :
  pc[c] \in {"idle", "path", "op"} => wrote[c] = "none" /\ removed[c] = {} /\ result[c] = {}

LEMMA KeysStep ==
  ASSUME Inv, KeysOK, Unmade, [Next]_vars
  PROVE  KeysOK' /\ Unmade'
<1>1. ASSUME NEW b \in Calls, NEW m \in Methods, NEW k \in Keys, Call(b, m, k)
      PROVE  KeysOK' /\ Unmade'
  <2>1. /\ pc[b] = "idle" /\ pc'[b] = "path" /\ UNCHANGED <<result, wrote, removed>>
        /\ \A c \in Calls \ {b} : method'[c] = method[c] /\ key'[c] = key[c] /\ pc'[c] = pc[c]
    BY <1>1 DEF Call, Inv, TypeOK
  <2>2. \A c \in Calls : b \notin removed[c]
    BY <2>1 DEF Unmade, Inv, RemovedOK
  <2>3. \A c \in Calls : removed[c] \in SUBSET Calls
    BY DEF Inv, TypeOK
  <2> QED
    BY <2>1, <2>2, <2>3 DEF KeysOK, Unmade
<1>2. ASSUME NEW b \in Calls, Step(b) PROVE KeysOK' /\ Unmade'
  <2>1. UNCHANGED <<method, key>> /\ \A c \in Calls \ {b} : pc'[c] = pc[c]
    BY <1>2 DEF Step, Open, Insert, Remove, Find, Update, Upsert, InsertDocument, Tidy, Close, Inv, TypeOK
  <2>2. CASE Open(b) \/ Tidy(b) \/ Close(b)
    <3>1. /\ UNCHANGED <<result, wrote, removed>>
          /\ pc'[b] \in {"idle", "path", "op"} => pc[b] \in {"idle", "path", "op"}
      BY <2>2 DEF Open, Tidy, Close, Inv, TypeOK
    <3> QED
      BY <2>1, <3>1 DEF KeysOK, Unmade
  <2>3. CASE Insert(b) \/ Upsert(b) \/ Update(b)
    <3>1. /\ UNCHANGED <<result, removed>> /\ \A c \in Calls \ {b} : wrote'[c] = wrote[c]
          /\ method[b] \in Inserting \union Upserting /\ pc'[b] \notin {"idle", "path", "op"}
      BY <2>3, AfterOpCases DEF Insert, Upsert, Update, InsertDocument, Inv, TypeOK, WroteOK
    <3> QED
      BY <2>1, <3>1 DEF KeysOK, Unmade
  <2>4. CASE Find(b)
    <3>1. /\ UNCHANGED <<wrote, removed>> /\ result'[b] = Matching(b, mem[b])
          /\ \A c \in Calls \ {b} : result'[c] = result[c]
      BY <2>4, AfterOpCases DEF Find, Inv, TypeOK
    <3>2. pc'[b] \notin {"idle", "path", "op"}
      BY <2>4, AfterOpCases DEF Find, Inv, TypeOK
    <3> QED
      BY <2>1, <3>1, <3>2 DEF KeysOK, Unmade, Matching
  <2>5. CASE Remove(b)
    <3> DEFINE out == IF method[b] = "EbookDownload.removeById"
                      THEN mem[b] ELSE Matching(b, file \union mem[b])
    <3>1. /\ UNCHANGED <<wrote, result>> /\ removed'[b] = {e.oid : e \in out}
          /\ method[b] \in Removing
          /\ \A c \in Calls \ {b} : removed'[c] = removed[c]
      BY <2>5 DEF Remove, Inv, TypeOK
    <3>2. pc'[b] \notin {"idle", "path", "op"}
      BY <2>5, AfterOpCases DEF Remove, Inv, TypeOK
    <3>3. ASSUME method[b] \notin WholeStore, NEW d \in out PROVE d.oid \in Calls /\ key[d.oid] = key[b]
      <4>1. d.key = key[b] /\ (d \in file \/ d \in mem[b])
        BY <3>3 DEF Matching, WholeStore
      <4>2. d.key = key[d.oid] /\ d \in Document
        BY <4>1 DEF Inv, TypeOK, DocsOK, MemOK
      <4> QED
        BY <4>1, <4>2 DEF Document
    <3> HIDE DEF out
    <3> QED
      BY <2>1, <3>1, <3>2, <3>3 DEF KeysOK, Unmade
  <2> QED
    BY <1>2, <2>2, <2>3, <2>4, <2>5 DEF Step
<1>3. CASE Kill \/ UNCHANGED vars
  <2>1. /\ UNCHANGED <<method, key, result, wrote, removed>>
        /\ \A c \in Calls : pc'[c] = pc[c] \/ (pc'[c] = "killed" /\ pc[c] \in Active)
    BY <1>3 DEF Kill, vars, Inv, TypeOK
  <2> QED
    BY <2>1 DEF KeysOK, Unmade
<1> QED
  BY <1>1, <1>2, <1>3 DEF Next

\* Calls act on their own keys.
LEMMA KeysHold == Spec => []KeysOK
<1>1. Init => KeysOK /\ Unmade
  BY DEF Init, KeysOK, Unmade
<1> QED
  BY <1>1, KeysStep, Invariance, PTL DEF Spec

-----------------------------------------------------------------------------
(* A store whose calls never tidy, as those of EbookLocator do not, is a log: *)
(* for any number of calls, updateItem keeps one position per book, and the   *)
(* last one, up to calls that run at the same time.                           *)

\* The positions an updateItem() has written, or found, are its own and those of
\* calls that had not ended before it, from its update on.
LastWritten ==
  \A u \in Calls :
    method[u] \in Upserting /\ pc[u] \in {"upsert", "close", "returned"} =>
      \A d \in file : d.key = key[u] => d.by \notin before[u]

\* An updateItem() that is about to insert found nothing from an earlier call.
FoundNone ==
  \A c \in Calls : pc[c] = "upsert" =>
    \A d \in file : d.key = key[c] => d.oid \notin before[c]

LogInv == Untidied => OneLocatorPerBook /\ LastWritten /\ FoundNone

\* What an untidied file has from calls before a session, its image has too: only
\* a remove() could have taken it out, and then it were not in the file.
LEMMA ImageHasFile ==
  ASSUME Inv, Untidied, NEW c \in Calls, pc[c] = "op",
         NEW d \in file, d.oid \in before[c]
  PROVE  Holds(mem[c], d.oid)
<1>1. d.oid \in Calls /\ wrote[d.oid] = "inserted"
  BY DEF Inv, TypeOK, Document, DocsOK
<1>2. \A m \in Calls : ~Overwritable(m)
  BY DEF Untidied, Overwritable, Concurrent
<1>3. Holds(file, d.oid)
  BY DEF Holds
<1>4. ~Taken(d.oid)
  BY <1>2, <1>3 DEF Taken, Inv, NoResurrection
<1> QED
  BY <1>1, <1>2, <1>4 DEF Inv, MemOK

\* The calls that are over before another one are not under way.
LEMMA NotBefore ==
  ASSUME Inv, NEW c \in Calls, pc[c] \in Active \union {"idle"}
  PROVE  \A b \in Calls : c \notin before[b]
  BY DEF Inv, BeforeOK

\* The inserter of a document has been made.
LEMMA InsertersMade ==
  ASSUME Inv, NEW d \in file
  PROVE  d \in Document /\ d.oid \in Calls /\ d.by \in Calls /\ pc[d.oid] # "idle" /\ d.key = key[d.oid]
  BY DEF Inv, TypeOK, Document, DocsOK, WroteOK

\* A step that adds nothing to the file and ends no update keeps the log.
LEMMA QuietKeeps ==
  ASSUME Inv, LogInv, file' \subseteq file,
         \A c \in Calls : pc[c] # "idle" =>
           /\ pc'[c] # "idle" /\ before'[c] = before[c] /\ method'[c] = method[c] /\ key'[c] = key[c],
         \A c \in Calls : pc'[c] = "upsert" => pc[c] = "upsert",
         \A u \in Calls :
           method'[u] \in Upserting /\ pc'[u] \in {"upsert", "close", "returned"} =>
             pc[u] \in {"upsert", "close", "returned"}
  PROVE  LogInv'
<1> SUFFICES ASSUME Untidied' PROVE OneLocatorPerBook' /\ LastWritten' /\ FoundNone'
  BY DEF LogInv
<1>1. Untidied
  BY DEF Untidied
<1>2. OneLocatorPerBook /\ LastWritten /\ FoundNone
  BY <1>1 DEF LogInv
<1>3. OneLocatorPerBook'
  <2> SUFFICES ASSUME NEW d \in file', NEW e \in file', d.key = e.key, d.oid # e.oid,
                      method'[d.oid] \in Upserting, method'[e.oid] \in Upserting
               PROVE  Concurrent(d.oid, e.oid)'
    BY DEF OneLocatorPerBook
  <2>1. /\ d \in file /\ d.oid \in Calls /\ pc[d.oid] # "idle"
        /\ e \in file /\ e.oid \in Calls /\ pc[e.oid] # "idle"
    BY InsertersMade
  <2>2. Concurrent(d.oid, e.oid)
    BY <1>1, <1>2, <2>1 DEF OneLocatorPerBook
  <2> QED
    BY <2>1, <2>2 DEF Concurrent
<1>4. LastWritten'
  BY <1>2 DEF LastWritten
<1>5. FoundNone'
  BY <1>2 DEF FoundNone
<1> QED
  BY <1>3, <1>4, <1>5

\* The first document of a call, inserted as such or for want of one to update.
LEMMA InsertKeeps ==
  ASSUME Inv, LogInv, NEW c \in Calls, Insert(c) \/ Upsert(c)
  PROVE  LogInv'
<1> SUFFICES ASSUME Untidied' PROVE OneLocatorPerBook' /\ LastWritten' /\ FoundNone'
  BY DEF LogInv
<1> DEFINE n == DocumentOf(c)
<1>1. /\ pc[c] \in {"op", "upsert"} /\ pc'[c] \in {"tidy", "close", "leaked"}
      /\ pc[c] = "op" => method[c] \in Inserting
      /\ \A b \in Calls \ {c} : pc'[b] = pc[b]
      /\ file' = file \union {n}
      /\ UNCHANGED <<method, key, before>>
  BY AfterOpCases DEF Insert, Upsert, InsertDocument, Inv, TypeOK
<1>2. n.key = key[c] /\ n.oid = c /\ n.by = c
  BY DEF DocumentOf
<1> HIDE DEF n
<1>3. Untidied /\ \A b \in Calls : c \notin before[b]
  BY <1>1, NotBefore DEF Untidied
<1>4. OneLocatorPerBook /\ LastWritten /\ FoundNone
  BY <1>3 DEF LogInv
<1>5. ASSUME NEW e \in file, e.key = key[c], e.oid # c, method[c] \in Upserting
      PROVE  Concurrent(e.oid, c)'
  <2>1. pc[c] = "upsert"
    BY <1>1, <1>5 DEF Inserting, Upserting
  <2>2. e.oid \notin before[c]
    BY <1>4, <1>5, <2>1 DEF FoundNone
  <2> QED
    BY <1>1, <1>3, <1>5, <2>2, InsertersMade DEF Concurrent
<1>6. ASSUME NEW d \in file, NEW e \in file, d.key = e.key, d.oid # e.oid,
             method[d.oid] \in Upserting, method[e.oid] \in Upserting
      PROVE  Concurrent(d.oid, e.oid)'
  <2>1. Concurrent(d.oid, e.oid) /\ d.oid \in Calls /\ e.oid \in Calls
    BY <1>3, <1>4, <1>6, InsertersMade DEF OneLocatorPerBook
  <2> QED
    BY <1>1, <2>1 DEF Concurrent
<1>7. OneLocatorPerBook'
  <2> SUFFICES ASSUME NEW d \in file', NEW e \in file', d.key = e.key, d.oid # e.oid,
                      method[d.oid] \in Upserting, method[e.oid] \in Upserting
               PROVE  Concurrent(d.oid, e.oid)'
    BY <1>1 DEF OneLocatorPerBook
  <2>1. CASE d \in file /\ e \in file
    BY <1>6, <2>1
  <2>2. CASE d = n /\ e \in file
    <3>1. Concurrent(e.oid, c)'
      BY <1>2, <1>5, <2>2
    <3> QED
      BY <1>2, <2>2, <3>1 DEF Concurrent
  <2>3. CASE d \in file /\ e = n
    BY <1>2, <1>5, <2>3
  <2>4. CASE d = n /\ e = n
    BY <2>4
  <2> QED
    BY <1>1, <2>1, <2>2, <2>3, <2>4
<1>8. LastWritten'
  <2> SUFFICES ASSUME NEW u \in Calls, method[u] \in Upserting,
                      pc'[u] \in {"upsert", "close", "returned"}, NEW d \in file', d.key = key[u]
               PROVE  d.by \notin before[u]
    BY <1>1 DEF LastWritten
  <2>1. CASE d = n
    BY <1>2, <1>3, <2>1
  <2>2. CASE d \in file
    <3>1. pc[u] \in {"upsert", "close", "returned"}
      BY <1>1 DEF Inserting, Upserting
    <3> QED
      BY <1>4, <2>2, <3>1 DEF LastWritten
  <2> QED
    BY <1>1, <2>1, <2>2
<1>9. FoundNone'
  <2> SUFFICES ASSUME NEW b \in Calls, pc'[b] = "upsert", NEW d \in file', d.key = key[b]
               PROVE  d.oid \notin before[b]
    BY <1>1 DEF FoundNone
  <2>1. pc[b] = "upsert"
    BY <1>1
  <2> QED
    BY <1>1, <1>2, <1>3, <1>4, <2>1 DEF FoundNone
<1> QED
  BY <1>7, <1>8, <1>9

\* An update writes its own position over all it finds, and what it does not
\* find in its image no earlier call has put into the file.
LEMMA UpdateKeeps ==
  ASSUME Inv, LogInv, NEW c \in Calls, Update(c)
  PROVE  LogInv'
<1> SUFFICES ASSUME Untidied' PROVE OneLocatorPerBook' /\ LastWritten' /\ FoundNone'
  BY DEF LogInv
<1>1. /\ pc[c] = "op" /\ method[c] \in Upserting /\ method[c] \notin WholeStore
      /\ pc'[c] \in {"upsert", "tidy", "close", "leaked"}
      /\ pc'[c] = "upsert" => Matching(c, mem[c]) = {}
      /\ \A b \in Calls \ {c} : pc'[b] = pc[b]
      /\ file' = Updated(c, file)
      /\ UNCHANGED <<method, key, before>>
  BY AfterOpCases DEF Update, Inv, TypeOK, Upserting, WholeStore
<1>2. Untidied /\ \A b \in Calls : c \notin before[b]
  BY <1>1, NotBefore DEF Untidied
<1>3. OneLocatorPerBook /\ LastWritten /\ FoundNone
  BY <1>2 DEF LogInv
<1>4. \A e \in file' : \E d \in file :
        /\ e.oid = d.oid /\ e.key = d.key
        /\ e.by = c \/ (e.by = d.by /\ d.key # key[c])
  <2>1. \A d \in Document : /\ [d EXCEPT !.by = c].by = c
                            /\ [d EXCEPT !.by = c].oid = d.oid
                            /\ [d EXCEPT !.by = c].key = d.key
    BY DEF Document
  <2>2. file \subseteq Document
    BY DEF Inv, TypeOK
  <2> SUFFICES ASSUME NEW e \in file'
               PROVE  \E d \in file : /\ e.oid = d.oid /\ e.key = d.key
                                      /\ e.by = c \/ (e.by = d.by /\ d.key # key[c])
    OBVIOUS
  <2>3. PICK d \in file : e = IF d \in Matching(c, file) THEN [d EXCEPT !.by = c] ELSE d
    BY <1>1 DEF Updated
  <2>4. CASE d \in Matching(c, file)
    BY <2>1, <2>2, <2>3, <2>4
  <2>5. CASE d \notin Matching(c, file)
    BY <1>1, <2>3, <2>5 DEF Matching
  <2> QED
    BY <2>4, <2>5
<1>5. OneLocatorPerBook'
  <2> SUFFICES ASSUME NEW d1 \in file', NEW e1 \in file', d1.key = e1.key, d1.oid # e1.oid,
                      method[d1.oid] \in Upserting, method[e1.oid] \in Upserting
               PROVE  Concurrent(d1.oid, e1.oid)'
    BY <1>1 DEF OneLocatorPerBook
  <2>1. PICK d \in file, e \in file : d1.oid = d.oid /\ d1.key = d.key /\ e1.oid = e.oid /\ e1.key = e.key
    BY <1>4
  <2>2. Concurrent(d.oid, e.oid) /\ d.oid \in Calls /\ e.oid \in Calls
    BY <1>2, <1>3, <2>1, InsertersMade DEF OneLocatorPerBook
  <2> QED
    BY <1>1, <2>1, <2>2 DEF Concurrent
<1>6. LastWritten'
  <2> SUFFICES ASSUME NEW u \in Calls, method[u] \in Upserting,
                      pc'[u] \in {"upsert", "close", "returned"}, NEW e \in file', e.key = key[u]
               PROVE  e.by \notin before[u]
    BY <1>1 DEF LastWritten
  <2>1. PICK d \in file : e.key = d.key /\ (e.by = c \/ (e.by = d.by /\ d.key # key[c]))
    BY <1>4
  <2>2. CASE e.by = c
    BY <1>2, <2>2
  <2>3. CASE e.by = d.by /\ d.key # key[c]
    <3>1. u # c /\ pc[u] \in {"upsert", "close", "returned"}
      BY <1>1, <2>1, <2>3
    <3> QED
      BY <1>3, <2>1, <2>3, <3>1 DEF LastWritten
  <2> QED
    BY <2>1, <2>2, <2>3
<1>7. FoundNone'
  <2> SUFFICES ASSUME NEW b \in Calls, pc'[b] = "upsert", NEW e \in file', e.key = key[b]
               PROVE  e.oid \notin before[b]
    BY <1>1 DEF FoundNone
  <2>1. PICK d \in file : e.oid = d.oid /\ e.key = d.key
    BY <1>4
  <2>2. CASE b = c
    <3> SUFFICES ASSUME d.oid \in before[c] PROVE FALSE
      BY <2>1, <2>2
    <3>1. PICK i \in mem[c] : i.oid = d.oid
      BY <1>1, <1>2, ImageHasFile DEF Holds
    <3>2. i.key = key[d.oid] /\ d.key = key[d.oid]
      BY <3>1, InsertersMade DEF Inv, MemOK, DocsOK
    <3>3. i \in Matching(c, mem[c])
      BY <1>1, <2>1, <2>2, <3>1, <3>2 DEF Matching
    <3> QED
      BY <1>1, <2>2, <3>3
  <2>3. CASE b # c
    BY <1>1, <1>3, <2>1, <2>3 DEF FoundNone
  <2> QED
    BY <2>2, <2>3
<1> QED
  BY <1>5, <1>6, <1>7

\* The other steps of a call; an untidied store has no session that tidies.
LEMMA OtherKeeps ==
  ASSUME Inv, LogInv, NEW c \in Calls,
         Open(c) \/ Remove(c) \/ Find(c) \/ Tidy(c) \/ Close(c)
  PROVE  LogInv'
<1>1. CASE Tidy(c)
  <2>1. method'[c] \in Tidying /\ pc'[c] # "idle"
    BY <1>1 DEF Tidy, Inv, TypeOK, WroteOK
  <2> QED
    BY <2>1 DEF LogInv, Untidied
<1>2. CASE Open(c) \/ Remove(c) \/ Find(c) \/ Close(c)
  <2>1. /\ file' \subseteq file /\ UNCHANGED <<before, method, key>>
        /\ \A b \in Calls \ {c} : pc'[b] = pc[b]
        /\ pc'[c] \notin {"idle", "upsert"}
        /\ method[c] \notin Upserting \/ pc[c] = "close" \/ pc'[c] = "op"
    BY <1>2, AfterOpCases DEF Open, Remove, Find, Close, Inv, TypeOK, Upserting, Removing, Finding
  <2> QED
    BY <2>1, QuietKeeps
<1> QED
  BY <1>1, <1>2

\* A call is made, the process is stopped, or nothing happens.
LEMMA CallKeeps ==
  ASSUME Inv, LogInv,
         \/ \E c \in Calls, m \in Methods, k \in Keys : Call(c, m, k)
         \/ Kill \/ UNCHANGED vars
  PROVE  LogInv'
<1>1. CASE Kill \/ UNCHANGED vars
  <2>1. /\ file' = file /\ UNCHANGED <<before, method, key>>
        /\ \A b \in Calls : pc'[b] = pc[b] \/ (pc[b] # "idle" /\ pc'[b] = "killed")
    BY <1>1 DEF Kill, vars, Inv, TypeOK
  <2> QED
    BY <2>1, QuietKeeps
<1>2. ASSUME NEW c \in Calls, NEW m \in Methods, NEW k \in Keys, Call(c, m, k)
      PROVE  LogInv'
  <2>1. /\ file' = file /\ pc[c] = "idle" /\ pc'[c] = "path"
        /\ \A b \in Calls \ {c} : /\ pc'[b] = pc[b] /\ before'[b] = before[b]
                                  /\ method'[b] = method[b] /\ key'[b] = key[b]
    BY <1>2 DEF Call, Inv, TypeOK
  <2> QED
    BY <2>1, QuietKeeps
<1> QED
  BY <1>1, <1>2

\* The log is kept in every state.
LEMMA LogHolds == Spec => [](Inv /\ LogInv)
<1>1. Init => LogInv
  BY DEF Init, LogInv, OneLocatorPerBook, LastWritten, FoundNone
<1>2. Inv /\ LogInv /\ [Next]_vars => LogInv'
  <2> SUFFICES ASSUME Inv, LogInv, [Next]_vars PROVE LogInv'
    OBVIOUS
  <2>1. ASSUME NEW c \in Calls, Step(c) PROVE LogInv'
    BY <2>1, InsertKeeps, UpdateKeeps, OtherKeeps DEF Step
  <2> QED
    BY <2>1, CallKeeps DEF Next
<1> QED
  BY <1>1, <1>2, Invariance, PTL DEF Spec

\* For any number of calls of updateItem and the others: two positions of one
\* book were inserted by calls that ran at the same time.
THEOREM OnePositionPerBook == Spec => []OneLocatorPerBook
<1>1. LogInv => OneLocatorPerBook
  BY DEF LogInv, OneLocatorPerBook
<1> QED
  BY <1>1, LogHolds, PTL

\* For any number of calls: once updateItem has written a position, no document
\* of that book holds the position of a call that ended before it.
THEOREM LaterPositionWins == Spec => []LastPositionWins
<1>1. LogInv => LastPositionWins
  BY DEF LogInv, LastWritten, LastPositionWins
<1> QED
  BY <1>1, LogHolds, PTL

-----------------------------------------------------------------------------
(* Without removals the log only grows, and a find() has the last position. *)

Unremoved == \A c \in Calls : pc[c] = "idle" \/ method[c] \notin Removing

\* S has a document of the book of call v, and no position from before v.
Seen(S, v) == /\ \E d \in S : d.key = key[v]
              /\ \A d \in S : d.key = key[v] => d.by \notin before[v]

\* Call v is an updateItem() that has returned.
Updating(v) == method[v] \in Upserting /\ pc[v] = "returned"

GrowOK ==
  /\ \A s \in Calls : \A d \in mem[s] : Holds(file, d.oid)
  /\ \A v \in Calls : method[v] \in Upserting /\ pc[v] \in {"close", "returned"} =>
       \E d \in file : d.key = key[v]
  /\ \A f \in Calls : \A v \in before[f] :
       Updating(v) /\ Selects(f, v) /\ method[f] \in Finding =>
         /\ pc[f] = "op" => Seen(mem[f], v)
         /\ Answered(f) => Seen(result[f], v)

GrowInv == Untidied /\ Unremoved => GrowOK

\* A session keeps the log growing.
LEMMA GrowStep ==
  ASSUME Inv, LogInv, Untidied, Unremoved, GrowOK, NEW c \in Calls, Step(c), Untidied', Unremoved'
  PROVE  GrowOK'
<1>1. /\ pc[c] \in Active /\ UNCHANGED <<method, key, before>>
      /\ \A d \in Calls \ {c} : pc'[d] = pc[d] /\ mem'[d] = mem[d] /\ result'[d] = result[d]
  BY DEF Step, Open, Insert, Remove, Find, Update, Upsert, InsertDocument, Tidy, Close, Inv, TypeOK
<1>2. \A f \in Calls : c \notin before[f]
  BY <1>1, NotBefore
<1>3. \A f \in Calls : \A v \in before[f] : v \in Calls /\ v # c /\ (Updating(v)' <=> Updating(v))
  BY <1>1, <1>2 DEF Inv, TypeOK, Updating
<1>4. \A f, v \in Calls : Selects(f, v)' <=> Selects(f, v)
  BY <1>1 DEF Selects
<1>5. \A S, v : Seen(S, v)' <=> Seen(S', v)
  BY <1>1 DEF Seen
\* What others have seen does not change.
<1>6. ASSUME NEW f \in Calls \ {c}, NEW v \in before[f],
             Updating(v)', Selects(f, v)', method[f] \in Finding
      PROVE  /\ pc'[f] = "op" => Seen(mem[f], v)'
             /\ Answered(f)' => Seen(result[f], v)'
  BY <1>1, <1>3, <1>4, <1>6 DEF GrowOK, Seen, Answered
<1>7. CASE Open(c)
  <2>1. pc[c] = "path" /\ pc'[c] = "op" /\ mem'[c] = file /\ file' = file
    BY <1>7 DEF Open, Inv, TypeOK
  <2>2. ASSUME NEW v \in before[c], Updating(v) PROVE Seen(mem[c], v)'
    <3>1. (\E d \in file : d.key = key[v]) /\ v \in Calls
      BY <1>3, <2>2 DEF GrowOK, Updating
    <3>2. LastWritten
      BY DEF LogInv
    <3>3. \A d \in file : d.key = key[v] => d.by \notin before[v]
      BY <2>2, <3>1, <3>2 DEF LastWritten, Updating
    <3> QED
      BY <1>1, <2>1, <3>1, <3>3 DEF Seen
  <2>3. \A s \in Calls : \A d \in mem'[s] : Holds(file, d.oid)'
    BY <1>1, <2>1 DEF GrowOK, Holds
  <2>4. ~Answered(c)'
    BY <2>1 DEF Answered
  <2> QED
    BY <1>1, <1>3, <1>6, <2>1, <2>2, <2>3, <2>4 DEF GrowOK
<1>8. CASE Insert(c) \/ Upsert(c)
  <2>1. /\ mem'[c] = mem[c] \union {DocumentOf(c)} /\ file' = file \union {DocumentOf(c)}
        /\ pc'[c] \notin {"op"} /\ method[c] \notin Finding
    BY <1>8, AfterOpCases
       DEF Insert, Upsert, InsertDocument, Inv, TypeOK, WroteOK, Inserting, Upserting, Finding
  <2>2. DocumentOf(c).oid = c /\ DocumentOf(c).key = key[c]
    BY DEF DocumentOf
  <2>3. \A s \in Calls : \A d \in mem'[s] : Holds(file, d.oid)'
    BY <1>1, <2>1 DEF GrowOK, Holds
  <2>4. \A v \in Calls : method[v] \in Upserting /\ pc'[v] \in {"close", "returned"} =>
          \E d \in file' : d.key = key[v]
    BY <1>1, <2>1, <2>2 DEF GrowOK
  <2> QED
    BY <1>1, <1>6, <2>1, <2>3, <2>4 DEF GrowOK
<1>9. CASE Find(c)
  <2>1. /\ pc[c] = "op" /\ pc'[c] # "op" /\ method[c] \in Finding
        /\ result'[c] = Matching(c, mem[c]) /\ UNCHANGED <<file, mem>>
    BY <1>9, AfterOpCases DEF Find, Inv, TypeOK
  <2>2. ASSUME NEW v \in before[c], Updating(v), Selects(c, v) PROVE Seen(result[c], v)'
    <3>1. Seen(mem[c], v)
      BY <2>1, <2>2 DEF GrowOK
    <3>2. \A d \in mem[c] : d.key = key[v] => d \in Matching(c, mem[c])
      BY <2>2 DEF Matching, Selects
    <3>3. Matching(c, mem[c]) \subseteq mem[c]
      BY DEF Matching
    <3> QED
      BY <1>1, <2>1, <3>1, <3>2, <3>3 DEF Seen
  <2>3. method[c] \notin Upserting
    BY <2>1 DEF Finding, Upserting
  <2>4. \A s \in Calls : \A d \in mem'[s] : Holds(file, d.oid)'
    BY <2>1 DEF GrowOK, Holds
  <2> QED
    BY <1>1, <1>3, <1>4, <1>6, <2>1, <2>2, <2>3, <2>4 DEF GrowOK
<1>10. CASE Update(c)
  <2>1. /\ pc[c] = "op" /\ method[c] \in Upserting /\ method[c] \notin WholeStore
        /\ method[c] \notin Finding
        /\ pc'[c] \in {"upsert", "tidy", "close", "leaked"}
        /\ pc'[c] # "upsert" => Matching(c, mem[c]) # {}
        /\ mem'[c] = Updated(c, mem[c]) /\ file' = Updated(c, file)
    BY <1>10, AfterOpCases DEF Update, Inv, TypeOK, Upserting, WholeStore, Finding
  <2>2. /\ \A a : Holds(file, a)' <=> Holds(file, a)
        /\ \A a : Holds(mem[c], a)' <=> Holds(mem[c], a)
    <3>1. file \in SUBSET Document /\ mem[c] \in SUBSET Document
      BY DEF Inv, TypeOK
    <3>2. /\ \A a : Holds(Updated(c, file), a) <=> Holds(file, a)
          /\ \A a : Holds(Updated(c, mem[c]), a) <=> Holds(mem[c], a)
      BY <3>1, UpdatedFacts
    <3> QED
      BY <2>1, <3>2 DEF Holds
  <2>3. \A s \in Calls : \A d \in mem'[s] : Holds(file, d.oid)'
    <3>1. \A s \in Calls : \A a : Holds(mem[s], a) => Holds(file, a)
      BY DEF GrowOK, Holds
    <3>2. \A s \in Calls : \A a : Holds(mem[s], a)' => Holds(mem[s], a)
      BY <1>1, <2>2 DEF Holds
    <3> QED
      BY <2>2, <3>1, <3>2 DEF Holds
  <2>4. ASSUME NEW d \in file PROVE \E e \in file' : e.key = d.key
    <3>1. d \in Document /\ [d EXCEPT !.by = c].key = d.key
      BY DEF Document, Inv, TypeOK
    <3>2. CASE d \in Matching(c, file)
      BY <2>1, <3>1, <3>2 DEF Updated
    <3>3. CASE d \notin Matching(c, file)
      BY <2>1, <3>3 DEF Updated
    <3> QED
      BY <3>2, <3>3
  <2>5. ASSUME pc'[c] # "upsert" PROVE \E d \in file : d.key = key[c]
    <3>1. PICK d \in mem[c] : d.key = key[c]
      BY <2>1, <2>5 DEF Matching
    <3>2. PICK e \in file : e.oid = d.oid
      BY <3>1 DEF GrowOK, Holds
    <3> QED
      BY <3>1, <3>2 DEF Inv, DocsOK, MemOK
  <2>6. \A v \in Calls : method[v] \in Upserting /\ pc'[v] \in {"close", "returned"} =>
          \E d \in file' : d.key = key[v]
    <3>1. \A v \in Calls : method[v] \in Upserting /\ pc'[v] \in {"close", "returned"} =>
            \E d \in file : d.key = key[v]
      BY <1>1, <2>5 DEF GrowOK
    <3> QED
      BY <2>4, <3>1
  <2> QED
    BY <1>1, <1>6, <2>1, <2>3, <2>6 DEF GrowOK
<1>11. CASE Remove(c) \/ Tidy(c)
  BY <1>1, <1>11 DEF Remove, Tidy, Unremoved, Untidied, Inv, WroteOK
<1>12. CASE Close(c)
  <2>1. pc[c] = "close" /\ pc'[c] = "returned" /\ mem'[c] = {} /\ UNCHANGED <<file, result>>
    BY <1>12 DEF Close, Inv, TypeOK
  <2>2. \A s \in Calls : \A d \in mem'[s] : Holds(file, d.oid)'
    BY <1>1, <2>1 DEF GrowOK, Holds
  <2>3. \A v \in before[c] : Seen(result[c], v)' <=> Seen(result[c], v)
    BY <1>1, <2>1 DEF Seen
  <2>4. Answered(c)' => Answered(c)
    BY <1>1, <2>1 DEF Answered
  <2> QED
    BY <1>1, <1>3, <1>4, <1>6, <2>1, <2>2, <2>3, <2>4 DEF GrowOK
<1> QED
  BY <1>7, <1>8, <1>9, <1>10, <1>11, <1>12 DEF Step

\* The log grows in every state.
LEMMA GrowHolds == Spec => []GrowInv
<1>1. Init => GrowInv
  BY DEF Init, GrowInv, GrowOK, Answered
<1>2. Inv /\ LogInv /\ GrowInv /\ [Next]_vars => GrowInv'
  <2> SUFFICES ASSUME Inv, LogInv, GrowInv, [Next]_vars, Untidied', Unremoved' PROVE GrowOK'
    BY DEF GrowInv
  <2>1. Untidied /\ Unremoved
    BY MadeStays DEF Untidied, Unremoved
  <2>2. GrowOK
    BY <2>1 DEF GrowInv
  <2>3. ASSUME NEW c \in Calls, Step(c) PROVE GrowOK'
    BY <2>1, <2>2, <2>3, GrowStep
  <2>4. ASSUME NEW c \in Calls, NEW m \in Methods, NEW k \in Keys, Call(c, m, k) PROVE GrowOK'
    <3>1. /\ pc[c] = "idle" /\ pc'[c] = "path" /\ UNCHANGED <<file, mem, result>>
          /\ \A d \in Calls \ {c} : /\ pc'[d] = pc[d] /\ before'[d] = before[d]
                                    /\ method'[d] = method[d] /\ key'[d] = key[d]
      BY <2>4 DEF Call, Inv, TypeOK
    <3>2. \A f \in Calls \ {c} : \A v \in before[f] :
            /\ v \in Calls \ {c} /\ (Updating(v)' <=> Updating(v)) /\ (Selects(f, v)' <=> Selects(f, v))
            /\ \A S : Seen(S, v)' <=> Seen(S', v)
      BY <3>1 DEF Inv, TypeOK, BeforeOK, Updating, Selects, Seen
    <3>3. ASSUME NEW f \in Calls, NEW v \in before'[f],
                 Updating(v)', Selects(f, v)', method'[f] \in Finding
          PROVE  /\ pc'[f] = "op" => Seen(mem[f], v)'
                 /\ Answered(f)' => Seen(result[f], v)'
      <4>1. CASE f = c
        BY <3>1, <4>1 DEF Answered
      <4>2. CASE f # c
        <5>1. v \in before[f] /\ v \in Calls \ {c} /\ key'[v] = key[v] /\ before'[v] = before[v]
          BY <3>1, <3>2, <3>3, <4>2
        <5>2. Updating(v) /\ Selects(f, v) /\ method[f] \in Finding /\ pc'[f] = pc[f]
              /\ (Answered(f)' <=> Answered(f))
          BY <3>1, <3>2, <3>3, <4>2, <5>1 DEF Answered
        <5> QED
          BY <2>2, <3>1, <5>1, <5>2 DEF GrowOK, Seen
      <4> QED
        BY <4>1, <4>2
    <3>4. \A v \in Calls : method'[v] \in Upserting /\ pc'[v] \in {"close", "returned"} =>
            \E d \in file' : d.key = key'[v]
      BY <2>2, <3>1 DEF GrowOK
    <3>5. \A s \in Calls : \A d \in mem'[s] : Holds(file, d.oid)'
      BY <2>2, <3>1 DEF GrowOK, Holds
    <3> QED
      BY <3>3, <3>4, <3>5 DEF GrowOK
  <2>5. CASE Kill \/ UNCHANGED vars
    <3>1. /\ UNCHANGED <<file, method, key, before, result>>
          /\ \A c \in Calls : /\ mem'[c] \in {mem[c], {}} /\ (pc'[c] = "op" => mem'[c] = mem[c])
                              /\ (pc'[c] = pc[c] \/ pc'[c] = "killed")
      BY <2>5 DEF Kill, vars, Inv, TypeOK
    <3>2. \A s \in Calls : \A d \in mem'[s] : Holds(file, d.oid)'
      <4>1. \A s \in Calls : \A d \in mem[s] : Holds(file, d.oid)
        BY <2>2 DEF GrowOK
      <4>2. \A s \in Calls : \A d \in mem'[s] : d \in mem[s]
        BY <3>1
      <4> QED
        BY <3>1, <4>1, <4>2 DEF Holds
    <3>3. \A c \in Calls : /\ Updating(c)' => Updating(c)
                           /\ Answered(c)' => Answered(c)
                           /\ \A v \in Calls : Selects(c, v)' <=> Selects(c, v)
      BY <3>1 DEF Updating, Answered, Selects
    <3>4. \A f \in Calls : before[f] \in SUBSET Calls
      BY DEF Inv, TypeOK
    <3>5. ASSUME NEW f \in Calls, NEW v \in before[f],
                 Updating(v)', Selects(f, v)', method[f] \in Finding
          PROVE  /\ pc'[f] = "op" => Seen(mem[f], v)'
                 /\ Answered(f)' => Seen(result[f], v)'
      <4>1. Updating(v) /\ Selects(f, v) /\ (Answered(f)' => Answered(f))
        BY <3>3, <3>4, <3>5
      <4>2. /\ pc[f] = "op" => Seen(mem[f], v)
            /\ Answered(f) => Seen(result[f], v)
        BY <2>2, <3>5, <4>1 DEF GrowOK
      <4>3. pc'[f] = "op" => pc[f] = "op" /\ mem'[f] = mem[f]
        BY <3>1
      <4>4. UNCHANGED <<key, before, result>>
        BY <3>1
      <4> QED
        BY <4>1, <4>2, <4>3, <4>4 DEF Seen
    <3>6. \A v \in Calls : method'[v] \in Upserting /\ pc'[v] \in {"close", "returned"} =>
            \E d \in file' : d.key = key'[v]
      BY <2>2, <3>1 DEF GrowOK
    <3> QED
      BY <3>1, <3>2, <3>5, <3>6 DEF GrowOK
  <2> QED
    BY <2>3, <2>4, <2>5 DEF Next
<1> QED
  BY <1>1, <1>2, LogHolds, PTL DEF Spec

-----------------------------------------------------------------------------
(* A store whose callers never update holds each document as it was inserted. *)

Unupdated == \A c \in Calls : pc[c] = "idle" \/ method[c] \notin Upserting

OwnIn(S) == \A d \in S : d.by = d.oid

OwnOK == Unupdated => OwnIn(file) /\ \A c \in Calls : OwnIn(mem[c]) /\ OwnIn(result[c])

\* Only an update makes a document hold another call's map.
LEMMA OwnStep ==
  ASSUME Inv, OwnOK, [Next]_vars
  PROVE  OwnOK'
<1> SUFFICES ASSUME Unupdated'
             PROVE  OwnIn(file') /\ \A c \in Calls : OwnIn(mem'[c]) /\ OwnIn(result'[c])
  BY DEF OwnOK, OwnIn
<1>1. Unupdated
  BY MadeStays DEF Unupdated
<1>2. OwnIn(file) /\ \A c \in Calls : OwnIn(mem[c]) /\ OwnIn(result[c])
  BY <1>1 DEF OwnOK
<1>3. ASSUME NEW c \in Calls, Insert(c)
      PROVE  OwnIn(file') /\ \A d \in Calls : OwnIn(mem'[d]) /\ OwnIn(result'[d])
  <2>1. /\ file' = file \union {DocumentOf(c)} /\ mem'[c] = mem[c] \union {DocumentOf(c)}
        /\ \A d \in Calls \ {c} : mem'[d] = mem[d]
        /\ result' = result
    BY <1>3 DEF Insert, InsertDocument, Inv, TypeOK
  <2>2. DocumentOf(c).by = DocumentOf(c).oid
    BY DEF DocumentOf
  <2> QED
    BY <1>2, <2>1, <2>2 DEF OwnIn
<1>4. ASSUME NEW c \in Calls, Open(c) \/ Remove(c) \/ Find(c) \/ Tidy(c) \/ Close(c)
      PROVE  OwnIn(file') /\ \A d \in Calls : OwnIn(mem'[d]) /\ OwnIn(result'[d])
  <2>1. /\ file' \subseteq file \union mem[c]
        /\ mem'[c] \subseteq file \union mem[c]
        /\ result'[c] \subseteq result[c] \union mem[c]
        /\ \A d \in Calls \ {c} : mem'[d] = mem[d] /\ result'[d] = result[d]
    BY <1>4 DEF Open, Remove, Find, Matching, Tidy, Close, Inv, TypeOK
  <2> QED
    BY <1>2, <2>1 DEF OwnIn
<1>5. ASSUME NEW c \in Calls, Update(c) \/ Upsert(c) PROVE FALSE
  BY <1>1, <1>5 DEF Update, Upsert, Unupdated, Inv, WroteOK
<1>6. CASE (\E c \in Calls, m \in Methods, k \in Keys : Call(c, m, k)) \/ Kill \/ UNCHANGED vars
  <2>1. file' = file /\ result' = result /\ \A d \in Calls : mem'[d] \in {mem[d], {}}
    BY <1>6 DEF Call, Kill, vars, Inv, TypeOK
  <2> QED
    BY <1>2, <2>1 DEF OwnIn
<1> QED
  BY <1>3, <1>4, <1>5, <1>6 DEF Next, Step

\* Without updates no two documents of a set come from one call.
LEMMA OwnUnique ==
  ASSUME Origin, OwnOK, Unupdated
  PROVE  /\ \A d, e \in file : d.oid = e.oid => d = e
         /\ \A c \in Calls : \A d, e \in mem[c] : d.oid = e.oid => d = e
         /\ \A c \in Calls : \A d, e \in result[c] : d.oid = e.oid => d = e
<1>1. ASSUME NEW S, S \subseteq Document, Traced(S), OwnIn(S), NEW d \in S, NEW e \in S, d.oid = e.oid
      PROVE  d = e
  <2>1. d \in Document /\ e \in Document /\ d.key = e.key /\ d.by = e.by
    BY <1>1 DEF Traced, Written, OwnIn
  <2> QED
    BY <1>1, <2>1 DEF Document
<1>2. /\ file \subseteq Document /\ Traced(file) /\ OwnIn(file)
      /\ \A c \in Calls : /\ mem[c] \subseteq Document /\ Traced(mem[c]) /\ OwnIn(mem[c])
                          /\ result[c] \subseteq Document /\ Traced(result[c]) /\ OwnIn(result[c])
  BY DEF Origin, TypeOK, OwnOK
<1> QED
  BY <1>1, <1>2

\* What the store is when it is created, and stays under every step.
Stored == Inv /\ Origin /\ OwnOK

\* A new store is such a store.
LEMMA StoredInit == Init => Stored
  BY InitInv, OriginInit DEF Init, Stored, OwnOK, OwnIn

\* Every step leaves it one.
LEMMA StoredStep == Stored /\ [Next]_vars => Stored'
  BY InvStep, OriginStep, OwnStep DEF Stored

-----------------------------------------------------------------------------
(* What a remove() that ran alone took out never comes back. *)

RemovedAlone == \A m \in Calls :
  Alone(m) /\ method[m] \in Removing \ WholeStore /\ pc[m] \in {"tidy", "close", "returned"} =>
    \A a \in before[m] : key[a] = key[m] => Gone(a)

\* No other session has the documents of the book in memory, and the file and
\* the session's own memory lose them.
LEMMA RemovesAlone ==
  ASSUME Inv, NEW m \in Calls, Alone(m), Remove(m), method[m] \notin WholeStore,
         NEW a \in before[m], key[a] = key[m]
  PROVE  Gone(a)'
<1> DEFINE out == Matching(m, file \union mem[m])
           ids == {e.oid : e \in out}
<1>1. /\ pc[m] = "op" /\ file' = {d \in file : d.oid \notin ids} /\ mem'[m] = mem[m] \ out
      /\ \A s \in Calls \ {m} : pc'[s] = pc[s]
  BY DEF Remove, WholeStore, Inv, TypeOK
<1>2. \A d \in file \union mem[m] : d.oid = a => d \in out
  BY DEF Matching, Inv, DocsOK, MemOK
<1>3. ~Holds(file', a)
  BY <1>1, <1>2 DEF Holds
<1>4. ~Holds(mem'[m], a)
  BY <1>1, <1>2 DEF Holds
<1>5. \A s \in Calls \ {m} : pc'[s] \notin Active
  BY <1>1, ActiveAlone
<1> QED
  BY <1>3, <1>4, <1>5 DEF Gone, Holds

\* Every step keeps it so.
LEMMA RemovedStep ==
  ASSUME Inv, RemovedAlone, [Next]_vars
  PROVE  RemovedAlone'
<1> SUFFICES ASSUME NEW m \in Calls, Alone(m)', method'[m] \in Removing \ WholeStore,
                    pc'[m] \in {"tidy", "close", "returned"}, NEW a \in before'[m], key'[a] = key'[m]
             PROVE  Gone(a)'
  BY DEF RemovedAlone
<1>1. pc[m] # "idle"
  <2>1. ASSUME NEW c \in Calls, Step(c), pc[m] = "idle" PROVE pc'[m] = "idle"
    BY <2>1 DEF Step, Open, Insert, Remove, Find, Update, Upsert, InsertDocument, Tidy, Close, Inv, TypeOK
  <2>2. ASSUME NEW c \in Calls, NEW n \in Methods, NEW k \in Keys, Call(c, n, k), pc[m] = "idle"
        PROVE  pc'[m] \in {"idle", "path"}
    BY <2>2 DEF Call, Inv, TypeOK
  <2>3. CASE Kill \/ UNCHANGED vars
    BY <2>3 DEF Kill, vars, Inv, TypeOK
  <2> QED
    BY <2>1, <2>2, <2>3 DEF Next
<1>2. before'[m] = before[m] /\ method'[m] = method[m] /\ key'[m] = key[m]
  BY <1>1, MadeStays
<1>3. Alone(m)
  BY ConcurrentStays DEF Alone
<1>4. a \in Calls /\ pc[a] \in Ended
  BY <1>2 DEF Inv, TypeOK, BeforeOK
<1>5. key'[a] = key[a]
  BY <1>4, MadeStays
<1>6. CASE pc[m] \in {"tidy", "close", "returned"}
  <2>1. Gone(a)
    BY <1>2, <1>3, <1>5, <1>6 DEF RemovedAlone
  <2> QED
    BY <1>4, <2>1, GoneStays
<1>7. CASE pc[m] \notin {"tidy", "close", "returned"}
  <2>1. Remove(m)
    <3>1. ASSUME NEW c \in Calls, Step(c) PROVE Remove(m)
      <4>1. c = m
        BY <1>7, <3>1
           DEF Step, Open, Insert, Remove, Find, Update, Upsert, InsertDocument, Tidy, Close, Inv, TypeOK
      <4>2. method[m] \notin Inserting \union Finding \union Upserting
        BY <1>2 DEF Inserting, Finding, Upserting, Removing
      <4>3. ~Insert(m) /\ ~Find(m) /\ ~Update(m) /\ ~Upsert(m)
        BY <4>2 DEF Insert, Find, Update, Upsert, Inv, WroteOK
      <4> QED
        BY <1>7, <3>1, <4>1, <4>3 DEF Step, Open, Tidy, Close, Inv, TypeOK
    <3>2. ASSUME NEW c \in Calls, NEW n \in Methods, NEW k \in Keys, Call(c, n, k) PROVE FALSE
      BY <1>1, <1>7, <3>2 DEF Call, Inv, TypeOK
    <3>3. CASE Kill \/ UNCHANGED vars
      BY <1>7, <3>3 DEF Kill, vars, Inv, TypeOK
    <3> QED
      BY <3>1, <3>2, <3>3 DEF Next
  <2> QED
    BY <1>2, <1>3, <1>5, <2>1, RemovesAlone
<1> QED
  BY <1>6, <1>7

\* A remove() that ran alone removed for good.
LEMMA RemovedHolds == Spec => []RemovedAlone
<1>1. Init => RemovedAlone
  BY DEF Init, RemovedAlone
<1> QED
  BY <1>1, RemovedStep, Invariance, PTL DEF Spec

-----------------------------------------------------------------------------
(* An answer holds nothing of a call made after it, nor what a remove() that *)
(* ran alone, before it, took out.                                           *)

AnswersOK == \A f \in Calls :
  /\ \A d \in result[f] : f \notin before[d.oid]
  /\ Answered(f) =>
       \A m \in before[f] : Alone(m) /\ method[m] \in Removing \ WholeStore /\ pc[m] = "returned" =>
         \A a \in before[m] : key[a] = key[m] => ~Holds(result[f], a)

\* The documents of an answer come from calls that had not ended before it.
LEMMA EarlierStep ==
  ASSUME Inv, Origin, AnswersOK, [Next]_vars, NEW f \in Calls, NEW d \in result'[f]
  PROVE  f \notin before'[d.oid]
<1>1. \A c \in Calls : \A e \in mem[c] \union result[c] : e.oid \in Calls /\ wrote[e.oid] = "inserted"
  BY DEF Origin, Traced, Written, TypeOK, Document
<1>2. \A a \in Calls : wrote[a] = "inserted" => pc[a] # "idle" /\ before'[a] = before[a]
  BY MadeStays DEF Inv, WroteOK
<1>3. CASE d \in result[f]
  BY <1>1, <1>2, <1>3 DEF AnswersOK
<1>4. CASE d \notin result[f]
  <2>1. ASSUME NEW c \in Calls, Step(c) PROVE pc[f] = "op" /\ d \in mem[f]
    BY <1>4, <2>1 DEF Step, Open, Insert, Remove, Find, Update, Upsert, InsertDocument, Tidy, Close, Matching, Inv, TypeOK
  <2>2. ~(\E c \in Calls, m \in Methods, k \in Keys : Call(c, m, k)) /\ ~Kill /\ ~UNCHANGED vars
    BY <1>4 DEF Call, Kill, vars
  <2>3. pc[f] = "op" /\ d \in mem[f]
    BY <2>1, <2>2 DEF Next
  <2> QED
    BY <1>1, <1>2, <2>3 DEF Inv, BeforeOK
<1> QED
  BY <1>3, <1>4

\* Every step keeps it so.
LEMMA AnswersStep ==
  ASSUME Inv, Origin, RemovedAlone, AnswersOK, [Next]_vars
  PROVE  AnswersOK'
<1> SUFFICES ASSUME NEW f \in Calls, Answered(f)', NEW m \in before'[f], Alone(m)',
                    method'[m] \in Removing \ WholeStore, pc'[m] = "returned",
                    NEW a \in before'[m], key'[a] = key'[m]
             PROVE  ~Holds(result[f], a)'
  BY EarlierStep DEF AnswersOK
<1>1. pc[f] # "idle"
  <2>1. ASSUME NEW c \in Calls, Step(c), pc[f] = "idle" PROVE pc'[f] = "idle"
    BY <2>1 DEF Step, Open, Insert, Remove, Find, Update, Upsert, InsertDocument, Tidy, Close, Inv, TypeOK
  <2>2. ASSUME NEW c \in Calls, NEW n \in Methods, NEW k \in Keys, Call(c, n, k), pc[f] = "idle"
        PROVE  pc'[f] \in {"idle", "path"}
    BY <2>2 DEF Call, Inv, TypeOK
  <2>3. CASE Kill \/ UNCHANGED vars
    BY <2>3 DEF Kill, vars, Inv, TypeOK, Answered
  <2> QED
    BY <2>1, <2>2, <2>3 DEF Next, Answered
<1>2. before'[f] = before[f] /\ method'[f] = method[f] /\ m \in Calls /\ pc[m] \in Ended
  BY <1>1, MadeStays DEF Inv, TypeOK, BeforeOK
<1>3. before'[m] = before[m] /\ method'[m] = method[m] /\ key'[m] = key[m] /\ pc[m] = "returned"
  BY <1>2, MadeStays, EndedStays
<1>4. Alone(m)
  BY <1>2, ConcurrentStays DEF Alone
<1>5. a \in Calls /\ pc[a] \in Ended /\ key'[a] = key[a]
  <2>1. a \in Calls /\ pc[a] \in Ended
    BY <1>2, <1>3 DEF Inv, TypeOK, BeforeOK
  <2> QED
    BY <2>1, MadeStays
<1>6. CASE Answered(f)
  <2>1. ~Holds(result[f], a)
    BY <1>2, <1>3, <1>4, <1>5, <1>6 DEF AnswersOK
  <2>2. result'[f] = result[f]
    <3>1. ASSUME NEW c \in Calls, Find(c) PROVE c # f
      BY <1>6, <3>1 DEF Find, Answered
    <3>2. ASSUME NEW c \in Calls, Step(c) PROVE result'[f] = result[f]
      BY <3>1, <3>2 DEF Step, Open, Insert, Remove, Find, Update, Upsert, InsertDocument, Tidy, Close, Inv, TypeOK
    <3>3. CASE (\E c \in Calls, n \in Methods, k \in Keys : Call(c, n, k)) \/ Kill \/ UNCHANGED vars
      BY <3>3 DEF Call, Kill, vars
    <3> QED
      BY <3>2, <3>3 DEF Next
  <2> QED
    BY <2>1, <2>2 DEF Holds
<1>7. CASE ~Answered(f)
  <2>1. Find(f)
    <3>1. ASSUME NEW c \in Calls, Step(c) PROVE Find(f)
      <4>1. c = f
        BY <1>2, <1>7, <3>1
           DEF Step, Open, Insert, Remove, Find, Update, Upsert, InsertDocument, Tidy, Close, Answered, Inv, TypeOK
      <4>2. pc[f] \notin {"tidy", "close", "returned"} /\ pc'[f] \in {"tidy", "close", "returned"} /\ method[f] \in Finding
        BY <1>2, <1>7 DEF Answered
      <4> QED
        BY <3>1, <4>1, <4>2
           DEF Step, Open, Insert, Remove, Update, Upsert, InsertDocument, Tidy, Close, Finding, Inserting,
               Removing, Upserting, Inv, TypeOK, WroteOK
    <3>2. ASSUME NEW c \in Calls, NEW n \in Methods, NEW k \in Keys, Call(c, n, k) PROVE FALSE
      BY <1>1, <1>2, <1>7, <3>2 DEF Call, Inv, TypeOK, Answered
    <3>3. CASE Kill \/ UNCHANGED vars
      BY <1>2, <1>7, <3>3 DEF Kill, vars, Inv, TypeOK, Answered
    <3> QED
      BY <3>1, <3>2, <3>3 DEF Next
  <2>2. Gone(a)
    BY <1>3, <1>4, <1>5, <1>2 DEF RemovedAlone
  <2>3. pc[f] = "op" /\ result'[f] = Matching(f, mem[f])
    BY <2>1 DEF Find, Inv, TypeOK
  <2> QED
    BY <2>2, <2>3 DEF Gone, Holds, Matching
<1> QED
  BY <1>6, <1>7

\* Answers are from before what follows them.
LEMMA AnswersHold == Spec => []AnswersOK
<1>1. Init => AnswersOK
  BY DEF Init, AnswersOK, Answered
<1>2. Inv /\ Origin /\ RemovedAlone /\ AnswersOK /\ [Next]_vars => AnswersOK'
  BY AnswersStep
<1> QED
  BY <1>1, <1>2, Invariance, OriginHolds, RemovedHolds, PTL DEF Spec

-----------------------------------------------------------------------------
(* While no write overlaps another call, every image in memory is the file,  *)
(* and a find() that has run answers what the file holds until it returns.    *)

Writing(w) == method[w] \notin Finding /\ pc[w] # "idle"

Undisturbed == \A w \in Calls : Writing(w) => Alone(w)

FreshOK == Undisturbed =>
  \A s \in Calls : /\ Loaded(s) => mem[s] = file
                   /\ method[s] \in Finding /\ pc[s] \in {"tidy", "close"} => result[s] = Matching(s, file)

\* A write that has overlapped another call has done so for good.
LEMMA DisturbedStays ==
  ASSUME Inv, [Next]_vars, Undisturbed'
  PROVE  Undisturbed
<1> SUFFICES ASSUME NEW w \in Calls, Writing(w), NEW c \in Calls, Concurrent(w, c) PROVE FALSE
  BY DEF Undisturbed, Alone
<1>1. Writing(w)' /\ Concurrent(w, c)'
  BY MadeStays, ConcurrentStays DEF Writing
<1> QED
  BY <1>1 DEF Undisturbed, Alone

\* A write meets the file and nobody else.
LEMMA WritesAlone ==
  ASSUME Inv, FreshOK, Undisturbed, NEW c \in Calls, pc[c] \in {"op", "upsert"}, method[c] \notin Finding
  PROVE  mem[c] = file /\ \A s \in Calls \ {c} : pc[s] \notin Active
<1>1. Alone(c)
  BY DEF Undisturbed, Writing
<1> QED
  BY <1>1, ActiveAlone DEF FreshOK

\* What a removal takes from the file and from its image.
LEMMA RemovesBoth ==
  ASSUME Inv, FreshOK, Undisturbed, NEW c \in Calls, Remove(c)
  PROVE  /\ mem'[c] = file' /\ \A s \in Calls \ {c} : mem'[s] = mem[s]
         /\ method[c] # "EbookDownload.removeById" =>
              /\ file' = file \ Matching(c, file)
              /\ removed'[c] = {d.oid : d \in Matching(c, file)}
<1> DEFINE out == IF method[c] = "EbookDownload.removeById" THEN mem[c] ELSE Matching(c, file \union mem[c])
           ids == {e.oid : e \in out}
<1>1. /\ mem'[c] = mem[c] \ out /\ \A s \in Calls \ {c} : mem'[s] = mem[s]
      /\ file' = {d \in file : d.oid \notin ids} /\ removed'[c] = ids
      /\ pc[c] = "op" /\ method[c] \in Removing
  BY DEF Remove, Inv, TypeOK
<1>2. method[c] \notin Finding
  BY <1>1 DEF Removing, Finding
<1>3. mem[c] = file
  BY <1>1, <1>2, WritesAlone
<1>4. \A d \in file, e \in out : d.oid = e.oid => d \in out
  BY <1>3 DEF Matching, DocsOK, Inv
<1>5. out \subseteq file
  BY <1>3 DEF Matching
<1>6. method[c] # "EbookDownload.removeById" => out = Matching(c, file)
  BY <1>3 DEF Matching
<1> HIDE DEF out
<1>7. file' = file \ out
  BY <1>1, <1>4, <1>5
<1> QED
  BY <1>1, <1>3, <1>6, <1>7

\* Every step keeps images and answers fresh.
LEMMA FreshStep ==
  ASSUME Inv, FreshOK, [Next]_vars
  PROVE  FreshOK'
<1> SUFFICES ASSUME Undisturbed'
             PROVE  \A s \in Calls :
                      /\ Loaded(s)' => mem'[s] = file'
                      /\ method'[s] \in Finding /\ pc'[s] \in {"tidy", "close"} => result'[s] = Matching(s, file)'
  BY DEF FreshOK
<1>1. Undisturbed
  BY DisturbedStays
<1>2. \A s \in Calls : /\ Loaded(s) => mem[s] = file
                       /\ method[s] \in Finding /\ pc[s] \in {"tidy", "close"} => result[s] = Matching(s, file)
  BY <1>1 DEF FreshOK
<1>3. ASSUME NEW c \in Calls, method[c] \notin Finding, UNCHANGED method, pc[c] \in {"op", "upsert"},
             mem'[c] = file', \A s \in Calls \ {c} : pc'[s] = pc[s]
      PROVE  \A s \in Calls :
               /\ Loaded(s)' => mem'[s] = file'
               /\ method'[s] \in Finding /\ pc'[s] \in {"tidy", "close"} => result'[s] = Matching(s, file)'
  <2>1. \A s \in Calls \ {c} : pc[s] \notin Active
    BY <1>1, <1>3, WritesAlone
  <2> QED
    BY <1>3, <2>1
<1>4. ASSUME NEW c \in Calls, Insert(c) \/ Upsert(c) \/ Update(c)
      PROVE  /\ method[c] \notin Finding /\ UNCHANGED method /\ pc[c] \in {"op", "upsert"}
             /\ mem'[c] = file' /\ \A s \in Calls \ {c} : pc'[s] = pc[s]
  <2>1. /\ method[c] \notin Finding /\ UNCHANGED method /\ pc[c] \in {"op", "upsert"}
        /\ \A s \in Calls \ {c} : pc'[s] = pc[s]
    BY <1>4 DEF Insert, Upsert, Update, InsertDocument, Inserting, Upserting, Finding, Inv, TypeOK, WroteOK
  <2>2. mem[c] = file
    BY <1>1, <2>1, WritesAlone
  <2> QED
    BY <1>4, <2>1, <2>2 DEF Insert, Upsert, Update, InsertDocument, Inv, TypeOK
<1>5. ASSUME NEW c \in Calls, Remove(c)
      PROVE  /\ method[c] \notin Finding /\ UNCHANGED method /\ pc[c] \in {"op", "upsert"}
             /\ mem'[c] = file' /\ \A s \in Calls \ {c} : pc'[s] = pc[s]
  <2>1. /\ method[c] \notin Finding /\ UNCHANGED method /\ pc[c] \in {"op", "upsert"}
        /\ \A s \in Calls \ {c} : pc'[s] = pc[s]
    BY <1>5 DEF Remove, Removing, Finding, Inv, TypeOK
  <2> QED
    BY <1>1, <1>5, <2>1, RemovesBoth
<1>6. ASSUME UNCHANGED <<method, key>>, NEW c \in Calls, Open(c) \/ Find(c) \/ Tidy(c) \/ Close(c)
      PROVE  \A s \in Calls :
               /\ Loaded(s)' => mem'[s] = file'
               /\ method'[s] \in Finding /\ pc'[s] \in {"tidy", "close"} => result'[s] = Matching(s, file)'
  <2>1. file' = file
    BY <1>2, <1>6 DEF Open, Find, Tidy, Close
  <2>2. \A s \in Calls : \A S : Matching(s, S)' = Matching(s, S')
    BY <1>6 DEF Matching
  <2>3. CASE Open(c) \/ Close(c)
    <3>1. /\ UNCHANGED result /\ pc'[c] \in {"op", "returned"} /\ (pc'[c] = "op" => mem'[c] = file)
          /\ \A s \in Calls \ {c} : pc'[s] = pc[s] /\ mem'[s] = mem[s]
      BY <2>3 DEF Open, Close, Inv, TypeOK
    <3> QED
      BY <1>2, <1>6, <2>1, <3>1 DEF Matching
  <2>4. CASE Tidy(c)
    <3>1. /\ UNCHANGED <<result, mem>> /\ pc[c] = "tidy" /\ pc'[c] = "close"
          /\ \A s \in Calls \ {c} : pc'[s] = pc[s]
      BY <2>4 DEF Tidy, Inv, TypeOK
    <3> QED
      BY <1>2, <1>6, <2>1, <3>1 DEF Matching
  <2>5. CASE Find(c)
    <3>1. /\ UNCHANGED mem /\ pc[c] = "op" /\ result'[c] = Matching(c, mem[c])
          /\ \A s \in Calls \ {c} : pc'[s] = pc[s] /\ result'[s] = result[s]
      BY <2>5 DEF Find, Inv, TypeOK
    <3> QED
      BY <1>2, <1>6, <2>1, <3>1, ZenonT(60) DEF Matching
  <2> QED
    BY <1>6, <2>3, <2>4, <2>5
<1>7. ASSUME NEW c \in Calls, NEW m \in Methods, NEW k \in Keys, Call(c, m, k)
      PROVE  \A s \in Calls :
               /\ Loaded(s)' => mem'[s] = file'
               /\ method'[s] \in Finding /\ pc'[s] \in {"tidy", "close"} => result'[s] = Matching(s, file)'
  <2>1. /\ UNCHANGED <<file, mem, result>> /\ pc'[c] = "path"
        /\ \A s \in Calls \ {c} : pc'[s] = pc[s] /\ method'[s] = method[s] /\ key'[s] = key[s]
    BY <1>7 DEF Call, Inv, TypeOK
  <2> QED
    BY <1>2, <2>1 DEF Matching
<1>8. CASE Kill
  BY <1>8 DEF Kill, Inv, TypeOK
<1>9. CASE UNCHANGED vars
  BY <1>2, <1>9 DEF vars, Matching
<1>10. ASSUME NEW c \in Calls, Step(c) PROVE UNCHANGED <<method, key>>
  BY <1>10 DEF Step, Open, Insert, Remove, Find, Update, Upsert, InsertDocument, Tidy, Close
<1> QED
  BY <1>3, <1>4, <1>5, <1>6, <1>7, <1>8, <1>9, <1>10 DEF Next, Step

\* Images are fresh in every state.
LEMMA FreshHolds == Spec => []FreshOK
<1>1. Init => FreshOK
  BY DEF Init, FreshOK
<1> QED
  BY <1>1, FreshStep, Invariance, PTL DEF Spec
=============================================================================
