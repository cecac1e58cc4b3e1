------------------------------ MODULE EbookStore ------------------------------
(***************************************************************************)
(* The three on-device stores of the application: EbookDownload            *)
(* (ebook_downloads.db), EbookFavorite (ebook_favorites.db) and            *)
(* EbookLocator (ebook_locator.db).  All three are written the same way:   *)
(* every method builds its OWN ObjectDB on the store's file, opens it      *)
(* without awaiting, performs one operation, in some methods compacts the  *)
(* file with tidy(), and closes.  Nothing serialises two calls, so two     *)
(* sessions can be open on one file, each with its own memory image.       *)
(*                                                                         *)
(* One behaviour of this module is the life of ONE store file; Methods     *)
(* says which of the methods its callers use.                              *)
(*                                                                         *)
(* objectdb itself is not part of the repository.  It is modelled from the *)
(* way the stores use it: open() reads the file into the session's memory; *)
(* insert, remove and update change that memory and append the same change *)
(* to the file; find reads the memory; tidy() rewrites the file from the   *)
(* memory; and the operations of one session run in the order they were    *)
(* issued, although only some of them are awaited.                         *)
(***************************************************************************)
EXTENDS Naturals, FiniteSets

CONSTANTS Calls,    \* invocations of store methods; each is made at most once
          Keys,     \* book identifiers, the 'id' or 'bookId' of a document
          Methods   \* the methods that callers invoke in this instance

\* Methods by the operation they perform between open() and close().
Inserting == {"EbookDownload.addDownload", "EbookFavorite.addFavorites",
              "EbookLocator.addItem"}
Upserting == {"EbookLocator.updateItem"}
Removing  == {"EbookDownload.remove", "EbookDownload.removeById",
              "EbookDownload.clear", "EbookFavorite.remove",
              "EbookLocator.remove"}
Finding   == {"EbookDownload.listAll", "EbookDownload.check",
              "EbookFavorite.listAll", "EbookFavorite.check",
              "EbookLocator.listAll", "EbookLocator.getLocator"}
AllMethods == Inserting \union Upserting \union Removing \union Finding

\* Methods whose query is {} (or, for removeById, every document found).
WholeStore == {"EbookDownload.removeById", "EbookDownload.clear",
               "EbookDownload.listAll", "EbookFavorite.listAll",
               "EbookLocator.listAll"}

\* Methods that call tidy() after their operation.
Tidying == {"EbookDownload.addDownload", "EbookDownload.remove",
            "EbookDownload.removeById", "EbookDownload.listAll",
            "EbookDownload.check", "EbookFavorite.listAll"}

\* Methods that never call close().
Leaking == {"EbookDownload.clear"}

ASSUME StoreAssumption == /\ Methods \subseteq AllMethods /\ Methods # {}
                          /\ Keys # {}

\* A document: its key, the call that inserted it (objectdb's _id) and the
\* call whose map it holds.
Document == [key : Keys, oid : Calls, by : Calls]

VARIABLES
  file,     \* the documents of the store's file
  pc,       \* where each call is
  method,   \* the method it invokes
  key,      \* the key in its map or query
  mem,      \* the memory image of its ObjectDB
  result,   \* what its find() returned
  \* History, read by the properties only:
  before,   \* the calls that had ended when this one was made
  wrote,    \* whether its write took effect, and how
  removed   \* the documents its remove() took out

vars == <<file, pc, method, key, mem, result, before, wrote, removed>>

-----------------------------------------------------------------------------

Active == {"path", "op", "upsert", "tidy", "close"}
Ended  == {"returned", "leaked", "killed"}

\* The documents that the query of call c selects from S.
Matching(c, S) ==
  IF method[c] \in WholeStore THEN S ELSE {d \in S : d.key = key[c]}

\* The document of S that call a inserted is still there.
Holds(S, a) == \E d \in S : d.oid = a

\* Where a call goes after its operation.
AfterOp(c) == IF method[c] \in Tidying THEN "tidy"
              ELSE IF method[c] \in Leaking THEN "leaked" ELSE "close"

TypeOK ==
  /\ file \in SUBSET Document
  /\ pc \in [Calls -> {"idle"} \union Active \union Ended]
  /\ method \in [Calls -> AllMethods]
  /\ key \in [Calls -> Keys]
  /\ mem \in [Calls -> SUBSET Document]
  /\ result \in [Calls -> SUBSET Document]
  /\ before \in [Calls -> SUBSET Calls]
  /\ wrote \in [Calls -> {"none", "inserted", "updated"}]
  /\ removed \in [Calls -> SUBSET Calls]


\* A store file that does not exist yet is created empty by open().  (method
\* and key of a call that has not been made are not looked at.)
Init ==
  /\ file = {}
  /\ pc = [c \in Calls |-> "idle"]
  /\ method = [c \in Calls |-> CHOOSE m \in Methods : TRUE]
  /\ key = [c \in Calls |-> CHOOSE k \in Keys : TRUE]
  /\ mem = [c \in Calls |-> {}]
  /\ result = [c \in Calls |-> {}]
  /\ before = [c \in Calls |-> {}]
  /\ wrote = [c \in Calls |-> "none"]
  /\ removed = [c \in Calls |-> {}]

\* A caller invokes m: the method awaits getPath().
Call(c, m, k) ==
  /\ pc[c] = "idle"
  /\ pc' = [pc EXCEPT ![c] = "path"]
  /\ method' = [method EXCEPT ![c] = m]
  /\ key' = [key EXCEPT ![c] = k]
  /\ before' = [before EXCEPT ![c] = {d \in Calls : pc[d] \in Ended}]
  /\ UNCHANGED <<file, mem, result, wrote, removed>>

\* Mutant of Open: the memory image is used before the file has been read.
OpenUnread(c) ==
  /\ pc[c] = "path"
  /\ pc' = [pc EXCEPT ![c] = "op"]
  /\ mem' = [mem EXCEPT ![c] = {}]
  /\ UNCHANGED <<file, method, key, result, before, wrote, removed>>

\* The path is known: ObjectDB is built and opened, the file is read.
Open(c) ==
  /\ pc[c] = "path"
  /\ pc' = [pc EXCEPT ![c] = "op"]
  /\ mem' = [mem EXCEPT ![c] = file]
  /\ UNCHANGED <<file, method, key, result, before, wrote, removed>>

\* The document that call c's map becomes when it is inserted.
DocumentOf(c) == [key |-> key[c], oid |-> c, by |-> c]

\* database.insert(map), in memory and at the end of the file.
InsertDocument(c) ==
  /\ mem' = [mem EXCEPT ![c] = @ \union {DocumentOf(c)}]
  /\ file' = file \union {DocumentOf(c)}
  /\ wrote' = [wrote EXCEPT ![c] = "inserted"]
  /\ UNCHANGED <<method, key, result, before, removed>>

Insert(c) ==
  /\ pc[c] = "op" /\ method[c] \in Inserting
  /\ pc' = [pc EXCEPT ![c] = AfterOp(c)]
  /\ InsertDocument(c)

\* Mutant of Remove: the removal is not appended to the file.
RemoveInMemory(c) ==
  /\ pc[c] = "op" /\ method[c] \in Removing
  /\ LET out == Matching(c, file \union mem[c])
     IN /\ mem' = [mem EXCEPT ![c] = @ \ out]
        /\ removed' = [removed EXCEPT ![c] = {e.oid : e \in out}]
  /\ pc' = [pc EXCEPT ![c] = AfterOp(c)]
  /\ UNCHANGED <<file, method, key, result, before, wrote>>

\* Mutant of Remove: the session keeps the documents in the image it tidies from.
RemoveInFile(c) ==
  /\ pc[c] = "op" /\ method[c] \in Removing
  /\ LET out == Matching(c, file \union mem[c])
     IN /\ file' = file \ out
        /\ removed' = [removed EXCEPT ![c] = {e.oid : e \in out}]
  /\ pc' = [pc EXCEPT ![c] = AfterOp(c)]
  /\ UNCHANGED <<method, key, mem, result, before, wrote>>

\* database.remove(query).  removeById removes each document it found, so from
\* the file only those its memory held; the others apply their query to both.
Remove(c) ==
  /\ pc[c] = "op" /\ method[c] \in Removing
  /\ LET out == IF method[c] = "EbookDownload.removeById"
                THEN mem[c] ELSE Matching(c, file \union mem[c])
     IN /\ mem' = [mem EXCEPT ![c] = @ \ out]
        /\ file' = {d \in file : d.oid \notin {e.oid : e \in out}}
        /\ removed' = [removed EXCEPT ![c] = {e.oid : e \in out}]
  /\ pc' = [pc EXCEPT ![c] = AfterOp(c)]
  /\ UNCHANGED <<method, key, result, before, wrote>>

\* await database.find(query)
Find(c) ==
  /\ pc[c] = "op" /\ method[c] \in Finding
  /\ result' = [result EXCEPT ![c] = Matching(c, mem[c])]
  /\ pc' = [pc EXCEPT ![c] = AfterOp(c)]
  /\ UNCHANGED <<file, method, key, mem, before, wrote, removed>>

\* Mutant of Updated: the update is matched against every document.
UpdatedAll(c, S) == {[d EXCEPT !.by = c] : d \in S}

\* Mutant of Updated: the new position is not merged in.
UpdatedNone(c, S) == S

\* The documents of S with the map of call c merged into those it matches.
Updated(c, S) ==
  {IF d \in Matching(c, S) THEN [d EXCEPT !.by = c] ELSE d : d \in S}

\* Mutant of Update: updateItem inserts whether or not it updated something.
UpdateThenInsert(c) ==
  /\ pc[c] = "op" /\ method[c] \in Upserting
  /\ mem' = [mem EXCEPT ![c] = Updated(c, @)]
  /\ file' = Updated(c, file)
  /\ wrote' = [wrote EXCEPT ![c] = "updated"]
  /\ pc' = [pc EXCEPT ![c] = "upsert"]
  /\ UNCHANGED <<method, key, result, before, removed>>

\* await database.update({'bookId': ..}, map): answers the number of documents
\* updated in memory; updateItem inserts only when it is 0.
Update(c) ==
  /\ pc[c] = "op" /\ method[c] \in Upserting
  /\ mem' = [mem EXCEPT ![c] = Updated(c, @)]
  /\ file' = Updated(c, file)
  /\ wrote' = [wrote EXCEPT ![c] = "updated"]
  /\ pc' = [pc EXCEPT ![c] = IF Matching(c, mem[c]) = {} THEN "upsert"
                             ELSE AfterOp(c)]
  /\ UNCHANGED <<method, key, result, before, removed>>

Upsert(c) ==
  /\ pc[c] = "upsert"
  /\ pc' = [pc EXCEPT ![c] = AfterOp(c)]
  /\ InsertDocument(c)

\* database.tidy(): the file becomes what this session has in memory.
Tidy(c) ==
  /\ pc[c] = "tidy"
  /\ file' = mem[c]
  /\ pc' = [pc EXCEPT ![c] = "close"]
  /\ UNCHANGED <<method, key, mem, result, before, wrote, removed>>

\* Mutant of Close: close() waits until no other session is open.
CloseLast(c) ==
  /\ pc[c] = "close" /\ \A d \in Calls \ {c} : pc[d] \notin Active
  /\ pc' = [pc EXCEPT ![c] = "returned"]
  /\ mem' = [mem EXCEPT ![c] = {}]
  /\ UNCHANGED <<file, method, key, result, before, wrote, removed>>

\* await database.close(): the method returns to its caller.
Close(c) ==
  /\ pc[c] = "close"
  /\ pc' = [pc EXCEPT ![c] = "returned"]
  /\ mem' = [mem EXCEPT ![c] = {}]
  /\ UNCHANGED <<file, method, key, result, before, wrote, removed>>

\* The operating system stops the process: every call in progress is gone and
\* the file stays as it is.
Kill ==
  /\ \E c \in Calls : pc[c] \in Active
  /\ pc' = [c \in Calls |-> IF pc[c] \in Active THEN "killed" ELSE pc[c]]
  /\ mem' = [c \in Calls |-> {}]
  /\ UNCHANGED <<file, method, key, result, before, wrote, removed>>

\* The steps of a call once it has been made, run by the event loop.
Step(c) == \/ Open(c) \/ Insert(c) \/ Remove(c) \/ Find(c)
           \/ Update(c) \/ Upsert(c) \/ Tidy(c) \/ Close(c)

Next == \/ \E c \in Calls, m \in Methods, k \in Keys : Call(c, m, k)
        \/ \E c \in Calls : Step(c)
        \/ Kill

Spec == Init /\ [][Next]_vars

-----------------------------------------------------------------------------
(***************************************************************************)
(* What the callers may rely on.  "Before" and "concurrent" are the real   *)
(* time order of the calls: c is before d when c had ended when d was made.*)
(***************************************************************************)

Concurrent(c, d) == /\ c # d /\ pc[c] # "idle" /\ pc[d] # "idle"
                    /\ c \notin before[d] /\ d \notin before[c]

\* A session that tidies the file ran at the same time as call c.
Overwritable(c) == \E t \in Calls : method[t] \in Tidying /\ Concurrent(t, c)

\* A remove() took the document of call a out.
Taken(a) == \E m \in Calls : a \in removed[m]

\* The find() of call f has run.
Answered(f) == method[f] \in Finding /\ pc[f] \in {"tidy", "close", "returned"}

\* The query of call f selects the document of call a.
Selects(f, a) == method[f] \in WholeStore \/ key[f] = key[a]

\* A document that a call has written to the file stays in it until a remove()
\* takes it out: the only other way to lose it is a session that was open at
\* the same time and rewrote the file with tidy() from a memory image read
\* before the write (ebook_download.dart 14-58, ebook_favorite.dart 29-36).
DurableAdd ==
  \A a \in Calls : wrote[a] = "inserted" =>
    Holds(file, a) \/ Taken(a) \/ Overwritable(a)

\* A document that a remove() took out of the file is in the file again only
\* when a session concurrent with that remove() rewrote the file.
NoResurrection ==
  \A m \in Calls : \A a \in removed[m] : Holds(file, a) => Overwritable(m)

\* check(), listAll() and getLocator() answer with every matching document of
\* the calls that had ended when they were called, which is what addDownload
\* and addFavorite of DownloadDetails rely on when they await the insertion
\* before they check; the exceptions are those of DurableAdd.
ReadYourWrites ==
  \A f, a \in Calls :
    Answered(f) /\ a \in before[f] /\ wrote[a] = "inserted" /\ Selects(f, a)
      => Holds(result[f], a) \/ Taken(a) \/ Overwritable(a)

\* They do not answer with a document that a remove() which had ended took out
\* (the order that removeDownload of DownloadDetails waits for and
\* removeFavorite does not); the exception is that of NoResurrection.
ReadYourRemoves ==
  \A f, m \in Calls : Answered(f) /\ m \in before[f] =>
    \A a \in removed[m] : Holds(result[f], a) => Overwritable(m)

\* A store whose calls never tidy is an exact log.
Untidied == \A t \in Calls : pc[t] = "idle" \/ method[t] \notin Tidying

\* updateItem keeps one document per book: two documents of one book that both
\* come from its insert branch were inserted by calls that ran at the same time
\* (each found nothing to update in its own memory).
OneLocatorPerBook ==
  Untidied =>
    \A d, e \in file :
      /\ d.key = e.key /\ d.oid # e.oid
      /\ method[d.oid] \in Upserting /\ method[e.oid] \in Upserting
      => Concurrent(d.oid, e.oid)

\* The last reading position wins: once updateItem has written a position, no
\* document of that book holds a position from a call that ended before it.
LastPositionWins ==
  Untidied =>
    \A u \in Calls :
      method[u] \in Upserting /\ pc[u] \in {"close", "returned"} =>
        \A d \in file : d.key = key[u] => d.by \notin before[u]

\* Every document in the file, in a memory image or in an answer was inserted by
\* a call that really ran, under that call's key, and holds a map that a call
\* for the same key has written.
NoFabrication ==
  \A d \in file \union UNION {mem[c] \union result[c] : c \in Calls} :
    /\ wrote[d.oid] = "inserted" /\ d.key = key[d.oid]
    /\ wrote[d.by] # "none" /\ d.key = key[d.by]

\* Every call ends, whatever the others do: it returns, or (clear) it runs out
\* without closing its database, or the process is stopped.  Its steps are fair
\* in the specifications of the callers.
CallsEnd == \A c \in Calls : pc[c] = "path" ~> pc[c] \in Ended
=============================================================================
