------------------------------ MODULE Favorites ------------------------------
(***************************************************************************)
(* Favourites: the heart of the detail page (DownloadDetails.favorite, one *)
(* flag for the whole application), and the list of the two favourites     *)
(* pages (EbookFavoriteNotifier), both on top of the EbookFavorite store.  *)
(***************************************************************************)
EXTENDS StoreClient

CONSTANTS MaxPages  \* Bound: detail pages stacked through "related" taps

ASSUME PagesAssumption == MaxPages \in Nat \ {0}

VARIABLES
  pages,     \* the detail pages on the navigator, by book, the last one on top
  favorite,  \* DownloadDetails.favorite
  checked,   \* history: the check() that wrote favorite last, as a set
  list,      \* EbookFavoriteNotifier.list: how often each document is in it
  loading,   \* EbookFavoriteNotifier.loading
  stacked    \* history: a detail page was opened on top of another

viewVars == <<pages, favorite, checked, list, loading, stacked>>
allVars == <<vars, callerVars, viewVars>>

FavoriteMethods == {"EbookFavorite.addFavorites", "EbookFavorite.remove",
                    "EbookFavorite.listAll", "EbookFavorite.check"}
FavoriteThens == {"nothing", "checkFav", "setFav", "addAll"}

ASSUME FavoriteAssumption == Methods = FavoriteMethods /\ Thens = FavoriteThens

NoDocuments == [a \in Calls |-> 0]

ViewTypeOK ==
  /\ TypeOK /\ CallerTypeOK
  /\ pages \in Seq(Keys) /\ Len(pages) <= MaxPages
  /\ favorite \in BOOLEAN /\ loading \in BOOLEAN
  /\ checked \in SUBSET Calls
  /\ list \in [Calls -> Nat]
  /\ stacked \in BOOLEAN

FavInit ==
  /\ Init /\ CallerInit
  /\ pages = <<>> /\ favorite = FALSE /\ checked = {}
  /\ list = NoDocuments /\ loading = TRUE /\ stacked = FALSE

\* A stretch of code starts; it needs n calls, counting those of its
\* continuation.
Starts(n) == Idle /\ Left(n, {"checkFav"})

checkFav(k) == Request("EbookFavorite.check", k, "setFav")

\* pushPage(EbookDetail): once its first frame is drawn the page asks for the
\* flag of its own book.
OpenDetail(k) ==
  /\ Starts(1) /\ Len(pages) < MaxPages
  /\ pages' = Append(pages, k)
  /\ stacked' = (stacked \/ pages # <<>>)
  /\ todo' = <<checkFav(k)>>
  /\ UNCHANGED <<vars, then, favorite, checked, list, loading>>

\* Back: nothing asks again for the flag of the page below.
CloseDetail ==
  /\ Idle /\ pages # <<>>
  /\ pages' = SubSeq(pages, 1, Len(pages) - 1)
  /\ UNCHANGED <<vars, callerVars, favorite, checked, list, loading, stacked>>

\* Mutant of TapFavorite: the heart always adds.
TapAlwaysAdds ==
  /\ Starts(2) /\ pages # <<>>
  /\ todo' = <<Request("EbookFavorite.addFavorites", pages[Len(pages)], "checkFav")>>
  /\ UNCHANGED <<vars, then, viewVars>>

\* Mutant of TapFavorite: the flag is not asked for after a removal.
TapRemovesUnchecked ==
  /\ Starts(2) /\ pages # <<>>
  /\ LET k == pages[Len(pages)] IN
     todo' = IF favorite
             THEN <<Request("EbookFavorite.remove", k, "nothing")>>
             ELSE <<Request("EbookFavorite.addFavorites", k, "checkFav")>>
  /\ UNCHANGED <<vars, then, viewVars>>

\* The heart: by the flag, whichever book it is about, the book of the top page
\* is removed or added.  removeFavorite does not await the removal before it
\* checks; addFavorite checks when the insertion has returned.
TapFavorite ==
  /\ Starts(2) /\ pages # <<>>
  /\ LET k == pages[Len(pages)] IN
     todo' = IF favorite
             THEN <<Request("EbookFavorite.remove", k, "nothing"), checkFav(k)>>
             ELSE <<Request("EbookFavorite.addFavorites", k, "checkFav")>>
  /\ UNCHANGED <<vars, then, viewVars>>

\* Mutant of ShowFavorites: the list is not cleared before it is loaded again.
ShowUncleared ==
  /\ Starts(1) /\ pages = <<>>
  /\ loading' = TRUE
  /\ todo' = <<Request("EbookFavorite.listAll", CHOOSE k \in Keys : TRUE, "addAll")>>
  /\ UNCHANGED <<vars, then, pages, favorite, checked, list, stacked>>

\* One of the two favourites pages appears (bottom bar or drawer): after its
\* first frame getEbooksFavorites() clears the shared list and loads it.  The
\* checkFav() that should follow never runs, its argument reads a null field.
ShowFavorites ==
  /\ Starts(1) /\ pages = <<>>
  /\ loading' = TRUE /\ list' = NoDocuments
  /\ todo' = <<Request("EbookFavorite.listAll", CHOOSE k \in Keys : TRUE, "addAll")>>
  /\ UNCHANGED <<vars, then, pages, favorite, checked, stacked>>

\* addFavorite: the insertion has returned, the flag is asked for.
AddReturned(c) ==
  /\ then[c] = "checkFav"
  /\ todo' = <<checkFav(key[c])>>
  /\ UNCHANGED <<favorite, checked, list, loading>>

\* checkFav: the flag becomes whether the store has the book.
CheckReturned(c) ==
  /\ then[c] = "setFav"
  /\ favorite' = (result[c] # {}) /\ checked' = {c}
  /\ UNCHANGED <<todo, list, loading>>

\* Mutant of ListReturned: the list stays marked as loading.
ListStaysLoading(c) ==
  /\ then[c] = "addAll"
  /\ list' = [a \in Calls |-> IF Holds(result[c], a) THEN list[a] + 1 ELSE list[a]]
  /\ UNCHANGED <<todo, favorite, checked, loading>>

\* getEbooksFavorites: what was found is appended to whatever the list holds.
ListReturned(c) ==
  /\ then[c] = "addAll"
  /\ list' = [a \in Calls |-> IF Holds(result[c], a) THEN list[a] + 1 ELSE list[a]]
  /\ loading' = FALSE
  /\ UNCHANGED <<todo, favorite, checked>>

\* removeFavorite does not look at the removal's return.
RemoveReturned(c) ==
  /\ then[c] = "nothing"
  /\ UNCHANGED <<todo, favorite, checked, list, loading>>

\* A store call returns and its caller goes on.
Return(c) ==
  /\ Idle /\ Close(c)
  /\ AddReturned(c) \/ CheckReturned(c) \/ ListReturned(c) \/ RemoveReturned(c)
  /\ UNCHANGED <<then, pages, stacked>>

\* A new process starts with the notifiers' initial values.
KillApp ==
  /\ KillCaller
  /\ pages' = <<>> /\ favorite' = FALSE /\ checked' = {}
  /\ list' = NoDocuments /\ loading' = TRUE
  /\ UNCHANGED stacked

FavNext ==
  \/ \E k \in Keys : OpenDetail(k)
  \/ CloseDetail \/ TapFavorite \/ ShowFavorites
  \/ MakeCall /\ UNCHANGED viewVars
  \/ \E c \in Calls : Session(c) /\ UNCHANGED viewVars
  \/ \E c \in Calls : Return(c)
  \/ KillApp

FavSpec == FavInit /\ [][FavNext]_allVars

\* The event loop runs what is ready; the user and the system owe nothing.
FavFairSpec ==
  /\ FavSpec
  /\ WF_allVars(MakeCall /\ UNCHANGED viewVars)
  /\ \A c \in Calls : WF_allVars((Session(c) /\ UNCHANGED viewVars) \/ Return(c))

-----------------------------------------------------------------------------

Writes(c) == method[c] \in Inserting \union Removing

\* When nothing is in progress the heart tells whether the book it was last asked
\* about is in the store, unless a write to that book ran at the same time as
\* the check (removeFavorite starts both together), or at the same time as a
\* listAll(), whose tidy() may undo it.
HeartIsRight ==
  Quiet => \A f \in checked :
    \/ favorite <=> \E d \in file : d.key = key[f]
    \/ \E w \in Calls : Writes(w) /\ key[w] = key[f] /\ (Concurrent(w, f) \/ Overwritable(w))

\* As long as no detail page was opened on top of another, a book is in the store
\* twice only when two additions ran at the same time (the heart was tapped twice
\* before the first had settled) or a check() overlapped another call: the
\* addition itself or, before it, the check() of a page already left, whose late
\* answer put the flag of another book on this page.
NoCalmDuplicate ==
  ~stacked =>
    \A d, e \in file :
      d.key = e.key /\ d.oid # e.oid =>
        \/ Concurrent(d.oid, e.oid)
        \/ \E f, c \in Calls :
             /\ then[f] = "setFav" /\ Concurrent(f, c)
             /\ {f, c} \intersect ({d.oid, e.oid} \union before[d.oid] \union before[e.oid]) # {}

\* Two loads of the favourites list overlapped.
LoadsOverlapped ==
  \E l, o \in Calls : then[l] = "addAll" /\ then[o] = "addAll" /\ Concurrent(l, o)

\* Once loaded, the list shows the answer of one listAll(), each document once,
\* although the notifier outlives the pages and only ever appends to what is
\* there; loads that overlap may break this, they all clear before any appends.
ListIsOneAnswer ==
  Quiet /\ ~loading =>
    \/ LoadsOverlapped
    \/ \E l \in Calls :
         /\ then[l] = "addAll" /\ pc[l] = "returned"
         /\ list = [a \in Calls |-> IF Holds(result[l], a) THEN 1 ELSE 0]

\* A load that was started ends with the list no longer marked as loading,
\* unless the process is stopped.
LoadingEnds ==
  \A c \in Calls :
    pc[c] = "path" /\ then[c] = "addAll" ~> ~loading \/ pc[c] = "killed"
=============================================================================
