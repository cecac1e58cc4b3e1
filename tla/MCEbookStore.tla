---------------------------- MODULE MCEbookStore ----------------------------
(* Small instances of EbookStore: any of the three store files, with every *)
(* method that its class has.                                              *)
EXTENDS EbookStore, TLC

DownloadMethods ==
  {"EbookDownload.addDownload", "EbookDownload.remove", "EbookDownload.listAll",
   "EbookDownload.check", "EbookDownload.removeById", "EbookDownload.clear"}

FavoriteMethods ==
  {"EbookFavorite.addFavorites", "EbookFavorite.remove",
   "EbookFavorite.listAll", "EbookFavorite.check"}

LocatorMethods ==
  {"EbookLocator.addItem", "EbookLocator.updateItem", "EbookLocator.remove",
   "EbookLocator.listAll", "EbookLocator.getLocator"}

\* A store file is used by the methods of its own class only.
OneStore ==
  \E S \in {DownloadMethods, FavoriteMethods, LocatorMethods} :
    \A c \in Calls : pc[c] = "idle" \/ method[c] \in S

MCSpec == Init /\ [][Next /\ OneStore']_vars

Symmetry == Permutations(Calls)
=============================================================================
