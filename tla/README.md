# edu_ebook: a TLA+ verification project

`edu_ebook` is a Flutter e-book reader: its own code is the Dart of `src/lib`
(8,500 lines).  On iOS its books are read by `EpubViewerKit`, a Swift pod kept in
`src/ios/Pods` that was changed for it; the rest of `src` is platform runners,
third-party pods, pictures and fonts.  The program downloads EPUB and PDF books, keeps
favourites and reading positions on the device, and shows the lists of a server.

The Dart runs on one isolate.  There are no threads, and yet nearly everything that is hard
here is concurrency: a stretch of code between two `await`s is atomic, what follows an
`await` runs some time later, a widget does not wait for what it started, and calls
into the on-device stores overlap freely.  In the native reader a background queue
extracts the book, and scripts in web views answer later.  There is one test, `src/test/widget_test.dart`,
and it is the template of a new Flutter project (it looks for a counter).

## 1. Inventory

Each component: its state, its operations, who it talks to, what is hard, and what
makes it correct.

**Stores** (`downloads/ebook_download.dart`, `ebook_favorite.dart`, `ebook_locator.dart`).
Three `objectdb` files.  Every method builds its own `ObjectDB`, opens it without
awaiting, does one operation (insert, remove, find, update-or-insert), in six methods
rewrites the file with `tidy()`, and closes.  Hard: two overlapping calls hold two
memory images of one file; a `tidy()` from the older image undoes what the other wrote.
Correct: written records stay, removed ones stay away, answers reflect earlier calls,
one position per book, the last position wins, nothing is made up.

**Favourites** (`downloads/utils/download_details.dart`, `downloads/utils/favorite/`,
`interface/pages/favorites/`).  One `favorite` flag and one list for the whole
application.  The heart adds or removes by the flag, and asks the store again.  Hard:
the removal is not awaited, pages stack and share the flag, taps outrun the answer, loads
overlap.  Correct: the heart says what the store says, no book is added twice, the list is
one answer of the store, a load ends.

**Downloads** (`download_details.dart`, `downloads/utils/download_popup.dart`,
`interface/pages/downloads/`, `interface/pages_detials/ebook_detail.dart`).  A tap asks for
the permission, finds or deletes the old file, creates a new one, opens a modal dialog
that transfers, and records the book when the dialog closes with a size.  The downloads
page removes record and file of a swept row.  Hard: no step is guarded against a second
tap, dialogs stack and `Navigator.pop` closes the top one, failures close nothing, the
process stops between record and file, the shared flag is set after two awaits.
Correct: a record stands for a whole file, only complete transfers are recorded, a dialog
is up for a transfer, the button and the rows tell the truth, a complete transfer ends
as a record.

**Readers** (`ebook_detail.dart` 500-575, `ebook_download_page.dart` 100-160).  The last
position is looked up, the native EPUB reader opened there, and its reports stored with
`updateItem`.  Hard: listeners are never cancelled and take the book from the page they
were made on; after an `await` the page may be gone (its `widget` stays, so a late report
is stored; its `context` does not, so the reader is not opened).  Correct: a position is stored under
its own book; a book opens where it was left.

**PDF reader** (`interface/pages_detials/ebook_pdf.dart`).  A counter, two buttons and
a native view that exchange messages.  Hard: the counter moves without `setState`, commands
and reports cross.  Correct: the counter is the page shown, no tap leads off the document.

**Native EPUB reader, iOS** (`EpubViewerKit/Source`: `FREpubParser`, `FolioReaderKit`,
`FolioReaderContainer`, `FolioReaderCenter`, `FolioReaderPage`).  On a background queue
the archive is unzipped into `Library/Caches`, once, and parsed; then the main queue
shows chapters in the two cells of a collection view, follows the one on screen in
`currentPage`, and saves its place for the next opening.  Hard: the existence of the
directory is taken for its completeness; the parser throws, or traps, on a book it does not
understand; archive, directory and place are named by a title;
the current page follows a swipe 0.2 s late; the first chapter to load restores the place.
Correct: the book asked for is shown, an opening ends in any case, the current page is the one on screen, reading resumes where it was left.

**Archive extraction** (`SSZipArchive.m`, `minizip`).  A loop over the entries; each
can fail in a dozen places, some of which end the loop, some of which are logged only.
Correct: an archive reported as extracted is; the directory is what the reader expects.

**Highlights of the native reader** (`FolioReaderWebView`, `Bridge.js`, `Highlight+Helper`,
the note sheet, the highlight list).  Scripts mark the chapter in its web view, callbacks
write rows of a Realm database, and each loading overwrites the chapter's file with the
marks it shows.  Hard: page and text are read in later callbacks, a loading looks for a
highlight by its text, `thisHighlight` is one variable of the script, the note sheet and the list act beside them.  Correct: a row is
filed under the chapter it was made in; rows and marks agree.

**Data source and repository** (`source/`).  Stateless: which answers become a list,
a `Left` or an escaping `Error`.

**Content blocs and pages** (`bloc/`, `interface/home.dart`, `bottombar/`, `explores/`,
`librarybottom/`).  Home with carousel, background, tabs and random list; the library; the
detail page with related books and ratings; the navigator they stack on.  Blocs are made
by `GetIt` factories per page.  Hard: tabs are tapped faster than answered, pages are left
with requests under way, bottom bars stack.  Correct: the last tap's answer is the one
shown, answers never go backwards, the background belongs to the carousel's page, every tap
is asked, blocs close with their page.  What is seen without an answer is no property: Home
renders a failed carousel (`home.dart` 163) and failed tabs as nothing.

**Search** (`bloc/search/ebook_search_bloc.dart`).  Each build of the suggestions adds
an event to the page's one `SearchBloc`.  Correct: the books shown answer the query in
the field; every query is asked.

**Start-up and theme** (`main.dart`, `themes/ebook_theme.dart`, `splash/`, the drawer's
switch in `routers/ebook_anim_route.dart`).  `toggleThemeData` awaits the box, puts without
awaiting, flips.  Hard: overlapping taps, writes that fail unheard, stops before a write.
Correct: theme shown = theme stored; a restart shows the theme left.

**Not modelled**, with reasons in `PROJECT.json`: pages and blocs that cannot be reached
because their entries in Home and the drawer are commented out (categories, purchases,
suggestions, language, contact, about); the shop helpers of `source/core` only they use;
static widgets and translations; the platform projects; the audio player and the menus of
the native reader; the other pods.  See section 7.

What the components share: Favourites, Downloads and Readers each call one store and go on
when the call returns; the detail page hosts the heart, both buttons and two blocs; the
navigator decides which page a flag, a dialog or a bloc belongs to.  The native reader
reads the files Downloads writes and deletes, and calls the extraction; its highlights live
in the directory the extraction made.

## 2. Plan

Order: the stores first (everything durable rests on them), then their three clients,
then the server side, then the small leaf pages.

| step | modules | state |
|---|---|---|
| 1 | `EbookStore`, its proofs | done |
| 2 | `StoreClient` composing a caller with `EbookStore`; `Favorites`, `Downloads`, `Reader` | done |
| 3 | `Blocs`, `RequestView` (abstract), `Content`, `Search` | done |
| 4 | `PdfPage`, `Settings`, `NothingFabricated` | done |
| 5 | `Downloads` with titles that books share, one run from the states earlier processes leave | done |
| 6 | `EpubReader`, `EpubUnzip` which implements it, `EpubHighlights` | done |
| 7 | `ScreenProofs` (theme, PDF page, search page with its refinement of `RequestView`), `EpubProofs`, the positions of `EbookStore` | done |
| 8 | `FavoritesProofs`, `ReaderProofs`, `DownloadsProofs`: the clients of the store; `ContentProofs` | done |
| 9 | `HighlightProofs` | done |
| 10 | An abstract store (a set of documents, atomic operations) implemented by `EbookStore` when no two sessions overlap | open |

## 3. Modules and code

Mutated operators, marked "Mutant of ...", stand beside the definition they change; no
specification uses them.  They are the plausible bugs each property has been tried against.

**`EbookStore`**: one behaviour is the life of one store file.  A call goes from `Call`
(the method awaits `getPath()`) through `Open`, one of `Insert`, `Remove`, `Find`,
`Update`/`Upsert`, `Tidy` where the method tidies, to `Close`; `clear()` leaves its
database open.  `file` is the set of documents of the file, `mem[c]` the image of call
c's `ObjectDB`.  A document is its book, the call that inserted it and the call whose map
it holds.  `Kill` stops the process at any point.  `before`, `wrote`, `removed` are history:
the properties speak of calls in real-time order.

**`StoreClient`**: the isolate.  `todo` holds the store calls of the stretch of code that is
running, and nothing else runs until it is empty; `then[c]` is what the code does when
call c returns.  **`Favorites`**, **`Downloads`** and **`Reader`** extend it: each handler is
an action, each continuation a conjunct of `Return`.  In `Downloads` each `await` between
the tap and the dialog (`Locate`, `LookForFile`, `DeleteOld`, `CreateFile`) is a step of
its own; `Complete` closes the top route, whichever it is, as `Navigator.pop` does; what
two transfers leave in one file is a choice.  A file is that of a title, and books may share
one.  In `Reader` a report carries the opening it
comes from, so that storing it under the wrong book can be seen; it is stored whether or not
the page it was asked for on is still there.

**`Blocs`**: a `Bloc` of bloc 5.0.1 (events queue up, one is mapped at a time, an
exception ends the event and not the bloc, `close` lets queued events finish) and the way
of a reply through `ApiClient`, data source, models and repository.  **`Content`** is
navigator, pages and their blocs; **`Search`** the search page; **`RequestView`** the abstract
promise of a view that answers numbered requests: an earlier answer never replaces a later.

**`PdfPage`**: counter, what the buttons were last built with, and the two queues of
messages to and from the view.  **`Settings`**: stages of start-up, theme, box file, pending
toggles and writes.

**`EpubReader`**: `archive`, `dir` and `saved` are what there is of each title; `phase`
follows an opening through `readEpub` and `reloadData`; `cell`, `vis`, `currentPage` and `due`
(scheduled calls of `updateCurrentPage`) are the view.  What the extraction leaves is
`Extracts`: none, part or all.  `form` says of each book whether its contents let the parser
through, make it throw (malformed XML, an empty `full-path`) or trap (no table of contents);
a book has at least one chapter.  A cut archive is `whole = FALSE`.  `left` and `hasty` are
history.  `EpubSteps` is the system without its fairness.

**`EpubUnzip`** extends it and puts the loop of `unzipFileAtPath` in the place of `Unzip`:
`at` and `step` say where the loop is, `tree` what there is of each entry.  `Begin` opens
the archive, an action per outcome of each call follows, `Return` and `Stop` leave
`Extracted` in the directory.  An entry's bytes are absent, part or whole; a header can be read
or not.  `excused` is history.  `OpensAsSpecified` says that with this loop the reader's
variables still move as `EpubReader` says.

**`EpubHighlights`**: one book; `store` the rows, `doc` the documents in web views with
their marks and `thisHighlight`, `file` the chapters' files, `jobs` the scripts and
callbacks under way, in the order sent.  A loading (`Load`) puts in the stored highlights it
finds by their text, and chooses which it does not find (`lost`: the source is not written as
`getHTML()` had it) and which it finds inside their own marks, or a second time in the chapter,
and marks again (`again`); a script that takes away or restyles a mark there are several of deals
with one of them (`Put`).  `home` and `crossed` are history.  Chapters are `.html` files: of an
`.xhtml` chapter the marks are never inserted, since `loadHTMLString` converts it to RTFD, which
fails (`FolioReaderPage.swift` 156-161).

**External**, modelled from their use: the plugin that opens the native
reader (its Swift glue is not part of the repository: whether it has the archive removed is
a choice of `Open`), `WKWebView`, the collection view, `objectdb`, `dio`, the permission plugin, the file
system, the navigator, `epub_viewer` (one handler on its channel, so the last listener gets
all reports), `PDFView`, the bloc package, `dartz`, hive 1.4.4 (writes of a box end in
order; a failed one is skipped), the operating system.

Observations made on the way that change no modelled state: no tab is ever highlighted
(`bloc/tabs/ebook_tab_state.dart` does not hand the index to `super`); a detail page asks
for ratings no widget shows; the checks that should follow the load of the favourites list
read a field nobody assigns and throw; submitting the search field reaches a `buildResults`
that returns null.

## 4. What the runs check

Deadlock checking is off wherever calls, taps or pages are bounded: a behaviour that has
used them up may stop.  `settings_restarts` has no such end and checks deadlock.

| run | instance | states | shows |
|---|---|---|---|
| `stores` | 3 calls, 2 books, any methods of one class | 576k | documents are lost or come back only through a concurrent `tidy()` (`DurableAdd`, `NoResurrection`), `find()` agrees with earlier calls up to that (`ReadYourWrites`, `ReadYourRemoves`); in a store that does not tidy, two positions of one book come only from overlapping `updateItem`s and later ones win (`OneLocatorPerBook`, `LastPositionWins`); `NoFabrication` |
| `favorites_flow` | one favourite stored or one page just answered, 4 more calls, 2 books, 2 stacked pages | 1,708k | `HeartIsRight`, `ListIsOneAnswer`, `NoCalmDuplicate`, each up to overlaps it names |
| `favorites_live` | 3 calls, 1 book | 13k | every store call ends (`CallsEnd`), and every load (`LoadingEnds`) |
| `downloads` | up to 2 books downloaded earlier, of one title or two, or a page just opened; 3 more calls, 2 taps, 2 routes | 1,476k | only complete transfers are recorded (`RecordOnlyAfterCompletion`), a dialog has a running transfer (`DialogHasTransfer`), record and file agree over stops anywhere (`RecordHasFile`), button and rows tell the truth (`ButtonIsRight`, `RowsMatchStore`), each up to overlaps it names |
| `reader_positions` | one position stored, 2 more openings, 4 calls, 2 books and the null id | 508k | a position is of its own book unless another reader was opened before the report came (`PositionIsOwn`); `ResumesWhereLeft` |
| `content_pages` | 3 pages, 2 events per bloc | 546k | `BackgroundIsPage`, `ClosedWithPage` (all but the detail page's two blocs) |
| `content_tabs` | 2 pages, 3 taps | 615k | `TabsAnswerLastTap`; the tabs are a `RequestView` (`TabsInOrder`); every tap on a tab is asked, if no request hangs (`EveryTapIsAsked`) |
| `search_queries` | 4 builds, 2 queries | 3k | `SearchAnswersQuery`; `EveryQueryIsAsked` if no request hangs |
| `pdf_taps` | up to 3 pages, 3 messages each way, 2 pages off the end | 80k | counter and view agree when all has arrived, or the counter ran off (`CounterIsPage`); it can only while something is under way (`TapsStayInside`) |
| `epub_openings` | 2 books of one title or two, of 2 and 1 chapters, 2 openings, 3 entries, 2 updates due; books that parse, make the parser throw or trap | 1,478k | `ShowsAskedBook`, `CurrentPageIsShown`, `ResumesWhereLeft`, each up to cases it names; every opening ends (`OpeningEnds`); an extraction that fails says so, up to four ways (`ToldIfPart`); extracting entry by entry implements `EpubReader` (`OpensAsSpecified`) |
| `epub_highlights` | 2 highlights, 2 chapters, 2 jobs; 1 highlight excepted (dealt with across a change of chapter, not found or marked again by a loading) and 1 job with it | 1,045k | `RowInItsChapter`, `StoredIsMarked`, `MarkedIsStored` |
| `settings_restarts` | 5 toggles and writes under way | 237 | `ThemeIsKept`, `RestartKeepsTheme` |

**Why these bounds.**  The store properties relate at most three calls: a writer, a
remover or reader, and a tidying session; three calls give every order of them, and
two books separate what a query selects from what it does not.  The clients' flows are two calls
long (a write and the check behind it), so three or four calls overlap two flows.  The runs
that start in the middle of a life (`VisitSpec`, `AgainSpec`, from what an earlier process
wrote or from a page just opened, and `FilesSpec` with the files of earlier openings) start in states the initial predicate also reaches,
with more calls; the constant `Stored` names those calls.  Two stacked pages suffice for the shared flags.  Three tab taps and four queries give
an early, a middle and a last answer.  Two openings are one that leaves a place, a directory
or both and one that finds them; three entries have a first, a last and one between; two
updates due let a swipe begin before the last one has settled; two jobs let the scripts or
callbacks of two taps overlap; that a single one is under way beside an excepted highlight is
for the size of the run, and the theorems of section 5 hold for every value of both bounds.
Every bound is a named constant of its module.
`SYMMETRY` is used in runs without temporal properties, over calls and tasks that are
all equal; the calls of the earlier process are left out of it.

**Type invariants.**  Each module states one, and no run repeats them: all are proved
(section 5).

**Fairness.**  `FavFairSpec`: weak fairness of each step the event loop takes
by itself (the next call of a stretch, a session's next operation, a continuation).
The isolate runs whatever is ready, so a step that stays possible is taken.  The user,
the network, the permission dialog and the system owe nothing; `Kill` is always allowed.
`OpenSpec`: weak fairness of `Work`, what the background queue and the main one do by
themselves with an opening; both run what is given to them, and the loop over the entries is
finite.  `SearchFairSpec` and `ContentFairSpec`: weak fairness of beginning a queued
event; that a request ends is an assumption of `EveryQueryIsAsked` and `EveryTapIsAsked`, because
requests have no timeout.

## 5. What is proved

For any number of calls, any books and any set of methods (`StoreAssumption`: a non-empty
set of the stores' methods, at least one book):

* `EbookStoreProofs`: `TypeCorrect`, `AddsAreDurable`, `RemovedStaysRemoved`,
  `ReadsSeeEarlierWrites`, `ReadsSeeEarlierRemoves`.  The four properties are not inductive:
  a `Tidy` replaces the file by a memory image, so what matters is what that image holds.
  `Inv` adds `MemOK`: for calls that ended before a session was made, the image of a
  session that may still write is what the file owed it (their documents are in it, taken
  out, or exposed to a concurrent tidying session); plus the facts about history it needs
  (`BeforeOK`, `WroteOK`, `RemovedOK`, `DocsOK`).  Opening copies the file's promise into the
  image, tidying copies it back; a call concurrent with the tidying one is an exception in both.
  One lemma per kind of step.
  `NothingFabricated`: `Origin` says of file, images and answers that
  each document was inserted and last written by calls for its book; `Kept`, that no step
  takes a call's write back.  A step that only moves documents cannot give one another origin.
  `OnePositionPerBook`, `LaterPositionWins`, for a store no session has tidied (`Untidied`;
  `EbookLocator` never tidies): `LogInv` adds to the property that an `updateItem` about to insert found nothing in the file from an earlier call (`FoundNone`), and that what one has
  updated holds no earlier position (`LastWritten`).  Both rest on `Inv`: without tidying, what
  the file has from calls before a session its image has too (`ImageHasFile`).

For any number of calls, books and pages, the store's clients:

* `FavoritesProofs`: `FavTypeCorrect`, `FavImplementsStore` (every step of the pages is one of
  the store or leaves it alone, so `Inv` and all the above hold of the client), and its three
  properties.  `Shape` says what the rest of a stretch can be (`TodoOK`) and what each call is
  for (`ThenOK`).  `HeartIsRight` speaks of calm moments: `HeartInv` adds that the flag is the
  answer of the call in `checked` (`FlagIsAnswer`), that no later answer has been given
  (`LatestSets`), and that each write has a check of its book behind it, or one due
  (`WritesRechecked`); the store's `Inv` then turns the answer into what the file holds.
  `ListIsOneAnswer` follows the list while a load is under way (`ListInv`).  `NoCalmDuplicate`
  needs to know why a page believed its book to be absent: before each addition a check of its
  book, made after all earlier additions of it, found nothing (`Founded`), because the flag
  of the page is about its own book (`Asked`), or an overlap named in the property took place.  An instance larger than the first one, and the
  proof attempt, refuted an earlier form of this property, which did not name two additions
  that overlap: two quick taps suffice.
* `ReaderProofs`: `ReaderTypeCorrect`, `ReaderImplementsStore`, `PositionsAreOwn`, and
  `ResumesAtTheLatest`.  `OnceOK` says that an opening asks for its position once, `ReportsOK`
  that a report to come is the listener's or was overtaken; so the book a call stores is
  that of the reader (`Saving`), and `NoFabrication` carries it to the file.  As readers neither
  tidy nor remove (`OnlyGrows`), a look-up finds every position of a call before it, or a
  later one, and the reader opens at what it found (`StartInv`).

For any number of calls, taps, titles and pages (`DownloadAssumption`; the calls are finitely
many, because a list with a row per record is a sequence):

* `DownloadsProofs`: `DownTypeCorrect`, `DownImplementsStore`, and the five properties of
  `Downloads`.  `Shape` ties the stretch under way, the purposes of the calls, the navigator and
  the dialogs together: dialogs lie above the pages (`RoutesOK`), each has a transfer that runs or
  that nothing ends, and one that is closed by another's completion was up with it (`DialogsOK`),
  so a record is only ever asked for with a completed transfer or such a meeting (`ThenOK`).
  `RecordHasFile`: what is to become a record keeps its file whole from the last chunk on, and
  the removal's file goes after its record (`FilesOK`: `Wanted` says when a file must be whole,
  `Spoilt` what excuses it, `SoleOK` that a transfer that alone has written leaves it whole).
  `ButtonIsRight` speaks of calm moments, and checks answer late: `FlagOK` follows each check
  from its answer to the flag, by way of `File.exists()`, and says that each removal or insertion
  made meanwhile is excused or has a check of its own behind it (`NextCheck`).
  `RowsMatchStore` rests on a fact about the store alone, `FreshOK`: while every write runs
  alone (`Undisturbed`), every image is the file, and so is the answer of the page's `listAll()`.
  `PageOK` then follows the page: its list is due, or its rows are the file, or one sweep
  is under way whose record has gone and whose row has not (`SweepOK`).
  Two of the five properties lacked an exception that the instance of the run has too few calls to
  reach, and the failed proofs showed it: two dialogs for one title that met can leave a file with
  gaps and both records (`DialogsMet`), and a book downloaded again after a removal can lose its
  new file to that removal's late deletion (`DownloadedAgain`).

For any bound on pending toggles (`SettingsAssumption`: a natural number):

* `ScreenProofs`: `SettingsTypeCorrect`, `ThemeKept`, `ThemeSurvivesRestart`, from the
  inductive `SettingsInv`: the youngest pending put is of the theme shown (`LastPut`), a theme
  left at a calm stop stays in the file until the switch is used (`LeftIsStored`), a process
  that shows nothing has no failed write (`FailedIsShown`).

For documents of any length and any number of messages under way (`PdfAssumption`):

* There too: `PdfTypeCorrect`, `CounterFollowsPage`, `TapsInside`.  `CounterIsPage` speaks of
  the moment when all has arrived, and is not inductive; `PdfInv` says what the counter is owed
  while messages are under way: the last report is of the page shown (`LastReport`), and with
  none the last command leads to the counter (`CounterIsSent`), as the buttons do unless some
  command will turn the page (`ButtonsAreSent`).

For any queries, any lists and any number of builds (`SearchAssumption`):

* `ScreenProofs` as well: `SearchTypeCorrect`, `AnswersQuery`, and `SearchIsView`, that the search page
  implements `RequestView` with the events added, begun and shown as its requests.  `SearchInv`:
  what is shown answers the event begun last (`NewestIsShown`), and the query in the field is
  the event added last (`FieldIsNewest`).

For any number of pages, taps and answers (`ContentAssumption`):

* `ContentProofs`: `ContentTypeCorrect`, the three invariants of `Content` (`BackgroundFollowsPage`
  where the instance watches the background bloc), and `TabsKeepOrder`, that the tabs are a
  `RequestView`.  `ContentInv` has a part for each bloc by itself (`BlocOK`: an answer is never
  newer than the event begun last, and what a bloc shows is the answer to it) and parts that tie
  blocs to pages: ids on the navigator are distinct and used (`StackOK`, `FreshOK`), a bloc is
  open only for its page (`OpenOK`), and the event the background is to map last is the one
  for the page view (`HomeOK`), across a carousel that answers and a user who swipes.

For any books, titles, chapters and bounds (`EpubAssumption`):

* `EpubProofs`: `EpubTypeCorrect`, `AskedBookIsShown`, `ShownIsCurrent`, `ReopenedWhereLeft`.  The invariant has two halves.  `FilesInv`: archives and
  directories are those of a book of the title, and an opened reader has one.  `ViewInv`:
  before the first load only one cell is in use and it has the chapter that was left
  (`NothingLoaded`, `FirstIsAlone`, `FirstIsLeft`), so the load restores the place; a swipe always has
  room for the update it ends with (`DueBound`), so the current page catches up.
* There too, for any number of entries (`EntriesAssumption`): `ToldUnlessWhole`, from
  `WrittenSoFar` (while nothing was told or let pass, the entries behind are whole);
  `UnzipImplements`, that the composition implements `EpubReader`, because a directory being
  extracted is the one `StartUnzip` made (`Extracting`); and `ReaderPropertiesKept`, which carries
  the reader's properties over to the composition.

For any highlights, chapters and number of scripts and callbacks under way
(`HighlightAssumption`):

* `HighlightProofs`: `HighlightTypeCorrect`, and the three properties `RowsInTheirChapter`,
  `StoredAreMarked` and `MarkedAreStored`.  The last two speak of moments with nothing under way
  and are far from inductive.  `MarksOK` says what a mark and its row owe each other before that:
  they differ only while the callback that makes them equal is under way (`StoredMark`), and where
  a highlight is only about to be stored the same holds of the callback that will store it, with
  a callback behind it to settle the difference (`KeptMark`), or of the note sheet (`NotedMark`); a mark without a row is being made, is going to be cleared, or was in the file
  (`ClearedMark`).  That this survives every step rests on facts about the bridge: in one web view
  what has run comes before what has not (`InOrder`); a highlight is made once, in one chapter, and
  is not tapped before its script has run (`MadeOnce`, `AtHome`, `NotYetMade`); what was not
  overtaken by a turned page is dealt with on screen (`OnView`); and `thisHighlight`, the one
  variable of the script through which all of them speak, still is the highlight whose note is
  asked for (`NotesAlone`, `NotesThis`), so that giving up a note unmarks that highlight and no
  other.  A highlight marked more than once was in the chapter's file when it was loaded
  (`ManyInFile`, an invariant of its own), so it is not being made.  TLC checked `HighlightInv` in all states of the instance of the run before it was proved.

**Only model-checked**: all liveness (out of the prover's reach, as is `ENABLED`):
`EveryQueryIsAsked`, `EveryTapIsAsked`, `OpeningEnds`, `LoadingEnds` and `CallsEnd`.  Every other property of
a run is stated by a theorem.  No module uses `RECURSIVE`.

## 6. Exceptions the properties name

Most properties hold up to an overlap they spell out: that is what the code promises,
and reading the exception is reading the weak spot.  The list of places, line by line,
is `hazards` in `PROJECT.json`; where a hazard is met only by an exception of a property, its
note says so: the property does not forbid it, it shows that nothing else has that effect.  Not covered: a post-frame callback of the favourites page throws (no state changes); the length of
transfers and the bytes of files beyond absent, empty, partial, whole; which books an
answer of the server holds.

## 7. Not modelled, and why

Most of the lines under `src` are not this program's.  Of the 110,925 lines of C, C++ and
Objective-C nearly all are unmodified copies of libraries in `ios/Pods`: Realm's headers
(templates of its query engine and storage), FMDB, minizip, a transition animator.  Their
internals are not what this program can get wrong; its models take from them what its own
code relies on.  The exception is the extraction of archives, because `readEpub` trusts a
directory it finds: there the loop of `SSZipArchive.m` and the checks of `mz_zip.c` it rests on
are modelled, and what the reader does not use (making archives, passwords, nested archives,
attributes, the cleaning of paths) is not.  Realm is an atomic table of rows in
`EpubHighlights`: each write there is one synchronous transaction of the main thread.

In the native reader the audio player is unreachable (both callers switch it off), and menus,
fonts, the scrubber, rotation, links and sharing keep no state that decides what is
opened, shown or kept.  On Android the reader is a binary dependency.

The text of a chapter is the marks in it.  Whether a loading finds the text of a highlight
is therefore a choice; that the range it then replaces is counted in characters instead of UTF-16
units, so that the mark may be put around other letters (`FolioReaderPage.swift` 201), is not
modelled.

Two plain consequences of the code have no property, because one that states them would
repeat them: a random list whose request fails asks for patience for ever
(`ebook_random_bloc.dart` 24), and an archive that is removed when its extraction begins is
looked for first by the next opening (`FREpubParser.swift` 495 and 105), which then fails
although the book is there.

The bytes of books are absent, part or whole.  A damaged archive whose headers can be read
and are wrong is not told apart from one whose contents are damaged.
