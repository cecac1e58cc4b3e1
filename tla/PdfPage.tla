-------------------------------- MODULE PdfPage --------------------------------
(***************************************************************************)
(* The page that shows a downloaded PDF: a counter and two buttons beside  *)
(* a native view.  The buttons move the counter at once, without setState, *)
(* and send the view a command; the view turns the page when it gets it,   *)
(* or when it is swiped, and reports the new page, which sets the counter  *)
(* and builds the buttons anew.  A button is tapped as it was last built.  *)
(*                                                                         *)
(* The view (flutter_pdfview) is not part of the repository: it carries    *)
(* commands and reports out in order, takes a page number that is out of   *)
(* range for the nearest page, and reports a page only when it turned.     *)
(***************************************************************************)
EXTENDS Integers, Sequences

CONSTANTS MaxPdfPages,  \* Bound: pages of a document
          MaxPending,   \* Bound: commands, and reports, on their way
          MaxOver       \* Bound: how far the counter runs out of range

ASSUME PdfAssumption ==
  MaxPdfPages \in Nat \ {0} /\ MaxPending \in Nat /\ MaxOver \in Nat

VARIABLES
  pages,         \* how many pages the document has
  turned,        \* the page the native view shows, once it has rendered
  totalpages,    \* 0 until the view has rendered
  _currentPage,  \* the counter
  dirty,         \* setState was called, the next frame will build
  buttons,       \* the counter and the total the buttons were last built with
  commands,      \* setPage calls under way to the view
  reports        \* onPageChanged calls under way from it; 0 for onRender

pdfVars == <<pages, turned, totalpages, _currentPage, dirty, buttons, commands, reports>>

Report(p) == [on |-> "PageChanged", page |-> p]
Rendered == [on |-> "Render", page |-> 0]

PdfTypeOK ==
  /\ pages \in 1 .. MaxPdfPages /\ turned \in 0 .. pages - 1
  /\ totalpages \in {0, pages}
  /\ _currentPage \in -MaxOver .. pages - 1 + MaxOver
  /\ dirty \in BOOLEAN
  /\ buttons \in [page : -MaxOver .. pages - 1 + MaxOver, total : {0, pages}]
  /\ commands \in Seq(-MaxOver .. pages - 1 + MaxOver) /\ Len(commands) <= MaxPending
  /\ reports \in Seq({Rendered} \union {Report(p) : p \in 0 .. pages - 1})
  /\ Len(reports) <= MaxPending + 1

PdfInit ==
  /\ pages \in 1 .. MaxPdfPages /\ turned = 0
  /\ totalpages = 0 /\ _currentPage = 0
  /\ dirty = FALSE /\ buttons = [page |-> 0, total |-> 0]
  /\ commands = <<>> /\ reports = <<Rendered>>

\* Mutant of BackShown: the first page has a page before it.
BackShownAlways == buttons.page >= 0

\* The buttons a build makes; each asks the counter, or the total, once.
BackShown == buttons.page > 0
NextShown == buttons.page < buttons.total - 1

\* onPressed: the counter moves and the view is told where to.
SetPage(p) ==
  /\ Len(commands) < MaxPending
  /\ _currentPage' = p /\ commands' = Append(commands, p)
  /\ UNCHANGED <<pages, turned, totalpages, dirty, buttons, reports>>

TapBack == BackShown /\ _currentPage > -MaxOver /\ SetPage(_currentPage - 1)

TapNext ==
  NextShown /\ _currentPage < pages - 1 + MaxOver /\ SetPage(_currentPage + 1)

\* Mutant of onReport: the total is taken for the page and the page forgotten.
onReportTotal ==
  /\ reports # <<>>
  /\ totalpages' = IF Head(reports) = Rendered THEN pages ELSE Head(reports).page + 1
  /\ dirty' = TRUE
  /\ reports' = Tail(reports)
  /\ UNCHANGED <<pages, turned, _currentPage, buttons, commands>>

\* onRender and onPageChanged.
onReport ==
  /\ reports # <<>>
  /\ totalpages' = pages
  /\ _currentPage' = IF Head(reports) = Rendered THEN _currentPage ELSE Head(reports).page
  /\ dirty' = TRUE
  /\ reports' = Tail(reports)
  /\ UNCHANGED <<pages, turned, buttons, commands>>

Build ==
  /\ dirty
  /\ dirty' = FALSE /\ buttons' = [page |-> _currentPage, total |-> totalpages]
  /\ UNCHANGED <<pages, turned, totalpages, _currentPage, commands, reports>>

\* The native view turns to p, and reports it if that is another page.
Turn(p) ==
  /\ Len(reports) < MaxPending
  /\ turned' = p
  /\ reports' = IF p = turned THEN reports ELSE Append(reports, Report(p))

Nearest(p) == IF p < 0 THEN 0 ELSE IF p >= pages THEN pages - 1 ELSE p

Obey ==
  /\ commands # <<>>
  /\ Turn(Nearest(Head(commands))) /\ commands' = Tail(commands)
  /\ UNCHANGED <<pages, totalpages, _currentPage, dirty, buttons>>

SwipePdf ==
  /\ \E p \in {turned - 1, turned + 1} \intersect 0 .. pages - 1 : Turn(p)
  /\ UNCHANGED <<pages, totalpages, _currentPage, dirty, buttons, commands>>

PdfNext == TapBack \/ TapNext \/ onReport \/ Build \/ Obey \/ SwipePdf

PdfSpec == PdfInit /\ [][PdfNext]_pdfVars

-----------------------------------------------------------------------------

\* Whatever taps, swipes, commands and reports crossed each other: when all has
\* arrived the counter is at the page shown, or it has run off the document
\* (two taps on a button that should have gone with the first), where it stays.
CounterIsPage ==
  commands = <<>> /\ reports = <<>> =>
    _currentPage = turned \/ _currentPage \notin 0 .. pages - 1

\* It runs off the document only between a report and the frame that builds the
\* buttons from it, or while what the view did has not been reported: with every
\* command and report through and the buttons built, no tap leads off it.
TapsStayInside ==
  [][commands = <<>> /\ reports = <<>> /\ ~dirty /\ _currentPage \in 0 .. pages - 1
       => _currentPage' \in 0 .. pages - 1]_pdfVars
=============================================================================
