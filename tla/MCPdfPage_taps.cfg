SPECIFICATION PdfSpec
CONSTANTS
  MaxPdfPages = 3
  MaxPending = 3
  MaxOver = 2
INVARIANTS
  CounterIsPage
PROPERTIES
  TapsStayInside
CHECK_DEADLOCK FALSE
