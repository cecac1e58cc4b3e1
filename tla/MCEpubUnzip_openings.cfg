SPECIFICATION FilesSpec
CONSTANTS
  b1 = b1
  b2 = b2
  Books = {b1, b2}
  NoBook = none
  Chapters <- ChaptersOf
  Rtl = {b1}
  MaxOffset = 1
  MaxDue = 2
  MaxOpenings = 2
  Entries = 3
INVARIANTS
  ShowsAskedBook
  CurrentPageIsShown
  ToldIfPart
PROPERTIES
  ResumesWhereLeft
  OpeningEnds
  OpensAsSpecified
CHECK_DEADLOCK FALSE
