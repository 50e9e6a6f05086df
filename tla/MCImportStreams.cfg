\* Three lines on each stream, through pipes that hold one and a half.
CONSTANTS
  Capacity = 3
  MaxLines = 3
SPECIFICATION FairSpec
INVARIANTS
  OutputIsComplete
  OutcomeIsTrue
PROPERTIES
  ReaderReturns
CHECK_DEADLOCK FALSE
