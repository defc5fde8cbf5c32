SPECIFICATION FairSpec
CONSTANTS
  a = a
  b = b
  success = success
  failure = failure
  Texts = {a, b}
  Codes = {success, failure}
  SUCCESS = success
  MaxLines = 2
  MaxSent = 3
INVARIANTS TypeOK WritesInOrder FirstExitDecides LinesOnDemand
PROPERTIES WritesPerformed
\* The run loop returns and stdin is closed: nothing is left to do.
CHECK_DEADLOCK FALSE
