SPECIFICATION LiveSpec
CONSTANTS
  d1 = d1
  d2 = d2
  a = a
  b = b
  Drivers = {d1, d2}
  First = d1
  Items = {a, b}
  Holds <- MCCyclic
  Attentive = {d1}
  SINK_PROXY_BUFFER_LEN = 1
  MaxItems = 3
INVARIANTS TypeOK NothingLost PullBased FirstDecides NeverUnreachable
PROPERTIES KeepsPromise Independent ReturnsOrWedged
\* The run returns: a returned run has no next step.
CHECK_DEADLOCK FALSE
