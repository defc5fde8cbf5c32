SPECIFICATION FairSpec
CONSTANTS
  x = x
  c1 = c1
  c2 = c2
  Peers = {x}
  Consumers = {c1, c2}
  MaxSent = 3
  MaxArrivals = 1
  MaxChanges = 1
INVARIANTS TypeOK SendsInOrder FailuresExplained SomeoneKnows
PROPERTIES SendsDelivered EndsOrLocked
\* The driver returns, fails or panics.
CHECK_DEADLOCK FALSE
