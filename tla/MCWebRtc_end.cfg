SPECIFICATION Spec
CONSTANTS
  x = x
  c1 = c1
  c2 = c2
  Peers = {x}
  Consumers = {}
  MaxSent = 1
  MaxArrivals = 1
  MaxChanges = 1
INVARIANT SenderNotDropped
CHECK_DEADLOCK FALSE
