SPECIFICATION PolledSpec
CONSTANTS
  r1 = r1
  r2 = r2
  r3 = r3
  b1 = b1
  b2 = b2
  Requests = {r1, r2, r3}
  Invalid = {r3}
  Builders = {b1, b2}
  Default = default
  NoClient = NoClient
  CLIENT_BUFFER_LEN = 1
  RESPONSE_BUFFER_LEN = 1
  MaxSent = 3
INVARIANTS TypeOK OneClient AnsweredOnce PanicExplained
PROPERTIES EveryRequestAnswered ExitsOrBlocked
\* The sink and the responses end.
CHECK_DEADLOCK FALSE
