SPECIFICATION PolledSpec
CONSTANTS
  r1 = r1
  r2 = r2
  r3 = r3
  b1 = b1
  b2 = b2
  Requests = {r1}
  Invalid = {}
  Builders = {b1, b2}
  Default = default
  NoClient = NoClient
  CLIENT_BUFFER_LEN = 1
  RESPONSE_BUFFER_LEN = 1
  MaxSent = 3
PROPERTIES ExitsWithSink
\* The sink and the responses end.
CHECK_DEADLOCK FALSE
