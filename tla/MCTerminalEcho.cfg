SPECIFICATION EchoFairSpec
CONSTANTS
  a = a
  b = b
  quit = quit
  success = success
  failure = failure
  Texts = {a, b, quit}
  Codes = {success, failure}
  SUCCESS = success
  MaxLines = 3
  MaxSent = 0
  MaxReply = 2
  Reply <- QuitReply
INVARIANTS EchoesAll SinkHoldsReceiver
PROPERTIES RunsOnCyclers ReturnsAtEof
\* The run returns.
CHECK_DEADLOCK FALSE
