SPECIFICATION EchoFairSpec
CONSTANTS
  a = a
  b = b
  quit = quit
  success = success
  failure = failure
  Texts = {a, quit}
  Codes = {success, failure}
  SUCCESS = success
  MaxLines = 2
  MaxSent = 0
  MaxReply = 2
  Reply <- QuitReply
PROPERTIES ExitReturns
\* The run returns.
CHECK_DEADLOCK FALSE
