--------------------------- MODULE MCTerminalEcho ---------------------------
(* Instances of TerminalEcho for TLC. *)
EXTENDS TerminalEcho

CONSTANTS a, b, quit, success, failure

\* The main of terminal-echo, with a line that it takes for a request to quit;
\* it reads on after any line.
QuitReply == [t \in Texts |-> IF t = quit THEN <<Exit(failure), ReadLine>>
                                          ELSE EchoReply[t]]
=============================================================================
