---------------------------- MODULE TerminalEcho ----------------------------
(***************************************************************************)
(* An application of one driver, the terminal, as the example              *)
(* terminal-echo builds it: Terminal, the proxy of its sink, and `main`.   *)
(*                                                                         *)
(* The sink stream yields a ReadLine, and then for each line read the      *)
(* commands that answer it.  It captures the `lines` stream, so it is      *)
(* itself polled to poll the terminal's source: the cycle of cycle.js.     *)
(***************************************************************************)
EXTENDS Terminal, SequencesExt

CONSTANTS
  Reply,    \* Reply[t]: the commands by which main answers line t
  MaxReply  \* bound of the model: how many these are

ASSUME ReplyAssumption == /\ Reply \in [Texts -> Seq(Commands)]
                          /\ MaxReply \in Nat
                          /\ \A t \in Texts : Len(Reply[t]) <= MaxReply

\* What terminal-echo answers: an echo zipped with the next read.
EchoReply == [t \in Texts |-> <<Write(t), ReadLine>>]

VARIABLES
  backlog,  \* the commands the sink stream yields before awaiting a line
  yielded,  \* history of the commands that it has yielded
  held,     \* the one that the proxy awaits a permit for, if any
  proxy,    \* the await of the proxy: "next", "reserve"; or "ended"
  outcome   \* what `run` has returned, "running" before that

appVars == <<backlog, yielded, held, proxy, outcome>>
echoVars == <<vars, appVars>>

EchoInit == /\ Init
            /\ backlog = <<ReadLine>>
            /\ yielded = <<>>
            /\ held = <<>>
            /\ proxy = "next"
            /\ outcome = "running"

Joined(p, l) == IF p = "ended" /\ l \in Codes THEN "ok" ELSE "running"

\* Mutant: the run loop alone holds the receiver.
ReceiverOpenRunLoop == loop = "running"

\* The sink stream is dropped with its proxy, and `lines` with the sink.
ReceiverOpen == loop = "running" \/ (reader # "over" /\ proxy # "ended")

-----------------------------------------------------------------------------
(* The sink stream, awaited by the proxy.                                  *)

SinkYield == /\ proxy = "next"
             /\ backlog # <<>>
             /\ backlog' = Tail(backlog)
             /\ yielded' = Append(yielded, Head(backlog))
             /\ held' = <<Head(backlog)>>
             /\ proxy' = "reserve"
             /\ UNCHANGED <<vars, outcome>>

AwaitsLine == proxy = "next" /\ backlog = <<>>

SinkLine(t) == /\ AwaitsLine
               /\ LinesYield(t)
               /\ backlog' = Reply[t]
               /\ UNCHANGED <<yielded, held, proxy, outcome>>

\* The error is an item of the echo, so of the sink stream: the run fails.
SinkFail == /\ AwaitsLine
            /\ LinesError
            /\ outcome' = "err"
            /\ UNCHANGED <<backlog, yielded, held, proxy>>

SinkPolls == /\ AwaitsLine
             /\ Pull("lines") \/ LinesSkip \/ LinesCommand \/ LinesEnd
             /\ UNCHANGED appVars

\* With `lines`, the zip and the chain end.
SinkEnd == /\ AwaitsLine
           /\ reader = "over"
           /\ CloseSink
           /\ proxy' = "ended"
           /\ outcome' = Joined(proxy', loop)
           /\ UNCHANGED <<backlog, yielded, held>>

-----------------------------------------------------------------------------
(* The proxy and the run loop.                                             *)

\* Mutant: the channel is unbounded.
ProxySendUnbounded == /\ proxy = "reserve"
                      /\ ReceiverOpen
                      /\ SendCommand(held[1])
                      /\ held' = <<>>
                      /\ proxy' = "next"
                      /\ UNCHANGED <<backlog, yielded, outcome>>

\* The other outcome of the reserve, a disconnected receiver, has no action:
\* SinkHoldsReceiver says that it does not occur.
ProxySend == /\ proxy = "reserve"
             /\ ReceiverOpen
             /\ inbox = <<>>
             /\ SendCommand(held[1])
             /\ held' = <<>>
             /\ proxy' = "next"
             /\ UNCHANGED <<backlog, yielded, outcome>>

RunLoop == /\ LoopStep
           /\ outcome' = IF loop' = "failed" THEN "err" ELSE Joined(proxy, loop')
           /\ UNCHANGED <<backlog, yielded, held, proxy>>

User == /\ (\E t \in Texts : Type(t)) \/ CloseStdin
        /\ UNCHANGED appVars

-----------------------------------------------------------------------------
\* What the proxy does when the awaited future is ready.  A read that fails is
\* not among it: nothing makes stdin fail.
ProxyReady == \/ SinkYield
              \/ \E t \in Texts : SinkLine(t)
              \/ SinkPolls
              \/ SinkEnd
              \/ ProxySend

Proxy == ProxyReady \/ SinkFail

EchoNext == outcome = "running" /\ (Proxy \/ RunLoop \/ User)

EchoSpec == EchoInit /\ [][EchoNext]_echoVars

\* try_join polls both futures of the run whenever one was woken.
EchoFairSpec == /\ EchoSpec
                /\ WF_echoVars(outcome = "running" /\ ProxyReady)
                /\ WF_echoVars(outcome = "running" /\ RunLoop)

-----------------------------------------------------------------------------
(* The run that this is an instance of.                                    *)

Terminals == {"terminal"}
PerDriver(x) == [d \in Terminals |-> x]

Run == INSTANCE CyclersRun WITH
  Drivers <- Terminals,
  First <- "terminal",
  Items <- Commands,
  Holds <- PerDriver(Terminals),
  Attentive <- {},
  SINK_PROXY_BUFFER_LEN <- 1,
  MaxItems <- MaxReply * MaxLines + 1,
  yielded <- PerDriver(yielded),
  held <- PerDriver(held),
  channel <- PerDriver(inbox),
  taken <- PerDriver(Published),
  proxy <- PerDriver(proxy),
  driver <- PerDriver(IF loop \in Codes THEN "exited" ELSE loop),
  termination <- IF loop \in Codes THEN Terminals ELSE {},
  outcome <- outcome

\* The application runs on the proxies and the join of `cyclers::run`
\* (run.rs:392-420, 553-573).
RunsOnCyclers == Run!Spec

-----------------------------------------------------------------------------
(* What the example does.                                                  *)

\* What the sink stream yields to have these lines answered.
Answers(lines) ==
  <<ReadLine>> \o FlattenSeq([i \in 1..Len(lines) |-> Reply[lines[i]]])

\* What answers the lines typed is written once and in the order typed, and all
\* of it has been when the run returns Ok, up to an Exit; so terminal-echo
\* echoes each line (terminal-echo.rs:43-54).
EchoesAll ==
  LET expected == BeforeExit(Answers(typed))
  IN  /\ \E n \in 0..Len(expected) :
           Lists(written, TextsOf(SubSeq(expected, 1, n)))
      /\ outcome = "ok" => Lists(written, TextsOf(expected))

\* While the proxy awaits a permit the channel has a receiver, even when the
\* run loop has exited: the sink stream being proxied holds it itself, through
\* `lines`, so that its proxy is never told to stop (run.rs:73-76, 409), and an
\* Exit only takes effect on the run once stdin has been closed.
SinkHoldsReceiver == /\ proxy = "reserve" => ReceiverOpen
                     /\ outcome = "ok" => eof

\* When stdin is closed the run returns, unless the run loop has performed an
\* Exit and left the proxy of a sink that goes on blocked on a full channel
\* (terminal-echo.rs:40-62, run.rs:406).
ReturnsAtEof == eof ~> outcome # "running" \/ Run!Wedged("terminal")

\* Exit makes the program exit with its code: "Exits with the specified
\* status code." (crates/cyclers-terminal/src/driver.rs:54).
ExitReturns == loop \in Codes ~> outcome # "running"
=============================================================================
