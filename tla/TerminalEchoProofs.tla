------------------------- MODULE TerminalEchoProofs -------------------------
(***************************************************************************)
(* Proofs about TerminalEcho, for any main that answers a line with any    *)
(* commands, any texts and exit codes, and any bounds.                     *)
(*                                                                         *)
(* Every step of the application is a step of the terminal driver with     *)
(* some sink, or none (EchoMoves), so that what TerminalProofs proves of   *)
(* the driver holds here.  The rest of the invariant ties the sink to the  *)
(* source that it captures: the commands that have been sent, the one in   *)
(* the proxy and those to come are main's answers to the lines that were   *)
(* read, and both ends of the cycle come to their end together.            *)
(*                                                                         *)
(* The last part shows that the application is a run of `cyclers::run`,    *)
(* which makes the theorems of CyclersRunProofs hold of it.                *)
(***************************************************************************)
EXTENDS TerminalEcho, TerminalProofs

EchoTypeOK == /\ backlog \in Seq(Commands)
              /\ yielded \in Seq(Commands)
              /\ held \in Seq(Commands)
              /\ proxy \in {"next", "reserve", "ended"}
              /\ outcome \in {"running", "ok", "err"}

\* The proxy has a command exactly while it awaits a permit, and the command is
\* the last one that the sink stream has yielded.
ProxyInv == /\ yielded = sent \o held
            /\ IF proxy = "reserve" THEN \E c \in Commands : held = <<c>> ELSE held = <<>>

\* The proxy ends with `lines`.  That ends while the proxy awaits it, with stdin
\* and after the last line: the run returns an error before that could end it.
EndInv == /\ closed <=> proxy = "ended"
          /\ proxy = "ended" => reader = "over"
          /\ reader = "over" => /\ backlog = <<>>
                                /\ proxy # "reserve"
                                /\ eof /\ given = typed
          /\ errors = 1 => outcome = "err"

\* The run goes on until the proxy and the run loop have ended, or one of them
\* has failed.
JoinInv == /\ outcome = "ok" <=> (proxy = "ended" /\ loop \in Codes)
           /\ loop = "failed" => outcome = "err"

\* The sink stream yields what answers the lines read.
AnswerInv == yielded \o backlog = Answers(given)

\* How many commands that is.
SizeInv == /\ Len(yielded) + Len(backlog) <= MaxReply * Len(given) + 1
           /\ Len(typed) <= MaxLines

\* The texts written are those of a first part of the commands without an Exit,
\* even after the run loop has failed.
WrittenTo(n) == /\ \A k \in 1..n : ~IsExit(sent[k])
                /\ Lists(written, TextsTo(sent, n))

WrittenInv == \E n \in 0..Len(sent) : WrittenTo(n)

EchoInv == /\ IInv
           /\ EchoTypeOK
           /\ ProxyInv
           /\ EndInv
           /\ JoinInv
           /\ AnswerInv
           /\ SizeInv
           /\ WrittenInv

-----------------------------------------------------------------------------
(* Steps of the application and of its driver.                             *)

\* What the run loop leaves alone.
LEMMA LoopLeaves ==
  ASSUME LoopStep
  PROVE  /\ loop = "running"
         /\ UNCHANGED <<sent, closed, stdinVars, linesVars>>
         /\ Pull("run") \/ UNCHANGED inbox
<1> USE DEF sinkVars, stdoutVars, stdinVars, linesVars
<1>1. ASSUME Pull("run") PROVE loop = "running" /\ UNCHANGED <<sent, closed, stdinVars, linesVars>>
  BY <1>1 DEF Pull, Live
<1>2. ASSUME LoopStep, ~Pull("run")
      PROVE  loop = "running" /\ UNCHANGED <<sent, closed, inbox, stdinVars, linesVars>>
  BY <1>2 DEF LoopStep, LoopWrite, LoopFlush, LoopFail, LoopSkip, LoopExit, LoopEnd
<1> QED
  BY <1>1, <1>2

\* What `lines` does when the sink stream polls it and gets no line.
LEMMA PollLeaves ==
  ASSUME SinkPolls
  PROVE  /\ proxy = "next" /\ backlog = <<>>
         /\ UNCHANGED <<sent, closed, loop, written, stdinVars, given, errors, appVars>>
         /\ LinesStep
         /\ Pull("lines") \/ UNCHANGED inbox
         /\ \/ reader' # "over" /\ reader # "over"
            \/ UNCHANGED reader
            \/ reader' = "over" /\ (closed \/ errors = 1 \/ (eof /\ given = typed))
<1> USE DEF sinkVars, stdoutVars, stdinVars, linesVars
<1>1. proxy = "next" /\ backlog = <<>> /\ UNCHANGED appVars
  BY DEF SinkPolls, AwaitsLine
<1>2. CASE Pull("lines")
  BY <1>1, <1>2 DEF Pull, LinesStep
<1>3. CASE LinesSkip
  BY <1>1, <1>3 DEF LinesSkip, LinesStep
<1>4. CASE LinesCommand
  BY <1>1, <1>4 DEF LinesCommand, LinesStep
<1>5. CASE LinesEnd
  BY <1>1, <1>5 DEF LinesEnd, LinesStep, Exhausted, Finished
<1> QED
  BY <1>2, <1>3, <1>4, <1>5 DEF SinkPolls

\* What the user does.
LEMMA UserLeaves ==
  ASSUME User
  PROVE  /\ UNCHANGED <<sinkVars, queue, stdoutVars, linesVars, appVars>>
         /\ ~eof
         /\ UNCHANGED typed \/ \E t \in Texts : typed' = Append(typed, t) /\ Len(typed) < MaxLines
BY DEF User, Type, CloseStdin, stdoutVars, sinkVars, linesVars

\* A step of the application is one of a driver with some sink, or leaves the
\* driver alone.
LEMMA EchoMoves == ProxyInv /\ [EchoNext]_echoVars => [Move]_vars
<1> SUFFICES ASSUME ProxyInv, [EchoNext]_echoVars PROVE [Move]_vars
  OBVIOUS
<1>1. ASSUME SinkYield PROVE [Move]_vars
  BY <1>1 DEF SinkYield
<1>2. ASSUME NEW t \in Texts, SinkLine(t) PROVE [Move]_vars
  BY <1>2 DEF SinkLine, Move, LinesStep
<1>3. ASSUME SinkFail PROVE [Move]_vars
  BY <1>3 DEF SinkFail, Move, LinesStep
<1>4. ASSUME SinkPolls PROVE [Move]_vars
  BY <1>4, PollLeaves DEF Move
<1>5. ASSUME SinkEnd PROVE [Move]_vars
  BY <1>5 DEF SinkEnd, Move
<1>6. ASSUME ProxySend PROVE [Move]_vars
  <2>1. held[1] \in Commands /\ SendCommand(held[1])
    BY <1>6 DEF ProxySend, ProxyInv
  <2> QED
    BY <2>1 DEF Move
<1>7. ASSUME RunLoop PROVE [Move]_vars
  BY <1>7 DEF RunLoop, Move
<1>8. ASSUME User PROVE [Move]_vars
  BY <1>8 DEF User, Move
<1>9. CASE UNCHANGED echoVars
  BY <1>9 DEF echoVars
<1> QED
  BY <1>1, <1>2, <1>3, <1>4, <1>5, <1>6, <1>7, <1>8, <1>9 DEF EchoNext, Proxy, ProxyReady

-----------------------------------------------------------------------------
(* The sink stream and its proxy.                                          *)

\* Every variable of the application keeps its type.
LEMMA EchoTypeStep ==
  TypeOK /\ EchoTypeOK /\ [EchoNext]_echoVars => EchoTypeOK'
<1> SUFFICES ASSUME TypeOK, EchoTypeOK, [EchoNext]_echoVars PROVE EchoTypeOK'
  OBVIOUS
<1> USE DEF EchoTypeOK, appVars
<1>0. ASSUME NEW p, NEW l PROVE Joined(p, l) \in {"running", "ok", "err"}
  BY DEF Joined
<1>1. ASSUME SinkYield PROVE EchoTypeOK'
  <2>1. Head(backlog) \in Commands /\ Tail(backlog) \in Seq(Commands)
    BY <1>1, HeadTailProperties DEF SinkYield
  <2> QED
    BY <1>1, <2>1 DEF SinkYield
<1>2. ASSUME NEW t \in Texts, SinkLine(t) PROVE EchoTypeOK'
  BY <1>2, ReplyAssumption DEF SinkLine
<1>3. ASSUME SinkFail PROVE EchoTypeOK'
  BY <1>3 DEF SinkFail
<1>4. ASSUME SinkPolls PROVE EchoTypeOK'
  BY <1>4 DEF SinkPolls
<1>5. ASSUME SinkEnd PROVE EchoTypeOK'
  BY <1>5, <1>0 DEF SinkEnd
<1>6. ASSUME ProxySend PROVE EchoTypeOK'
  BY <1>6 DEF ProxySend
<1>7. ASSUME RunLoop PROVE EchoTypeOK'
  BY <1>7, <1>0 DEF RunLoop
<1>8. ASSUME User PROVE EchoTypeOK'
  BY <1>8 DEF User
<1>9. CASE UNCHANGED echoVars
  BY <1>9 DEF echoVars
<1> QED
  BY <1>1, <1>2, <1>3, <1>4, <1>5, <1>6, <1>7, <1>8, <1>9 DEF EchoNext, Proxy, ProxyReady

\* The proxy passes on what it is given.
LEMMA ProxyStep ==
  TypeOK /\ EchoTypeOK /\ ProxyInv /\ [EchoNext]_echoVars => ProxyInv'
<1> SUFFICES ASSUME TypeOK, EchoTypeOK, ProxyInv, [EchoNext]_echoVars PROVE ProxyInv'
  OBVIOUS
<1>0. sent \in Seq(Commands) /\ sent \o <<>> = sent
  BY DEF TypeOK
<1>1. ASSUME SinkYield PROVE ProxyInv'
  <2>1. /\ proxy = "next" /\ proxy' = "reserve" /\ backlog # <<>> /\ sent' = sent
        /\ yielded' = Append(yielded, Head(backlog)) /\ held' = <<Head(backlog)>>
    BY <1>1 DEF SinkYield, vars, sinkVars
  <2>2. yielded = sent
    BY <1>0, <2>1 DEF ProxyInv
  <2>3. Head(backlog) \in Commands
    BY <2>1, HeadTailProperties DEF EchoTypeOK
  <2>4. Append(sent, Head(backlog)) = sent \o <<Head(backlog)>>
    BY <1>0, <2>3
  <2> QED
    BY <2>1, <2>2, <2>3, <2>4 DEF ProxyInv
<1>2. ASSUME ProxySend PROVE ProxyInv'
  <2>1. /\ proxy = "reserve" /\ proxy' = "next" /\ held' = <<>> /\ yielded' = yielded
        /\ sent' = Append(sent, held[1])
    BY <1>2 DEF ProxySend, SendCommand
  <2>2. PICK c \in Commands : held = <<c>>
    BY <2>1 DEF ProxyInv
  <2>3. sent' = sent \o held /\ sent' \in Seq(Commands)
    BY <1>0, <2>1, <2>2
  <2> QED
    BY <2>1, <2>3 DEF ProxyInv
<1>3. ASSUME SinkEnd PROVE ProxyInv'
  BY <1>3 DEF SinkEnd, CloseSink, AwaitsLine, ProxyInv
<1>4. ASSUME UNCHANGED <<yielded, sent, held, proxy>> PROVE ProxyInv'
  BY <1>4 DEF ProxyInv
<1>5. ASSUME NEW t \in Texts, SinkLine(t) PROVE ProxyInv'
  BY <1>4, <1>5 DEF SinkLine, LinesYield, sinkVars
<1>6. ASSUME SinkFail PROVE ProxyInv'
  BY <1>4, <1>6 DEF SinkFail, LinesError, sinkVars
<1>7. ASSUME SinkPolls PROVE ProxyInv'
  BY <1>4, <1>7, PollLeaves DEF appVars
<1>8. ASSUME RunLoop PROVE ProxyInv'
  BY <1>4, <1>8, LoopLeaves DEF RunLoop
<1>9. ASSUME User PROVE ProxyInv'
  BY <1>4, <1>9, UserLeaves DEF appVars, sinkVars
<1>10. CASE UNCHANGED echoVars
  BY <1>4, <1>10 DEF echoVars, vars, sinkVars, appVars
<1> QED
  BY <1>1, <1>2, <1>3, <1>5, <1>6, <1>7, <1>8, <1>9, <1>10 DEF EchoNext, Proxy, ProxyReady

\* The sink and the source that it holds end together.
LEMMA EndStep ==
  TypeOK /\ EchoTypeOK /\ EndInv /\ [EchoNext]_echoVars => EndInv'
<1> SUFFICES ASSUME TypeOK, EchoTypeOK, EndInv, [EchoNext]_echoVars PROVE EndInv'
  OBVIOUS
<1> USE DEF sinkVars, stdoutVars, stdinVars, linesVars, appVars
<1>1. ASSUME SinkYield PROVE EndInv'
  BY <1>1 DEF SinkYield, EndInv, vars
<1>2. ASSUME NEW t \in Texts, SinkLine(t) PROVE EndInv'
  BY <1>2 DEF SinkLine, LinesYield, EndInv
<1>3. ASSUME SinkFail PROVE EndInv'
  BY <1>3 DEF SinkFail, LinesError, AwaitsLine, EndInv
<1>4. ASSUME SinkPolls, outcome = "running" PROVE EndInv'
  BY <1>4, PollLeaves DEF EndInv
<1>5. ASSUME SinkEnd, outcome = "running" PROVE EndInv'
  BY <1>5 DEF SinkEnd, CloseSink, AwaitsLine, EndInv
<1>6. ASSUME ProxySend PROVE EndInv'
  BY <1>6 DEF ProxySend, SendCommand, EndInv
<1>7. ASSUME RunLoop, outcome = "running" PROVE EndInv'
  BY <1>7, LoopLeaves DEF RunLoop, EndInv
<1>8. ASSUME User, outcome = "running" PROVE EndInv'
  BY <1>8, UserLeaves DEF EndInv
<1>9. CASE UNCHANGED echoVars
  BY <1>9 DEF echoVars, vars, EndInv
<1> QED
  BY <1>1, <1>2, <1>3, <1>4, <1>5, <1>6, <1>7, <1>8, <1>9 DEF EchoNext, Proxy, ProxyReady

\* The run returns what its two sides have come to.
LEMMA JoinStep ==
  TypeOK /\ EchoTypeOK /\ JoinInv /\ [EchoNext]_echoVars => JoinInv'
<1> SUFFICES ASSUME TypeOK, EchoTypeOK, JoinInv, [EchoNext]_echoVars PROVE JoinInv'
  OBVIOUS
<1> USE DEF sinkVars, stdoutVars, stdinVars, linesVars, appVars, JoinInv
<1>1. ASSUME SinkYield, outcome = "running" PROVE JoinInv'
  BY <1>1 DEF SinkYield, vars
<1>2. ASSUME NEW t \in Texts, SinkLine(t), outcome = "running" PROVE JoinInv'
  BY <1>2 DEF SinkLine, LinesYield
<1>3. ASSUME SinkFail PROVE JoinInv'
  BY <1>3 DEF SinkFail, LinesError, AwaitsLine
<1>4. ASSUME SinkPolls PROVE JoinInv'
  BY <1>4, PollLeaves
<1>5. ASSUME SinkEnd, outcome = "running" PROVE JoinInv'
  BY <1>5 DEF SinkEnd, CloseSink, AwaitsLine, Joined
<1>6. ASSUME ProxySend, outcome = "running" PROVE JoinInv'
  BY <1>6 DEF ProxySend, SendCommand
<1>7. ASSUME RunLoop, outcome = "running" PROVE JoinInv'
  BY <1>7, CodesAssumption DEF RunLoop, Joined
<1>8. ASSUME User PROVE JoinInv'
  BY <1>8, UserLeaves
<1>9. CASE UNCHANGED echoVars
  BY <1>9 DEF echoVars, vars
<1> QED
  BY <1>1, <1>2, <1>3, <1>4, <1>5, <1>6, <1>7, <1>8, <1>9 DEF EchoNext, Proxy, ProxyReady

-----------------------------------------------------------------------------
(* The answers.                                                            *)

Replies(lines) == [i \in 1..Len(lines) |-> Reply[lines[i]]]

\* Replies is a sequence that goes on as the lines do.
LEMMA RepliesAppend ==
  ASSUME NEW lines \in Seq(Texts)
  PROVE  /\ Replies(lines) \in Seq(Seq(Commands)) /\ Len(Replies(lines)) = Len(lines)
         /\ \A i \in 1..Len(lines) : Replies(lines)[i] = Reply[lines[i]]
         /\ \A t \in Texts : Replies(Append(lines, t)) = Append(Replies(lines), Reply[t])
<1>1. ASSUME NEW u \in Seq(Texts)
      PROVE  /\ Replies(u) \in Seq(Seq(Commands)) /\ Len(Replies(u)) = Len(u)
             /\ \A i \in 1..Len(u) : Replies(u)[i] = Reply[u[i]]
  <2> DEFINE n == Len(u)
  <2>1. n \in Nat /\ \A i \in 1..n : u[i] \in Texts
    OBVIOUS
  <2> DEFINE x(i) == Reply[u[i]]
  <2>2. \A i \in 1..n : x(i) \in Seq(Commands)
    BY <2>1, ReplyAssumption
  <2>3. Replies(u) = [i \in 1..n |-> x(i)]
    BY DEF Replies
  <2> HIDE DEF n, x
  <2>4. Replies(u) \in Seq(Seq(Commands)) /\ Len(Replies(u)) = n
    BY <2>1, <2>2, <2>3
  <2>5. \A i \in 1..n : Replies(u)[i] = x(i)
    BY <2>3
  <2> QED
    BY <2>4, <2>5 DEF n, x
<1>2. ASSUME NEW t \in Texts PROVE Replies(Append(lines, t)) = Append(Replies(lines), Reply[t])
  <2> DEFINE p == Replies(lines)
  <2> DEFINE q == Replies(Append(lines, t))
  <2> DEFINE n == Len(lines)
  <2> DEFINE x == Reply[t]
  <2>1. /\ n \in Nat /\ Append(lines, t) \in Seq(Texts) /\ Len(Append(lines, t)) = n + 1
        /\ Append(lines, t)[n + 1] = t
        /\ \A i \in 1..n : Append(lines, t)[i] = lines[i]
    BY AppendProperties
  <2>2. x \in Seq(Commands)
    BY ReplyAssumption
  <2>3. /\ p \in Seq(Seq(Commands)) /\ Len(p) = n /\ \A i \in 1..n : p[i] = Reply[lines[i]]
        /\ q \in Seq(Seq(Commands)) /\ Len(q) = n + 1
        /\ q[n + 1] = x /\ \A i \in 1..n : q[i] = Reply[lines[i]]
    <3>1. n + 1 \in 1..(n + 1) /\ \A i \in 1..n : i \in 1..(n + 1)
      BY <2>1
    <3>2. p \in Seq(Seq(Commands)) /\ Len(p) = n /\ \A i \in 1..n : p[i] = Reply[lines[i]]
      BY <1>1
    <3> HIDE DEF p, n
    <3>3. /\ q \in Seq(Seq(Commands)) /\ Len(q) = n + 1
          /\ \A i \in 1..(n + 1) : q[i] = Reply[Append(lines, t)[i]]
      BY <1>1, <2>1
    <3> HIDE DEF q
    <3> QED
      BY <2>1, <3>1, <3>2, <3>3
  <2> HIDE DEF p, q, n, x
  <2>4. /\ Append(p, x) \in Seq(Seq(Commands)) /\ Len(Append(p, x)) = n + 1
        /\ \A i \in 1..n : Append(p, x)[i] = p[i]
        /\ Append(p, x)[n + 1] = x
    BY <2>2, <2>3, AppendProperties
  <2>5. \A i \in 1..(n + 1) : q[i] = Append(p, x)[i]
    <3> TAKE i \in 1..(n + 1)
    <3>1. i \in 1..n \/ i = n + 1
      BY <2>1, LastOrBefore
    <3> QED
      BY <2>3, <2>4, <3>1
  <2>6. q = Append(p, x)
    BY <2>3, <2>4, <2>5, SeqEqual
  <2> QED
    BY <2>6 DEF p, q, x
<1> QED
  BY <1>1, <1>2

\* The sink stream starts with a read, and goes on with the answer to each line.
LEMMA AnswersAppend ==
  ASSUME NEW lines \in Seq(Texts)
  PROVE  /\ Answers(lines) \in Seq(Commands)
         /\ \A t \in Texts : Answers(Append(lines, t)) = Answers(lines) \o Reply[t]
<1> DEFINE a == FlattenSeq(Replies(lines))
<1>1. Answers(lines) = <<ReadLine>> \o a
  BY DEF Answers, Replies
<1>2. <<>> \in Seq(Commands) /\ <<ReadLine>> \in Seq(Commands)
  BY DEF Commands
<1>3. a \in Seq(Commands)
  BY <1>2, RepliesAppend, FlattenAppend
<1>4. ASSUME NEW t \in Texts PROVE Answers(Append(lines, t)) = Answers(lines) \o Reply[t]
  <2>1. Reply[t] \in Seq(Commands)
    BY ReplyAssumption
  <2>2. FlattenSeq(Replies(Append(lines, t))) = a \o Reply[t]
    BY <2>1, RepliesAppend, FlattenAppend
  <2>3. Answers(Append(lines, t)) = <<ReadLine>> \o (a \o Reply[t])
    BY <2>2 DEF Answers, Replies
  <2> DEFINE w == <<ReadLine>>
  <2> DEFINE x == Reply[t]
  <2>4. w \in Seq(Commands) /\ a \in Seq(Commands) /\ x \in Seq(Commands)
    BY <1>2, <1>3, <2>1
  <2> HIDE DEF a, w, x
  <2>5. w \o (a \o x) = (w \o a) \o x
    BY <2>4, ConcatAssociative
  <2> QED
    BY <1>1, <2>3, <2>5 DEF w, x
<1> HIDE DEF a
<1>5. <<ReadLine>> \o a \in Seq(Commands)
  BY <1>2, <1>3
<1> QED
  BY <1>1, <1>4, <1>5

\* Before any line is read, it is the read alone.
LEMMA AnswersEmpty == Answers(<<>>) = <<ReadLine>>
<1>1. Replies(<<>>) \in Seq(Seq(Commands)) /\ Len(Replies(<<>>)) = 0
  <2>1. <<>> \in Seq(Texts) /\ Len(<<>>) = 0
    OBVIOUS
  <2> QED
    BY <2>1, RepliesAppend
<1> DEFINE r == Replies(<<>>)
<1>2. Answers(<<>>) = <<ReadLine>> \o FlattenSeq(r)
  BY DEF Answers, Replies
<1> HIDE DEF r
<1>3. r = <<>>
  BY <1>1 DEF r
<1>4. FlattenSeq(r) = <<>>
  BY <1>3 DEF FlattenSeq
<1>5. \A w \in Seq(Commands) : w \o <<>> = w
  OBVIOUS
<1>6. <<ReadLine>> \in Seq(Commands)
  BY DEF Commands
<1> QED
  BY <1>2, <1>4, <1>5, <1>6

\* What answers the first lines comes first.
LEMMA AnswersPrefix ==
  ASSUME NEW lines \in Seq(Texts), NEW part \in Seq(Texts), Len(part) <= Len(lines),
         \A i \in 1..Len(part) : part[i] = lines[i]
  PROVE  \E u \in Seq(Commands) : Answers(lines) = Answers(part) \o u
<1> DEFINE n == Len(part)
<1> DEFINE r == Replies(lines)
<1>1. n \in 0..Len(lines) /\ Len(lines) \in Nat
  OBVIOUS
<1>2. /\ r \in Seq(Seq(Commands)) /\ Len(r) = Len(lines)
      /\ \A i \in 1..Len(lines) : r[i] = Reply[lines[i]]
      /\ Replies(part) \in Seq(Seq(Commands)) /\ Len(Replies(part)) = n
      /\ \A i \in 1..n : Replies(part)[i] = Reply[part[i]]
  BY RepliesAppend
<1>3. \A i \in 1..n : part[i] = lines[i] /\ i \in 1..Len(lines)
  BY <1>1
<1> HIDE DEF n, r
<1>4. /\ SubSeq(r, 1, n) \in Seq(Seq(Commands)) /\ Len(SubSeq(r, 1, n)) = n
      /\ \A i \in 1..n : SubSeq(r, 1, n)[i] = r[i]
  BY <1>1, <1>2, SubSeqProperties
<1>5. SubSeq(r, 1, n) = Replies(part)
  <2> DEFINE p == SubSeq(r, 1, n)
  <2> DEFINE q == Replies(part)
  <2>1. /\ p \in Seq(Seq(Commands)) /\ q \in Seq(Seq(Commands))
        /\ Len(p) = n /\ Len(q) = n
    BY <1>2, <1>4
  <2>2. \A i \in 1..n : p[i] = q[i]
    <3> TAKE i \in 1..n
    <3>1. part[i] = lines[i] /\ r[i] = Reply[lines[i]]
      BY <1>2, <1>3
    <3>2. p[i] = r[i]
      BY <1>4
    <3>3. q[i] = Reply[part[i]]
      BY <1>2
    <3> QED
      BY <3>1, <3>2, <3>3
  <2> HIDE DEF p, q
  <2>3. Len(p) = Len(q) /\ \A i \in 1..Len(p) : p[i] = q[i]
    BY <2>1, <2>2
  <2>4. p \in Seq(Seq(Commands)) /\ q \in Seq(Seq(Commands))
    BY <2>1
  <2>5. p = q
    BY <2>3, <2>4, SeqEqual
  <2> QED
    BY <2>5 DEF p, q
<1>6. PICK u \in Seq(Commands) : FlattenSeq(r) = FlattenSeq(SubSeq(r, 1, n)) \o u
  <2>1. n \in 0..Len(r)
    BY <1>1, <1>2
  <2> QED
    BY <1>2, <2>1, FlattenPrefix
<1> DEFINE a == FlattenSeq(Replies(part))
<1>7. a \in Seq(Commands) /\ <<ReadLine>> \in Seq(Commands)
  <2>1. <<>> \in Seq(Commands) /\ <<ReadLine>> \in Seq(Commands)
    BY DEF Commands
  <2> QED
    BY <2>1, <1>2, FlattenAppend
<1>8. FlattenSeq(r) = a \o u
  BY <1>5, <1>6
<1>9. Answers(lines) = <<ReadLine>> \o (a \o u) /\ Answers(part) = <<ReadLine>> \o a
  BY <1>8 DEF Answers, Replies, r
<1> DEFINE w == <<ReadLine>>
<1> HIDE DEF a, w
<1>10. w \o (a \o u) = (w \o a) \o u
  BY <1>7, ConcatAssociative DEF w
<1> QED
  BY <1>9, <1>10 DEF w

\* The sink stream goes on with what answers a line once that is read.
LEMMA AnswerStep ==
  TypeOK /\ EchoTypeOK /\ AnswerInv /\ [EchoNext]_echoVars => AnswerInv'
<1> SUFFICES ASSUME TypeOK, EchoTypeOK, AnswerInv, [EchoNext]_echoVars PROVE AnswerInv'
  OBVIOUS
<1>0. /\ yielded \in Seq(Commands) /\ backlog \in Seq(Commands) /\ given \in Seq(Texts)
      /\ yielded \o <<>> = yielded
  BY DEF TypeOK, EchoTypeOK
<1>1. ASSUME UNCHANGED <<yielded, backlog, given>> PROVE AnswerInv'
  BY <1>1 DEF AnswerInv
<1>2. ASSUME SinkYield PROVE AnswerInv'
  <2>1. /\ backlog # <<>> /\ backlog' = Tail(backlog) /\ given' = given
        /\ yielded' = Append(yielded, Head(backlog))
    BY <1>2 DEF SinkYield, vars, linesVars
  <2>2. yielded' \o backlog' = yielded \o backlog
    BY <1>0, <2>1, ThroughChannel
  <2> QED
    BY <2>1, <2>2 DEF AnswerInv
<1>3. ASSUME NEW t \in Texts, SinkLine(t) PROVE AnswerInv'
  <2>1. /\ backlog = <<>> /\ backlog' = Reply[t] /\ yielded' = yielded
        /\ given' = Append(given, t)
    BY <1>3 DEF SinkLine, AwaitsLine, LinesYield
  <2>2. yielded = Answers(given)
    BY <1>0, <2>1 DEF AnswerInv
  <2>3. Answers(given') = Answers(given) \o Reply[t]
    BY <1>0, <2>1, AnswersAppend
  <2> QED
    BY <2>1, <2>2, <2>3 DEF AnswerInv
<1>4. ASSUME SinkFail PROVE AnswerInv'
  BY <1>1, <1>4 DEF SinkFail, LinesError
<1>5. ASSUME SinkPolls PROVE AnswerInv'
  BY <1>1, <1>5, PollLeaves DEF appVars
<1>6. ASSUME SinkEnd PROVE AnswerInv'
  BY <1>1, <1>6 DEF SinkEnd, CloseSink, linesVars
<1>7. ASSUME ProxySend PROVE AnswerInv'
  BY <1>1, <1>7 DEF ProxySend, SendCommand, linesVars
<1>8. ASSUME RunLoop PROVE AnswerInv'
  BY <1>1, <1>8, LoopLeaves DEF RunLoop, linesVars
<1>9. ASSUME User PROVE AnswerInv'
  BY <1>1, <1>9, UserLeaves DEF appVars, linesVars
<1>10. CASE UNCHANGED echoVars
  BY <1>1, <1>10 DEF echoVars, vars, linesVars, appVars
<1> QED
  BY <1>2, <1>3, <1>4, <1>5, <1>6, <1>7, <1>8, <1>9, <1>10 DEF EchoNext, Proxy, ProxyReady

\* One answer more, and as many as there can be.
LEMMA Multiples ==
  ASSUME NEW m \in Nat, NEW g \in Nat
  PROVE  /\ m * g \in Nat /\ m * (g + 1) = m * g + m
         /\ \A l \in Nat : g <= l => m * g <= m * l
<1>1. m * g \in Nat /\ m * (g + 1) = m * g + m
  OBVIOUS
<1>2. ASSUME NEW l \in Nat, g <= l PROVE m * g <= m * l
  <2>1. l - g \in Nat
    BY <1>2
  <2>2. m * (l - g) \in Nat /\ m * l = m * g + m * (l - g) /\ m * g \in Nat
    BY <2>1
  <2> QED
    BY <2>2
<1> QED
  BY <1>1, <1>2

\* No more is yielded than the lines allow.
LEMMA SizeStep ==
  TypeOK /\ EchoTypeOK /\ SizeInv /\ [EchoNext]_echoVars => SizeInv'
<1> SUFFICES ASSUME TypeOK, EchoTypeOK, SizeInv, [EchoNext]_echoVars PROVE SizeInv'
  OBVIOUS
<1>0. /\ yielded \in Seq(Commands) /\ backlog \in Seq(Commands)
      /\ given \in Seq(Texts) /\ typed \in Seq(Texts)
      /\ Len(yielded) \in Nat /\ Len(given) \in Nat /\ Len(typed) \in Nat
  BY DEF TypeOK, EchoTypeOK
<1>1. ASSUME UNCHANGED <<yielded, backlog, given, typed>> PROVE SizeInv'
  BY <1>1 DEF SizeInv
<1>2. ASSUME SinkYield PROVE SizeInv'
  <2>1. /\ backlog # <<>> /\ backlog' = Tail(backlog) /\ UNCHANGED <<given, typed>>
        /\ yielded' = Append(yielded, Head(backlog))
    BY <1>2 DEF SinkYield, vars, linesVars, stdinVars
  <2>2. /\ Len(yielded') = Len(yielded) + 1
        /\ Len(backlog') = Len(backlog) - 1 /\ Len(backlog) \in Nat
    BY <1>0, <2>1
  <2>3. Len(yielded') + Len(backlog') = Len(yielded) + Len(backlog)
    BY <1>0, <2>2
  <2> QED
    BY <2>1, <2>3 DEF SizeInv
<1>3. ASSUME NEW t \in Texts, SinkLine(t) PROVE SizeInv'
  <2>1. /\ backlog = <<>> /\ backlog' = Reply[t] /\ UNCHANGED <<yielded, typed>>
        /\ given' = Append(given, t)
    BY <1>3 DEF SinkLine, AwaitsLine, LinesYield, stdinVars
  <2>2. Len(backlog) = 0 /\ Len(given') = Len(given) + 1
    BY <1>0, <2>1
  <2>3. Len(Reply[t]) \in Nat /\ Len(Reply[t]) <= MaxReply /\ MaxReply \in Nat
    BY ReplyAssumption
  <2> DEFINE m == MaxReply * Len(given)
  <2>4. m \in Nat /\ MaxReply * (Len(given) + 1) = m + MaxReply
    BY <1>0, <2>3, Multiples
  <2>5. Len(yielded) + 0 <= m + 1
    BY <2>2 DEF SizeInv
  <2> HIDE DEF m
  <2>6. Len(yielded) + Len(Reply[t]) <= (m + MaxReply) + 1
    BY <1>0, <2>3, <2>4, <2>5
  <2> QED
    BY <2>1, <2>2, <2>4, <2>6 DEF SizeInv
<1>4. ASSUME SinkFail PROVE SizeInv'
  BY <1>1, <1>4 DEF SinkFail, LinesError, stdinVars
<1>5. ASSUME SinkPolls PROVE SizeInv'
  BY <1>1, <1>5, PollLeaves DEF appVars, stdinVars
<1>6. ASSUME SinkEnd PROVE SizeInv'
  BY <1>1, <1>6 DEF SinkEnd, CloseSink, linesVars, stdinVars
<1>7. ASSUME ProxySend PROVE SizeInv'
  BY <1>1, <1>7 DEF ProxySend, SendCommand, linesVars, stdinVars
<1>8. ASSUME RunLoop PROVE SizeInv'
  BY <1>1, <1>8, LoopLeaves DEF RunLoop, linesVars, stdinVars
<1>9. ASSUME User PROVE SizeInv'
  <2>1. UNCHANGED <<yielded, backlog, given>>
    BY <1>9, UserLeaves DEF appVars, linesVars
  <2>2. Len(typed') <= MaxLines
    <3>1. CASE UNCHANGED typed
      BY <3>1 DEF SizeInv
    <3>2. CASE \E t \in Texts : typed' = Append(typed, t) /\ Len(typed) < MaxLines
      <4>1. Len(typed') = Len(typed) + 1
        BY <1>0, <3>2
      <4> QED
        BY <1>0, <3>2, <4>1, BoundsAssumption
    <3> QED
      BY <1>9, <3>1, <3>2, UserLeaves
  <2> QED
    BY <2>1, <2>2 DEF SizeInv
<1>10. CASE UNCHANGED echoVars
  BY <1>1, <1>10 DEF echoVars, vars, linesVars, stdinVars, appVars
<1> QED
  BY <1>2, <1>3, <1>4, <1>5, <1>6, <1>7, <1>8, <1>9, <1>10 DEF EchoNext, Proxy, ProxyReady

\* What is written stays the writes of a first part of the commands.
LEMMA WrittenStep ==
  TypeOK /\ ProxyInv /\ WrittenInv /\ RunningInv' /\ TypeOK' /\ [EchoNext]_echoVars
    => WrittenInv'
<1> SUFFICES ASSUME TypeOK, ProxyInv, WrittenInv, RunningInv', TypeOK', [EchoNext]_echoVars
             PROVE  WrittenInv'
  OBVIOUS
<1> USE DEF sinkVars, stdoutVars, stdinVars, linesVars, appVars
<1>0. sent \in Seq(Commands) /\ Len(sent) \in Nat
  BY DEF TypeOK
<1>1. ASSUME UNCHANGED <<sent, written>> PROVE WrittenInv'
  BY <1>1 DEF WrittenInv, WrittenTo
<1>2. ASSUME ProxySend PROVE WrittenInv'
  <2>1. PICK c \in Commands : sent' = Append(sent, c) /\ written' = written
    BY <1>2 DEF ProxySend, SendCommand, ProxyInv
  <2>2. PICK n \in 0..Len(sent) : WrittenTo(n)
    BY DEF WrittenInv
  <2>3. /\ Len(sent') = Len(sent) + 1
        /\ \A k \in 1..Len(sent) : sent'[k] = sent[k]
    BY <1>0, <2>1, AppendProperties
  <2>4. n \in 0..Len(sent') /\ \A k \in 1..n : k \in 1..Len(sent)
    BY <1>0, <2>3
  <2>5. TextsTo(sent', n) = TextsTo(sent, n)
    BY <1>0, <2>1, <2>4, SentLater
  <2>6. WrittenTo(n)'
    BY <2>1, <2>2, <2>3, <2>4, <2>5 DEF WrittenTo
  <2> QED
    BY <2>4, <2>6 DEF WrittenInv
<1>3. ASSUME RunLoop PROVE WrittenInv'
  <2>1. ASSUME NEW t \in Texts, LoopWrite(t) PROVE WrittenInv'
    <3>1. loop' = "running" /\ UNCHANGED <<sent, inbox>>
      BY <2>1 DEF LoopWrite
    <3> DEFINE b == Before(sent', queue'["run"], inbox')
    <3>2. /\ Rest(sent', queue'["run"], inbox')
          /\ \A k \in 1..b : ~IsExit(sent'[k])
          /\ Lists(written', TextsTo(sent', b))
      BY <3>1 DEF RunningInv
    <3>3. b \in 0..Len(sent')
      <4>1. /\ sent' \in Seq(Commands) /\ queue'["run"] \in Seq(Commands)
            /\ inbox' \in Seq(Commands)
        BY DEF TypeOK, Handles
      <4>2. Len(sent') \in Nat /\ Len(queue'["run"]) \in Nat /\ Len(inbox') \in Nat
        BY <4>1
      <4> QED
        BY <3>2, <4>2 DEF Rest, Before
    <3> HIDE DEF b
    <3>4. PICK n \in 0..Len(sent') : n = b
      BY <3>3
    <3>5. WrittenTo(n)'
      BY <3>2, <3>4 DEF WrittenTo
    <3> QED
      BY <3>5 DEF WrittenInv
  <2>2. ASSUME LoopStep, ~\E t \in Texts : LoopWrite(t) PROVE UNCHANGED <<sent, written>>
    BY <2>2 DEF LoopStep, Pull, LoopFlush, LoopFail, LoopSkip, LoopExit, LoopEnd
  <2> QED
    BY <1>1, <1>3, <2>1, <2>2 DEF RunLoop
<1>4. ASSUME SinkYield PROVE WrittenInv'
  BY <1>1, <1>4 DEF SinkYield, vars
<1>5. ASSUME NEW t \in Texts, SinkLine(t) PROVE WrittenInv'
  BY <1>1, <1>5 DEF SinkLine, LinesYield
<1>6. ASSUME SinkFail PROVE WrittenInv'
  BY <1>1, <1>6 DEF SinkFail, LinesError
<1>7. ASSUME SinkPolls PROVE WrittenInv'
  BY <1>1, <1>7, PollLeaves
<1>8. ASSUME SinkEnd PROVE WrittenInv'
  BY <1>1, <1>8 DEF SinkEnd, CloseSink
<1>9. ASSUME User PROVE WrittenInv'
  BY <1>1, <1>9, UserLeaves
<1>10. CASE UNCHANGED echoVars
  BY <1>1, <1>10 DEF echoVars, vars
<1> QED
  BY <1>2, <1>3, <1>4, <1>5, <1>6, <1>7, <1>8, <1>9, <1>10 DEF EchoNext, Proxy, ProxyReady

-----------------------------------------------------------------------------
(* The invariant.                                                          *)

\* It holds at first.
LEMMA EchoInitial == EchoInit => EchoInv
<1> SUFFICES ASSUME EchoInit PROVE EchoInv
  OBVIOUS
<1>1. IInv
  BY Initial DEF EchoInit
<1>2. <<>> \in Seq(Commands) /\ <<ReadLine>> \in Seq(Commands) /\ ReadLine \in Commands
  BY DEF Commands
<1>3. EchoTypeOK
  BY <1>2 DEF EchoInit, EchoTypeOK
<1>4. ProxyInv
  BY DEF EchoInit, Init, ProxyInv
<1>5. EndInv /\ JoinInv
  BY CodesAssumption DEF EchoInit, Init, EndInv, JoinInv
<1>6. AnswerInv
  <2>1. <<>> \o <<ReadLine>> = <<ReadLine>>
    BY <1>2
  <2> QED
    BY <2>1, AnswersEmpty DEF EchoInit, Init, AnswerInv
<1>7. SizeInv
  <2>1. Len(yielded) = 0 /\ Len(backlog) = 1 /\ Len(given) = 0 /\ Len(typed) = 0
    BY DEF EchoInit, Init
  <2>2. MaxReply * 0 = 0
    BY ReplyAssumption
  <2> QED
    BY <2>1, <2>2, BoundsAssumption DEF SizeInv
<1>8. WrittenInv
  <2>1. Len(sent) = 0 /\ written = <<>> /\ 1..0 = {}
    BY DEF EchoInit, Init
  <2>2. DOMAIN TextsTo(sent, 0) = {}
    BY <2>1 DEF TextsTo
  <2>3. WrittenTo(0)
    BY <2>1, <2>2, ListsEmpty DEF WrittenTo
  <2> QED
    BY <2>1, <2>3 DEF WrittenInv
<1> QED
  BY <1>1, <1>3, <1>4, <1>5, <1>6, <1>7, <1>8 DEF EchoInv

\* The invariant that the theorems rest on.
THEOREM EchoInvariance == EchoSpec => []EchoInv
<1>1. EchoInv /\ [EchoNext]_echoVars => EchoInv'
  <2> SUFFICES ASSUME EchoInv, [EchoNext]_echoVars PROVE EchoInv'
    OBVIOUS
  <2>1. IInv'
    BY EchoMoves, InvariantStep DEF EchoInv
  <2>2. TypeOK /\ TypeOK' /\ RunningInv'
    BY <2>1 DEF EchoInv, IInv
  <2> QED
    BY <2>1, <2>2, EchoTypeStep, ProxyStep, EndStep, JoinStep, AnswerStep, SizeStep, WrittenStep
    DEF EchoInv
<1> QED
  BY EchoInitial, <1>1, PTL DEF EchoSpec

-----------------------------------------------------------------------------
(* What the driver promises holds in the application.                      *)

\* The run loop returns the code of the first Exit among main's commands, and
\* performs those before it (driver.rs:133-168).
THEOREM EchoReturnsFirstExit == EchoSpec => [](FirstExitDecides /\ WritesInOrder)
<1>1. EchoInv => FirstExitDecides /\ WritesInOrder
  BY ExitHolds, WritesHold DEF EchoInv
<1> QED
  BY EchoInvariance, <1>1, PTL

\* One line is read for each ReadLine of main, in the order typed
\* (driver.rs:251-260).
THEOREM EchoReadsOnDemand == EchoSpec => []LinesOnDemand
<1>1. EchoInv => LinesOnDemand
  BY LinesHold DEF EchoInv
<1> QED
  BY EchoInvariance, <1>1, PTL

-----------------------------------------------------------------------------
(* Safety of the application.                                              *)

\* The channel has a receiver as long as the proxy has something to send, though
\* the run loop may have exited, and the run returns Ok only after the end of
\* stdin (run.rs:73-76, 409).
THEOREM HoldsReceiver == EchoSpec => []SinkHoldsReceiver
<1>1. EchoInv => SinkHoldsReceiver
  BY DEF EchoInv, EndInv, JoinInv, SinkHoldsReceiver, ReceiverOpen
<1> QED
  BY EchoInvariance, <1>1, PTL

\* What has been sent, and the texts in it, come first in main's answers.
LEMMA SentAnswers ==
  ASSUME EchoInv
  PROVE  /\ Answers(typed) \in Seq(Commands)
         /\ Len(sent) <= Len(Answers(typed))
         /\ \A i \in 1..Len(sent) : Answers(typed)[i] = sent[i]
         /\ proxy = "ended" /\ given = typed => sent = Answers(typed)
<1>0. /\ sent \in Seq(Commands) /\ given \in Seq(Texts) /\ typed \in Seq(Texts)
      /\ held \in Seq(Commands) /\ backlog \in Seq(Commands)
  BY DEF EchoInv, IInv, TypeOK, EchoTypeOK
<1>1. Answers(typed) \in Seq(Commands) /\ Answers(given) \in Seq(Commands)
  BY <1>0, AnswersAppend
<1>2. Answers(given) = (sent \o held) \o backlog
  BY DEF EchoInv, AnswerInv, ProxyInv
<1>3. PICK u \in Seq(Commands) : Answers(typed) = Answers(given) \o u
  <2>1. Len(given) <= Len(typed) /\ \A i \in 1..Len(given) : given[i] = typed[i]
    BY DEF EchoInv, IInv, ReaderInv
  <2> QED
    BY <1>0, <2>1, AnswersPrefix
<1>4. PICK v \in Seq(Commands) : Answers(typed) = sent \o v
  <2> DEFINE w == Answers(typed)
  <2> DEFINE a == sent
  <2> DEFINE b == held
  <2> DEFINE c == backlog
  <2>1. /\ a \in Seq(Commands) /\ b \in Seq(Commands) /\ c \in Seq(Commands)
        /\ w = ((a \o b) \o c) \o u
    BY <1>0, <1>2, <1>3
  <2> HIDE DEF w, a, b, c
  <2> DEFINE e == a \o b
  <2> DEFINE f == c \o u
  <2>2. e \in Seq(Commands) /\ f \in Seq(Commands)
    BY <2>1, ConcatProperties
  <2>3. /\ a \in Seq(Commands) /\ b \in Seq(Commands)
        /\ c \in Seq(Commands) /\ u \in Seq(Commands)
    BY <2>1
  <2> HIDE DEF e
  <2>4. (e \o c) \o u = e \o f
    BY <2>2, <2>3
  <2> HIDE DEF f
  <2>5. (a \o b) \o f = a \o (b \o f)
    BY <2>2, <2>3
  <2> DEFINE v == b \o f
  <2>6. v \in Seq(Commands)
    BY <2>2, <2>3, ConcatProperties
  <2>7. w = a \o v
    BY <2>1, <2>4, <2>5 DEF e
  <2> HIDE DEF v
  <2>8. \E z \in Seq(Commands) : w = a \o z
    BY <2>6, <2>7
  <2> QED
    BY <2>8 DEF w, a
<1>5. /\ Len(sent) <= Len(Answers(typed))
      /\ \A i \in 1..Len(sent) : Answers(typed)[i] = sent[i]
  <2>1. /\ Len(sent \o v) = Len(sent) + Len(v) /\ Len(sent) \in Nat /\ Len(v) \in Nat
        /\ \A i \in 1..Len(sent) : (sent \o v)[i] = sent[i]
    BY <1>0, <1>4, ConcatProperties
  <2> QED
    BY <1>4, <2>1
<1>6. ASSUME proxy = "ended", given = typed PROVE sent = Answers(typed)
  <2>1. held = <<>> /\ backlog = <<>>
    BY <1>6 DEF EchoInv, ProxyInv, EndInv
  <2>2. sent \o <<>> = sent
    BY <1>0
  <2> QED
    BY <1>2, <1>6, <2>1, <2>2
<1> QED
  BY <1>1, <1>5, <1>6

\* If there is no Exit among the first n commands, there are as many before the
\* first one.
LEMMA ExitLater ==
  ASSUME NEW s \in Seq(Commands), NEW n \in 0..Len(s), \A k \in 1..n : ~IsExit(s[k])
  PROVE  \E m \in n..Len(s) : BeforeExit(s) = SubSeq(s, 1, m)
<1> DEFINE exits == {i \in 1..Len(s) : IsExit(s[i])}
<1>0. Len(s) \in Nat /\ exits \subseteq Nat
  OBVIOUS
<1>1. CASE exits = {}
  <2>1. \A k \in 1..Len(s) : ~IsExit(s[k])
    BY <1>1
  <2>2. BeforeExit(s) = SubSeq(s, 1, Len(s))
    BY <1>0, <2>1, BeforeFirstExit
  <2>3. Len(s) \in n..Len(s)
    BY <1>0
  <2> QED
    BY <2>2, <2>3
<1>2. CASE exits # {}
  <2> HIDE DEF exits
  <2>1. PICK x \in exits : \A y \in exits : x <= y
    BY <1>0, <1>2, LeastNumber
  <2>2. x \in 1..Len(s) /\ IsExit(s[x])
    BY DEF exits
  <2>3. x \notin 1..n
    BY <2>2
  <2> DEFINE m == x - 1
  <2>4. m \in n..Len(s) /\ m \in 0..Len(s) /\ m + 1 = x
    BY <1>0, <2>2, <2>3
  <2>5. \A k \in 1..m : ~IsExit(s[k])
    <3> TAKE k \in 1..m
    <3>1. k \in 1..Len(s) /\ ~(x <= k)
      BY <1>0, <2>2
    <3> QED
      BY <2>1, <3>1 DEF exits
  <2> HIDE DEF m
  <2>6. m # Len(s) => IsExit(s[m + 1])
    BY <2>2, <2>4
  <2>7. BeforeExit(s) = SubSeq(s, 1, m)
    BY <2>4, <2>5, <2>6, BeforeFirstExit
  <2> QED
    BY <2>4, <2>7
<1> QED
  BY <1>1, <1>2

\* A first part of a first part is one of the whole.
LEMMA PartOfPart ==
  ASSUME NEW s \in Seq(Commands), NEW m \in 0..Len(s), NEW n \in 0..m
  PROVE  Len(SubSeq(s, 1, m)) = m /\ SubSeq(SubSeq(s, 1, m), 1, n) = SubSeq(s, 1, n)
<1> DEFINE p == SubSeq(s, 1, m)
<1>1. /\ p \in Seq(Commands) /\ Len(p) = m /\ Len(s) \in Nat
      /\ \A i \in 1..m : p[i] = s[i]
  BY SubSeqProperties
<1>2. n \in 0..Len(s) /\ \A i \in 1..n : i \in 1..m
  BY <1>1
<1> HIDE DEF p
<1>3. /\ SubSeq(p, 1, n) \in Seq(Commands) /\ SubSeq(s, 1, n) \in Seq(Commands)
      /\ Len(SubSeq(p, 1, n)) = n /\ Len(SubSeq(s, 1, n)) = n
      /\ \A i \in 1..n : SubSeq(p, 1, n)[i] = p[i]
      /\ \A i \in 1..n : SubSeq(s, 1, n)[i] = s[i]
  BY <1>1, <1>2, SubSeqProperties
<1>4. SubSeq(p, 1, n) = SubSeq(s, 1, n)
  <2>1. \A i \in 1..n : SubSeq(p, 1, n)[i] = SubSeq(s, 1, n)[i]
    BY <1>1, <1>2, <1>3
  <2> QED
    BY <1>3, <2>1, SeqEqual
<1> QED
  BY <1>1, <1>4 DEF p

\* The texts written are those of a first part of main's answers, up to an Exit,
\* each written once and in order; and all of these when the run returns Ok: a
\* line typed is echoed, even if it was typed ahead of its ReadLine or had to
\* wait for the channel (terminal-echo.rs:43-54).
THEOREM EchoesEveryLine == EchoSpec => []EchoesAll
<1>1. EchoInv => EchoesAll
  <2> SUFFICES ASSUME EchoInv PROVE EchoesAll
    OBVIOUS
  <2> DEFINE a == Answers(typed)
  <2>0. /\ sent \in Seq(Commands) /\ a \in Seq(Commands)
        /\ Len(sent) \in Nat /\ Len(a) \in Nat /\ Len(sent) <= Len(a)
        /\ \A i \in 1..Len(sent) : a[i] = sent[i]
    BY SentAnswers DEF EchoInv, IInv, TypeOK
  <2> HIDE DEF a
  <2>1. PICK n \in 0..Len(sent) : WrittenTo(n)
    BY DEF EchoInv, WrittenInv
  <2>2. /\ n \in 0..Len(a) /\ \A k \in 1..n : ~IsExit(a[k])
        /\ TextsTo(a, n) = TextsTo(sent, n)
    <3>1. n \in 0..Len(a) /\ \A k \in 1..n : a[k] = sent[k]
      BY <2>0
    <3>2. {j \in 1..n : IsWrite(a[j])} = {j \in 1..n : IsWrite(sent[j])}
      BY <3>1
    <3> QED
      BY <2>1, <3>1, <3>2 DEF WrittenTo, TextsTo
  <2>3. PICK m \in n..Len(a) : BeforeExit(a) = SubSeq(a, 1, m)
    BY <2>0, <2>2, ExitLater
  <2>4. n \in 0..m /\ m \in 0..Len(a)
    BY <2>0, <2>2
  <2>5. Len(BeforeExit(a)) = m /\ SubSeq(BeforeExit(a), 1, n) = SubSeq(a, 1, n)
    BY <2>0, <2>3, <2>4, PartOfPart
  <2>6. TextsOf(SubSeq(a, 1, n)) = TextsTo(a, n)
    BY <2>0, <2>2, CountedInPrefix
  <2>7. \E k \in 0..Len(BeforeExit(a)) :
          Lists(written, TextsOf(SubSeq(BeforeExit(a), 1, k)))
    BY <2>1, <2>2, <2>4, <2>5, <2>6 DEF WrittenTo
  <2>8. ASSUME outcome = "ok" PROVE Lists(written, TextsOf(BeforeExit(a)))
    <3>1. loop \in Codes /\ proxy = "ended" /\ given = typed
      BY <2>8 DEF EchoInv, JoinInv, EndInv
    <3>2. sent = a
      BY <3>1, SentAnswers DEF a
    <3> QED
      BY <3>1, <3>2, WritesHold DEF EchoInv, WritesInOrder
  <2> QED
    BY <2>7, <2>8 DEF EchoesAll, a
<1> QED
  BY EchoInvariance, <1>1, PTL

-----------------------------------------------------------------------------
(* The application implements a run of `cyclers::run` with one driver.     *)

\* What is pulled out of the channel comes last in what has been published.
LEMMA PublishedPull ==
  ASSUME NEW S, NEW s \in Seq(S), NEW q \in Seq(S), NEW i \in Seq(S), i # <<>>, Rest(s, q, i)
  PROVE  SubSeq(s, 1, Len(s) - Len(Tail(i))) = Append(SubSeq(s, 1, Len(s) - Len(i)), Head(i))
<1> DEFINE n == Len(s) - Len(i)
<1>1. /\ Len(s) \in Nat /\ Len(q) \in Nat /\ Len(i) \in Nat /\ Len(i) >= 1
      /\ Head(i) \in S /\ Head(i) = i[1] /\ Len(Tail(i)) = Len(i) - 1
  BY HeadTailProperties
<1>2. /\ n \in Nat /\ n + 1 <= Len(s) /\ Len(s) - Len(Tail(i)) = n + 1
      /\ Head(i) = s[n + 1]
  BY <1>1 DEF Rest, Before
<1> HIDE DEF n
<1>3. n \in 0..Len(s) /\ n + 1 \in 0..Len(s)
  BY <1>1, <1>2
<1> DEFINE a == SubSeq(s, 1, n)
<1> DEFINE b == SubSeq(s, 1, n + 1)
<1>4. /\ a \in Seq(S) /\ Len(a) = n /\ \A k \in 1..n : a[k] = s[k]
      /\ b \in Seq(S) /\ Len(b) = n + 1 /\ \A k \in 1..(n + 1) : b[k] = s[k]
  BY <1>3, SubSeqProperties
<1> HIDE DEF a, b
<1> DEFINE c == Append(a, Head(i))
<1>5. /\ c \in Seq(S) /\ Len(c) = n + 1 /\ c[n + 1] = s[n + 1]
      /\ \A k \in 1..n : c[k] = s[k]
  BY <1>1, <1>2, <1>4, AppendProperties
<1> HIDE DEF c
<1>6. ASSUME NEW k \in 1..(n + 1) PROVE b[k] = c[k]
  <2>1. k \in 1..n \/ k = n + 1
    BY <1>2, LastOrBefore
  <2> QED
    BY <2>1, <1>2, <1>4, <1>5
<1>7. b = c
  BY <1>4, <1>5, <1>6, SeqEqual
<1> QED
  BY <1>2, <1>7 DEF a, b, c, n

\* What is sent into an empty channel has not been published.
LEMMA PublishedSend ==
  ASSUME NEW S, NEW s \in Seq(S), NEW c \in S
  PROVE  SubSeq(Append(s, c), 1, Len(Append(s, c)) - Len(<<c>>)) = SubSeq(s, 1, Len(s) - Len(<<>>))
<1> DEFINE n == Len(s)
<1> DEFINE t == Append(s, c)
<1>1. /\ n \in Nat /\ t \in Seq(S) /\ Len(t) = n + 1 /\ \A k \in 1..n : t[k] = s[k]
  BY AppendProperties
<1>2. Len(t) - Len(<<c>>) = n /\ n - Len(<<>>) = n
  BY <1>1
<1>3. n \in 0..n /\ n \in 0..Len(t) /\ n \in 0..Len(s)
  BY <1>1
<1> HIDE DEF t
<1>4. /\ SubSeq(t, 1, n) \in Seq(S) /\ Len(SubSeq(t, 1, n)) = n
      /\ \A k \in 1..n : SubSeq(t, 1, n)[k] = t[k]
      /\ SubSeq(s, 1, n) \in Seq(S) /\ Len(SubSeq(s, 1, n)) = n
      /\ \A k \in 1..n : SubSeq(s, 1, n)[k] = s[k]
  BY <1>1, <1>3, SubSeqProperties
<1>5. SubSeq(t, 1, n) = SubSeq(s, 1, n)
  BY <1>1, <1>4, SeqEqual
<1> QED
  BY <1>2, <1>5 DEF t

\* A function of the one driver.
LEMMA OneDriver ==
  /\ "terminal" \in Terminals
  /\ \A x : PerDriver(x)["terminal"] = x
  /\ \A x, y : [PerDriver(x) EXCEPT !["terminal"] = y] = PerDriver(y)
BY DEF PerDriver, Terminals

\* What is not seen of a step in the run.
LEMMA RunStutters ==
  ASSUME UNCHANGED <<sent, inbox, yielded, held, proxy, loop, outcome>>
  PROVE  UNCHANGED Run!vars
BY DEF Run!vars, Published

\* The sink stream has more to yield only as far as lines were typed.
LEMMA RoomToYield ==
  ASSUME EchoInv, backlog # <<>>
  PROVE  Len(yielded) < MaxReply * MaxLines + 1
<1>1. /\ yielded \in Seq(Commands) /\ backlog \in Seq(Commands)
      /\ Len(yielded) \in Nat /\ Len(backlog) \in Nat /\ Len(given) \in Nat
  BY DEF EchoInv, EchoTypeOK, IInv, TypeOK
<1>2. Len(backlog) # 0
  BY <1>1
<1>3. Len(given) <= MaxLines /\ MaxLines \in Nat /\ MaxReply \in Nat
  <2>1. Len(given) <= Len(typed) /\ Len(typed) <= MaxLines /\ Len(typed) \in Nat
    BY DEF EchoInv, IInv, TypeOK, ReaderInv, SizeInv
  <2> QED
    BY <1>1, <2>1, BoundsAssumption, ReplyAssumption
<1> DEFINE m == MaxReply * Len(given)
<1> DEFINE l == MaxReply * MaxLines
<1>4. m \in Nat /\ l \in Nat /\ m <= l
  BY <1>1, <1>3, Multiples
<1>5. Len(yielded) + Len(backlog) <= m + 1
  BY DEF EchoInv, SizeInv
<1> HIDE DEF m, l
<1>6. Len(yielded) < l + 1
  BY <1>1, <1>2, <1>4, <1>5
<1> QED
  BY <1>6 DEF l

\* A command that a handle of the driver pulls out of the channel is received
\* by the run loop, or by the source within the sink stream.
LEMMA RunReceives ==
  ASSUME EchoInv, outcome = "running", NEW h \in Handles, Pull(h),
         UNCHANGED appVars
  PROVE  Run!Receive("terminal")
<1>1. /\ sent \in Seq(Commands) /\ inbox \in Seq(Commands)
      /\ queue["run"] \in Seq(Commands) /\ queue["lines"] \in Seq(Commands)
  BY DEF EchoInv, IInv, TypeOK, Handles
<1>2. /\ inbox # <<>> /\ inbox' = Tail(inbox) /\ UNCHANGED <<sent, loop>>
      /\ Live(h)
  BY DEF Pull, stdoutVars
<1>3. Rest(sent, queue["run"], inbox) \/ Rest(sent, queue["lines"], inbox)
  BY <1>2 DEF Live, Handles, EchoInv, IInv, RunningInv, ReaderInv
<1>4. Published' = Append(Published, Head(inbox))
  <2>1. SubSeq(sent, 1, Len(sent) - Len(Tail(inbox)))
          = Append(SubSeq(sent, 1, Len(sent) - Len(inbox)), Head(inbox))
    BY <1>1, <1>2, <1>3, PublishedPull
  <2> QED
    BY <1>2, <2>1 DEF Published
<1>5. UNCHANGED <<yielded, held, proxy, outcome>>
  BY DEF appVars
<1> QED
  BY <1>2, <1>4, <1>5, OneDriver DEF Run!Receive

\* Every step of the application is one of the run.
LEMMA RunStep == EchoInv /\ EchoInv' /\ [EchoNext]_echoVars => [Run!Next]_Run!vars
<1> SUFFICES ASSUME EchoInv, EchoInv', [EchoNext]_echoVars PROVE [Run!Next]_Run!vars
  OBVIOUS
<1> USE DEF sinkVars, stdoutVars, stdinVars, linesVars, appVars
<1>1. ASSUME SinkYield, outcome = "running" PROVE [Run!Next]_Run!vars
  <2> DEFINE x == Head(backlog)
  <2>1. /\ proxy = "next" /\ proxy' = "reserve" /\ backlog # <<>>
        /\ yielded' = Append(yielded, x) /\ held' = <<x>>
        /\ UNCHANGED <<sent, inbox, loop, outcome>>
    BY <1>1 DEF SinkYield, vars
  <2>2. x \in Commands
    BY <2>1, HeadTailProperties DEF EchoInv, EchoTypeOK
  <2>3. Append(held, x) = <<x>>
    BY <2>1, <2>2 DEF EchoInv, ProxyInv
  <2>4. Len(yielded) < MaxReply * MaxLines + 1
    BY <2>1, RoomToYield
  <2>5. Published' = Published
    BY <2>1 DEF Published
  <2> HIDE DEF x
  <2>6. Run!SinkYield("terminal", x)
    BY <1>1, <2>1, <2>3, <2>4, <2>5, OneDriver DEF Run!SinkYield
  <2> QED
    BY <2>2, <2>6, OneDriver DEF Run!Next, Run!SinkReady
<1>2. ASSUME NEW t \in Texts, SinkLine(t) PROVE [Run!Next]_Run!vars
  BY <1>2, RunStutters DEF SinkLine, LinesYield
<1>3. ASSUME SinkFail, outcome = "running" PROVE [Run!Next]_Run!vars
  <2>1. Run!SinkFail("terminal")
    BY <1>3, OneDriver DEF SinkFail, AwaitsLine, LinesError, Published, Run!SinkFail
  <2> QED
    BY <2>1, OneDriver DEF Run!Next, Run!SinkReady
<1>4. ASSUME SinkPolls, outcome = "running" PROVE [Run!Next]_Run!vars
  <2>1. CASE Pull("lines")
    <3>1. Run!Receive("terminal")
      BY <1>4, <2>1, RunReceives DEF SinkPolls, Handles
    <3>2. Run!SourceTake("terminal", "terminal")
      BY <1>4, <3>1, OneDriver DEF SinkPolls, AwaitsLine, Run!SourceTake
    <3> QED
      BY <3>2, OneDriver DEF Run!Next
  <2>2. CASE ~Pull("lines")
    BY <1>4, <2>2, PollLeaves, RunStutters
  <2> QED
    BY <2>1, <2>2
<1>5. ASSUME SinkEnd, outcome = "running" PROVE [Run!Next]_Run!vars
  <2>1. /\ proxy = "next" /\ proxy' = "ended" /\ outcome' = Joined("ended", loop)
        /\ UNCHANGED <<sent, inbox, loop, yielded, held>>
    BY <1>5 DEF SinkEnd, AwaitsLine, CloseSink
  <2>2. Published' = Published
    BY <2>1 DEF Published
  <2>3. Run!SinkEnd("terminal")
    BY <1>5, <2>1, <2>2, OneDriver
    DEF Run!SinkEnd, Run!Joined, Run!Over, Joined, Terminals, PerDriver
  <2> QED
    BY <2>3, OneDriver DEF Run!Next, Run!SinkReady
<1>6. ASSUME ProxySend, outcome = "running" PROVE [Run!Next]_Run!vars
  <2>1. /\ proxy = "reserve" /\ proxy' = "next" /\ ReceiverOpen /\ inbox = <<>>
        /\ sent' = Append(sent, held[1]) /\ inbox' = Append(inbox, held[1]) /\ held' = <<>>
        /\ UNCHANGED <<loop, yielded, outcome>>
    BY <1>6 DEF ProxySend, SendCommand
  <2>2. PICK c \in Commands : held = <<c>>
    BY <2>1 DEF EchoInv, ProxyInv
  <2>3. inbox' = <<c>> /\ inbox' = inbox \o held /\ sent' = Append(sent, c)
    BY <2>1, <2>2
  <2>4. Published' = Published
    <3>1. sent \in Seq(Commands)
      BY DEF EchoInv, IInv, TypeOK
    <3> QED
      BY <2>1, <2>3, <3>1, PublishedSend DEF Published
  <2>5. Run!ReceiverOpen("terminal")
    BY <2>1, OneDriver, CodesAssumption DEF ReceiverOpen, Run!ReceiverOpen, Run!Over
  <2>6. Len(inbox) < 1
    BY <2>1
  <2>7. Run!ProxySend("terminal")
    BY <1>6, <2>1, <2>3, <2>4, <2>5, <2>6, OneDriver DEF Run!ProxySend
  <2> QED
    BY <2>7, OneDriver DEF Run!Next
<1>7. ASSUME RunLoop, outcome = "running" PROVE [Run!Next]_Run!vars
  <2>1. /\ LoopStep /\ UNCHANGED <<sent, yielded, held, proxy>> /\ loop = "running"
        /\ Pull("run") \/ UNCHANGED inbox
        /\ outcome' = IF loop' = "failed" THEN "err" ELSE Joined(proxy, loop')
    BY <1>7, LoopLeaves DEF RunLoop
  <2>2. loop' \in {"running", "failed"} \cup Codes
    BY DEF EchoInv, IInv, TypeOK
  <2>3. CASE Pull("run")
    <3>1. loop' = "running" /\ outcome' = "running"
      BY <2>1, <2>3, CodesAssumption DEF Pull, Joined
    <3>2. Run!Receive("terminal")
      BY <1>7, <2>1, <2>3, <3>1, RunReceives DEF Handles, RunLoop
    <3>3. Run!RunLoopTake("terminal")
      BY <2>1, <3>2, OneDriver, CodesAssumption DEF Run!RunLoopTake
    <3> QED
      BY <3>3, OneDriver DEF Run!Next
  <2>4. CASE UNCHANGED inbox
    <3>0. Published' = Published
      BY <2>1, <2>4 DEF Published
    <3>1. CASE loop' = "running"
      BY <1>7, <2>1, <2>4, <3>1, RunStutters, CodesAssumption DEF Joined
    <3>2. CASE loop' = "failed"
      <4>1. Run!DriverFail("terminal")
        BY <1>7, <2>1, <2>4, <3>0, <3>2, OneDriver, CodesAssumption
        DEF Run!DriverFail, Run!Alive
      <4> QED
        BY <4>1, OneDriver DEF Run!Next
    <3>3. CASE loop' \in Codes
      <4>1. Run!Alive("terminal") /\ Run!Tagged("terminal") = Terminals
        BY <2>1, OneDriver, CodesAssumption DEF Run!Alive, Run!Tagged, Terminals
      <4>2. outcome' = IF proxy = "ended" THEN "ok" ELSE "running"
        BY <2>1, <3>3, CodesAssumption DEF Joined
      <4>3. proxy # "disconnected"
        BY DEF EchoInv, EchoTypeOK
      <4>4. outcome' = Run!Joined(PerDriver(proxy), Terminals)
        BY <4>2, <4>3 DEF Run!Joined, Run!Over, Terminals, PerDriver
      <4>5. PerDriver("exited") = [e \in Terminals |->
                IF e = "terminal" THEN "exited"
                ELSE IF Run!Tagged("terminal") # {} /\ Run!Alive(e) THEN "dropped"
                ELSE PerDriver(IF loop \in Codes THEN "exited" ELSE loop)[e]]
        BY DEF Terminals, PerDriver
      <4>6. Terminals # {}
        BY OneDriver
      <4>7. Run!DriverExit("terminal")
        BY <1>7, <2>1, <2>4, <3>0, <3>3, <4>1, <4>4, <4>5, <4>6 DEF Run!DriverExit
      <4> QED
        BY <4>7, OneDriver DEF Run!Next
    <3> QED
      BY <2>2, <3>1, <3>2, <3>3
  <2> QED
    BY <2>1, <2>3, <2>4
<1>8. ASSUME User PROVE [Run!Next]_Run!vars
  BY <1>8, UserLeaves, RunStutters
<1>9. CASE UNCHANGED echoVars
  BY <1>9, RunStutters DEF echoVars, vars
<1> QED
  BY <1>1, <1>2, <1>3, <1>4, <1>5, <1>6, <1>7, <1>8, <1>9 DEF EchoNext, Proxy, ProxyReady

\* The application is a run of `cyclers::run`: its one proxy awaits, sends and
\* ends as the proxies of the run do, `lines` polls the receiving end from
\* within the sink stream, and both are joined (run.rs:392-420, 553-573).
THEOREM EchoImplements == EchoSpec => RunsOnCyclers
<1>1. EchoInit => Run!Init
  <2> SUFFICES ASSUME EchoInit PROVE Run!Init
    OBVIOUS
  <2>1. /\ yielded = <<>> /\ held = <<>> /\ inbox = <<>> /\ sent = <<>>
        /\ proxy = "next" /\ loop = "running" /\ outcome = "running"
    BY DEF EchoInit, Init
  <2>2. SubSeq(<<>>, 1, Len(<<>>) - Len(<<>>)) = <<>>
    OBVIOUS
  <2>3. Published = <<>> /\ loop \notin Codes
    BY <2>1, <2>2, CodesAssumption DEF Published
  <2> QED
    BY <2>1, <2>3 DEF Run!Init, PerDriver
<1>2. EchoInv /\ EchoInv' /\ [EchoNext]_echoVars => [Run!Next]_Run!vars
  BY RunStep
<1> QED
  BY <1>1, <1>2, EchoInvariance, PTL DEF EchoSpec, RunsOnCyclers, Run!Spec

-----------------------------------------------------------------------------
(* What is proved of every run of `cyclers::run` therefore holds of this one: *)
(* the theorems of CyclersRunProofs, under the substitution of `Run`.         *)

RunProofs == INSTANCE CyclersRunProofs WITH
  Drivers <- Terminals,
  First <- "terminal",
  Items <- Commands,
  Holds <- PerDriver(Terminals),
  Attentive <- {},
  SINK_PROXY_BUFFER_LEN <- 1,
  MaxItems <- MaxReply * MaxLines + 1,
  yielded <- PerDriver(yielded),
  held <- PerDriver(held),
  channel <- PerDriver(inbox),
  taken <- PerDriver(Published),
  proxy <- PerDriver(proxy),
  driver <- PerDriver(IF loop \in Codes THEN "exited" ELSE loop),
  termination <- IF loop \in Codes THEN Terminals ELSE {},
  outcome <- outcome

\* `run` keeps the promise of Wiring to the application: what main commands
\* reaches the driver unchanged, in order and at most two commands late, and
\* `run` returns only for an error, or when the driver has exited and the proxy
\* is over (run.rs:392-420, 553-590).
THEOREM EchoKeepsPromise == EchoSpec => RunProofs!KeepsPromise
<1>1. /\ "terminal" \in Terminals /\ {} \subseteq Terminals
      /\ PerDriver(Terminals) \in [Terminals -> SUBSET Terminals]
      /\ 1 \in Nat \ {0} /\ MaxReply * MaxLines + 1 \in Nat
  BY BoundsAssumption, ReplyAssumption DEF PerDriver, Terminals
<1>2. RunProofs!Spec => RunProofs!KeepsPromise
  BY <1>1, RunProofs!Implements
<1>3. Run!Init => RunProofs!Init
  BY DEF Run!Init, RunProofs!Init
<1>4. [Run!Next]_Run!vars => [RunProofs!Next]_RunProofs!vars
  BY DEF Run!Next, Run!vars, Run!SinkReady, Run!SinkYield, Run!SinkFail, Run!SinkEnd,
         Run!ProxySend, Run!ProxyDisconnected, Run!RunLoopTake, Run!SourceTake,
         Run!Receive, Run!DropSink, Run!DriverExit, Run!DriverFail, Run!Joined,
         Run!Over, Run!Tagged, Run!Alive, Run!ReceiverOpen,
         RunProofs!Next, RunProofs!vars, RunProofs!SinkReady, RunProofs!SinkYield,
         RunProofs!SinkFail, RunProofs!SinkEnd, RunProofs!ProxySend,
         RunProofs!ProxyDisconnected, RunProofs!RunLoopTake, RunProofs!SourceTake,
         RunProofs!Receive, RunProofs!DropSink, RunProofs!DriverExit,
         RunProofs!DriverFail, RunProofs!Joined, RunProofs!Over, RunProofs!Tagged,
         RunProofs!Alive, RunProofs!ReceiverOpen
<1> QED
  BY <1>2, <1>3, <1>4, EchoImplements, PTL DEF RunsOnCyclers, Run!Spec, RunProofs!Spec
=============================================================================
