--------------------------- MODULE TerminalProofs ---------------------------
(***************************************************************************)
(* Proofs about Terminal, for any texts, any exit codes and any bounds.    *)
(*                                                                         *)
(* None of the properties is inductive.  RunningInv says that what is      *)
(* published to the run loop and what is in the channel is the rest of the *)
(* sink, that none of the commands before that rest is an Exit, and that   *)
(* their writes are what has been written.  ReturnedInv is what the last   *)
(* step of the run loop makes of it, and stays true of whatever the sink   *)
(* sends afterwards.  ReaderInv is the like for `lines`, which counts the  *)
(* ReadLine commands before its rest against the lines it has yielded.     *)
(***************************************************************************)
EXTENDS Terminal, SequenceLemmas, SequenceTheorems, FiniteSetTheorems, TLAPS

\* What the first n commands of s are made of, as far as it is counted.
TextsTo(s, n) == [i \in {j \in 1..n : IsWrite(s[j])} |-> s[i].arg]
ReadsTo(s, n) == {i \in 1..n : IsReadLine(s[i])}

\* The run loop has taken no Exit, has performed every write that it has
\* taken, and has the rest of the sink ahead of it.
RunningInv ==
  loop = "running" =>
    /\ Rest(sent, queue["run"], inbox)
    /\ \A k \in 1..Before(sent, queue["run"], inbox) : ~IsExit(sent[k])
    /\ Lists(written, TextsTo(sent, Before(sent, queue["run"], inbox)))

\* The run loop has returned at the first Exit, or at the end of the sink, and
\* had performed every write before that.
ReturnedAt(m) ==
  /\ \A k \in 1..m : ~IsExit(sent[k])
  /\ Lists(written, TextsTo(sent, m))
  /\ IF m = Len(sent) THEN closed /\ loop = SUCCESS ELSE sent[m + 1] = Exit(loop)

ReturnedInv == loop \in Codes => \E m \in 0..Len(sent) : ReturnedAt(m)

\* The lines yielded are those typed first; `lines` has the rest of the sink
\* ahead of it, and has yielded a line or an error for each ReadLine before
\* that, up to the one that it is reading for.
ReaderInv ==
  /\ Len(given) <= Len(typed)
  /\ \A k \in 1..Len(given) : given[k] = typed[k]
  /\ reader # "over" => Rest(sent, queue["lines"], inbox)
  /\ reader = "command" =>
       Cardinality(ReadsTo(sent, Before(sent, queue["lines"], inbox)))
         = Len(given) + errors
  /\ reader = "line" =>
       Cardinality(ReadsTo(sent, Before(sent, queue["lines"], inbox)))
         = Len(given) + errors + 1

IInv == TypeOK /\ RunningInv /\ ReturnedInv /\ ReaderInv

\* A step of the driver with any sink, which need not be within the bound that
\* Next puts on what is sent.
Move == \/ LoopStep
        \/ LinesStep
        \/ \E c \in Commands : SendCommand(c)
        \/ CloseSink
        \/ \E t \in Texts : Type(t)
        \/ CloseStdin

-----------------------------------------------------------------------------
(* Typing.                                                                 *)

\* What a handle takes is a command, and what is left are commands.
LEMMA TakeQueue ==
  ASSUME queue \in [Handles -> Seq(Commands)], NEW h \in Handles, NEW c, Take(h, c)
  PROVE  /\ c \in Commands /\ queue' \in [Handles -> Seq(Commands)]
         /\ queue[h] # <<>> /\ c = Head(queue[h]) /\ queue'[h] = Tail(queue[h])
         /\ \A g \in Handles : g # h => queue'[g] = queue[g]
<1>1. queue[h] \in Seq(Commands) /\ queue[h] # <<>>
  BY DEF Take
<1>2. Head(queue[h]) \in Commands /\ Tail(queue[h]) \in Seq(Commands)
  BY <1>1, HeadTailProperties
<1> QED
  BY <1>1, <1>2 DEF Take

\* Every step keeps the types.
LEMMA TypingStep == TypeOK /\ [Move]_vars => TypeOK'
<1> SUFFICES ASSUME TypeOK, [Move]_vars PROVE TypeOK'
  OBVIOUS
<1> USE DEF TypeOK, sinkVars, stdoutVars, stdinVars, linesVars
<1>0. "run" \in Handles /\ "lines" \in Handles
  BY DEF Handles
<1>1. ASSUME NEW h \in Handles, Pull(h) PROVE TypeOK'
  <2>1. Head(inbox) \in Commands /\ Tail(inbox) \in Seq(Commands)
    BY <1>1, HeadTailProperties DEF Pull
  <2> QED
    BY <1>1, <2>1 DEF Pull
<1>2. ASSUME NEW t \in Texts, LoopWrite(t) PROVE TypeOK'
  <2>1. written' \in Seq(Texts) /\ Len(written') = Len(written) + 1 /\ flushed' = flushed
    BY <1>2, AppendProperties DEF LoopWrite
  <2>2. Len(written) \in Nat
    OBVIOUS
  <2>3. flushed' \in 0..Len(written')
    BY <2>1, <2>2
  <2>4. queue' \in [Handles -> Seq(Commands)]
    BY <1>2, <1>0, TakeQueue DEF LoopWrite
  <2> QED
    BY <1>2, <2>1, <2>3, <2>4 DEF LoopWrite
<1>3. ASSUME LoopFlush PROVE TypeOK'
  <2>1. queue' \in [Handles -> Seq(Commands)]
    BY <1>3, <1>0, TakeQueue DEF LoopFlush
  <2>2. Len(written) \in Nat /\ flushed' = Len(written) /\ written' = written
    BY <1>3 DEF LoopFlush
  <2>3. flushed' \in 0..Len(written')
    BY <2>2
  <2> QED
    BY <1>3, <2>1, <2>2, <2>3 DEF LoopFlush
<1>4. ASSUME LoopFail PROVE TypeOK'
  <2>1. queue' \in [Handles -> Seq(Commands)]
    BY <1>4, <1>0, TakeQueue DEF LoopFail
  <2> QED
    BY <1>4, <2>1 DEF LoopFail
<1>5. ASSUME LoopSkip PROVE TypeOK'
  <2>1. queue' \in [Handles -> Seq(Commands)]
    BY <1>5, <1>0, TakeQueue DEF LoopSkip
  <2> QED
    BY <1>5, <2>1 DEF LoopSkip
<1>6. ASSUME NEW x \in Codes, LoopExit(x) PROVE TypeOK'
  <2>1. queue' \in [Handles -> Seq(Commands)]
    BY <1>6, <1>0, TakeQueue DEF LoopExit
  <2> QED
    BY <1>6, <2>1 DEF LoopExit
<1>7. ASSUME LoopEnd PROVE TypeOK'
  BY <1>7, CodesAssumption DEF LoopEnd
<1>8. ASSUME LinesSkip PROVE TypeOK'
  <2>1. queue' \in [Handles -> Seq(Commands)]
    BY <1>8, <1>0, TakeQueue DEF LinesSkip
  <2> QED
    BY <1>8, <2>1 DEF LinesSkip
<1>9. ASSUME LinesCommand PROVE TypeOK'
  <2>1. queue' \in [Handles -> Seq(Commands)]
    BY <1>9, <1>0, TakeQueue DEF LinesCommand
  <2> QED
    BY <1>9, <2>1 DEF LinesCommand
<1>10. ASSUME NEW t \in Texts, LinesYield(t) PROVE TypeOK'
  BY <1>10 DEF LinesYield
<1>11. ASSUME LinesError PROVE TypeOK'
  BY <1>11 DEF LinesError
<1>12. ASSUME LinesEnd PROVE TypeOK'
  BY <1>12 DEF LinesEnd
<1>13. ASSUME NEW c \in Commands, SendCommand(c) PROVE TypeOK'
  BY <1>13 DEF SendCommand
<1>14. ASSUME CloseSink PROVE TypeOK'
  BY <1>14 DEF CloseSink
<1>15. ASSUME NEW t \in Texts, Type(t) PROVE TypeOK'
  BY <1>15 DEF Type
<1>16. ASSUME CloseStdin PROVE TypeOK'
  BY <1>16 DEF CloseStdin
<1>17. CASE UNCHANGED vars
  BY <1>17 DEF vars
<1> HIDE DEF TypeOK, sinkVars, stdoutVars, stdinVars, linesVars
<1> QED
  BY <1>1, <1>2, <1>3, <1>4, <1>5, <1>6, <1>7, <1>8, <1>9, <1>10, <1>11, <1>12, <1>13,
     <1>14, <1>15, <1>16, <1>17, <1>0
  DEF Move, LoopStep, LinesStep

-----------------------------------------------------------------------------
(* The run loop that runs.                                                 *)

\* What the filters tell of a command.
LEMMA CommandKinds ==
  /\ \A t \in Texts : /\ ~IsExit(Write(t)) /\ ~IsReadLine(Write(t))
                     /\ IsWrite(Write(t)) /\ Write(t).arg = t
  /\ \A x \in Codes : IsExit(Exit(x)) /\ ~IsReadLine(Exit(x)) /\ ~IsWrite(Exit(x))
  /\ ~IsExit(Flush) /\ ~IsReadLine(Flush) /\ ~IsWrite(Flush)
  /\ ~IsExit(ReadLine) /\ IsReadLine(ReadLine) /\ ~IsWrite(ReadLine)
BY DEF IsExit, IsWrite, IsReadLine, Write, Exit, Flush, ReadLine

\* A command that is not ReadLine is passed over by the filter of `lines`.
LEMMA OtherCommands ==
  ASSUME NEW c \in Commands \ {ReadLine}
  PROVE  ~IsReadLine(c)
BY CommandKinds DEF Commands

\* One more command, a write or another, before the rest.
LEMMA TextsNext ==
  ASSUME NEW s, NEW n \in Nat, NEW t \in Seq(Texts), Lists(t, TextsTo(s, n))
  PROVE  /\ \A x \in Texts : s[n + 1] = Write(x) => Lists(Append(t, x), TextsTo(s, n + 1))
         /\ ~IsWrite(s[n + 1]) => Lists(t, TextsTo(s, n + 1))
<1> DEFINE f == TextsTo(s, n)
<1> DEFINE g == TextsTo(s, n + 1)
<1>1. 1..(n + 1) = 1..n \cup {n + 1}
  OBVIOUS
<1>2. DOMAIN f \subseteq 1..n /\ \A i \in DOMAIN f : g[i] = f[i]
  BY <1>1 DEF TextsTo
<1>3. ASSUME NEW x \in Texts, s[n + 1] = Write(x) PROVE Lists(Append(t, x), g)
  <2>1. IsWrite(s[n + 1]) /\ s[n + 1].arg = x
    BY <1>3, CommandKinds
  <2> DEFINE k == n + 1
  <2>2. g = WithOne(f, k, x)
    <3>1. DOMAIN g = DOMAIN f \cup {k} /\ g[k] = x
      BY <1>1, <2>1 DEF TextsTo
    <3> QED
      BY <1>2, <3>1 DEF TextsTo, WithOne
  <2>3. n \in Int /\ k \in Int /\ n < k /\ Lists(t, f)
    OBVIOUS
  <2> HIDE DEF f, g, k
  <2> QED
    BY <1>2, <2>2, <2>3, ListsAppend
<1>4. ASSUME ~IsWrite(s[n + 1]) PROVE g = f
  <2>1. {j \in 1..(n + 1) : IsWrite(s[j])} = {j \in 1..n : IsWrite(s[j])}
    BY <1>1, <1>4
  <2> QED
    BY <2>1 DEF TextsTo
<1> QED
  BY <1>3, <1>4

\* One more command, a ReadLine or another, before the rest.
LEMMA ReadsNext ==
  ASSUME NEW s, NEW n \in Nat
  PROVE  /\ Cardinality(ReadsTo(s, n)) \in Nat
         /\ IsReadLine(s[n + 1]) =>
              Cardinality(ReadsTo(s, n + 1)) = Cardinality(ReadsTo(s, n)) + 1
         /\ ~IsReadLine(s[n + 1]) => ReadsTo(s, n + 1) = ReadsTo(s, n)
<1>1. 1..(n + 1) = 1..n \cup {n + 1} /\ n \in Int /\ n + 1 \in Int /\ n < n + 1
  OBVIOUS
<1>2. ReadsTo(s, n) \subseteq 1..n
  BY DEF ReadsTo
<1>3. ASSUME IsReadLine(s[n + 1]) PROVE ReadsTo(s, n + 1) = ReadsTo(s, n) \cup {n + 1}
  BY <1>1, <1>3 DEF ReadsTo
<1>4. ASSUME ~IsReadLine(s[n + 1]) PROVE ReadsTo(s, n + 1) = ReadsTo(s, n)
  BY <1>1, <1>4 DEF ReadsTo
<1>5. Cardinality(ReadsTo(s, n) \cup {n + 1}) = Cardinality(ReadsTo(s, n)) + 1
  BY <1>1, <1>2, PositionsAdd
<1> QED
  BY <1>1, <1>2, <1>3, <1>4, <1>5, PositionsFinite

\* What is sent later is not among the first n commands.
LEMMA SentLater ==
  ASSUME NEW s \in Seq(Commands), NEW c \in Commands, NEW n, \A k \in 1..n : k \in 1..Len(s)
  PROVE  /\ TextsTo(Append(s, c), n) = TextsTo(s, n)
         /\ ReadsTo(Append(s, c), n) = ReadsTo(s, n)
<1>1. \A i \in 1..n : Append(s, c)[i] = s[i]
  BY AppendProperties
<1>2. {j \in 1..n : IsWrite(Append(s, c)[j])} = {j \in 1..n : IsWrite(s[j])}
  BY <1>1
<1> QED
  BY <1>1, <1>2 DEF TextsTo, ReadsTo

\* The run loop goes past a command that is not an Exit, and what it is a Write
\* of has been written.
LEMMA Passes ==
  ASSUME TypeOK, RunningInv, loop = "running", NEW c, Take("run", c), ~IsExit(c),
         UNCHANGED <<sent, inbox>>,
         \/ ~IsWrite(c) /\ written' = written
         \/ \E t \in Texts : c = Write(t) /\ written' = Append(written, t)
  PROVE  RunningInv'
<1>1. /\ sent \in Seq(Commands) /\ inbox \in Seq(Commands)
      /\ queue \in [Handles -> Seq(Commands)] /\ "run" \in Handles
      /\ written \in Seq(Texts)
  BY DEF TypeOK, Handles
<1>2. /\ queue["run"] \in Seq(Commands) /\ queue["run"] # <<>>
      /\ c = Head(queue["run"]) /\ queue'["run"] = Tail(queue["run"])
  BY <1>1, TakeQueue
<1> DEFINE n == Before(sent, queue["run"], inbox)
<1>3. /\ Rest(sent, queue["run"], inbox) /\ \A k \in 1..n : ~IsExit(sent[k])
      /\ Lists(written, TextsTo(sent, n))
  BY DEF RunningInv
<1>4. /\ Rest(sent, queue'["run"], inbox)
      /\ Before(sent, queue'["run"], inbox) = n + 1
      /\ sent[n + 1] = c
  BY <1>1, <1>2, <1>3, RestTake
<1>5. n \in Nat
  BY <1>3 DEF Rest
<1> HIDE DEF n
<1>6. ASSUME NEW k \in 1..(n + 1) PROVE ~IsExit(sent[k])
  <2>1. k \in 1..n \/ k = n + 1
    BY <1>5, LastOrBefore
  <2> QED
    BY <2>1, <1>3, <1>4
<1>7. Lists(written', TextsTo(sent, n + 1))
  BY <1>1, <1>3, <1>4, <1>5, TextsNext
<1> QED
  BY <1>4, <1>6, <1>7 DEF RunningInv

\* Every step keeps the rest of the sink ahead of the run loop.
LEMMA RunningStep == TypeOK /\ RunningInv /\ [Move]_vars => RunningInv'
<1> SUFFICES ASSUME TypeOK, RunningInv, [Move]_vars PROVE RunningInv'
  OBVIOUS
<1> USE DEF sinkVars, stdoutVars, stdinVars, linesVars
<1>0. /\ sent \in Seq(Commands) /\ inbox \in Seq(Commands)
      /\ queue \in [Handles -> Seq(Commands)]
      /\ "run" \in Handles /\ "lines" \in Handles /\ queue["run"] \in Seq(Commands)
  BY DEF TypeOK, Handles
<1>1. ASSUME NEW h \in Handles, Pull(h) PROVE RunningInv'
  <2>1. inbox # <<>> /\ inbox' = Tail(inbox) /\ UNCHANGED <<sent, loop, written>>
    BY <1>1 DEF Pull
  <2>2. ASSUME loop = "running"
        PROVE  /\ Rest(sent, queue'["run"], Tail(inbox))
               /\ Before(sent, queue'["run"], Tail(inbox)) = Before(sent, queue["run"], inbox)
    <3>1. queue'["run"] = Append(queue["run"], Head(inbox))
      BY <1>1, <1>0, <2>2 DEF Pull, Live
    <3>2. Rest(sent, queue["run"], inbox)
      BY <2>2 DEF RunningInv
    <3> QED
      BY <1>0, <2>1, <3>1, <3>2, RestPull
  <2> QED
    BY <2>1, <2>2 DEF RunningInv
<1>2. ASSUME NEW t \in Texts, LoopWrite(t) PROVE RunningInv'
  BY <1>2, Passes, CommandKinds DEF LoopWrite
<1>3. ASSUME LoopFlush PROVE RunningInv'
  BY <1>3, Passes, CommandKinds DEF LoopFlush
<1>4. ASSUME LoopFail PROVE RunningInv'
  BY <1>4, CodesAssumption DEF LoopFail, RunningInv
<1>5. ASSUME LoopSkip PROVE RunningInv'
  BY <1>5, Passes, CommandKinds DEF LoopSkip
<1>6. ASSUME NEW x \in Codes, LoopExit(x) PROVE RunningInv'
  BY <1>6, CodesAssumption DEF LoopExit, RunningInv
<1>7. ASSUME LoopEnd PROVE RunningInv'
  BY <1>7, CodesAssumption DEF LoopEnd, RunningInv
<1>8. ASSUME LinesSkip PROVE RunningInv'
  <2>1. queue'["run"] = queue["run"]
    BY <1>8, <1>0, TakeQueue DEF LinesSkip
  <2> QED
    BY <1>8, <2>1 DEF LinesSkip, RunningInv
<1>9. ASSUME LinesCommand PROVE RunningInv'
  <2>1. queue'["run"] = queue["run"]
    BY <1>9, <1>0, TakeQueue DEF LinesCommand
  <2> QED
    BY <1>9, <2>1 DEF LinesCommand, RunningInv
<1>10. ASSUME NEW t \in Texts, LinesYield(t) PROVE RunningInv'
  BY <1>10 DEF LinesYield, RunningInv
<1>11. ASSUME LinesError PROVE RunningInv'
  BY <1>11 DEF LinesError, RunningInv
<1>12. ASSUME LinesEnd PROVE RunningInv'
  BY <1>12 DEF LinesEnd, RunningInv
<1>13. ASSUME NEW c \in Commands, SendCommand(c) PROVE RunningInv'
  <2>1. /\ sent' = Append(sent, c) /\ inbox' = Append(inbox, c)
        /\ UNCHANGED <<queue, loop, written>>
    BY <1>13 DEF SendCommand
  <2>2. ASSUME loop = "running"
        PROVE  /\ Rest(sent', queue["run"], inbox')
               /\ Before(sent', queue["run"], inbox') = Before(sent, queue["run"], inbox)
               /\ \A k \in 1..Before(sent, queue["run"], inbox) : ~IsExit(sent'[k])
               /\ TextsTo(sent', Before(sent, queue["run"], inbox))
                    = TextsTo(sent, Before(sent, queue["run"], inbox))
    <3>1. Rest(sent, queue["run"], inbox)
      BY <2>2 DEF RunningInv
    <3>2. /\ Rest(sent', queue["run"], inbox')
          /\ Before(sent', queue["run"], inbox') = Before(sent, queue["run"], inbox)
      BY <1>0, <2>1, <3>1, RestSend
    <3>3. \A k \in 1..Before(sent, queue["run"], inbox) : k \in 1..Len(sent)
      BY <1>0, <3>1, BeforeWithin
    <3>4. \A k \in 1..Len(sent) : sent'[k] = sent[k]
      BY <1>0, <2>1, AppendProperties
    <3>5. TextsTo(sent', Before(sent, queue["run"], inbox))
            = TextsTo(sent, Before(sent, queue["run"], inbox))
      BY <1>0, <2>1, <3>3, SentLater
    <3> QED
      BY <2>2, <3>2, <3>3, <3>4, <3>5 DEF RunningInv
  <2> QED
    BY <2>1, <2>2 DEF RunningInv
<1>14. ASSUME CloseSink PROVE RunningInv'
  BY <1>14 DEF CloseSink, RunningInv
<1>15. ASSUME NEW t \in Texts, Type(t) PROVE RunningInv'
  BY <1>15 DEF Type, RunningInv
<1>16. ASSUME CloseStdin PROVE RunningInv'
  BY <1>16 DEF CloseStdin, RunningInv
<1>17. CASE UNCHANGED vars
  BY <1>17 DEF vars, RunningInv
<1> HIDE DEF sinkVars, stdoutVars, stdinVars, linesVars
<1> QED
  BY <1>1, <1>2, <1>3, <1>4, <1>5, <1>6, <1>7, <1>8, <1>9, <1>10, <1>11, <1>12, <1>13,
     <1>14, <1>15, <1>16, <1>17, <1>0
  DEF Move, LoopStep, LinesStep

-----------------------------------------------------------------------------
(* The run loop that has returned.                                         *)

\* Nothing changes of what ReturnedInv is about.
LEMMA ReturnedStill ==
  ASSUME ReturnedInv, UNCHANGED <<sent, closed, loop, written>>
  PROVE  ReturnedInv'
BY DEF ReturnedInv, ReturnedAt

\* Every step keeps what the code that was returned says of the sink.
LEMMA ReturnedStep == TypeOK /\ RunningInv /\ ReturnedInv /\ [Move]_vars => ReturnedInv'
<1> SUFFICES ASSUME TypeOK, RunningInv, ReturnedInv, [Move]_vars PROVE ReturnedInv'
  OBVIOUS
<1> USE DEF sinkVars, stdoutVars, stdinVars, linesVars
<1>0. /\ sent \in Seq(Commands) /\ inbox \in Seq(Commands) /\ Len(sent) \in Nat
      /\ queue \in [Handles -> Seq(Commands)]
      /\ "run" \in Handles /\ "lines" \in Handles /\ queue["run"] \in Seq(Commands)
  BY DEF TypeOK, Handles
<1>1. ASSUME NEW h \in Handles, Pull(h) PROVE ReturnedInv'
  BY <1>1, ReturnedStill DEF Pull
<1>2. ASSUME NEW t \in Texts, LoopWrite(t) PROVE ReturnedInv'
  BY <1>2, CodesAssumption DEF LoopWrite, ReturnedInv
<1>3. ASSUME LoopFlush PROVE ReturnedInv'
  BY <1>3, CodesAssumption DEF LoopFlush, ReturnedInv
<1>4. ASSUME LoopFail PROVE ReturnedInv'
  BY <1>4, CodesAssumption DEF LoopFail, ReturnedInv
<1>5. ASSUME LoopSkip PROVE ReturnedInv'
  BY <1>5, CodesAssumption DEF LoopSkip, ReturnedInv
<1>6. ASSUME NEW x \in Codes, LoopExit(x) PROVE ReturnedInv'
  <2>1. /\ Take("run", Exit(x)) /\ loop = "running" /\ loop' = x
        /\ UNCHANGED <<sent, inbox, closed, written>>
    BY <1>6 DEF LoopExit
  <2>2. /\ queue["run"] # <<>> /\ Exit(x) = Head(queue["run"])
    BY <1>0, <2>1, TakeQueue
  <2> DEFINE n == Before(sent, queue["run"], inbox)
  <2>3. /\ Rest(sent, queue["run"], inbox) /\ \A k \in 1..n : ~IsExit(sent[k])
        /\ Lists(written, TextsTo(sent, n))
    BY <2>1 DEF RunningInv
  <2>4. n + 1 \in 1..Len(sent) /\ sent[n + 1] = Exit(x)
    BY <1>0, <2>2, <2>3, RestTake
  <2>5. n \in Nat
    BY <2>3 DEF Rest
  <2> HIDE DEF n
  <2>6. n \in 0..Len(sent) /\ n # Len(sent)
    BY <1>0, <2>4, <2>5
  <2>7. PICK m \in 0..Len(sent) : m = n
    BY <2>6
  <2>8. ReturnedAt(m)'
    BY <2>1, <2>3, <2>4, <2>6, <2>7 DEF ReturnedAt
  <2> QED
    BY <2>1, <2>8 DEF ReturnedInv
<1>7. ASSUME LoopEnd PROVE ReturnedInv'
  <2>1. /\ loop = "running" /\ loop' = SUCCESS /\ UNCHANGED <<sent, closed, written>>
        /\ closed /\ inbox = <<>> /\ queue["run"] = <<>>
    BY <1>7 DEF LoopEnd, Finished
  <2>2. Before(sent, queue["run"], inbox) = Len(sent)
    BY <1>0, <2>1 DEF Before
  <2>3. ReturnedAt(Len(sent))'
    BY <2>1, <2>2 DEF RunningInv, ReturnedAt
  <2>4. Len(sent) \in 0..Len(sent)
    BY <1>0
  <2> QED
    BY <2>1, <2>3, <2>4 DEF ReturnedInv
<1>8. ASSUME LinesSkip PROVE ReturnedInv'
  BY <1>8, ReturnedStill DEF LinesSkip
<1>9. ASSUME LinesCommand PROVE ReturnedInv'
  BY <1>9, ReturnedStill DEF LinesCommand
<1>10. ASSUME NEW t \in Texts, LinesYield(t) PROVE ReturnedInv'
  BY <1>10, ReturnedStill DEF LinesYield
<1>11. ASSUME LinesError PROVE ReturnedInv'
  BY <1>11, ReturnedStill DEF LinesError
<1>12. ASSUME LinesEnd PROVE ReturnedInv'
  BY <1>12, ReturnedStill DEF LinesEnd
<1>13. ASSUME NEW c \in Commands, SendCommand(c) PROVE ReturnedInv'
  <2>1. ~closed /\ sent' = Append(sent, c) /\ UNCHANGED <<closed, loop, written>>
    BY <1>13 DEF SendCommand
  <2>2. /\ Len(sent') = Len(sent) + 1
        /\ \A k \in 1..Len(sent) : sent'[k] = sent[k]
    BY <1>0, <2>1, AppendProperties
  <2>3. ASSUME NEW m \in 0..Len(sent), ReturnedAt(m)
        PROVE  m \in 0..Len(sent') /\ ReturnedAt(m)'
    <3>1. m # Len(sent) /\ m # Len(sent') /\ m \in 0..Len(sent') /\ m + 1 \in 1..Len(sent)
      BY <1>0, <2>1, <2>2, <2>3 DEF ReturnedAt
    <3>2. \A k \in 1..m : k \in 1..Len(sent)
      BY <1>0
    <3>3. TextsTo(sent', m) = TextsTo(sent, m)
      BY <1>0, <2>1, <3>2, SentLater
    <3> QED
      BY <2>1, <2>2, <2>3, <3>1, <3>2, <3>3 DEF ReturnedAt
  <2> QED
    BY <2>1, <2>3 DEF ReturnedInv
<1>14. ASSUME CloseSink PROVE ReturnedInv'
  <2>1. UNCHANGED <<sent, loop, written>> /\ closed'
    BY <1>14 DEF CloseSink
  <2> QED
    BY <2>1 DEF ReturnedInv, ReturnedAt
<1>15. ASSUME NEW t \in Texts, Type(t) PROVE ReturnedInv'
  BY <1>15, ReturnedStill DEF Type
<1>16. ASSUME CloseStdin PROVE ReturnedInv'
  BY <1>16, ReturnedStill DEF CloseStdin
<1>17. CASE UNCHANGED vars
  BY <1>17, ReturnedStill DEF vars
<1> HIDE DEF sinkVars, stdoutVars, stdinVars, linesVars
<1> QED
  BY <1>1, <1>2, <1>3, <1>4, <1>5, <1>6, <1>7, <1>8, <1>9, <1>10, <1>11, <1>12, <1>13,
     <1>14, <1>15, <1>16, <1>17, <1>0
  DEF Move, LoopStep, LinesStep

-----------------------------------------------------------------------------
(* The `lines` stream.                                                     *)

\* Nothing changes of what ReaderInv is about.
LEMMA ReaderStill ==
  ASSUME ReaderInv, UNCHANGED <<sent, inbox, reader, given, errors, typed>>,
         queue'["lines"] = queue["lines"]
  PROVE  ReaderInv'
BY DEF ReaderInv

\* What `lines` takes is the next command after those that it has counted.
LEMMA ReaderTakes ==
  ASSUME TypeOK, ReaderInv, reader = "command", NEW c, Take("lines", c),
         UNCHANGED <<sent, inbox>>
  PROVE  /\ Rest(sent, queue'["lines"], inbox)
         /\ ~IsReadLine(c) =>
              Cardinality(ReadsTo(sent, Before(sent, queue'["lines"], inbox)))
                = Len(given) + errors
         /\ IsReadLine(c) =>
              Cardinality(ReadsTo(sent, Before(sent, queue'["lines"], inbox)))
                = Len(given) + errors + 1
<1>1. /\ sent \in Seq(Commands) /\ inbox \in Seq(Commands)
      /\ queue \in [Handles -> Seq(Commands)] /\ "lines" \in Handles
  BY DEF TypeOK, Handles
<1>2. /\ queue["lines"] \in Seq(Commands) /\ queue["lines"] # <<>>
      /\ c = Head(queue["lines"]) /\ queue'["lines"] = Tail(queue["lines"])
  BY <1>1, TakeQueue
<1> DEFINE n == Before(sent, queue["lines"], inbox)
<1>3. Rest(sent, queue["lines"], inbox) /\ Cardinality(ReadsTo(sent, n)) = Len(given) + errors
  BY DEF ReaderInv
<1>4. /\ Rest(sent, queue'["lines"], inbox)
      /\ Before(sent, queue'["lines"], inbox) = n + 1 /\ sent[n + 1] = c
  BY <1>1, <1>2, <1>3, RestTake
<1>5. n \in Nat
  BY <1>3 DEF Rest
<1> HIDE DEF n
<1>6. /\ IsReadLine(c) => Cardinality(ReadsTo(sent, n + 1)) = Cardinality(ReadsTo(sent, n)) + 1
      /\ ~IsReadLine(c) => ReadsTo(sent, n + 1) = ReadsTo(sent, n)
  BY <1>4, <1>5, ReadsNext
<1> QED
  BY <1>3, <1>4, <1>6

\* Every step keeps the lines in order, and as many as were asked for.
LEMMA ReaderStep == TypeOK /\ ReaderInv /\ [Move]_vars => ReaderInv'
<1> SUFFICES ASSUME TypeOK, ReaderInv, [Move]_vars PROVE ReaderInv'
  OBVIOUS
<1> USE DEF sinkVars, stdoutVars, stdinVars, linesVars
<1>0. /\ sent \in Seq(Commands) /\ inbox \in Seq(Commands)
      /\ queue \in [Handles -> Seq(Commands)]
      /\ "run" \in Handles /\ "lines" \in Handles /\ "lines" # "run"
      /\ queue["lines"] \in Seq(Commands)
      /\ given \in Seq(Texts) /\ typed \in Seq(Texts) /\ Len(given) \in Nat /\ Len(typed) \in Nat
  BY DEF TypeOK, Handles
<1>1. ASSUME NEW h \in Handles, Pull(h) PROVE ReaderInv'
  <2>1. inbox # <<>> /\ inbox' = Tail(inbox) /\ UNCHANGED <<sent, reader, given, errors, typed>>
    BY <1>1 DEF Pull
  <2>2. ASSUME reader # "over"
        PROVE  /\ Rest(sent, queue'["lines"], Tail(inbox))
               /\ Before(sent, queue'["lines"], Tail(inbox))
                    = Before(sent, queue["lines"], inbox)
    <3>1. queue'["lines"] = Append(queue["lines"], Head(inbox))
      BY <1>1, <1>0, <2>2 DEF Pull, Live
    <3>2. Rest(sent, queue["lines"], inbox)
      BY <2>2 DEF ReaderInv
    <3> QED
      BY <1>0, <2>1, <3>1, <3>2, RestPull
  <2> QED
    BY <2>1, <2>2 DEF ReaderInv
<1>2. ASSUME NEW c, Take("run", c), UNCHANGED <<sent, inbox, reader, given, errors, typed>>
      PROVE  ReaderInv'
  <2>1. queue'["lines"] = queue["lines"]
    BY <1>0, <1>2, TakeQueue
  <2> QED
    BY <1>2, <2>1, ReaderStill
<1>3. ASSUME LoopStep PROVE ReaderInv'
  <2>1. ASSUME NEW t \in Texts, LoopWrite(t) PROVE ReaderInv'
    BY <1>2, <2>1 DEF LoopWrite
  <2>2. ASSUME LoopFlush PROVE ReaderInv'
    BY <1>2, <2>2 DEF LoopFlush
  <2>3. ASSUME LoopFail PROVE ReaderInv'
    BY <1>2, <2>3 DEF LoopFail
  <2>4. ASSUME LoopSkip PROVE ReaderInv'
    BY <1>2, <2>4 DEF LoopSkip
  <2>5. ASSUME NEW x \in Codes, LoopExit(x) PROVE ReaderInv'
    BY <1>2, <2>5 DEF LoopExit
  <2>6. ASSUME LoopEnd PROVE ReaderInv'
    BY <2>6, ReaderStill DEF LoopEnd
  <2> QED
    BY <1>0, <1>1, <1>3, <2>1, <2>2, <2>3, <2>4, <2>5, <2>6 DEF LoopStep
<1>4. ASSUME LinesSkip PROVE ReaderInv'
  <2>1. PICK c \in Commands \ {ReadLine} : Take("lines", c)
    BY <1>4 DEF LinesSkip
  <2>2. ~IsReadLine(c)
    BY OtherCommands
  <2>3. /\ Rest(sent, queue'["lines"], inbox)
        /\ Cardinality(ReadsTo(sent, Before(sent, queue'["lines"], inbox)))
             = Len(given) + errors
    BY <1>4, <2>1, <2>2, ReaderTakes DEF LinesSkip
  <2>4. reader = "command" /\ UNCHANGED <<sent, inbox, reader, given, errors, typed>>
    BY <1>4 DEF LinesSkip
  <2> QED
    BY <2>3, <2>4 DEF ReaderInv
<1>5. ASSUME LinesCommand PROVE ReaderInv'
  <2>1. /\ Rest(sent, queue'["lines"], inbox)
        /\ Cardinality(ReadsTo(sent, Before(sent, queue'["lines"], inbox)))
             = Len(given) + errors + 1
    BY <1>5, CommandKinds, ReaderTakes DEF LinesCommand
  <2>2. reader' = "line" /\ UNCHANGED <<sent, inbox, given, errors, typed>>
    BY <1>5 DEF LinesCommand
  <2> QED
    BY <2>1, <2>2 DEF ReaderInv
<1>6. ASSUME NEW t \in Texts, LinesYield(t) PROVE ReaderInv'
  <2>1. /\ reader = "line" /\ reader' = "command" /\ Len(given) < Len(typed)
        /\ t = typed[Len(given) + 1] /\ given' = Append(given, t)
        /\ errors = 0 /\ UNCHANGED <<sent, inbox, queue, errors, typed>>
    BY <1>6 DEF LinesYield
  <2>2. /\ Len(given') = Len(given) + 1
        /\ \A k \in 1..Len(given) : given'[k] = given[k]
        /\ given'[Len(given) + 1] = t
    BY <1>0, <2>1, AppendProperties
  <2>3. ASSUME NEW k \in 1..(Len(given) + 1) PROVE given'[k] = typed[k]
    <3>1. k \in 1..Len(given) \/ k = Len(given) + 1
      BY <1>0, LastOrBefore
    <3> QED
      BY <2>1, <2>2, <3>1 DEF ReaderInv
  <2>4. Len(given') <= Len(typed)
    BY <1>0, <2>1, <2>2
  <2> QED
    BY <2>1, <2>2, <2>3, <2>4 DEF ReaderInv
<1>7. ASSUME LinesError \/ LinesEnd PROVE ReaderInv'
  <2>1. CASE LinesEnd
    <3>1. reader' = "over" /\ UNCHANGED <<given, typed>>
      BY <2>1 DEF LinesEnd
    <3> QED
      BY <3>1 DEF ReaderInv
  <2>2. CASE LinesError
    <3>1. /\ reader = "line" /\ reader' = "command" /\ errors = 0 /\ errors' = 1
          /\ UNCHANGED <<sent, inbox, queue, given, typed>>
      BY <2>2 DEF LinesError
    <3>2. Len(given) + errors + 1 = Len(given) + errors'
      BY <1>0, <3>1
    <3> QED
      BY <3>1, <3>2 DEF ReaderInv
  <2> QED
    BY <1>7, <2>1, <2>2
<1>8. ASSUME NEW c \in Commands, SendCommand(c) PROVE ReaderInv'
  <2>1. /\ sent' = Append(sent, c) /\ inbox' = Append(inbox, c)
        /\ UNCHANGED <<queue, reader, given, errors, typed>>
    BY <1>8 DEF SendCommand
  <2>2. ASSUME reader # "over"
        PROVE  /\ Rest(sent', queue["lines"], inbox')
               /\ Before(sent', queue["lines"], inbox') = Before(sent, queue["lines"], inbox)
               /\ ReadsTo(sent', Before(sent, queue["lines"], inbox))
                    = ReadsTo(sent, Before(sent, queue["lines"], inbox))
    <3>1. Rest(sent, queue["lines"], inbox)
      BY <2>2 DEF ReaderInv
    <3>2. /\ Rest(sent', queue["lines"], inbox')
          /\ Before(sent', queue["lines"], inbox') = Before(sent, queue["lines"], inbox)
      BY <1>0, <2>1, <3>1, RestSend
    <3>3. \A k \in 1..Before(sent, queue["lines"], inbox) : k \in 1..Len(sent)
      BY <1>0, <3>1, BeforeWithin
    <3>4. ReadsTo(sent', Before(sent, queue["lines"], inbox))
            = ReadsTo(sent, Before(sent, queue["lines"], inbox))
      BY <1>0, <2>1, <3>3, SentLater
    <3> QED
      BY <3>2, <3>4
  <2> QED
    BY <2>1, <2>2 DEF ReaderInv
<1>9. ASSUME NEW t \in Texts, Type(t) PROVE ReaderInv'
  <2>1. typed' = Append(typed, t) /\ UNCHANGED <<sent, inbox, queue, reader, given, errors>>
    BY <1>9 DEF Type
  <2>2. /\ Len(typed') = Len(typed) + 1
        /\ \A k \in 1..Len(typed) : typed'[k] = typed[k]
    BY <1>0, <2>1, AppendProperties
  <2>3. /\ Len(given) <= Len(typed')
        /\ \A k \in 1..Len(given) : k \in 1..Len(typed)
    BY <1>0, <2>2 DEF ReaderInv
  <2> QED
    BY <2>1, <2>2, <2>3 DEF ReaderInv
<1>10. ASSUME CloseSink \/ CloseStdin PROVE ReaderInv'
  BY <1>10, ReaderStill DEF CloseSink, CloseStdin
<1>11. CASE UNCHANGED vars
  BY <1>11, ReaderStill DEF vars
<1> HIDE DEF sinkVars, stdoutVars, stdinVars, linesVars
<1> QED
  BY <1>0, <1>1, <1>3, <1>4, <1>5, <1>6, <1>7, <1>8, <1>9, <1>10, <1>11
  DEF Move, LinesStep

-----------------------------------------------------------------------------
(* The theorems.                                                           *)

\* The invariant holds to begin with.
LEMMA Initial == Init => IInv
<1> SUFFICES ASSUME Init PROVE IInv
  OBVIOUS
<1>1. /\ <<>> \in Seq(Commands) /\ <<>> \in Seq(Texts)
      /\ queue \in [Handles -> Seq(Commands)]
  BY DEF Init
<1>2. flushed \in 0..Len(written)
  BY DEF Init
<1>3. TypeOK
  <2>1. errors \in 0..1
    BY DEF Init
  <2> QED
    BY <1>1, <1>2, <2>1 DEF Init, TypeOK
<1>4. /\ \A h \in Handles : /\ Rest(sent, queue[h], inbox)
                            /\ Before(sent, queue[h], inbox) = 0
      /\ "run" \in Handles /\ "lines" \in Handles
  BY RestEmpty DEF Init, Handles
<1>5. 1..0 = {}
  OBVIOUS
<1>6. Lists(written, TextsTo(sent, 0))
  <2>1. DOMAIN TextsTo(sent, 0) = {}
    BY <1>5 DEF TextsTo
  <2> QED
    BY <2>1, ListsEmpty DEF Init
<1>7. RunningInv
  BY <1>4, <1>5, <1>6 DEF RunningInv
<1>8. ReturnedInv
  BY CodesAssumption DEF Init, ReturnedInv
<1>9. ReaderInv
  <2>1. ReadsTo(sent, 0) = {}
    BY <1>5 DEF ReadsTo
  <2>2. Len(given) = 0 /\ errors = 0 /\ Len(typed) = 0 /\ reader = "command"
    BY DEF Init
  <2>3. Cardinality(ReadsTo(sent, Before(sent, queue["lines"], inbox))) = 0
    BY <1>4, <2>1, FS_EmptySet
  <2> QED
    BY <1>4, <1>5, <2>2, <2>3 DEF ReaderInv
<1> QED
  BY <1>3, <1>7, <1>8, <1>9 DEF IInv

\* The invariant is kept with any sink.
LEMMA InvariantStep == IInv /\ [Move]_vars => IInv'
BY TypingStep, RunningStep, ReturnedStep, ReaderStep DEF IInv

\* The invariant that the theorems rest on.
THEOREM Invariance == Spec => []IInv
<1>1. [Next]_vars => [Move]_vars
  BY DEF Next, Environment, Move
<1> QED
  BY Initial, InvariantStep, <1>1, PTL DEF Spec

\* Every variable keeps its type: the commands in the queues of both handles,
\* the texts written and read, and no more is flushed than is written
\* (driver.rs:133-260).
THEOREM Typing == Spec => []TypeOK
<1>1. IInv => TypeOK
  BY DEF IInv
<1> QED
  BY Invariance, <1>1, PTL

\* The commands before the first Exit are the first m commands, if the command
\* after them is the first Exit, or if they are all commands.
LEMMA BeforeFirstExit ==
  ASSUME NEW s \in Seq(Commands), NEW m \in 0..Len(s),
         \A k \in 1..m : ~IsExit(s[k]), m # Len(s) => IsExit(s[m + 1])
  PROVE  BeforeExit(s) = SubSeq(s, 1, m)
<1> DEFINE exits == {i \in 1..Len(s) : IsExit(s[i])}
<1>0. Len(s) \in Nat
  OBVIOUS
<1>1. CASE m = Len(s)
  <2>1. exits = {} /\ SubSeq(s, 1, Len(s)) = s
    BY <1>1, SubSeqFull
  <2> QED
    BY <1>1, <2>1 DEF BeforeExit
<1>2. CASE m # Len(s)
  <2>1. m + 1 \in exits /\ \A j \in exits : m + 1 <= j
    <3>1. m + 1 \in 1..Len(s) /\ IsExit(s[m + 1])
      BY <1>0, <1>2
    <3>2. ASSUME NEW j \in exits PROVE m + 1 <= j
      BY <1>0
    <3> QED
      BY <3>1, <3>2
  <2>2. (CHOOSE i \in exits : \A j \in exits : i <= j) = m + 1
    <3>1. ASSUME NEW i \in exits, \A j \in exits : i <= j PROVE i = m + 1
      BY <1>0, <2>1, <3>1
    <3> QED
      BY <2>1, <3>1
  <2>3. (m + 1) - 1 = m
    BY <1>0
  <2> QED
    BY <2>1, <2>2, <2>3 DEF BeforeExit
<1> QED
  BY <1>1, <1>2

\* Counting in the first m commands, as a sequence of their own.
LEMMA CountedInPrefix ==
  ASSUME NEW s \in Seq(Commands), NEW m \in 0..Len(s)
  PROVE  /\ Len(SubSeq(s, 1, m)) = m
         /\ TextsOf(SubSeq(s, 1, m)) = TextsTo(s, m)
         /\ ReadLines(SubSeq(s, 1, m)) = ReadsTo(s, m)
<1>1. /\ Len(s) \in Nat /\ Len(SubSeq(s, 1, m)) = m
      /\ \A i \in 1..m : SubSeq(s, 1, m)[i] = s[i]
  BY SubSeqProperties
<1>2. {j \in 1..m : IsWrite(SubSeq(s, 1, m)[j])} = {j \in 1..m : IsWrite(s[j])}
  BY <1>1
<1> QED
  BY <1>1, <1>2 DEF TextsOf, TextsTo, ReadLines, ReadsTo

\* What a handle has taken is what comes before the rest.
LEMMA TakenBefore ==
  ASSUME TypeOK, NEW h \in Handles, Rest(sent, queue[h], inbox)
  PROVE  /\ Before(sent, queue[h], inbox) \in 0..Len(sent)
         /\ TakenBy(h) = SubSeq(sent, 1, Before(sent, queue[h], inbox))
<1> DEFINE b == Before(sent, queue[h], inbox)
<1> DEFINE p == Len(sent) - Len(inbox)
<1>1. /\ sent \in Seq(Commands) /\ queue[h] \in Seq(Commands) /\ inbox \in Seq(Commands)
      /\ Len(sent) \in Nat /\ Len(queue[h]) \in Nat /\ Len(inbox) \in Nat
  BY DEF TypeOK
<1>2. b \in Nat /\ b = Len(sent) - Len(queue[h]) - Len(inbox)
  BY DEF Rest, Before
<1>3. p \in 0..Len(sent) /\ b \in 0..p /\ p - Len(queue[h]) = b
  BY <1>1, <1>2
<1> HIDE DEF b, p
<1>4. /\ Published = SubSeq(sent, 1, p) /\ Len(Published) = p
      /\ \A i \in 1..p : Published[i] = sent[i]
      /\ Published \in Seq(Commands)
  BY <1>1, <1>3, SubSeqProperties DEF Published, p
<1>5. TakenBy(h) = SubSeq(Published, 1, b)
  BY <1>3, <1>4 DEF TakenBy
<1>6. /\ SubSeq(Published, 1, b) \in Seq(Commands) /\ SubSeq(sent, 1, b) \in Seq(Commands)
      /\ Len(SubSeq(Published, 1, b)) = b /\ Len(SubSeq(sent, 1, b)) = b
      /\ \A i \in 1..b : SubSeq(Published, 1, b)[i] = Published[i]
      /\ \A i \in 1..b : SubSeq(sent, 1, b)[i] = sent[i]
  BY <1>1, <1>3, <1>4, SubSeqProperties
<1>7. \A i \in 1..b : i \in 1..p
  BY <1>1, <1>3
<1>8. SubSeq(Published, 1, b) = SubSeq(sent, 1, b)
  BY <1>4, <1>6, <1>7, SeqEqual
<1>9. b \in 0..Len(sent)
  BY <1>1, <1>3
<1> QED
  BY <1>5, <1>8, <1>9 DEF b

\* What the invariant says of the code returned.
LEMMA ExitHolds == IInv => FirstExitDecides
<1> SUFFICES ASSUME TypeOK, ReturnedInv, loop \in Codes PROVE FirstExitDecides
  BY DEF IInv, FirstExitDecides
<1>0. sent \in Seq(Commands) /\ Len(sent) \in Nat
  BY DEF TypeOK
<1>1. PICK m \in 0..Len(sent) : ReturnedAt(m)
  BY DEF ReturnedInv
<1>2. BeforeExit(sent) = SubSeq(sent, 1, m) /\ Len(SubSeq(sent, 1, m)) = m
  <2>1. m # Len(sent) => IsExit(sent[m + 1])
    BY <1>1, CommandKinds DEF ReturnedAt
  <2> QED
    BY <1>0, <1>1, <2>1, BeforeFirstExit, CountedInPrefix DEF ReturnedAt
<1>3. CASE m = Len(sent)
  <2>1. BeforeExit(sent) = sent
    BY <1>0, <1>2, <1>3, SubSeqFull
  <2> QED
    BY <1>1, <1>3, <2>1 DEF ReturnedAt, FirstExitDecides
<1>4. CASE m # Len(sent)
  <2>1. BeforeExit(sent) # sent
    BY <1>2, <1>4
  <2> QED
    BY <1>1, <1>2, <1>4, <2>1 DEF ReturnedAt, FirstExitDecides
<1> QED
  BY <1>3, <1>4

\* Whichever handle pulls the commands out of the channel, the run loop returns
\* the code of the first Exit that was sent, and SUCCESS for the end of a sink
\* without any (driver.rs:158-168).
THEOREM ReturnsFirstExit == Spec => []FirstExitDecides
BY Invariance, ExitHolds, PTL

\* What the invariant says of the writes.
LEMMA WritesHold == IInv => WritesInOrder
<1> SUFFICES ASSUME TypeOK, RunningInv, ReturnedInv PROVE WritesInOrder
  BY DEF IInv
<1>0. sent \in Seq(Commands) /\ "run" \in Handles
  BY DEF TypeOK, Handles
<1>1. ASSUME loop = "running" PROVE Lists(written, TextsOf(TakenBy("run")))
  <2>1. /\ Rest(sent, queue["run"], inbox)
        /\ Lists(written, TextsTo(sent, Before(sent, queue["run"], inbox)))
    BY <1>1 DEF RunningInv
  <2> QED
    BY <1>0, <2>1, TakenBefore, CountedInPrefix
<1>2. ASSUME loop \in Codes PROVE Lists(written, TextsOf(BeforeExit(sent)))
  <2>1. PICK m \in 0..Len(sent) : ReturnedAt(m)
    BY <1>2 DEF ReturnedInv
  <2>2. m # Len(sent) => IsExit(sent[m + 1])
    BY <1>2, <2>1, CommandKinds DEF ReturnedAt
  <2>3. BeforeExit(sent) = SubSeq(sent, 1, m)
    BY <1>0, <2>1, <2>2, BeforeFirstExit DEF ReturnedAt
  <2> QED
    BY <1>0, <2>1, <2>3, CountedInPrefix DEF ReturnedAt
<1> QED
  BY <1>1, <1>2 DEF WritesInOrder

\* The run loop performs the writes that come before the first Exit, in the
\* order of the sink and each of them once, whichever handle pulls them out of
\* the channel, and all of them when it returns (driver.rs:133-168).
THEOREM WritesPerformedInOrder == Spec => []WritesInOrder
BY Invariance, WritesHold, PTL

\* What the invariant says of the lines.
LEMMA LinesHold == IInv => LinesOnDemand
<1> SUFFICES ASSUME TypeOK, ReaderInv PROVE LinesOnDemand
  BY DEF IInv
<1>0. /\ sent \in Seq(Commands) /\ "lines" \in Handles
      /\ given \in Seq(Texts) /\ typed \in Seq(Texts)
      /\ Len(given) \in Nat /\ Len(typed) \in Nat
      /\ reader \in {"command", "line", "over"}
  BY DEF TypeOK, Handles
<1>1. given = SubSeq(typed, 1, Len(given))
  <2>1. Len(given) \in 0..Len(typed)
    BY <1>0 DEF ReaderInv
  <2>2. /\ SubSeq(typed, 1, Len(given)) \in Seq(Texts)
        /\ Len(SubSeq(typed, 1, Len(given))) = Len(given)
        /\ \A i \in 1..Len(given) : SubSeq(typed, 1, Len(given))[i] = typed[i]
    BY <1>0, <2>1, SubSeqProperties
  <2> QED
    BY <1>0, <2>2, SeqEqual DEF ReaderInv
<1>2. ASSUME reader # "over"
      PROVE  Cardinality(ReadLines(TakenBy("lines")))
               = Cardinality(ReadsTo(sent, Before(sent, queue["lines"], inbox)))
  <2>1. Rest(sent, queue["lines"], inbox)
    BY <1>2 DEF ReaderInv
  <2> QED
    BY <1>0, <2>1, TakenBefore, CountedInPrefix
<1> QED
  BY <1>1, <1>2 DEF ReaderInv, LinesOnDemand

\* `lines` yields one line, or the one error, for each ReadLine it has taken, and
\* the lines in the order typed, however its commands come between those for the
\* run loop (driver.rs:251-260).
THEOREM LinesReadOnDemand == Spec => []LinesOnDemand
BY Invariance, LinesHold, PTL
=============================================================================
