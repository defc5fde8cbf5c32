------------------------------ MODULE Terminal ------------------------------
(***************************************************************************)
(* The terminal driver (crates/cyclers-terminal/src/driver.rs): a run loop *)
(* that performs Write, Flush and Exit on stdout, and a `lines` stream of  *)
(* its source that reads one line of stdin for each ReadLine.              *)
(*                                                                         *)
(* Both are handles of one shared sink stream.  Whichever polls it pulls   *)
(* an item out of the proxy channel and puts it into the queue of every    *)
(* handle that is alive; each then takes from its own queue, and skips     *)
(* the commands that are meant for the other.                              *)
(*                                                                         *)
(* `lines` is modelled as built for a native target; the splitting of      *)
(* bytes into lines on WASI is in LineReader.                              *)
(***************************************************************************)
EXTENDS Integers, Sequences, FiniteSets, Selection

CONSTANTS
  Texts,     \* what is typed and written
  Codes,     \* exit codes
  SUCCESS,   \* ExitCode::SUCCESS
  MaxLines,  \* bound of the model: lines typed
  MaxSent    \* bound of the model: commands sent, in Spec

ASSUME CodesAssumption == SUCCESS \in Codes /\ {"running", "failed"} \cap Codes = {}
ASSUME BoundsAssumption == MaxLines \in Nat /\ MaxSent \in Nat

Write(t) == [op |-> "Write", arg |-> t]
Flush == [op |-> "Flush"]
ReadLine == [op |-> "ReadLine"]
Exit(c) == [op |-> "Exit", arg |-> c]

Commands == {Write(t) : t \in Texts} \cup {Exit(c) : c \in Codes}
              \cup {Flush, ReadLine}

Handles == {"run", "lines"}

VARIABLES
  sent,    \* history of the commands sent to the driver
  inbox,   \* the receiving end of the proxy channel
  closed,  \* whether the sending end is gone
  queue,   \* queue[h]: what has been published to handle h and not taken
  loop,    \* the run loop: "running", "failed", or the exit code it returned
  written, \* what write_all has been given
  flushed, \* how much of it has been flushed
  typed,   \* history of the lines typed at stdin
  eof,     \* whether stdin has been closed
  reader,  \* what `lines` awaits: "command", "line"; or "over"
  given,   \* history of the lines that `lines` has yielded
  errors   \* errors that it has yielded: its reader ends after the first

sinkVars == <<sent, inbox, closed>>
stdoutVars == <<loop, written, flushed>>
stdinVars == <<typed, eof>>
linesVars == <<reader, given, errors>>
vars == <<sinkVars, queue, stdoutVars, stdinVars, linesVars>>

TypeOK == /\ sent \in Seq(Commands)
          /\ inbox \in Seq(Commands)
          /\ closed \in BOOLEAN
          /\ queue \in [Handles -> Seq(Commands)]
          /\ loop \in {"running", "failed"} \cup Codes
          /\ written \in Seq(Texts)
          /\ flushed \in 0..Len(written)
          /\ typed \in Seq(Texts)
          /\ eof \in BOOLEAN
          /\ reader \in {"command", "line", "over"}
          /\ given \in Seq(Texts)
          /\ errors \in 0..1

Init == /\ sent = <<>>
        /\ inbox = <<>>
        /\ closed = FALSE
        /\ queue = [h \in Handles |-> <<>>]
        /\ loop = "running"
        /\ written = <<>>
        /\ flushed = 0
        /\ typed = <<>>
        /\ eof = FALSE
        /\ reader = "command"
        /\ given = <<>>
        /\ errors = 0

-----------------------------------------------------------------------------
(* The shared sink.                                                        *)

Live(h) == IF h = "run" THEN loop = "running" ELSE reader # "over"

\* A handle finds the end of the sink when nothing can come any more.
Finished(h) == closed /\ inbox = <<>> /\ queue[h] = <<>>

\* Handle h polls the channel for all handles.
Pull(h) == /\ Live(h)
           /\ inbox # <<>>
           /\ inbox' = Tail(inbox)
           /\ queue' = [g \in Handles |-> IF Live(g)
                                          THEN Append(queue[g], Head(inbox))
                                          ELSE queue[g]]
           /\ UNCHANGED <<sent, closed, stdoutVars, stdinVars, linesVars>>

\* Handle h takes the next command published to it.
Take(h, c) == /\ queue[h] # <<>>
              /\ c = Head(queue[h])
              /\ queue' = [queue EXCEPT ![h] = Tail(@)]

-----------------------------------------------------------------------------
(* The run loop.                                                           *)

LoopWrite(t) == /\ loop = "running"
                /\ Take("run", Write(t))
                /\ written' = Append(written, t)
                /\ UNCHANGED <<sinkVars, loop, flushed, stdinVars, linesVars>>

\* Mutant: one too many counted as flushed.
LoopFlushAhead == /\ loop = "running"
                  /\ Take("run", Flush)
                  /\ flushed' = Len(written) + 1
                  /\ UNCHANGED <<sinkVars, loop, written, stdinVars, linesVars>>

LoopFlush == /\ loop = "running"
             /\ Take("run", Flush)
             /\ flushed' = Len(written)
             /\ UNCHANGED <<sinkVars, loop, written, stdinVars, linesVars>>

\* stdout fails: `?` ends the run loop with the error.
LoopFail == /\ loop = "running"
            /\ \E c \in Commands : c.op \in {"Write", "Flush"} /\ Take("run", c)
            /\ loop' = "failed"
            /\ UNCHANGED <<sinkVars, written, flushed, stdinVars, linesVars>>

\* Mutant: the filter of the run loop lets ReadLine through to nothing.
LoopSkipNothing == FALSE

\* Mutant: the filter of the run loop misses Write.
LoopSkipWrites == /\ loop = "running"
                  /\ \E c \in Commands : c.op \in {"ReadLine", "Write"} /\ Take("run", c)
                  /\ UNCHANGED <<sinkVars, stdoutVars, stdinVars, linesVars>>

LoopSkip == /\ loop = "running"
            /\ Take("run", ReadLine)
            /\ UNCHANGED <<sinkVars, stdoutVars, stdinVars, linesVars>>

\* Mutant: the code of the command is ignored.
LoopExitSuccess(c) == /\ loop = "running"
                      /\ Take("run", Exit(c))
                      /\ loop' = SUCCESS
                      /\ UNCHANGED <<sinkVars, written, flushed, stdinVars, linesVars>>

LoopExit(c) == /\ loop = "running"
               /\ Take("run", Exit(c))
               /\ loop' = c
               /\ UNCHANGED <<sinkVars, written, flushed, stdinVars, linesVars>>

\* Mutant: the run loop sees the end of the sink before its own queue is empty.
LoopEndEarly == /\ loop = "running"
                /\ closed
                /\ loop' = SUCCESS
                /\ UNCHANGED <<sinkVars, queue, written, flushed, stdinVars, linesVars>>
LoopEnd == /\ loop = "running"
           /\ Finished("run")
           /\ loop' = SUCCESS
           /\ UNCHANGED <<sinkVars, queue, written, flushed, stdinVars, linesVars>>

-----------------------------------------------------------------------------
(* The `lines` stream, each step while a consumer awaits its next item.    *)

\* Mutant: the filter of `lines` skips any command.
LinesSkipAny == /\ reader = "command"
                /\ \E c \in Commands : Take("lines", c)
                /\ UNCHANGED <<sinkVars, stdoutVars, stdinVars, linesVars>>

LinesSkip == /\ reader = "command"
             /\ \E c \in Commands \ {ReadLine} : Take("lines", c)
             /\ UNCHANGED <<sinkVars, stdoutVars, stdinVars, linesVars>>

LinesCommand == /\ reader = "command"
                /\ Take("lines", ReadLine)
                /\ reader' = "line"
                /\ UNCHANGED <<sinkVars, stdoutVars, stdinVars, given, errors>>

\* The line read next is t, and is yielded.
LinesYield(t) == /\ reader = "line"
                 /\ errors = 0
                 /\ Len(given) < Len(typed)
                 /\ t = typed[Len(given) + 1]
                 /\ given' = Append(given, t)
                 /\ reader' = "command"
                 /\ UNCHANGED <<sinkVars, queue, stdoutVars, stdinVars, errors>>

\* Reading or decoding fails and the error is yielded.  The framed reader ends
\* after that, but `lines` only finds out at the next ReadLine.
LinesError == /\ reader = "line"
              /\ errors = 0
              /\ errors' = 1
              /\ reader' = "command"
              /\ UNCHANGED <<sinkVars, queue, stdoutVars, stdinVars, given>>

\* Mutant: the end of stdin is not passed on.
LinesEndSinkOnly == /\ reader = "command" /\ Finished("lines")
                    /\ reader' = "over"
                    /\ UNCHANGED <<sinkVars, queue, stdoutVars, stdinVars, given, errors>>

\* The reader gives no line any more.
Exhausted == errors = 1 \/ (eof /\ given = typed)

\* `lines` ends, and drops its handle, with the sink or with its reader.
LinesEnd == /\ \/ reader = "command" /\ Finished("lines")
               \/ reader = "line" /\ Exhausted
            /\ reader' = "over"
            /\ UNCHANGED <<sinkVars, queue, stdoutVars, stdinVars, given, errors>>

-----------------------------------------------------------------------------
(* The environment of the driver: the proxy of its sink, and the user.     *)

SendCommand(c) == /\ ~closed
                  /\ sent' = Append(sent, c)
                  /\ inbox' = Append(inbox, c)
                  /\ UNCHANGED <<closed, queue, stdoutVars, stdinVars, linesVars>>

CloseSink == /\ ~closed
             /\ closed' = TRUE
             /\ UNCHANGED <<sent, inbox, queue, stdoutVars, stdinVars, linesVars>>

Type(t) == /\ ~eof
           /\ Len(typed) < MaxLines
           /\ typed' = Append(typed, t)
           /\ UNCHANGED <<sinkVars, queue, stdoutVars, eof, linesVars>>

CloseStdin == /\ ~eof
              /\ eof' = TRUE
              /\ UNCHANGED <<sinkVars, queue, stdoutVars, typed, linesVars>>

-----------------------------------------------------------------------------
\* The run loop: its steps that a ready sink or stdout allows.
LoopStep == \/ Pull("run")
            \/ \E t \in Texts : LoopWrite(t)
            \/ LoopFlush
            \/ LoopFail
            \/ LoopSkip
            \/ \E c \in Codes : LoopExit(c)
            \/ LoopEnd

LinesStep == \/ Pull("lines")
             \/ LinesSkip
             \/ LinesCommand
             \/ \E t \in Texts : LinesYield(t)
             \/ LinesError
             \/ LinesEnd

\* Any sink stream behind a channel of one item, and any user.
Environment == \/ /\ inbox = <<>>
                  /\ Len(sent) < MaxSent
                  /\ \E c \in Commands : SendCommand(c)
               \/ CloseSink
               \/ \E t \in Texts : Type(t)
               \/ CloseStdin

Next == LoopStep \/ LinesStep \/ Environment

Spec == Init /\ [][Next]_vars

\* The run loop is polled whenever it has been woken; `lines` may never be.
FairSpec == Spec /\ WF_vars(LoopStep)

-----------------------------------------------------------------------------
(* Safety.                                                                 *)

IsWrite(c) == c.op = "Write"
IsExit(c) == c.op = "Exit"
IsReadLine(c) == c.op = "ReadLine"

\* The texts of the writes among commands, each at the position of its write.
TextsOf(commands) ==
  [i \in {j \in 1..Len(commands) : IsWrite(commands[j])} |-> commands[i].arg]

ReadLines(commands) == {i \in 1..Len(commands) : IsReadLine(commands[i])}

\* The commands before the first Exit.
BeforeExit(commands) ==
  LET exits == {i \in 1..Len(commands) : IsExit(commands[i])}
  IN  IF exits = {} THEN commands
      ELSE SubSeq(commands, 1,
                  (CHOOSE i \in exits : \A j \in exits : i <= j) - 1)

\* What has been published, and what handle h has taken of it.
Published == SubSeq(sent, 1, Len(sent) - Len(inbox))
TakenBy(h) == SubSeq(Published, 1, Len(Published) - Len(queue[h]))

\* The run loop performs the writes of the sink in order, whichever handle
\* pulled them out of the channel, and none that follows an Exit; when it
\* returns a code without failing, it has performed all of those
\* (driver.rs:133-168).
WritesInOrder ==
  /\ loop = "running" => Lists(written, TextsOf(TakenBy("run")))
  /\ loop \in Codes => Lists(written, TextsOf(BeforeExit(sent)))

\* The code returned is that of the first Exit sent, and SUCCESS only stands
\* for the end of a sink without any (driver.rs:158-168).
FirstExitDecides ==
  loop \in Codes =>
    LET before == BeforeExit(sent)
    IN  IF before = sent THEN closed /\ loop = SUCCESS
                         ELSE sent[Len(before) + 1] = Exit(loop)

\* One line is read for one ReadLine, in the order typed, although `lines`
\* also gets every other command; a read that fails answers its ReadLine like a
\* line does, and `lines` takes another before it ends (driver.rs:251-260).
LinesOnDemand ==
  LET asked == Cardinality(ReadLines(TakenBy("lines")))
  IN  /\ given = SubSeq(typed, 1, Len(given))
      /\ reader = "command" => asked = Len(given) + errors
      /\ reader = "line" => asked = Len(given) + errors + 1

-----------------------------------------------------------------------------
(* Liveness.                                                               *)

\* Even if nobody ever polls `lines`, every write is performed, unless the run
\* loop exits first (driver.rs:133), and the run loop ends once the sink does,
\* as it_exits_when_the_sink_stream_has_finished expects (tests/driver.rs:24).
WritesPerformed ==
  /\ \A n \in 1..MaxSent :
       Cardinality(DOMAIN TextsOf(sent)) = n ~> Len(written) >= n \/ loop # "running"
  /\ closed ~> loop # "running"
=============================================================================
