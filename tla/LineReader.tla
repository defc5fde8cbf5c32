----------------------------- MODULE LineReader -----------------------------
(***************************************************************************)
(* How `TerminalSource::lines` splits stdin into lines on WASI             *)
(* (crates/cyclers-terminal/src/driver.rs): an unfold stream over a buffer *)
(* that is grown by a chunk before each read and cut back to what the read *)
(* returned.                                                               *)
(*                                                                         *)
(* Bytes are abstracted to what splitting tells apart.  "pad" is the zero  *)
(* byte that resizing the buffer fills in; stdin itself has none of those. *)
(***************************************************************************)
EXTENDS Integers, Sequences, FiniteSets, SequencesExt, Selection

CONSTANTS
  CHUNK_SIZE,  \* what one read asks for
  MaxBytes,    \* bound of the model: bytes of stdin
  MaxErrors    \* bound of the model: failing reads

ASSUME ChunkAssumption == CHUNK_SIZE \in Nat \ {0}
ASSUME BoundsAssumption == {MaxBytes, MaxErrors} \subseteq Nat

\* A newline, a byte that is not UTF-8 by itself, any other.
InputBytes == {"newline", "invalid", "char"}
Bytes == InputBytes \cup {"pad"}

VARIABLES
  stdin,    \* what is still to be read from stdin
  buf,      \* the buffer
  eof,      \* whether a read has returned no byte
  awaited,  \* whether a ReadLine waits for its line
  over,     \* whether the stream has ended
  yielded,  \* history of the lines yielded, with the bytes that they are of
  errors,   \* how many reads have failed, each of them yielded as an error
  got,      \* history of the bytes read
  filled    \* history of the bytes put into the buffer

histVars == <<got, filled>>
vars == <<stdin, buf, eof, awaited, over, yielded, errors, histVars>>

Init == /\ stdin \in UNION {[1..n -> InputBytes] : n \in 0..MaxBytes}
        /\ buf = <<>>
        /\ eof = FALSE
        /\ awaited = FALSE
        /\ over = FALSE
        /\ yielded = <<>>
        /\ errors = 0
        /\ got = <<>>
        /\ filled = <<>>

-----------------------------------------------------------------------------
Newlines(bytes) == {i \in 1..Len(bytes) : bytes[i] = "newline"}
\* Mutant: the last newline instead of the first.
LastNewline(bytes) == CHOOSE i \in Newlines(bytes) :
                        \A j \in Newlines(bytes) : i >= j

FirstNewline(bytes) == CHOOSE i \in Newlines(bytes) :
                         \A j \in Newlines(bytes) : i <= j

\* String::from_utf8 of a line.
Decoded(line) == [kind |-> IF "invalid" \in ToSet(line) THEN "InvalidUtf8" ELSE "ok",
                  bytes |-> line]

\* A ReadLine command starts a turn of the unfold stream.
ReadLine == /\ ~awaited /\ ~over
            /\ awaited' = TRUE
            /\ UNCHANGED <<stdin, buf, eof, over, yielded, errors, histVars>>

\* Mutant: the newline stays in the buffer.
YieldLineShort == /\ awaited
                  /\ Newlines(buf) # {}
                  /\ LET pos == FirstNewline(buf)
                     IN  /\ yielded' = Append(yielded, Decoded(SubSeq(buf, 1, pos - 1)))
                         /\ buf' = SubSeq(buf, pos, Len(buf))
                  /\ Len(yielded) < MaxBytes
                  /\ awaited' = FALSE
                  /\ UNCHANGED <<stdin, eof, over, errors, histVars>>

\* The buffer has a newline: the line before it is split off and yielded.
YieldLine == /\ awaited
             /\ Newlines(buf) # {}
             /\ LET pos == FirstNewline(buf)
                IN  /\ yielded' = Append(yielded, Decoded(SubSeq(buf, 1, pos - 1)))
                    /\ buf' = SubSeq(buf, pos + 1, Len(buf))
             /\ awaited' = FALSE
             /\ UNCHANGED <<stdin, eof, over, errors, histVars>>

\* It has none and there is no more to read.
EndStream == /\ awaited
             /\ Newlines(buf) = {} /\ eof
             /\ over' = TRUE
             /\ awaited' = FALSE
             /\ UNCHANGED <<stdin, buf, eof, yielded, errors, histVars>>

MustRead == awaited /\ Newlines(buf) = {} /\ ~eof

\* A read returns n bytes; the rest of the chunk is cut off again.
ReadBytes(n) ==
  /\ MustRead
  /\ n <= Len(stdin)
  /\ LET read == SubSeq(stdin, 1, n)
     IN  buf' = buf \o read /\ got' = got \o read /\ filled' = filled \o read
  /\ stdin' = SubSeq(stdin, n + 1, Len(stdin))
  /\ UNCHANGED <<eof, awaited, over, yielded, errors>>

ReadNothing == /\ MustRead
               /\ stdin = <<>>
               /\ eof' = TRUE
               /\ UNCHANGED <<stdin, buf, awaited, over, yielded, errors, histVars>>

\* What the buffer is grown by.
Chunk == [i \in 1..CHUNK_SIZE |-> "pad"]

\* A read fails: the error is yielded, and the buffer is returned to the
\* stream as it was grown for the read.
ReadError == /\ MustRead
             /\ errors < MaxErrors
             /\ errors' = errors + 1
             /\ buf' = buf \o Chunk /\ filled' = filled \o Chunk
             /\ awaited' = FALSE
             /\ UNCHANGED <<stdin, eof, over, yielded, got>>

Next == \/ ReadLine
        \/ YieldLine
        \/ EndStream
        \/ \E n \in 1..CHUNK_SIZE : ReadBytes(n)
        \/ ReadNothing
        \/ ReadError

Spec == Init /\ [][Next]_vars

-----------------------------------------------------------------------------
\* Where the line that ends before position e of bytes starts: after the newline
\* that comes before, if any.
LineStart(bytes, e) ==
  CHOOSE i \in 1..e : /\ i = 1 \/ bytes[i - 1] = "newline"
                      /\ \A j \in i..(e - 1) : bytes[j] # "newline"

\* The lines that end within the first n bytes, each at its newline.
LinesTo(bytes, n) ==
  [e \in UpTo(Newlines(bytes), n) |-> SubSeq(bytes, LineStart(bytes, e), e - 1)]

\* The bytes that are not padding.
InputOf(bytes) == [i \in {j \in 1..Len(bytes) : bytes[j] # "pad"} |-> bytes[i]]

BytesOf(lines) == [i \in 1..Len(lines) |-> lines[i].bytes]

\* However the reads cut up the input and wherever they fail, what has been put
\* into the buffer is cut after a newline: the lines before that are yielded, in
\* order and each of them once, and the rest is buffered.  Every byte read is in
\* there, in order (driver.rs:289-352).
NoByteLost ==
  LET cut == Len(filled) - Len(buf)
  IN  /\ cut \in 0..Len(filled)
      /\ cut = 0 \/ filled[cut] = "newline"
      /\ Lists(BytesOf(yielded), LinesTo(filled, cut))
      /\ buf = SubSeq(filled, cut + 1, Len(filled))
      /\ Lists(got, InputOf(filled))

\* No yielded line spans two lines of input, and when the stream ends each
\* line of stdin that ends in a newline has been yielded, with what follows
\* the last newline dropped (driver.rs:294-312).
WholeLines ==
  /\ \A i \in 1..Len(yielded) : Newlines(yielded[i].bytes) = {}
  /\ over => stdin = <<>> /\ Len(yielded) = Cardinality(Newlines(got))

\* "Returns a [`Stream`] that yields lines of input read from stdin"
\* (driver.rs:269): a line consists of bytes that were read.
OnlyInput == \A i \in 1..Len(yielded) : "pad" \notin ToSet(yielded[i].bytes)
=============================================================================
