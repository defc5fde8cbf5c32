-------------------------- MODULE LineReaderProofs --------------------------
(***************************************************************************)
(* Proofs about LineReader, for any chunk size and any input.              *)
(*                                                                         *)
(* CutInv and InputInv, the parts of NoByteLost, are inductive with the    *)
(* types.  WholeLines also needs that a stream that is over has read all   *)
(* of stdin and buffers no newline (EndInv), and that the input has the    *)
(* newlines of what has been put into the buffer (CountInv).               *)
(***************************************************************************)
EXTENDS LineReader, SequenceLemmas, SequenceTheorems, FiniteSetTheorems, TLAPS

Line == [kind : {"ok", "InvalidUtf8"}, bytes : Seq(Bytes)]

TypeInv == /\ stdin \in Seq(InputBytes)
           /\ got \in Seq(InputBytes)
           /\ buf \in Seq(Bytes)
           /\ filled \in Seq(Bytes)
           /\ yielded \in Seq(Line)

\* No more to read, and no newline left.
EndInv == /\ eof => stdin = <<>>
          /\ over => eof /\ Newlines(buf) = {}

\* Each newline in the buffer has been read.
CountInv == Cardinality(Newlines(got)) = Cardinality(Newlines(filled))

\* No line has a newline in it.
LinesInv == \A i \in 1..Len(yielded) : Newlines(yielded[i].bytes) = {}

\* The lines that end before the cut are those yielded, and what comes after it
\* is buffered.
CutAt(cut) == /\ Len(filled) = cut + Len(buf)
              /\ cut = 0 \/ filled[cut] = "newline"
              /\ Lists(BytesOf(yielded), LinesTo(filled, cut))
              /\ \A i \in 1..Len(buf) : buf[i] = filled[cut + i]

CutInv == \E cut \in Nat : CutAt(cut)

\* What has been read is in the buffer or has been.
InputInv == Lists(got, InputOf(filled))

IInv == /\ TypeInv
        /\ EndInv
        /\ CountInv
        /\ LinesInv
        /\ CutInv
        /\ InputInv

-----------------------------------------------------------------------------
(* Sequences of bytes.                                                     *)

\* A part of a sequence of bytes.
LEMMA PartOf ==
  ASSUME NEW S, NEW s \in Seq(S), NEW m \in 1..(Len(s) + 1), NEW n \in (m - 1)..Len(s)
  PROVE  /\ SubSeq(s, m, n) \in Seq(S)
         /\ Len(SubSeq(s, m, n)) = n - m + 1
         /\ \A i \in 1..(n - m + 1) : SubSeq(s, m, n)[i] = s[m + i - 1]
<1>1. Len(s) \in Nat /\ m \in Int /\ n \in Int
  OBVIOUS
<1>2. \A i \in m..n : s[i] \in S
  BY <1>1
<1>3. n - m + 1 = IF m <= n THEN n - m + 1 ELSE 0
  BY <1>1
<1> QED
  BY <1>1, <1>2, <1>3, SubSeqProperties

\* What comes after the first n elements.
LEMMA AfterConcat ==
  ASSUME NEW S, NEW s \in Seq(S), NEW u \in Seq(S)
  PROVE  /\ s \o u \in Seq(S)
         /\ Len(s) \in Nat /\ Len(u) \in Nat
         /\ Len(s \o u) = Len(s) + Len(u)
         /\ \A i \in 1..Len(s) : (s \o u)[i] = s[i]
         /\ \A i \in 1..Len(u) : (s \o u)[Len(s) + i] = u[i]
BY ConcatProperties

\* As many positions when all of them are moved by n.
LEMMA Moved ==
  ASSUME NEW m \in Nat, NEW S, S \subseteq 1..m, NEW n \in Nat
  PROVE  /\ {n + i : i \in S} \subseteq (n + 1)..(n + m)
         /\ IsFiniteSet({n + i : i \in S})
         /\ Cardinality({n + i : i \in S}) = Cardinality(S)
<1> DEFINE T == {n + i : i \in S}
<1> DEFINE f == [i \in S |-> n + i]
<1>1. T \subseteq (n + 1)..(n + m)
  OBVIOUS
<1>2. f \in Bijection(S, T)
  <2>1. f \in [S -> T] /\ \A t \in T : \E i \in S : f[i] = t
    OBVIOUS
  <2>2. ASSUME NEW i \in S, NEW j \in S, f[i] = f[j] PROVE i = j
    <3>1. n + i = n + j /\ i \in Int /\ j \in Int
      BY <2>2
    <3> QED
      BY <3>1
  <2> QED
    BY <2>1, <2>2 DEF Bijection, Injection, Surjection, IsInjective
<1>3. ExistsBijection(S, T)
  BY <1>2 DEF ExistsBijection
<1>4. IsFiniteSet(S)
  <2>1. m \in Int /\ S \subseteq 1..m
    OBVIOUS
  <2> HIDE DEF T, f
  <2> QED
    BY <2>1, PositionsFinite
<1> HIDE DEF T
<1>5. IsFiniteSet(T) /\ Cardinality(T) = Cardinality(S)
  BY <1>3, <1>4, FS_Bijection
<1> QED
  BY <1>1, <1>5 DEF T

\* The newlines of two sequences, one after the other.
LEMMA NewlinesConcat ==
  ASSUME NEW s \in Seq(Bytes), NEW u \in Seq(Bytes)
  PROVE  Cardinality(Newlines(s \o u)) = Cardinality(Newlines(s)) + Cardinality(Newlines(u))
<1> DEFINE n == Len(s)
<1> DEFINE m == Len(u)
<1> DEFINE moved == {n + i : i \in Newlines(u)}
<1>1. /\ n \in Nat /\ m \in Nat /\ Len(s \o u) = n + m
      /\ \A i \in 1..n : (s \o u)[i] = s[i]
      /\ \A i \in 1..m : (s \o u)[n + i] = u[i]
  BY AfterConcat
<1>2. Newlines(s) \subseteq 1..n /\ Newlines(u) \subseteq 1..m
  BY DEF Newlines
<1>3. Newlines(s \o u) = Newlines(s) \cup moved
  <2>1. ASSUME NEW i \in Newlines(s \o u) PROVE i \in Newlines(s) \cup moved
    <3>1. i \in 1..(n + m) /\ (s \o u)[i] = "newline"
      BY <1>1, <2>1 DEF Newlines
    <3>2. CASE i \in 1..n
      BY <1>1, <3>1, <3>2 DEF Newlines
    <3>3. CASE i \notin 1..n
      <4>1. i - n \in 1..m /\ n + (i - n) = i
        BY <1>1, <3>1, <3>3
      <4>2. i - n \in Newlines(u)
        BY <1>1, <3>1, <4>1 DEF Newlines
      <4> QED
        BY <4>1, <4>2
    <3> QED
      BY <3>2, <3>3
  <2>2. ASSUME NEW i \in Newlines(s) PROVE i \in Newlines(s \o u)
    BY <1>1 DEF Newlines
  <2>3. ASSUME NEW i \in Newlines(u) PROVE n + i \in Newlines(s \o u)
    BY <1>1 DEF Newlines
  <2> QED
    BY <2>1, <2>2, <2>3
<1> HIDE DEF n, m
<1>4. /\ moved \subseteq (n + 1)..(n + m) /\ IsFiniteSet(moved)
      /\ Cardinality(moved) = Cardinality(Newlines(u))
  BY <1>1, <1>2, Moved
<1>5. /\ IsFiniteSet(Newlines(s)) /\ Cardinality(Newlines(s)) \in Nat
      /\ Cardinality(Newlines(u)) \in Nat
  BY <1>1, <1>2, PositionsFinite
<1>6. Newlines(s) \cap moved = {}
  BY <1>1, <1>2, <1>4
<1> HIDE DEF moved
<1>7. Cardinality(Newlines(s) \cup moved)
        = Cardinality(Newlines(s)) + Cardinality(Newlines(u)) - 0
  <2>1. Cardinality(Newlines(s) \cup moved)
          = Cardinality(Newlines(s)) + Cardinality(moved) - Cardinality(Newlines(s) \cap moved)
    BY <1>4, <1>5, FS_Union
  <2> QED
    BY <2>1, <1>4, <1>6, FS_EmptySet
<1> QED
  BY <1>3, <1>5, <1>7

\* The chunk that a failed read leaves in the buffer has only padding.
LEMMA ChunkFacts ==
  /\ Chunk \in Seq(Bytes) /\ Len(Chunk) = CHUNK_SIZE
  /\ \A i \in 1..CHUNK_SIZE : Chunk[i] = "pad"
  /\ Newlines(Chunk) = {}
<1>1. CHUNK_SIZE \in Nat
  BY ChunkAssumption
<1>2. Chunk \in [1..CHUNK_SIZE -> Bytes] /\ \A i \in 1..CHUNK_SIZE : Chunk[i] = "pad"
  BY DEF Chunk, Bytes
<1>3. Chunk \in Seq(Bytes)
  BY <1>1, <1>2, SeqDef
<1>4. 1..Len(Chunk) = 1..CHUNK_SIZE /\ Len(Chunk) \in Nat
  BY <1>2, <1>3, LenProperties
<1>5. Len(Chunk) = CHUNK_SIZE
  BY <1>1, <1>4
<1> QED
  BY <1>2, <1>3, <1>5 DEF Newlines

-----------------------------------------------------------------------------
(* Reads.                                                                  *)

\* A line starts somewhere up to its end, after the last newline before that.
LEMMA Starts ==
  ASSUME NEW s, NEW e \in Nat \ {0}
  PROVE  /\ LineStart(s, e) \in 1..e
         /\ LineStart(s, e) = 1 \/ s[LineStart(s, e) - 1] = "newline"
         /\ \A j \in LineStart(s, e)..(e - 1) : s[j] # "newline"
<1> DEFINE T == {k \in Nat : k < e /\ (k = e - 1 \/ s[e - k - 1] = "newline")}
<1>1. e - 1 \in T
  OBVIOUS
<1>2. PICK k \in T : \A l \in T : k <= l
  BY <1>1, LeastNumber
<1>3. /\ k \in Nat /\ e - k \in 1..e
      /\ e - k = 1 \/ s[(e - k) - 1] = "newline"
  OBVIOUS
<1>4. ASSUME NEW j \in (e - k)..(e - 1) PROVE s[j] # "newline"
  <2> SUFFICES ASSUME s[j] = "newline" PROVE FALSE
    OBVIOUS
  <2>1. e - j - 1 \in Nat /\ e - j - 1 < e /\ e - (e - j - 1) - 1 = j /\ ~(k <= e - j - 1)
    BY <1>3
  <2>2. e - j - 1 \in T
    BY <2>1
  <2> QED
    BY <1>2, <2>1, <2>2
<1> HIDE DEF T
<1> QED
  BY <1>3, <1>4 DEF LineStart

\* Whatever is put into the buffer, the lines before it stay where they are.
LEMMA LinesStay ==
  ASSUME NEW s \in Seq(Bytes), NEW u \in Seq(Bytes), NEW n \in 0..Len(s)
  PROVE  LinesTo(s \o u, n) = LinesTo(s, n)
<1> DEFINE t == s \o u
<1>1. /\ t \in Seq(Bytes) /\ Len(s) \in Nat /\ Len(t) \in Nat /\ Len(s) <= Len(t)
      /\ \A i \in 1..Len(s) : t[i] = s[i]
  BY AfterConcat
<1> HIDE DEF t
<1>2. UpTo(Newlines(t), n) = UpTo(Newlines(s), n)
  BY <1>1 DEF UpTo, Newlines
<1>3. ASSUME NEW e \in UpTo(Newlines(s), n)
      PROVE  SubSeq(t, LineStart(t, e), e - 1) = SubSeq(s, LineStart(s, e), e - 1)
  <2>1. e \in 1..Len(s)
    BY DEF UpTo, Newlines
  <2>2. LineStart(t, e) = LineStart(s, e)
    <3>1. ASSUME NEW i \in 1..e
          PROVE  (/\ i = 1 \/ t[i - 1] = "newline"
                  /\ \A j \in i..(e - 1) : t[j] # "newline")
                 <=> (/\ i = 1 \/ s[i - 1] = "newline"
                      /\ \A j \in i..(e - 1) : s[j] # "newline")
      <4>1. i = 1 \/ t[i - 1] = s[i - 1]
        BY <1>1, <2>1
      <4>2. \A j \in i..(e - 1) : t[j] = s[j]
        BY <1>1, <2>1
      <4> QED
        BY <4>1, <4>2
    <3> QED
      BY <3>1 DEF LineStart
  <2>3. LineStart(s, e) \in 1..e
    BY <2>1, Starts
  <2> DEFINE m == LineStart(s, e)
  <2> HIDE DEF m
  <2>4. m \in 1..(Len(s) + 1) /\ m \in 1..(Len(t) + 1)
        /\ e - 1 \in (m - 1)..Len(s) /\ e - 1 \in (m - 1)..Len(t)
        /\ \A i \in 1..((e - 1) - m + 1) : m + i - 1 \in 1..Len(s)
    <3>1. m \in 1..e
      BY <2>3 DEF m
    <3> QED
      BY <1>1, <2>1, <3>1
  <2>5. /\ SubSeq(s, m, e - 1) \in Seq(Bytes) /\ SubSeq(t, m, e - 1) \in Seq(Bytes)
        /\ Len(SubSeq(s, m, e - 1)) = (e - 1) - m + 1
        /\ Len(SubSeq(t, m, e - 1)) = (e - 1) - m + 1
        /\ \A i \in 1..((e - 1) - m + 1) : /\ SubSeq(s, m, e - 1)[i] = s[m + i - 1]
                                            /\ SubSeq(t, m, e - 1)[i] = t[m + i - 1]
    BY <1>1, <2>4, PartOf
  <2>6. SubSeq(t, m, e - 1) = SubSeq(s, m, e - 1)
    BY <1>1, <2>4, <2>5, SeqEqual
  <2> QED
    BY <2>2, <2>6 DEF m
<1> QED
  BY <1>2, <1>3 DEF LinesTo, t

\* What is put into the buffer leaves the cut where it is.
LEMMA FillCut ==
  ASSUME TypeInv, CutInv, NEW u \in Seq(Bytes),
         buf' = buf \o u, filled' = filled \o u, yielded' = yielded
  PROVE  CutInv'
<1>1. PICK cut \in Nat : CutAt(cut)
  BY DEF CutInv
<1> DEFINE l == Len(filled)
<1> DEFINE b == Len(buf)
<1> DEFINE n == Len(u)
<1>2. /\ l \in Nat /\ b \in Nat /\ n \in Nat
      /\ Len(filled') = l + n /\ Len(buf') = b + n
      /\ \A i \in 1..l : filled'[i] = filled[i]
      /\ \A i \in 1..n : filled'[l + i] = u[i]
      /\ \A i \in 1..b : buf'[i] = buf[i]
      /\ \A i \in 1..n : buf'[b + i] = u[i]
  <2>1. /\ n \in Nat /\ u \in Seq(Bytes) /\ filled \in Seq(Bytes) /\ buf \in Seq(Bytes)
        /\ filled' = filled \o u /\ buf' = buf \o u
    BY DEF TypeInv
  <2>2. /\ l \in Nat /\ Len(filled') = l + n
        /\ \A i \in 1..l : filled'[i] = filled[i]
        /\ \A i \in 1..n : filled'[l + i] = u[i]
    BY <2>1, AfterConcat
  <2>3. /\ b \in Nat /\ Len(buf') = b + n
        /\ \A i \in 1..b : buf'[i] = buf[i]
        /\ \A i \in 1..n : buf'[b + i] = u[i]
    BY <2>1, AfterConcat
  <2> QED
    BY <2>1, <2>2, <2>3
<1>3. l = cut + b /\ \A i \in 1..b : buf[i] = filled[cut + i]
  BY <1>1 DEF CutAt
<1>4. LinesTo(filled', cut) = LinesTo(filled, cut)
  <2>1. cut \in 0..Len(filled)
    BY <1>2, <1>3
  <2> QED
    BY <2>1, LinesStay DEF TypeInv
<1> HIDE DEF l, b, n
<1>5. l + n = cut + (b + n)
  BY <1>2, <1>3
<1>6. cut = 0 \/ filled'[cut] = "newline"
  <2>1. cut # 0 => cut \in 1..l
    BY <1>2, <1>3
  <2> QED
    BY <1>1, <1>2, <2>1 DEF CutAt
<1>7. ASSUME NEW i \in 1..(b + n) PROVE buf'[i] = filled'[cut + i]
  <2>1. CASE i \in 1..b
    <3>1. cut + i \in 1..l
      BY <1>2, <1>3, <2>1
    <3> QED
      BY <1>2, <1>3, <2>1, <3>1
  <2>2. CASE i \notin 1..b
    <3>1. i - b \in 1..n /\ b + (i - b) = i /\ l + (i - b) = cut + i
      BY <1>2, <1>3, <2>2
    <3> QED
      BY <1>2, <3>1
  <2> QED
    BY <2>1, <2>2
<1>8. CutAt(cut)'
  BY <1>1, <1>2, <1>4, <1>5, <1>6, <1>7 DEF CutAt
<1> QED
  BY <1>8 DEF CutInv

-----------------------------------------------------------------------------
(* Lines.                                                                  *)

\* The bytes of the lines, when one is yielded.
LEMMA BytesAppend ==
  ASSUME NEW s \in Seq(Line), NEW x \in Line
  PROVE  /\ BytesOf(s) \in Seq(Seq(Bytes)) /\ Len(BytesOf(s)) = Len(s)
         /\ BytesOf(Append(s, x)) = Append(BytesOf(s), x.bytes)
<1>1. ASSUME NEW t \in Seq(Line)
      PROVE  /\ BytesOf(t) \in Seq(Seq(Bytes)) /\ Len(BytesOf(t)) = Len(t)
             /\ \A i \in 1..Len(t) : BytesOf(t)[i] = t[i].bytes
  <2> DEFINE n == Len(t)
  <2>1. n \in Nat /\ \A i \in 1..n : t[i] \in Line
    OBVIOUS
  <2>2. \A i \in 1..n : t[i].bytes \in Seq(Bytes)
    BY <2>1 DEF Line
  <2>3. BytesOf(t) \in [1..n -> Seq(Bytes)] /\ \A i \in 1..n : BytesOf(t)[i] = t[i].bytes
    BY <2>2 DEF BytesOf
  <2> HIDE DEF n
  <2>4. BytesOf(t) \in Seq(Seq(Bytes))
    BY <2>1, <2>3, SeqDef
  <2>5. Len(BytesOf(t)) \in Nat /\ 1..Len(BytesOf(t)) = 1..n
    BY <2>3, <2>4, LenProperties
  <2>6. Len(BytesOf(t)) = n
    BY <2>1, <2>5
  <2> QED
    BY <2>3, <2>4, <2>6 DEF n
<1>2. /\ Append(s, x) \in Seq(Line) /\ Len(Append(s, x)) = Len(s) + 1 /\ Len(s) \in Nat
      /\ \A i \in 1..Len(s) : Append(s, x)[i] = s[i]
      /\ Append(s, x)[Len(s) + 1] = x
  BY AppendProperties
<1>3. x.bytes \in Seq(Bytes)
  BY DEF Line
<1> DEFINE p == BytesOf(s)
<1> DEFINE q == BytesOf(Append(s, x))
<1> DEFINE n == Len(s)
<1>4. /\ p \in Seq(Seq(Bytes)) /\ Len(p) = n /\ \A i \in 1..n : p[i] = s[i].bytes
      /\ q \in Seq(Seq(Bytes)) /\ Len(q) = n + 1 /\ q[n + 1] = x.bytes
      /\ \A i \in 1..n : q[i] = s[i].bytes
      /\ n \in Nat
  <2>1. n + 1 \in 1..(n + 1) /\ \A i \in 1..n : i \in 1..(n + 1)
    BY <1>2
  <2> QED
    BY <1>1, <1>2, <2>1
<1> HIDE DEF p, q, n
<1>5. /\ Append(p, x.bytes) \in Seq(Seq(Bytes)) /\ Len(Append(p, x.bytes)) = n + 1
      /\ \A i \in 1..n : Append(p, x.bytes)[i] = p[i]
      /\ Append(p, x.bytes)[n + 1] = x.bytes
  BY <1>3, <1>4, AppendProperties
<1>6. \A i \in 1..(n + 1) : q[i] = Append(p, x.bytes)[i]
  <2>1. \A i \in 1..(n + 1) : i \in 1..n \/ i = n + 1
    BY <1>4
  <2> QED
    BY <1>4, <1>5, <2>1
<1>7. q = Append(p, x.bytes)
  BY <1>4, <1>5, <1>6, SeqEqual
<1> QED
  BY <1>4, <1>7 DEF p, q, n

\* The first newline, and what comes before and after it.
LEMMA FirstLine ==
  ASSUME NEW s \in Seq(Bytes), Newlines(s) # {}
  PROVE  LET pos == FirstNewline(s)
             line == SubSeq(s, 1, pos - 1)
             rest == SubSeq(s, pos + 1, Len(s))
         IN  /\ pos \in 1..Len(s) /\ s[pos] = "newline"
             /\ \A j \in 1..(pos - 1) : s[j] # "newline"
             /\ line \in Seq(Bytes) /\ Len(line) = pos - 1
             /\ \A i \in 1..(pos - 1) : line[i] = s[i]
             /\ rest \in Seq(Bytes) /\ Len(rest) = Len(s) - pos
             /\ \A i \in 1..(Len(s) - pos) : rest[i] = s[pos + i]
<1> DEFINE pos == FirstNewline(s)
<1> DEFINE n == Len(s)
<1>1. n \in Nat /\ Newlines(s) \subseteq 1..n /\ Newlines(s) \subseteq Nat
  BY DEF Newlines
<1>2. \E p \in Newlines(s) : \A j \in Newlines(s) : p <= j
  BY <1>1, LeastNumber
<1>3. pos \in Newlines(s) /\ \A j \in Newlines(s) : pos <= j
  BY <1>2 DEF FirstNewline
<1>4. pos \in 1..n /\ s[pos] = "newline"
  BY <1>3 DEF Newlines
<1> HIDE DEF pos
<1>5. ASSUME NEW j \in 1..(pos - 1) PROVE s[j] # "newline"
  <2>1. j \in 1..n /\ ~(pos <= j)
    BY <1>1, <1>4
  <2> QED
    BY <1>3, <2>1 DEF Newlines
<1> HIDE DEF n
<1>6. /\ 1 \in 1..(n + 1) /\ pos - 1 \in (1 - 1)..n /\ (pos - 1) - 1 + 1 = pos - 1
      /\ pos + 1 \in 1..(n + 1) /\ n \in ((pos + 1) - 1)..n /\ n - (pos + 1) + 1 = n - pos
      /\ \A i \in 1..(pos - 1) : 1 + i - 1 = i
      /\ \A i \in 1..(n - pos) : (pos + 1) + i - 1 = pos + i
  BY <1>1, <1>4
<1>7. /\ SubSeq(s, 1, pos - 1) \in Seq(Bytes) /\ Len(SubSeq(s, 1, pos - 1)) = pos - 1
      /\ \A i \in 1..(pos - 1) : SubSeq(s, 1, pos - 1)[i] = s[1 + i - 1]
  BY <1>6, PartOf DEF n
<1>8. /\ SubSeq(s, pos + 1, n) \in Seq(Bytes) /\ Len(SubSeq(s, pos + 1, n)) = n - pos
      /\ \A i \in 1..(n - pos) : SubSeq(s, pos + 1, n)[i] = s[(pos + 1) + i - 1]
  BY <1>6, PartOf DEF n
<1> QED
  BY <1>4, <1>5, <1>6, <1>7, <1>8 DEF pos, n

\* The line that ends at the first newline after the cut.
LEMMA NextLine ==
  ASSUME NEW s \in Seq(Bytes), NEW cut \in Nat, NEW pos \in Nat \ {0},
         cut + pos \in 1..Len(s), s[cut + pos] = "newline", cut = 0 \/ s[cut] = "newline",
         \A j \in 1..(pos - 1) : s[cut + j] # "newline"
  PROVE  LinesTo(s, cut + pos)
           = WithOne(LinesTo(s, cut), cut + pos, SubSeq(s, cut + 1, (cut + pos) - 1))
<1> DEFINE e == cut + pos
<1>1. UpTo(Newlines(s), e) = UpTo(Newlines(s), cut) \cup {e}
  <2>1. ASSUME NEW i \in UpTo(Newlines(s), e) PROVE i \in UpTo(Newlines(s), cut) \cup {e}
    <3>1. i \in 1..e /\ i \in Newlines(s) /\ s[i] = "newline"
      BY DEF UpTo, Newlines
    <3>2. CASE i <= cut
      BY <3>1, <3>2 DEF UpTo
    <3>3. CASE ~(i <= cut) /\ i # e
      <4>1. i - cut \in 1..(pos - 1) /\ cut + (i - cut) = i
        BY <3>1, <3>3
      <4> QED
        BY <3>1, <4>1
    <3> QED
      BY <3>2, <3>3
  <2>2. ASSUME NEW i \in UpTo(Newlines(s), cut) PROVE i \in UpTo(Newlines(s), e)
    BY DEF UpTo, Newlines
  <2>3. e \in UpTo(Newlines(s), e)
    BY DEF UpTo, Newlines
  <2> QED
    BY <2>1, <2>2, <2>3
<1>2. LineStart(s, e) = cut + 1
  <2> DEFINE i == LineStart(s, e)
  <2>1. /\ i \in 1..e
        /\ i = 1 \/ s[i - 1] = "newline"
        /\ \A j \in i..(e - 1) : s[j] # "newline"
    <3>1. e \in Nat \ {0}
      OBVIOUS
    <3> QED
      BY <3>1, Starts
  <2> HIDE DEF i
  <2>2. ASSUME i < cut + 1 PROVE FALSE
    <3>1. cut \in i..(e - 1) /\ cut # 0
      BY <2>1, <2>2
    <3> QED
      BY <2>1, <3>1
  <2>3. ASSUME cut + 1 < i PROVE FALSE
    <3>1. (i - 1) - cut \in 1..(pos - 1) /\ cut + ((i - 1) - cut) = i - 1 /\ i # 1
      BY <2>1, <2>3
    <3> QED
      BY <2>1, <3>1
  <2>4. i = cut + 1
    BY <2>1, <2>2, <2>3
  <2> QED
    BY <2>4 DEF i
<1>3. e \notin UpTo(Newlines(s), cut)
  BY DEF UpTo
<1> HIDE DEF e
<1> QED
  BY <1>1, <1>2, <1>3 DEF LinesTo, WithOne, e

\* The line that is yielded is the next one, and the cut moves behind it.
LEMMA YieldCut ==
  ASSUME TypeInv, CutInv, YieldLine
  PROVE  CutInv'
<1>1. PICK cut \in Nat : CutAt(cut)
  BY DEF CutInv
<1> DEFINE l == Len(filled)
<1> DEFINE b == Len(buf)
<1> DEFINE pos == FirstNewline(buf)
<1> DEFINE line == SubSeq(buf, 1, pos - 1)
<1> DEFINE lines == BytesOf(yielded)
<1>2. /\ pos \in 1..b /\ buf[pos] = "newline"
      /\ \A j \in 1..(pos - 1) : buf[j] # "newline"
      /\ line \in Seq(Bytes) /\ Len(line) = pos - 1
      /\ \A i \in 1..(pos - 1) : line[i] = buf[i]
      /\ Len(buf') = b - pos
      /\ \A i \in 1..(b - pos) : buf'[i] = buf[pos + i]
  BY FirstLine DEF TypeInv, YieldLine
<1>3. /\ filled \in Seq(Bytes) /\ l \in Nat /\ b \in Nat /\ yielded \in Seq(Line)
      /\ yielded' = Append(yielded, Decoded(line)) /\ filled' = filled
  BY DEF TypeInv, YieldLine, histVars
<1>4. /\ l = cut + b /\ \A i \in 1..b : buf[i] = filled[cut + i]
      /\ cut = 0 \/ filled[cut] = "newline"
      /\ Lists(lines, LinesTo(filled, cut))
  BY <1>1 DEF CutAt
<1>5. BytesOf(yielded') = Append(lines, line) /\ lines \in Seq(Seq(Bytes))
  <2>1. Decoded(line) \in Line /\ Decoded(line).bytes = line
    BY <1>2 DEF Decoded, Line
  <2> QED
    BY <1>3, <2>1, BytesAppend
<1> HIDE DEF l, b, pos, line, lines
<1> DEFINE e == cut + pos
<1>6. /\ e \in 1..l /\ pos \in Nat \ {0} /\ filled[e] = "newline"
      /\ \A j \in 1..(pos - 1) : filled[cut + j] # "newline"
  <2>1. \A j \in 1..(pos - 1) : j \in 1..b
    BY <1>2, <1>3
  <2>2. e \in 1..l /\ pos \in Nat \ {0}
    BY <1>2, <1>3, <1>4
  <2> QED
    BY <1>2, <1>4, <2>1, <2>2
<1>7. SubSeq(filled, cut + 1, e - 1) = line
  <2>1. /\ cut + 1 \in 1..(l + 1) /\ e - 1 \in ((cut + 1) - 1)..l
        /\ (e - 1) - (cut + 1) + 1 = pos - 1
        /\ \A i \in 1..(pos - 1) : (cut + 1) + i - 1 = cut + i /\ i \in 1..b
    BY <1>2, <1>3, <1>4, <1>6
  <2>2. /\ SubSeq(filled, cut + 1, e - 1) \in Seq(Bytes)
        /\ Len(SubSeq(filled, cut + 1, e - 1)) = pos - 1
        /\ \A i \in 1..(pos - 1) : SubSeq(filled, cut + 1, e - 1)[i] = filled[cut + i]
    <3> HIDE DEF e
    <3>1. /\ SubSeq(filled, cut + 1, e - 1) \in Seq(Bytes)
          /\ Len(SubSeq(filled, cut + 1, e - 1)) = (e - 1) - (cut + 1) + 1
          /\ \A i \in 1..((e - 1) - (cut + 1) + 1) :
               SubSeq(filled, cut + 1, e - 1)[i] = filled[(cut + 1) + i - 1]
      BY <1>3, <2>1, PartOf DEF l
    <3> QED
      BY <2>1, <3>1
  <2> HIDE DEF e
  <2>3. \A i \in 1..(pos - 1) : SubSeq(filled, cut + 1, e - 1)[i] = line[i]
    BY <1>2, <1>4, <2>1, <2>2
  <2> DEFINE t == SubSeq(filled, cut + 1, e - 1)
  <2>4. t \in Seq(Bytes) /\ Len(t) = Len(line) /\ \A i \in 1..Len(t) : t[i] = line[i]
    BY <1>2, <2>2, <2>3
  <2> HIDE DEF t
  <2>5. t = line
    BY <1>2, <2>4, SeqEqual
  <2> QED
    BY <2>5 DEF t
<1>8. LinesTo(filled, e) = WithOne(LinesTo(filled, cut), e, line)
  BY <1>3, <1>4, <1>6, <1>7, NextLine DEF l
<1>9. Lists(Append(lines, line), WithOne(LinesTo(filled, cut), e, line))
  <2>1. DOMAIN LinesTo(filled, cut) \subseteq 1..cut
    BY DEF LinesTo, UpTo, Newlines
  <2>2. cut \in Int /\ e \in Int /\ cut < e /\ line \in Seq(Bytes)
    BY <1>2, <1>6
  <2> HIDE DEF e
  <2> QED
    BY <1>4, <1>5, <2>1, <2>2, ListsAppend
<1>10. l = e + (b - pos) /\ \A i \in 1..(b - pos) : pos + i \in 1..b /\ cut + (pos + i) = e + i
  BY <1>2, <1>3, <1>4
<1>11. e \in Nat
  BY <1>6
<1> HIDE DEF e
<1>12. \A i \in 1..(b - pos) : buf'[i] = filled[e + i]
  BY <1>2, <1>4, <1>10
<1>13. PICK m \in Nat : m = e
  BY <1>11
<1>14. CutAt(m)'
  BY <1>2, <1>3, <1>5, <1>6, <1>8, <1>9, <1>10, <1>12, <1>13 DEF CutAt, l
<1> QED
  BY <1>14 DEF CutInv

-----------------------------------------------------------------------------
(* The steps.                                                              *)

\* What a read returns is the first part of stdin.
LEMMA ReadFacts ==
  ASSUME TypeInv, NEW n \in 1..CHUNK_SIZE, ReadBytes(n)
  PROVE  LET read == SubSeq(stdin, 1, n)
         IN  /\ read \in Seq(InputBytes) /\ read \in Seq(Bytes)
             /\ stdin' \in Seq(InputBytes)
             /\ buf' = buf \o read /\ got' = got \o read /\ filled' = filled \o read
             /\ stdin # <<>> /\ UNCHANGED <<eof, awaited, over, yielded>>
<1> DEFINE l == Len(stdin)
<1>1. stdin \in Seq(InputBytes) /\ l \in Nat /\ n \in 1..l
  BY ChunkAssumption DEF TypeInv, ReadBytes
<1>2. /\ 1 \in 1..(l + 1) /\ n \in (1 - 1)..l
      /\ n + 1 \in 1..(l + 1) /\ l \in ((n + 1) - 1)..l
  BY <1>1
<1>3. SubSeq(stdin, 1, n) \in Seq(InputBytes) /\ SubSeq(stdin, n + 1, l) \in Seq(InputBytes)
  BY <1>1, <1>2, PartOf
<1>4. SubSeq(stdin, 1, n) \in Seq(Bytes)
  <2>1. InputBytes \subseteq Bytes
    BY DEF Bytes
  <2> QED
    BY <1>3, <2>1, SeqMonotonic
<1>5. stdin # <<>>
  BY <1>1
<1> QED
  BY <1>3, <1>4, <1>5 DEF ReadBytes

\* Every step keeps the types.
LEMMA TypeStep == TypeInv /\ [Next]_vars => TypeInv'
<1> SUFFICES ASSUME TypeInv, [Next]_vars PROVE TypeInv'
  OBVIOUS
<1> USE DEF histVars
<1>1. CASE ReadLine
  BY <1>1 DEF ReadLine, TypeInv
<1>2. CASE YieldLine
  <2> DEFINE line == SubSeq(buf, 1, FirstNewline(buf) - 1)
  <2>1. line \in Seq(Bytes) /\ buf' \in Seq(Bytes)
    BY <1>2, FirstLine DEF TypeInv, YieldLine
  <2>2. yielded' = Append(yielded, Decoded(line)) /\ UNCHANGED <<stdin, got, filled>>
    BY <1>2 DEF YieldLine
  <2> HIDE DEF line
  <2>3. Decoded(line) \in Line
    BY <2>1 DEF Decoded, Line
  <2>4. yielded' \in Seq(Line)
    BY <2>2, <2>3, AppendProperties DEF TypeInv
  <2> QED
    BY <2>1, <2>2, <2>4 DEF TypeInv
<1>3. CASE EndStream
  BY <1>3 DEF EndStream, TypeInv
<1>4. ASSUME NEW n \in 1..CHUNK_SIZE, ReadBytes(n) PROVE TypeInv'
  <2> DEFINE read == SubSeq(stdin, 1, n)
  <2>1. /\ read \in Seq(InputBytes) /\ read \in Seq(Bytes) /\ stdin' \in Seq(InputBytes)
        /\ buf' = buf \o read /\ got' = got \o read /\ filled' = filled \o read
        /\ yielded' = yielded
    BY <1>4, ReadFacts
  <2> HIDE DEF read
  <2>2. /\ buf \o read \in Seq(Bytes) /\ got \o read \in Seq(InputBytes)
        /\ filled \o read \in Seq(Bytes)
    BY <2>1, ConcatProperties DEF TypeInv
  <2> QED
    BY <2>1, <2>2 DEF TypeInv
<1>5. CASE ReadNothing
  BY <1>5 DEF ReadNothing, TypeInv
<1>6. CASE ReadError
  <2>1. buf \o Chunk \in Seq(Bytes) /\ filled \o Chunk \in Seq(Bytes)
    BY ChunkFacts, ConcatProperties DEF TypeInv
  <2> QED
    BY <1>6, <2>1 DEF ReadError, TypeInv
<1>7. CASE UNCHANGED vars
  BY <1>7 DEF vars, TypeInv
<1> HIDE DEF histVars
<1> QED
  BY <1>1, <1>2, <1>3, <1>4, <1>5, <1>6, <1>7 DEF Next

\* Only a read that returns nothing makes the stream end, which waits until there
\* is no newline left.
LEMMA EndStep == TypeInv /\ EndInv /\ [Next]_vars => EndInv'
<1> SUFFICES ASSUME TypeInv, EndInv, [Next]_vars PROVE EndInv'
  OBVIOUS
<1>1. CASE ReadLine
  BY <1>1 DEF ReadLine, EndInv
<1>2. CASE YieldLine
  <2>1. ~over
    BY <1>2 DEF YieldLine, EndInv
  <2> QED
    BY <1>2, <2>1 DEF YieldLine, EndInv
<1>3. CASE EndStream
  BY <1>3 DEF EndStream, EndInv
<1>4. ASSUME NEW n \in 1..CHUNK_SIZE, ReadBytes(n) PROVE EndInv'
  <2>1. ~eof /\ eof' = eof /\ over' = over
    BY <1>4 DEF ReadBytes, MustRead
  <2> QED
    BY <2>1 DEF EndInv
<1>5. CASE ReadNothing
  BY <1>5 DEF ReadNothing, EndInv
<1>6. CASE ReadError
  <2>1. ~eof /\ eof' = eof /\ over' = over
    BY <1>6 DEF ReadError, MustRead
  <2> QED
    BY <2>1 DEF EndInv
<1>7. CASE UNCHANGED vars
  BY <1>7 DEF vars, EndInv
<1> QED
  BY <1>1, <1>2, <1>3, <1>4, <1>5, <1>6, <1>7 DEF Next

\* Every newline that is read goes into the buffer, and no other.
LEMMA CountStep == TypeInv /\ CountInv /\ [Next]_vars => CountInv'
<1> SUFFICES ASSUME TypeInv, CountInv, [Next]_vars PROVE CountInv'
  OBVIOUS
<1>1. CASE UNCHANGED histVars
  BY <1>1 DEF histVars, CountInv
<1>2. ASSUME NEW n \in 1..CHUNK_SIZE, ReadBytes(n) PROVE CountInv'
  <2> DEFINE read == SubSeq(stdin, 1, n)
  <2>1. read \in Seq(Bytes) /\ got' = got \o read /\ filled' = filled \o read
    BY <1>2, ReadFacts
  <2> HIDE DEF read
  <2>2. got \in Seq(Bytes) /\ filled \in Seq(Bytes)
    <3>1. InputBytes \subseteq Bytes
      BY DEF Bytes
    <3> QED
      BY <3>1, SeqMonotonic DEF TypeInv
  <2>3. /\ Cardinality(Newlines(got \o read))
             = Cardinality(Newlines(got)) + Cardinality(Newlines(read))
        /\ Cardinality(Newlines(filled \o read))
             = Cardinality(Newlines(filled)) + Cardinality(Newlines(read))
    BY <2>1, <2>2, NewlinesConcat
  <2> QED
    BY <2>1, <2>3 DEF CountInv
<1>3. CASE ReadError
  <2>1. got' = got /\ filled' = filled \o Chunk
    BY <1>3 DEF ReadError
  <2>2. Cardinality(Newlines(filled \o Chunk))
          = Cardinality(Newlines(filled)) + Cardinality(Newlines(Chunk))
    BY ChunkFacts, NewlinesConcat DEF TypeInv
  <2>3. Cardinality(Newlines(Chunk)) = 0
    BY ChunkFacts, FS_EmptySet
  <2>4. Cardinality(Newlines(filled)) \in Nat
    <3>1. Newlines(filled) \subseteq 1..Len(filled) /\ Len(filled) \in Int
      BY DEF Newlines, TypeInv
    <3> QED
      BY <3>1, PositionsFinite
  <2>5. Cardinality(Newlines(filled)) + 0 = Cardinality(Newlines(filled))
    BY <2>4
  <2> QED
    BY <2>1, <2>2, <2>3, <2>5 DEF CountInv
<1> QED
  BY <1>1, <1>2, <1>3
  DEF Next, ReadLine, YieldLine, EndStream, ReadNothing, vars, histVars

\* A line that is yielded has no newline in it.
LEMMA LinesStep == TypeInv /\ LinesInv /\ [Next]_vars => LinesInv'
<1> SUFFICES ASSUME TypeInv, LinesInv, [Next]_vars PROVE LinesInv'
  OBVIOUS
<1>1. CASE UNCHANGED yielded
  BY <1>1 DEF LinesInv
<1>2. CASE YieldLine
  <2> DEFINE line == SubSeq(buf, 1, FirstNewline(buf) - 1)
  <2>1. /\ line \in Seq(Bytes) /\ Len(line) = FirstNewline(buf) - 1
        /\ \A i \in 1..Len(line) : line[i] # "newline"
    <3>1. buf \in Seq(Bytes) /\ Newlines(buf) # {}
      BY <1>2 DEF TypeInv, YieldLine
    <3>2. /\ line \in Seq(Bytes) /\ Len(line) = FirstNewline(buf) - 1
          /\ \A i \in 1..(FirstNewline(buf) - 1) : line[i] = buf[i] /\ buf[i] # "newline"
      BY <3>1, FirstLine
    <3> QED
      BY <3>2
  <2>2. yielded' = Append(yielded, Decoded(line))
    BY <1>2 DEF YieldLine
  <2> HIDE DEF line
  <2>3. Decoded(line) \in Line /\ Decoded(line).bytes = line
    BY <2>1 DEF Decoded, Line
  <2>4. /\ Len(yielded') = Len(yielded) + 1 /\ Len(yielded) \in Nat
        /\ \A i \in 1..Len(yielded) : yielded'[i] = yielded[i]
        /\ yielded'[Len(yielded) + 1] = Decoded(line)
    BY <2>2, <2>3, AppendProperties DEF TypeInv
  <2>5. Newlines(line) = {}
    BY <2>1 DEF Newlines
  <2>6. ASSUME NEW i \in 1..(Len(yielded) + 1) PROVE Newlines(yielded'[i].bytes) = {}
    <3>1. i \in 1..Len(yielded) \/ i = Len(yielded) + 1
      BY <2>4
    <3> QED
      BY <2>3, <2>4, <2>5, <3>1 DEF LinesInv
  <2> QED
    BY <2>4, <2>6 DEF LinesInv
<1> QED
  BY <1>1, <1>2 DEF Next, ReadLine, EndStream, ReadBytes, ReadNothing, ReadError, vars

\* Every step keeps the cut between what is yielded and what is buffered.
LEMMA CutStep == TypeInv /\ CutInv /\ [Next]_vars => CutInv'
<1> SUFFICES ASSUME TypeInv, CutInv, [Next]_vars PROVE CutInv'
  OBVIOUS
<1>1. CASE UNCHANGED <<buf, yielded, filled>>
  BY <1>1 DEF CutInv, CutAt
<1>2. CASE YieldLine
  BY <1>2, YieldCut
<1>3. ASSUME NEW n \in 1..CHUNK_SIZE, ReadBytes(n) PROVE CutInv'
  BY <1>3, ReadFacts, FillCut
<1>4. CASE ReadError
  <2>1. buf' = buf \o Chunk /\ filled' = filled \o Chunk /\ yielded' = yielded
    BY <1>4 DEF ReadError
  <2> QED
    BY <2>1, ChunkFacts, FillCut
<1> QED
  BY <1>1, <1>2, <1>3, <1>4 DEF Next, ReadLine, EndStream, ReadNothing, vars, histVars

\* Every byte read goes into the buffer.
LEMMA InputStep == TypeInv /\ InputInv /\ [Next]_vars => InputInv'
<1> SUFFICES ASSUME TypeInv, InputInv, [Next]_vars PROVE InputInv'
  OBVIOUS
<1> DEFINE l == Len(filled)
<1> DEFINE f == InputOf(filled)
<1>0. l \in Nat /\ filled \in Seq(Bytes) /\ DOMAIN f \subseteq 1..l
  BY DEF TypeInv, InputOf
<1>1. CASE UNCHANGED histVars
  BY <1>1 DEF histVars, InputInv
<1>2. ASSUME NEW n \in 1..CHUNK_SIZE, ReadBytes(n) PROVE InputInv'
  <2> DEFINE read == SubSeq(stdin, 1, n)
  <2>1. /\ read \in Seq(InputBytes) /\ read \in Seq(Bytes)
        /\ got' = got \o read /\ filled' = filled \o read
    BY <1>2, ReadFacts
  <2> HIDE DEF read
  <2> DEFINE r == Len(read)
  <2>2. /\ r \in Nat /\ Len(filled') = l + r
        /\ \A i \in 1..l : filled'[i] = filled[i]
        /\ \A i \in 1..r : filled'[l + i] = read[i]
    BY <1>0, <2>1, AfterConcat
  <2>3. \A i \in 1..r : read[i] # "pad"
    <3>1. \A i \in 1..Len(read) : read[i] \in InputBytes
      BY <2>1, ElementOfSeq
    <3> QED
      BY <3>1 DEF InputBytes
  <2>4. InputOf(filled') = WithAll(f, l, read)
    <3>1. {j \in 1..(l + r) : filled'[j] # "pad"} = DOMAIN f \cup (l + 1)..(l + r)
      <4>1. ASSUME NEW j \in 1..(l + r), filled'[j] # "pad"
            PROVE  j \in DOMAIN f \cup (l + 1)..(l + r)
        BY <1>0, <2>2, <4>1 DEF InputOf
      <4>2. ASSUME NEW j \in DOMAIN f PROVE j \in 1..(l + r) /\ filled'[j] # "pad"
        BY <1>0, <2>2 DEF InputOf
      <4>3. ASSUME NEW j \in (l + 1)..(l + r)
            PROVE  j \in 1..(l + r) /\ filled'[j] # "pad"
        <5>1. j - l \in 1..r /\ l + (j - l) = j /\ j \in 1..(l + r)
          BY <1>0, <2>2
        <5> QED
          BY <2>2, <2>3, <5>1
      <4> QED
        BY <4>1, <4>2, <4>3
    <3>2. ASSUME NEW j \in DOMAIN f PROVE filled'[j] = f[j]
      BY <1>0, <2>2 DEF InputOf
    <3>3. ASSUME NEW j \in (l + 1)..(l + r) PROVE filled'[j] = read[j - l] /\ j \notin DOMAIN f
      <4>1. j - l \in 1..r /\ l + (j - l) = j /\ j \notin 1..l
        BY <1>0, <2>2
      <4> QED
        BY <1>0, <2>2, <4>1
    <3> HIDE DEF f
    <3> QED
      BY <2>2, <3>1, <3>2, <3>3 DEF InputOf, WithAll
  <2>5. got \in Seq(InputBytes) /\ Lists(got, f)
    BY DEF TypeInv, InputInv
  <2> HIDE DEF f, l
  <2>6. Lists(got \o read, WithAll(f, l, read))
    BY <1>0, <2>1, <2>5, ListsConcat
  <2> QED
    BY <2>1, <2>4, <2>6 DEF InputInv
<1>3. CASE ReadError
  <2> DEFINE c == CHUNK_SIZE
  <2>1. got' = got /\ filled' = filled \o Chunk /\ c \in Nat
    BY <1>3, ChunkAssumption DEF ReadError
  <2>2. /\ Len(filled') = l + c
        /\ \A i \in 1..l : filled'[i] = filled[i]
        /\ \A i \in 1..c : filled'[l + i] = "pad"
    BY <1>0, <2>1, ChunkFacts, AfterConcat
  <2>3. ASSUME NEW j \in 1..(l + c), filled'[j] # "pad" PROVE j \in 1..l
    <3>1. j \notin 1..l => j - l \in 1..c /\ l + (j - l) = j
      BY <1>0, <2>1
    <3> QED
      BY <2>2, <2>3, <3>1
  <2>4. {j \in 1..(l + c) : filled'[j] # "pad"} = {j \in 1..l : filled[j] # "pad"}
    <3>1. \A j \in 1..l : j \in 1..(l + c)
      BY <1>0, <2>1
    <3> QED
      BY <2>2, <2>3, <3>1
  <2>5. InputOf(filled') = f
    BY <2>2, <2>4 DEF InputOf
  <2> QED
    BY <2>1, <2>5 DEF InputInv
<1> QED
  BY <1>1, <1>2, <1>3
  DEF Next, ReadLine, YieldLine, EndStream, ReadNothing, vars, histVars

-----------------------------------------------------------------------------
(* Theorems.                                                               *)

\* The invariant holds to begin with, with nothing read and nothing cut off.
LEMMA Initial == Init => IInv
<1> SUFFICES ASSUME Init PROVE IInv
  OBVIOUS
<1> DEFINE e == <<>>
<1>1. /\ buf = e /\ filled = e /\ got = e /\ yielded = e /\ eof = FALSE /\ over = FALSE
      /\ Len(e) = 0 /\ 1..Len(e) = {} /\ \A S : e \in Seq(S)
  BY DEF Init
<1>2. stdin \in Seq(InputBytes)
  <2>1. PICK n \in 0..MaxBytes : stdin \in [1..n -> InputBytes]
    BY DEF Init
  <2>2. n \in Nat
    BY BoundsAssumption
  <2> QED
    BY <2>1, <2>2, SeqDef
<1> HIDE DEF e
<1>3. TypeInv /\ EndInv /\ LinesInv
  BY <1>1, <1>2 DEF TypeInv, EndInv, LinesInv
<1>4. CountInv
  BY <1>1 DEF CountInv
<1>5. CutInv
  <2>1. Len(BytesOf(yielded)) = 0 /\ BytesOf(yielded) = <<>>
    BY <1>1 DEF BytesOf
  <2>2. DOMAIN LinesTo(filled, 0) = {}
    BY <1>1 DEF LinesTo, UpTo, Newlines
  <2>3. Lists(BytesOf(yielded), LinesTo(filled, 0))
    BY <2>1, <2>2, ListsEmpty
  <2>4. Len(filled) = 0 + Len(buf) /\ \A i \in 1..Len(buf) : buf[i] = filled[0 + i]
    BY <1>1
  <2>5. CutAt(0)
    BY <2>3, <2>4 DEF CutAt
  <2>6. 0 \in Nat
    OBVIOUS
  <2> QED
    BY <2>5, <2>6 DEF CutInv
<1>6. InputInv
  <2>1. DOMAIN InputOf(filled) = {} /\ got = <<>>
    BY <1>1 DEF InputOf, e
  <2> QED
    BY <2>1, ListsEmpty DEF InputInv
<1> QED
  BY <1>3, <1>4, <1>5, <1>6 DEF IInv

\* The strengthened invariant holds in every state.
THEOREM Invariance == Spec => []IInv
<1>1. IInv /\ [Next]_vars => IInv'
  BY TypeStep, EndStep, CountStep, LinesStep, CutStep, InputStep DEF IInv
<1> QED
  BY <1>1, Initial, PTL DEF Spec

\* However reads cut up the input and fail, the lines yielded are those that have
\* been put into the buffer, in order and each of them once, the rest is still in
\* the buffer, and all that has been read is in there (driver.rs:289-352).
THEOREM KeepsEveryByte == Spec => []NoByteLost
<1>1. IInv => NoByteLost
  <2> SUFFICES ASSUME TypeInv, CutInv, InputInv PROVE NoByteLost
    BY DEF IInv
  <2>1. PICK cut \in Nat : CutAt(cut)
    BY DEF CutInv
  <2> DEFINE l == Len(filled)
  <2> DEFINE b == Len(buf)
  <2>2. filled \in Seq(Bytes) /\ buf \in Seq(Bytes) /\ l \in Nat /\ b \in Nat
    BY DEF TypeInv
  <2>3. l = cut + b /\ \A i \in 1..b : buf[i] = filled[cut + i]
    BY <2>1 DEF CutAt
  <2> HIDE DEF l, b
  <2>4. l - b = cut /\ cut \in 0..l
    BY <2>2, <2>3
  <2>5. buf = SubSeq(filled, cut + 1, l)
    <3>1. /\ cut + 1 \in 1..(l + 1) /\ l \in ((cut + 1) - 1)..l /\ l - (cut + 1) + 1 = b
          /\ \A i \in 1..b : (cut + 1) + i - 1 = cut + i
      BY <2>2, <2>3
    <3>2. /\ SubSeq(filled, cut + 1, l) \in Seq(Bytes)
          /\ Len(SubSeq(filled, cut + 1, l)) = b
          /\ \A i \in 1..b : SubSeq(filled, cut + 1, l)[i] = filled[cut + i]
      BY <2>2, <3>1, PartOf DEF l
    <3>3. \A i \in 1..b : buf[i] = SubSeq(filled, cut + 1, l)[i]
      BY <2>3, <3>2
    <3> QED
      BY <2>2, <3>2, <3>3, SeqEqual DEF b
  <2> QED
    BY <2>1, <2>4, <2>5 DEF NoByteLost, CutAt, InputInv, l, b
<1> QED
  BY <1>1, Invariance, PTL

\* No line is yielded with a newline in it, and as many are yielded, when the
\* stream ends, as there are newlines in stdin (driver.rs:294-312).
THEOREM YieldsWholeLines == Spec => []WholeLines
<1>1. IInv => WholeLines
  <2> SUFFICES ASSUME TypeInv, EndInv, CountInv, LinesInv, CutInv PROVE WholeLines
    BY DEF IInv
  <2>1. ASSUME over PROVE stdin = <<>> /\ Len(yielded) = Cardinality(Newlines(got))
    <3>1. stdin = <<>> /\ Newlines(buf) = {}
      BY <2>1 DEF EndInv
    <3>2. PICK cut \in Nat : CutAt(cut)
      BY DEF CutInv
    <3>3. /\ Len(filled) = cut + Len(buf) /\ Len(buf) \in Nat
          /\ \A i \in 1..Len(buf) : buf[i] = filled[cut + i]
      BY <3>2 DEF CutAt, TypeInv
    <3>4. UpTo(Newlines(filled), cut) = Newlines(filled)
      <4>1. ASSUME NEW i \in Newlines(filled) PROVE i <= cut
        <5>1. i \in 1..Len(filled) /\ filled[i] = "newline"
          BY DEF Newlines
        <5>2. ~(i <= cut) => i - cut \in 1..Len(buf) /\ cut + (i - cut) = i
          BY <3>3, <5>1
        <5>3. \A j \in 1..Len(buf) : buf[j] # "newline"
          BY <3>1 DEF Newlines
        <5> QED
          BY <3>3, <5>1, <5>2, <5>3
      <4> QED
        BY <4>1 DEF UpTo
    <3>5. Len(BytesOf(yielded)) = Cardinality(DOMAIN LinesTo(filled, cut))
      BY <3>2 DEF CutAt, Lists
    <3>6. DOMAIN LinesTo(filled, cut) = Newlines(filled)
      BY <3>4 DEF LinesTo
    <3>7. Len(BytesOf(yielded)) = Len(yielded)
      <4>1. [kind |-> "ok", bytes |-> <<>>] \in Line
        BY DEF Line
      <4> QED
        BY <4>1, BytesAppend DEF TypeInv
    <3> QED
      BY <3>1, <3>5, <3>6, <3>7 DEF CountInv
  <2> QED
    BY <2>1 DEF WholeLines, LinesInv
<1> QED
  BY <1>1, Invariance, PTL
=============================================================================
