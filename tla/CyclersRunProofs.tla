-------------------------- MODULE CyclersRunProofs --------------------------
(***************************************************************************)
(* Proofs about CyclersRun, for any number of drivers, any items, any      *)
(* capture of sources by sinks and any capacity of the proxy channels.     *)
(*                                                                         *)
(* IInv is inductive.  Its parts beyond the properties themselves say what *)
(* a proxy holds at each await (HeldInv), that a channel never exceeds its *)
(* capacity (RoomInv), who can have let go of a receiver (GoneInv) and how *)
(* the termination value depends on the run loops (AggregateInv).          *)
(***************************************************************************)
EXTENDS CyclersRun, SequenceTheorems, TLAPS

\* A proxy holds an item exactly while it awaits a permit for it.
HeldInv == \A d \in Drivers :
  IF proxy[d] = "reserve" THEN \E x \in Items : held[d] = <<x>>
                          ELSE held[d] = <<>>

\* The channel is bounded.
RoomInv == \A d \in Drivers : Len(channel[d]) <= SINK_PROXY_BUFFER_LEN

\* A proxy is disconnected only from a driver that no longer polls its sink.
GoneInv == \A d \in Drivers : proxy[d] = "disconnected" => driver[d] # "running"

\* The run goes on without a value exactly while the first driver runs; with
\* its value, no run loop is left.
AggregateInv ==
  /\ outcome = "running" /\ termination = {} => Alive(First)
  /\ termination # {} => /\ termination = {First}
                         /\ driver[First] = "exited"
                         /\ \A d \in Drivers : ~Alive(d)

\* Ok is returned by the join of both sides only.
OutcomeInv == /\ outcome \in {"running", "ok"} =>
                   outcome = Joined(proxy, termination)
              /\ outcome # "panic"

IInv == /\ TypeOK
        /\ HeldInv
        /\ NothingLost
        /\ RoomInv
        /\ GoneInv
        /\ AggregateInv
        /\ OutcomeInv

-----------------------------------------------------------------------------
(* Typing.                                                                 *)

\* Every variable keeps its type.
THEOREM Typing == Spec => []TypeOK
<1>1. Init => TypeOK
  BY DriversAssumption DEF Init, TypeOK, ProxyStates, DriverStates, Outcomes
<1>2. TypeOK /\ [Next]_vars => TypeOK'
  <2> SUFFICES ASSUME TypeOK, [Next]_vars PROVE TypeOK'
    OBVIOUS
  <2> USE DEF TypeOK, ProxyStates, DriverStates, Outcomes
  <2>1. ASSUME NEW d \in Drivers, NEW x \in Items, SinkYield(d, x) PROVE TypeOK'
    BY <2>1 DEF SinkYield
  <2>2. ASSUME NEW d \in Drivers, SinkFail(d) PROVE TypeOK'
    BY <2>2 DEF SinkFail
  <2>3. ASSUME NEW d \in Drivers, SinkEnd(d) PROVE TypeOK'
    BY <2>3 DEF SinkEnd, Joined
  <2>4. ASSUME NEW d \in Drivers, ProxySend(d) PROVE TypeOK'
    BY <2>4 DEF ProxySend
  <2>5. ASSUME NEW d \in Drivers, ProxyDisconnected(d) PROVE TypeOK'
    BY <2>5 DEF ProxyDisconnected, Joined
  <2>6. ASSUME NEW d \in Drivers, Receive(d) PROVE TypeOK'
    <3>1. Head(channel[d]) \in Items /\ Tail(channel[d]) \in Seq(Items)
      BY <2>6 DEF Receive
    <3> QED
      BY <2>6, <3>1 DEF Receive
  <2>7. ASSUME NEW d \in Drivers, DropSink(d) PROVE TypeOK'
    BY <2>7 DEF DropSink
  <2>8. ASSUME NEW d \in Drivers, DriverExit(d) PROVE TypeOK'
    BY <2>8 DEF DriverExit, Tagged, Joined
  <2>9. ASSUME NEW d \in Drivers, DriverFail(d) PROVE TypeOK'
    BY <2>9 DEF DriverFail
  <2>10. CASE UNCHANGED vars
    BY <2>10 DEF vars
  <2> QED
    BY <2>1, <2>2, <2>3, <2>4, <2>5, <2>6, <2>7, <2>8, <2>9, <2>10
    DEF Next, SinkReady, RunLoopTake, SourceTake
<1> QED
  BY <1>1, <1>2, PTL DEF Spec

-----------------------------------------------------------------------------
(* Sequences: the three segments of a pipe.                                *)

\* An item yielded to an idle proxy is appended to the pipe.
LEMMA PutSegment ==
  ASSUME NEW S, NEW t \in Seq(S), NEW c \in Seq(S), NEW x \in S
  PROVE  /\ t \o c \o <<>> = t \o c
         /\ Append(<<>>, x) = <<x>>
         /\ t \o c \o <<x>> = Append(t \o c \o <<>>, x)
<1>1. t \o c \in Seq(S)
  BY ConcatProperties
<1>2. t \o c \o <<>> = t \o c
  BY <1>1, ConcatEmptySeq
<1>3. t \o c \o <<x>> = Append(t \o c, x)
  BY <1>1, AppendIsConcat
<1> QED
  BY <1>2, <1>3

\* Sending moves the held item from one segment to the next.
LEMMA SendSegment ==
  ASSUME NEW S, NEW t \in Seq(S), NEW c \in Seq(S), NEW h \in Seq(S)
  PROVE  t \o (c \o h) \o <<>> = t \o c \o h
<1>1. t \o (c \o h) = t \o c \o h
  BY ConcatAssociative
<1>2. t \o (c \o h) \in Seq(S)
  BY ConcatProperties
<1> QED
  BY <1>1, <1>2, ConcatEmptySeq

\* So does receiving.
LEMMA ReceiveSegment ==
  ASSUME NEW S, NEW t \in Seq(S), NEW c \in Seq(S), c # <<>>
  PROVE  Append(t, Head(c)) \o Tail(c) = t \o c
<1>1. /\ Head(c) \in S
      /\ Tail(c) \in Seq(S)
      /\ Len(Tail(c)) = Len(c) - 1
      /\ \A i \in 1..Len(Tail(c)) : Tail(c)[i] = c[i + 1]
  BY HeadTailProperties
<1>2. Head(c) = c[1] /\ Len(c) \in Nat \ {0} /\ Len(t) \in Nat
  BY EmptySeq, LenProperties
<1> DEFINE l == Append(t, Head(c)) \o Tail(c)
           r == t \o c
<1>3. /\ Append(t, Head(c)) \in Seq(S)
      /\ Len(Append(t, Head(c))) = Len(t) + 1
      /\ \A i \in 1..Len(t) : Append(t, Head(c))[i] = t[i]
      /\ Append(t, Head(c))[Len(t) + 1] = Head(c)
  BY <1>1, AppendProperties
<1>4. /\ l \in Seq(S)
      /\ Len(l) = Len(t) + Len(c)
      /\ \A i \in 1..Len(t) + Len(c) :
           l[i] = IF i <= Len(t) + 1 THEN Append(t, Head(c))[i]
                                     ELSE Tail(c)[i - (Len(t) + 1)]
  BY <1>1, <1>2, <1>3, ConcatProperties
<1>5. /\ r \in Seq(S)
      /\ Len(r) = Len(t) + Len(c)
      /\ \A i \in 1..Len(t) + Len(c) :
           r[i] = IF i <= Len(t) THEN t[i] ELSE c[i - Len(t)]
  BY ConcatProperties
<1>6. ASSUME NEW i \in 1..Len(l) PROVE l[i] = r[i]
  <2> HIDE DEF l, r
  <2>1. CASE i <= Len(t)
    BY <2>1, <1>2, <1>3, <1>4, <1>5
  <2>2. CASE i = Len(t) + 1
    <3>1. l[i] = Head(c)
      BY <2>2, <1>2, <1>3, <1>4
    <3>2. ~(i <= Len(t)) /\ i - Len(t) = 1
      BY <2>2, <1>2
    <3>3. r[i] = c[1]
      BY <3>2, <1>4, <1>5
    <3> QED
      BY <3>1, <3>3, <1>2
  <2>3. CASE i > Len(t) + 1
    <3>1. i - (Len(t) + 1) \in 1..Len(Tail(c))
      BY <2>3, <1>1, <1>2, <1>4
    <3>2. Tail(c)[i - (Len(t) + 1)] = c[i - (Len(t) + 1) + 1]
      BY <3>1, <1>1
    <3>3. i - (Len(t) + 1) + 1 = i - Len(t) /\ i \in 1..Len(t) + Len(c)
      BY <1>2, <1>4
    <3> QED
      BY <2>3, <3>2, <3>3, <1>2, <1>4, <1>5
  <2> QED
    BY <2>1, <2>2, <2>3, <1>2, <1>4
<1> HIDE DEF l, r
<1>7. l = r
  BY <1>4, <1>5, <1>6, SeqEqual
<1> QED
  BY <1>7 DEF l, r

\* What is received next is the item of the whole pipe after those received.
LEMMA NextOfPipe ==
  ASSUME NEW S, NEW t \in Seq(S), NEW c \in Seq(S), NEW h \in Seq(S), c # <<>>
  PROVE  /\ Len(t) + 1 \in 1..Len(t \o c \o h)
         /\ (t \o c \o h)[Len(t) + 1] = Head(c)
<1>1. Len(c) \in Nat \ {0} /\ Len(t) \in Nat /\ Len(h) \in Nat /\ Head(c) = c[1]
  BY EmptySeq, LenProperties
<1>2. /\ t \o c \in Seq(S)
      /\ Len(t \o c) = Len(t) + Len(c)
      /\ \A i \in 1..Len(t) + Len(c) :
           (t \o c)[i] = IF i <= Len(t) THEN t[i] ELSE c[i - Len(t)]
  BY ConcatProperties
<1>3. (t \o c)[Len(t) + 1] = c[1]
  BY <1>1, <1>2
<1>4. /\ Len(t \o c \o h) = Len(t \o c) + Len(h)
      /\ \A i \in 1..Len(t \o c) + Len(h) :
           (t \o c \o h)[i] = IF i <= Len(t \o c) THEN (t \o c)[i]
                                                  ELSE h[i - Len(t \o c)]
  BY <1>2, ConcatProperties
<1> QED
  BY <1>1, <1>2, <1>3, <1>4

\* How much longer a pipe is than what has left it.
LEMMA PipeLength ==
  ASSUME NEW S, NEW t \in Seq(S), NEW c \in Seq(S), NEW h \in Seq(S)
  PROVE  /\ Len(t) \in Nat /\ Len(c) \in Nat /\ Len(h) \in Nat
         /\ Len(t \o c \o h) = Len(t) + Len(c) + Len(h)
         /\ \A x \in S : Len(Append(t \o c \o h, x))
                           = Len(t) + Len(c) + Len(h) + 1
<1>1. Len(t) \in Nat /\ Len(c) \in Nat /\ Len(h) \in Nat
  BY LenProperties
<1>2. t \o c \in Seq(S) /\ Len(t \o c) = Len(t) + Len(c)
  BY ConcatProperties
<1>3. /\ t \o c \o h \in Seq(S)
      /\ Len(t \o c \o h) = Len(t) + Len(c) + Len(h)
  BY <1>2, ConcatProperties
<1> QED
  BY <1>1, <1>3, AppendProperties

\* What is yielded is ahead of what has left the pipe by the segments between
\* them, one of which has room for b items and one for a single item.
LEMMA Ahead ==
  ASSUME NEW S, NEW y, NEW t \in Seq(S), NEW c \in Seq(S), NEW h \in Seq(S),
         NEW b \in Nat, Len(c) <= b,
         \/ y = t \o c \o h /\ Len(h) <= 1
         \/ h = <<>> /\ \E x \in S : y = Append(t \o c \o h, x)
  PROVE  Len(y) - Len(t) <= b + 1
<1>1. CASE y = t \o c \o h /\ Len(h) <= 1
  BY <1>1, PipeLength
<1>2. CASE h = <<>> /\ \E x \in S : y = Append(t \o c \o h, x)
  <2>1. Len(h) = 0 /\ Len(y) = Len(t) + Len(c) + Len(h) + 1
    BY <1>2, PipeLength
  <2> QED
    BY <2>1, PipeLength
<1> QED
  BY <1>1, <1>2

\* With nothing held, there is room for one more item.
LEMMA NotFull ==
  ASSUME NEW S, NEW y, NEW t \in Seq(S), NEW c \in Seq(S),
         NEW b \in Nat, Len(c) <= b, y = t \o c \o <<>>
  PROVE  Len(y) - Len(t) < b + 1
<1>1. <<>> \in Seq(S) /\ Len(<<>>) = 0
  BY EmptySeq
<1> QED
  BY <1>1, PipeLength

\* Of what is yielded, the next item to be received is the head of the channel.
LEMMA NextYielded ==
  ASSUME NEW S, NEW y, NEW t \in Seq(S), NEW c \in Seq(S), NEW h \in Seq(S),
         c # <<>>,
         \/ y = t \o c \o h
         \/ \E x \in S : y = Append(t \o c \o h, x)
  PROVE  Len(t) < Len(y) /\ y[Len(t) + 1] = Head(c)
<1>1. /\ Len(t) + 1 \in 1..Len(t \o c \o h)
      /\ (t \o c \o h)[Len(t) + 1] = Head(c)
  BY NextOfPipe
<1>2. t \o c \o h \in Seq(S) /\ Len(t) \in Nat /\ Len(t \o c \o h) \in Nat
  BY ConcatProperties, LenProperties
<1>3. CASE y = t \o c \o h
  BY <1>1, <1>2, <1>3
<1>4. CASE \E x \in S : y = Append(t \o c \o h, x)
  <2>1. PICK x \in S : y = Append(t \o c \o h, x)
    BY <1>4
  <2> QED
    BY <1>1, <1>2, <2>1, AppendProperties
<1> QED
  BY <1>3, <1>4

-----------------------------------------------------------------------------
(* The inductive invariant.                                                *)

\* The invariant holds to begin with.
LEMMA InitIInv == Init => IInv
<1> SUFFICES ASSUME Init PROVE IInv
  OBVIOUS
<1>1. TypeOK
  BY DriversAssumption
  DEF Init, TypeOK, ProxyStates, DriverStates, Outcomes
<1>2. NothingLost
  BY ConcatEmptySeq, EmptySeq DEF Init, NothingLost
<1>3. HeldInv /\ RoomInv /\ GoneInv
  BY BufferAssumption, EmptySeq DEF Init, HeldInv, RoomInv, GoneInv
<1>4. AggregateInv /\ OutcomeInv
  BY DriversAssumption
  DEF Init, AggregateInv, OutcomeInv, Alive, Joined, Over
<1> QED
  BY <1>1, <1>2, <1>3, <1>4 DEF IInv

\* The pipe of every driver keeps its order and its items at each step.
LEMMA PipeStep == IInv /\ [Next]_vars => NothingLost'
<1> SUFFICES ASSUME IInv, [Next]_vars PROVE NothingLost'
  OBVIOUS
<1> USE DEF IInv, TypeOK
<1>1. ASSUME NEW d \in Drivers, NEW x \in Items, SinkYield(d, x)
      PROVE  NothingLost'
  <2>1. held[d] = <<>> /\ yielded[d] = taken[d] \o channel[d] \o <<>>
    BY <1>1 DEF SinkYield, HeldInv, NothingLost
  <2>2. yielded'[d] = taken[d] \o channel[d] \o <<x>> /\ held'[d] = <<x>>
    BY <1>1, <2>1, PutSegment DEF SinkYield
  <2> QED
    BY <1>1, <2>2 DEF SinkYield, NothingLost
<1>2. ASSUME NEW d \in Drivers, SinkFail(d) PROVE NothingLost'
  BY <1>2 DEF SinkFail, NothingLost
<1>3. ASSUME NEW d \in Drivers, SinkEnd(d) PROVE NothingLost'
  BY <1>3 DEF SinkEnd, NothingLost
<1>4. ASSUME NEW d \in Drivers, ProxySend(d) PROVE NothingLost'
  <2>1. yielded[d] = taken[d] \o channel[d] \o held[d]
    BY <1>4 DEF ProxySend, NothingLost
  <2>2. yielded[d] = taken[d] \o (channel[d] \o held[d]) \o <<>>
    BY <2>1, SendSegment
  <2> QED
    BY <1>4, <2>2 DEF ProxySend, NothingLost
<1>5. ASSUME NEW d \in Drivers, ProxyDisconnected(d) PROVE NothingLost'
  <2>1. PICK x \in Items : held[d] = <<x>>
    BY <1>5 DEF ProxyDisconnected, HeldInv
  <2>2. yielded[d] = taken[d] \o channel[d] \o <<x>>
    BY <1>5, <2>1 DEF ProxyDisconnected, NothingLost
  <2>3. yielded[d] = Append(taken[d] \o channel[d] \o <<>>, x)
    BY <2>2, PutSegment
  <2> QED
    BY <1>5, <2>3 DEF ProxyDisconnected, NothingLost
<1>6. ASSUME NEW d \in Drivers, Receive(d) PROVE NothingLost'
  <2>1. Append(taken[d], Head(channel[d])) \o Tail(channel[d])
          = taken[d] \o channel[d]
    BY <1>6, ReceiveSegment DEF Receive
  <2> QED
    BY <1>6, <2>1 DEF Receive, NothingLost
<1>7. ASSUME NEW d \in Drivers, DropSink(d) PROVE NothingLost'
  BY <1>7 DEF DropSink, NothingLost
<1>8. ASSUME NEW d \in Drivers, DriverExit(d) PROVE NothingLost'
  BY <1>8 DEF DriverExit, NothingLost
<1>9. ASSUME NEW d \in Drivers, DriverFail(d) PROVE NothingLost'
  BY <1>9 DEF DriverFail, NothingLost
<1>10. CASE UNCHANGED vars
  BY <1>10 DEF vars, NothingLost
<1> QED
  BY <1>1, <1>2, <1>3, <1>4, <1>5, <1>6, <1>7, <1>8, <1>9, <1>10
  DEF Next, SinkReady, RunLoopTake, SourceTake

\* The proxies: what they hold, the room they respect, whom they give up on.
LEMMA ProxyStep == IInv /\ [Next]_vars => HeldInv' /\ RoomInv' /\ GoneInv'
<1> SUFFICES ASSUME IInv, [Next]_vars PROVE HeldInv' /\ RoomInv' /\ GoneInv'
  OBVIOUS
<1> USE BufferAssumption DEF IInv, TypeOK, HeldInv, RoomInv, GoneInv
<1>1. ASSUME NEW d \in Drivers, NEW x \in Items, SinkYield(d, x)
      PROVE  HeldInv' /\ RoomInv' /\ GoneInv'
  <2>1. held[d] = <<>> /\ Append(<<>>, x) = <<x>>
    BY <1>1 DEF SinkYield
  <2> QED
    BY <1>1, <2>1 DEF SinkYield
<1>2. ASSUME NEW d \in Drivers, SinkFail(d)
      PROVE  HeldInv' /\ RoomInv' /\ GoneInv'
  BY <1>2 DEF SinkFail
<1>3. ASSUME NEW d \in Drivers, SinkEnd(d)
      PROVE  HeldInv' /\ RoomInv' /\ GoneInv'
  BY <1>3 DEF SinkEnd
<1>4. ASSUME NEW d \in Drivers, ProxySend(d)
      PROVE  HeldInv' /\ RoomInv' /\ GoneInv'
  <2>1. PICK x \in Items : held[d] = <<x>>
    BY <1>4 DEF ProxySend
  <2>2. Len(channel[d] \o held[d]) = Len(channel[d]) + 1
    BY <2>1
  <2>3. Len(channel'[d]) <= SINK_PROXY_BUFFER_LEN
    BY <1>4, <2>2, LenProperties DEF ProxySend
  <2> QED
    BY <1>4, <2>3 DEF ProxySend
<1>5. ASSUME NEW d \in Drivers, ProxyDisconnected(d)
      PROVE  HeldInv' /\ RoomInv' /\ GoneInv'
  BY <1>5 DEF ProxyDisconnected, ReceiverOpen
<1>6. ASSUME NEW d \in Drivers, Receive(d)
      PROVE  HeldInv' /\ RoomInv' /\ GoneInv'
  <2>1. /\ Len(Tail(channel[d])) = Len(channel[d]) - 1
        /\ Len(channel[d]) \in Nat
    BY <1>6, HeadTailProperties, LenProperties DEF Receive
  <2> QED
    BY <1>6, <2>1 DEF Receive
<1>7. ASSUME NEW d \in Drivers, DropSink(d)
      PROVE  HeldInv' /\ RoomInv' /\ GoneInv'
  BY <1>7 DEF DropSink
<1>8. ASSUME NEW d \in Drivers, DriverExit(d)
      PROVE  HeldInv' /\ RoomInv' /\ GoneInv'
  BY <1>8 DEF DriverExit
<1>9. ASSUME NEW d \in Drivers, DriverFail(d)
      PROVE  HeldInv' /\ RoomInv' /\ GoneInv'
  BY <1>9 DEF DriverFail
<1>10. CASE UNCHANGED vars
  BY <1>10 DEF vars
<1> QED
  BY <1>1, <1>2, <1>3, <1>4, <1>5, <1>6, <1>7, <1>8, <1>9, <1>10
  DEF Next, SinkReady, RunLoopTake, SourceTake

\* The aggregate run and the join.  A driver other than the first that exits
\* leaves the first one alive, so the loop goes on; the first one that exits
\* finds no value yet and takes every run loop with it.
LEMMA AggregateStep == IInv /\ [Next]_vars => AggregateInv' /\ OutcomeInv'
<1> SUFFICES ASSUME IInv, [Next]_vars PROVE AggregateInv' /\ OutcomeInv'
  OBVIOUS
<1> USE DriversAssumption
    DEF IInv, TypeOK, AggregateInv, OutcomeInv, Alive, Joined, Over
<1>1. ASSUME NEW d \in Drivers, NEW x \in Items, SinkYield(d, x)
      PROVE  AggregateInv' /\ OutcomeInv'
  BY <1>1 DEF SinkYield
<1>2. ASSUME NEW d \in Drivers, SinkFail(d)
      PROVE  AggregateInv' /\ OutcomeInv'
  BY <1>2 DEF SinkFail
<1>3. ASSUME NEW d \in Drivers, SinkEnd(d)
      PROVE  AggregateInv' /\ OutcomeInv'
  BY <1>3 DEF SinkEnd
<1>4. ASSUME NEW d \in Drivers, ProxySend(d)
      PROVE  AggregateInv' /\ OutcomeInv'
  BY <1>4 DEF ProxySend
<1>5. ASSUME NEW d \in Drivers, ProxyDisconnected(d)
      PROVE  AggregateInv' /\ OutcomeInv'
  BY <1>5 DEF ProxyDisconnected
<1>6. ASSUME NEW d \in Drivers, Receive(d)
      PROVE  AggregateInv' /\ OutcomeInv'
  BY <1>6 DEF Receive
<1>7. ASSUME NEW d \in Drivers, DropSink(d)
      PROVE  AggregateInv' /\ OutcomeInv'
  BY <1>7 DEF DropSink
<1>8. ASSUME NEW d \in Drivers, DriverExit(d)
      PROVE  AggregateInv' /\ OutcomeInv'
  <2>1. termination = {} /\ outcome = "running" /\ Alive(First)
    BY <1>8 DEF DriverExit
  <2>2. CASE d = First
    <3>1. termination' = {First} /\ driver'[First] = "exited"
      BY <1>8, <2>2 DEF DriverExit, Tagged
    <3>2. \A e \in Drivers : ~Alive(e)'
      BY <1>8, <2>2 DEF DriverExit, Tagged
    <3> QED
      BY <1>8, <2>2, <3>1, <3>2 DEF DriverExit, Tagged
  <2>3. CASE d # First
    <3>1. termination' = {} /\ Alive(First)' /\ outcome' = "running"
      BY <1>8, <2>1, <2>3 DEF DriverExit, Tagged
    <3> QED
      BY <3>1
  <2> QED
    BY <2>2, <2>3
<1>9. ASSUME NEW d \in Drivers, DriverFail(d)
      PROVE  AggregateInv' /\ OutcomeInv'
  BY <1>9 DEF DriverFail
<1>10. CASE UNCHANGED vars
  BY <1>10 DEF vars
<1> QED
  BY <1>1, <1>2, <1>3, <1>4, <1>5, <1>6, <1>7, <1>8, <1>9, <1>10
  DEF Next, SinkReady, RunLoopTake, SourceTake

-----------------------------------------------------------------------------
(* Safety of the run.                                                      *)

\* IInv holds throughout every behaviour.
THEOREM Invariance == Spec => []IInv
<1>1. IInv /\ TypeOK' /\ [Next]_vars => IInv'
  BY PipeStep, ProxyStep, AggregateStep DEF IInv
<1> QED
  BY <1>1, InitIInv, Typing, PTL DEF Spec

\* No pipe loses or reorders an item while its receiver is there: the items
\* taken, buffered and held are those yielded, in order, save the one that a
\* disconnected proxy dropped.
THEOREM Lossless == Spec => []NothingLost
BY Invariance, PTL DEF IInv

\* No sink stream runs ahead of its driver by more than the channel and one.
THEOREM PulledOnly == Spec => []PullBased
<1>1. IInv => PullBased
  <2> SUFFICES ASSUME IInv, NEW d \in Drivers
               PROVE  Len(yielded[d]) - Len(taken[d])
                        <= SINK_PROXY_BUFFER_LEN + 1
    BY DEF PullBased
  <2>1. /\ taken[d] \in Seq(Items)
        /\ channel[d] \in Seq(Items)
        /\ held[d] \in Seq(Items)
    BY DEF IInv, TypeOK
  <2>2. SINK_PROXY_BUFFER_LEN \in Nat
    BY BufferAssumption
  <2>3. Len(channel[d]) <= SINK_PROXY_BUFFER_LEN
    BY DEF IInv, RoomInv
  <2>4. CASE proxy[d] = "disconnected"
    <3>1. held[d] = <<>>
      BY <2>4 DEF IInv, HeldInv
    <3>2. \E x \in Items :
            yielded[d] = Append(taken[d] \o channel[d] \o held[d], x)
      BY <2>4 DEF IInv, NothingLost
    <3> QED
      BY <2>1, <2>2, <2>3, <3>1, <3>2, Ahead, Zenon
  <2>5. CASE proxy[d] # "disconnected"
    <3>1. Len(held[d]) <= 1
      <4>1. CASE held[d] = <<>>
        BY <4>1
      <4>2. CASE held[d] # <<>>
        <5>1. PICK x \in Items : held[d] = <<x>>
          BY <4>2 DEF IInv, HeldInv
        <5> QED
          BY <5>1
      <4> QED
        BY <4>1, <4>2
    <3>2. yielded[d] = taken[d] \o channel[d] \o held[d]
      BY <2>5 DEF IInv, NothingLost
    <3> QED
      BY <2>1, <2>2, <2>3, <3>1, <3>2, Ahead, Zenon
  <2> QED
    BY <2>4, <2>5
<1> QED
  BY <1>1, Invariance, PTL

\* Ok is the first driver's value, and no sink was abandoned whose driver had
\* not let go of it.
THEOREM FirstDriverDecides == Spec => []FirstDecides
<1>1. IInv => FirstDecides
  BY DEF IInv, AggregateInv, OutcomeInv, GoneInv, FirstDecides, Joined, Over
<1> QED
  BY <1>1, Invariance, PTL

\* The `unreachable!()` after the aggregate loop is unreachable.
THEOREM Unreachable == Spec => []NeverUnreachable
<1>1. IInv => NeverUnreachable
  BY DEF IInv, OutcomeInv, NeverUnreachable
<1> QED
  BY <1>1, Invariance, PTL

-----------------------------------------------------------------------------
(* The promise.                                                            *)

\* Promise!vars stutters when what it is built from does.
LEMMA PromiseStutters ==
  UNCHANGED <<yielded, taken, proxy, termination, outcome>>
    => UNCHANGED Promise!vars
BY DEF Promise!vars, Over

\* The result of a join is the same seen from both sides.
LEMMA SameJoin ==
  /\ Joined(proxy, termination)
       = Promise!Joined({d \in Drivers : ~Over(proxy, d)}, termination # {})
  /\ Joined(proxy', termination')
       = Promise!Joined({d \in Drivers : ~Over(proxy', d)}, termination' # {})
BY DEF Joined, Promise!Joined

\* Every step of the run is a step of the promise or leaves it unchanged.
LEMMA PromiseStep == IInv /\ IInv' /\ [Next]_vars => [Promise!Next]_(Promise!vars)
<1> SUFFICES ASSUME IInv, IInv', [Next]_vars
             PROVE  [Promise!Next]_(Promise!vars)
  OBVIOUS
<1> USE DEF Over
<1>1. ASSUME NEW d \in Drivers, NEW x \in Items, SinkYield(d, x)
      PROVE  [Promise!Next]_(Promise!vars)
  <2>1. Len(yielded[d]) - Len(taken[d]) < SINK_PROXY_BUFFER_LEN + 1
    <3>1. /\ taken[d] \in Seq(Items)
          /\ channel[d] \in Seq(Items)
          /\ SINK_PROXY_BUFFER_LEN \in Nat
          /\ Len(channel[d]) <= SINK_PROXY_BUFFER_LEN
      BY BufferAssumption DEF IInv, TypeOK, RoomInv
    <3>2. yielded[d] = taken[d] \o channel[d] \o <<>>
      BY <1>1 DEF SinkYield, IInv, NothingLost, HeldInv
    <3> QED
      BY <3>1, <3>2, NotFull, Zenon
  <2>2. Promise!Emit(d, x)
    BY <1>1, <2>1 DEF SinkYield, Promise!Emit, IInv, TypeOK, ProxyStates
  <2> QED
    BY <1>1, <2>2 DEF Promise!Next, SinkYield
<1>2. ASSUME NEW d \in Drivers, SinkFail(d) PROVE [Promise!Next]_(Promise!vars)
  BY <1>2 DEF SinkFail, Promise!Next, Promise!Fail
<1>3. ASSUME NEW d \in Drivers, SinkEnd(d) PROVE [Promise!Next]_(Promise!vars)
  <2>1. Promise!Close(d)
    BY <1>3, SameJoin DEF SinkEnd, Promise!Close, IInv, TypeOK
  <2> QED
    BY <1>3, <2>1 DEF Promise!Next, SinkEnd
<1>4. ASSUME NEW d \in Drivers, ProxySend(d) PROVE [Promise!Next]_(Promise!vars)
  <2>1. {e \in Drivers : ~Over(proxy, e)}' = {e \in Drivers : ~Over(proxy, e)}
    BY <1>4 DEF ProxySend, IInv, TypeOK
  <2> QED
    BY <1>4, <2>1 DEF ProxySend, Promise!vars
<1>5. ASSUME NEW d \in Drivers, ProxyDisconnected(d)
      PROVE  [Promise!Next]_(Promise!vars)
  <2>1. Promise!Close(d)
    BY <1>5, SameJoin DEF ProxyDisconnected, Promise!Close, IInv, TypeOK
  <2> QED
    BY <1>5, <2>1 DEF Promise!Next, ProxyDisconnected
<1>6. ASSUME NEW d \in Drivers, Receive(d) PROVE [Promise!Next]_(Promise!vars)
  <2>1. /\ taken[d] \in Seq(Items)
        /\ channel[d] \in Seq(Items)
        /\ held[d] \in Seq(Items)
        /\ channel[d] # <<>>
    BY <1>6 DEF Receive, IInv, TypeOK
  <2>2. \/ yielded[d] = taken[d] \o channel[d] \o held[d]
        \/ \E x \in Items :
             yielded[d] = Append(taken[d] \o channel[d] \o held[d], x)
    BY DEF IInv, NothingLost
  <2>3. /\ Len(taken[d]) < Len(yielded[d])
        /\ yielded[d][Len(taken[d]) + 1] = Head(channel[d])
    <3> DEFINE y == yielded[d]
               t == taken[d]
               c == channel[d]
               h == held[d]
    <3>1. /\ t \in Seq(Items) /\ c \in Seq(Items) /\ h \in Seq(Items)
          /\ c # <<>>
          /\ y = t \o c \o h \/ \E x \in Items : y = Append(t \o c \o h, x)
      BY <2>1, <2>2
    <3> HIDE DEF y, t, c, h
    <3>2. Len(t) < Len(y) /\ y[Len(t) + 1] = Head(c)
      BY <3>1, NextYielded
    <3> QED
      BY <3>2 DEF y, t, c, h
  <2>4. Promise!Observe(d)
    BY <1>6, <2>3 DEF Receive, Promise!Observe, IInv, TypeOK
  <2> QED
    BY <1>6, <2>4 DEF Promise!Next, Receive
<1>7. ASSUME NEW d \in Drivers, DropSink(d) PROVE [Promise!Next]_(Promise!vars)
  BY <1>7, PromiseStutters DEF DropSink
<1>8. ASSUME NEW d \in Drivers, DriverExit(d) PROVE [Promise!Next]_(Promise!vars)
  <2>1. CASE d = First
    <3>1. termination = {} /\ termination' # {}
      BY <1>8, <2>1 DEF DriverExit, Tagged, IInv, AggregateInv
    <3>2. Promise!Terminate
      BY <1>8, <2>1, <3>1, SameJoin DEF DriverExit, Tagged, Promise!Terminate
    <3> QED
      BY <1>8, <3>2 DEF Promise!Next, DriverExit
  <2>2. CASE d # First
    <3>1. termination = {} /\ termination' = {}
      BY <1>8, <2>2 DEF DriverExit, Tagged, IInv, AggregateInv
    <3>2. outcome' = outcome
      BY <1>8, <2>2, <3>1 DEF DriverExit, Tagged, IInv, OutcomeInv, Joined
    <3> QED
      BY <1>8, <3>1, <3>2, PromiseStutters DEF DriverExit
  <2> QED
    BY <2>1, <2>2
<1>9. ASSUME NEW d \in Drivers, DriverFail(d) PROVE [Promise!Next]_(Promise!vars)
  BY <1>9 DEF DriverFail, Promise!Next, Promise!Fail
<1>10. CASE UNCHANGED vars
  BY <1>10, PromiseStutters DEF vars
<1> QED
  BY <1>1, <1>2, <1>3, <1>4, <1>5, <1>6, <1>7, <1>8, <1>9, <1>10
  DEF Next, SinkReady, RunLoopTake, SourceTake

\* The run implements the lossless bounded pipes and the result of Wiring.
THEOREM Implements == Spec => KeepsPromise
<1>1. Init => Promise!Init
  BY DEF Init, Promise!Init, Over
<1> QED
  BY <1>1, PromiseStep, Invariance, PTL DEF Spec, KeepsPromise, Promise!Spec
=============================================================================
