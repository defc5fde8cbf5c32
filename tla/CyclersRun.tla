----------------------------- MODULE CyclersRun -----------------------------
(***************************************************************************)
(* `cyclers::run` (crates/cyclers/src/run.rs): one task that polls, side   *)
(* by side, the run loops of all drivers and one proxy per sink stream.    *)
(*                                                                         *)
(* A proxy repeats: await the next item of its sink stream, await room in  *)
(* the bounded channel to the driver, send.  The receiving end of that     *)
(* channel is given to the driver, which shares it between its run loop    *)
(* and its source object; `main` may move streams of that source into the  *)
(* sink streams it returns, and so close a cycle.                          *)
(*                                                                         *)
(* A step of the model is what one future does between two awaits.  What   *)
(* drivers and sink streams do by themselves is left open: a driver may    *)
(* take items or not, exit or fail at any time; a sink stream may yield,   *)
(* fail, end, or stay pending.                                             *)
(***************************************************************************)
EXTENDS Integers, Sequences

CONSTANTS
  Drivers,               \* the drivers; each is the index of its sink too
  First,                 \* the first of them, whose termination value counts
  Items,                 \* what sink streams yield
  Holds,                 \* Holds[s]: drivers whose source sink s has captured
  Attentive,             \* drivers whose run loop always takes what is sent
  SINK_PROXY_BUFFER_LEN, \* capacity of a proxy channel (1 in the code)
  MaxItems               \* bound of the model: items one sink stream yields

ASSUME DriversAssumption == First \in Drivers /\ Attentive \subseteq Drivers
ASSUME HoldsAssumption == Holds \in [Drivers -> SUBSET Drivers]
ASSUME BufferAssumption == SINK_PROXY_BUFFER_LEN \in Nat \ {0}
ASSUME BoundAssumption == MaxItems \in Nat

VARIABLES
  yielded,      \* yielded[d]: history of what sink stream d has yielded
  held,         \* held[d]: the item proxy d awaits a permit for, if any
  channel,      \* channel[d]: what has been sent and not been received
  taken,        \* taken[d]: history of what left the receiving end
  proxy,        \* proxy[d]: the await that proxy d is suspended at
  driver,       \* driver[d]: the state of the run loop of driver d
  termination,  \* {d} once the value of driver d has been returned, else {}
  outcome       \* what `run` has returned, "running" before that

vars == <<yielded, held, channel, taken, proxy, driver, termination, outcome>>

ProxyStates == {"next", "reserve", "ended", "disconnected"}
DriverStates == {"running", "deaf", "exited", "failed", "dropped"}
Outcomes == {"running", "ok", "err", "panic"}

TypeOK == /\ yielded \in [Drivers -> Seq(Items)]
          /\ held \in [Drivers -> Seq(Items)]
          /\ channel \in [Drivers -> Seq(Items)]
          /\ taken \in [Drivers -> Seq(Items)]
          /\ proxy \in [Drivers -> ProxyStates]
          /\ driver \in [Drivers -> DriverStates]
          /\ termination \in SUBSET Drivers
          /\ outcome \in Outcomes

Init == /\ yielded = [d \in Drivers |-> <<>>]
        /\ held = [d \in Drivers |-> <<>>]
        /\ channel = [d \in Drivers |-> <<>>]
        /\ taken = [d \in Drivers |-> <<>>]
        /\ proxy = [d \in Drivers |-> "next"]
        /\ driver = [d \in Drivers |-> "running"]
        /\ termination = {}
        /\ outcome = "running"

-----------------------------------------------------------------------------
\* Whether the unfold stream of a proxy has ended, in a valuation p of proxy.
Over(p, d) == p[d] \in {"ended", "disconnected"}

\* Mutant: the future of a driver, and its receiver, outlive its exit.
ReceiverOpenLeaky(d) == \/ driver[d] \in {"running", "exited", "dropped"}
                        \/ \E s \in Drivers : d \in Holds[s] /\ ~Over(proxy, s)

\* A receiving end lives as long as the run loop or a source stream that some
\* sink stream still owns: both are handles of one shared stream.
ReceiverOpen(d) == \/ driver[d] = "running"
                   \/ \E s \in Drivers : d \in Holds[s] /\ ~Over(proxy, s)

\* Mutant: race instead of try_join.
JoinedRace(p, t) == IF t # {} \/ \A d \in Drivers : Over(p, d) THEN "ok"
                                                               ELSE "running"

\* try_join of the drivers' future and the proxies' future.
Joined(p, t) == IF t # {} /\ \A d \in Drivers : Over(p, d) THEN "ok"
                                                            ELSE "running"

\* Mutant: Some(value) for every driver.
TaggedAny(d) == {d}
\* Mutant: None for every driver.
TaggedNone(d) == {}

\* head_or_tail!: Some(value) for the first driver, None for any other.
Tagged(d) == IF d = First THEN {d} ELSE {}

Alive(d) == driver[d] \in {"running", "deaf"}

-----------------------------------------------------------------------------
(* The proxy of a sink stream.                                             *)

\* `sink.next().await?` is ready with Ok(x).
SinkYield(d, x) ==
  /\ outcome = "running"
  /\ proxy[d] = "next"
  /\ Len(yielded[d]) < MaxItems
  /\ yielded' = [yielded EXCEPT ![d] = Append(@, x)]
  /\ held' = [held EXCEPT ![d] = Append(@, x)]
  /\ proxy' = [proxy EXCEPT ![d] = "reserve"]
  /\ UNCHANGED <<channel, taken, driver, termination, outcome>>

\* It is ready with Err: `s.try_next().await?` fails the whole run.
SinkFail(d) ==
  /\ outcome = "running"
  /\ proxy[d] = "next"
  /\ outcome' = "err"
  /\ UNCHANGED <<yielded, held, channel, taken, proxy, driver, termination>>

\* It is ready with None: the sink stream and the sender are dropped.
SinkEnd(d) ==
  /\ outcome = "running"
  /\ proxy[d] = "next"
  /\ proxy' = [proxy EXCEPT ![d] = "ended"]
  /\ outcome' = Joined(proxy', termination)
  /\ UNCHANGED <<yielded, held, channel, taken, driver, termination>>

\* Mutant: the item replaces what is in the channel.
ProxySendOverwrite(d) ==
  /\ outcome = "running"
  /\ proxy[d] = "reserve"
  /\ ReceiverOpen(d)
  /\ channel' = [channel EXCEPT ![d] = held[d]]
  /\ held' = [held EXCEPT ![d] = <<>>]
  /\ proxy' = [proxy EXCEPT ![d] = "next"]
  /\ UNCHANGED <<yielded, taken, driver, termination, outcome>>

\* Mutant: the channel is unbounded.
ProxySendUnbounded(d) ==
  /\ outcome = "running"
  /\ proxy[d] = "reserve"
  /\ ReceiverOpen(d)
  /\ channel' = [channel EXCEPT ![d] = @ \o held[d]]
  /\ held' = [held EXCEPT ![d] = <<>>]
  /\ proxy' = [proxy EXCEPT ![d] = "next"]
  /\ UNCHANGED <<yielded, taken, driver, termination, outcome>>

\* Mutant: the proxies are chained, a blocked one blocks the others.
ProxySendChained(d) ==
  /\ outcome = "running"
  /\ proxy[d] = "reserve"
  /\ ReceiverOpen(d)
  /\ Len(channel[d]) < SINK_PROXY_BUFFER_LEN
  /\ \A e \in Drivers \ {d} : proxy[e] # "reserve" \/ channel[e] = <<>>
  /\ channel' = [channel EXCEPT ![d] = @ \o held[d]]
  /\ held' = [held EXCEPT ![d] = <<>>]
  /\ proxy' = [proxy EXCEPT ![d] = "next"]
  /\ UNCHANGED <<yielded, taken, driver, termination, outcome>>

\* `tx.reserve().await` gives a permit, and the item is sent.
ProxySend(d) ==
  /\ outcome = "running"
  /\ proxy[d] = "reserve"
  /\ ReceiverOpen(d)
  /\ Len(channel[d]) < SINK_PROXY_BUFFER_LEN
  /\ channel' = [channel EXCEPT ![d] = @ \o held[d]]
  /\ held' = [held EXCEPT ![d] = <<>>]
  /\ proxy' = [proxy EXCEPT ![d] = "next"]
  /\ UNCHANGED <<yielded, taken, driver, termination, outcome>>

\* `tx.reserve().await` fails, the receiver being gone: `.ok()?` ends the
\* proxy, which drops the item, the sink stream and the sender.
ProxyDisconnected(d) ==
  /\ outcome = "running"
  /\ proxy[d] = "reserve"
  /\ ~ReceiverOpen(d)
  /\ held' = [held EXCEPT ![d] = <<>>]
  /\ proxy' = [proxy EXCEPT ![d] = "disconnected"]
  /\ outcome' = Joined(proxy', termination)
  /\ UNCHANGED <<yielded, channel, taken, driver, termination>>

-----------------------------------------------------------------------------
(* The receiving end: the run loop of the driver, and the source streams.  *)

Receive(d) ==
  /\ outcome = "running"
  /\ channel[d] # <<>>
  /\ taken' = [taken EXCEPT ![d] = Append(@, Head(channel[d]))]
  /\ channel' = [channel EXCEPT ![d] = Tail(@)]
  /\ UNCHANGED <<yielded, held, proxy, driver, termination, outcome>>

\* The run loop polls the shared sink.
RunLoopTake(d) == driver[d] = "running" /\ Receive(d)

\* A source stream of driver d polls it, from within sink stream s: that is
\* polled only while its proxy awaits the next item.
SourceTake(s, d) == d \in Holds[s] /\ proxy[s] = "next" /\ Receive(d)

\* A driver may drop its sink and go on running, or never use it at all, as
\* the mock driver of tests/run.rs does.
DropSink(d) ==
  /\ outcome = "running"
  /\ d \notin Attentive
  /\ driver[d] = "running"
  /\ driver' = [driver EXCEPT ![d] = "deaf"]
  /\ UNCHANGED <<yielded, held, channel, taken, proxy, termination, outcome>>

\* The run loop is ready with Ok.  The value of the first driver ends the
\* aggregate run and drops the other run loops; any other value is discarded,
\* and when no run loop is left `unreachable!()` is.
DriverExit(d) ==
  /\ outcome = "running"
  /\ Alive(d)
  /\ termination' = Tagged(d)
  /\ driver' = [e \in Drivers |->
                  IF e = d THEN "exited"
                  ELSE IF Tagged(d) # {} /\ Alive(e) THEN "dropped"
                  ELSE driver[e]]
  /\ outcome' = IF Tagged(d) = {} /\ \A e \in Drivers \ {d} : ~Alive(e)
                THEN "panic" ELSE Joined(proxy, termination')
  /\ UNCHANGED <<yielded, held, channel, taken, proxy>>

\* Mutant: the state of the driver is taken for the outcome of the run.
DriverFailRaw(d) ==
  /\ outcome = "running"
  /\ Alive(d)
  /\ driver' = [driver EXCEPT ![d] = "failed"]
  /\ outcome' = "failed"
  /\ UNCHANGED <<yielded, held, channel, taken, proxy, termination>>

\* The run loop is ready with Err, which fails the whole run.
DriverFail(d) ==
  /\ outcome = "running"
  /\ Alive(d)
  /\ driver' = [driver EXCEPT ![d] = "failed"]
  /\ outcome' = "err"
  /\ UNCHANGED <<yielded, held, channel, taken, proxy, termination>>

-----------------------------------------------------------------------------
SinkReady(d) == \/ \E x \in Items : SinkYield(d, x)
                \/ SinkFail(d)
                \/ SinkEnd(d)

Next == \E d \in Drivers : \/ SinkReady(d)
                           \/ ProxySend(d)
                           \/ ProxyDisconnected(d)
                           \/ RunLoopTake(d)
                           \/ \E s \in Drivers : SourceTake(s, d)
                           \/ DropSink(d)
                           \/ DriverExit(d)
                           \/ DriverFail(d)

Spec == Init /\ [][Next]_vars

-----------------------------------------------------------------------------
(* Fairness.  A future whose await can complete has been woken, and the    *)
(* executor polls it again.  Only an attentive driver is bound to take     *)
(* what it is sent, and to exit when its sink stream has finished.         *)

SinkFinished(d) == Over(proxy, d) /\ channel[d] = <<>>

DriverFinish(d) == /\ driver[d] = "running"
                   /\ SinkFinished(d)
                   /\ DriverExit(d)

ProxyFairness == \A d \in Drivers : WF_vars(ProxySend(d) \/ ProxyDisconnected(d))
DriverFairness == \A d \in Attentive : /\ WF_vars(RunLoopTake(d))
                                       /\ WF_vars(DriverFinish(d))
SinkFairness == \A d \in Drivers : WF_vars(SinkReady(d))

\* The proxies and the attentive drivers only; sink streams may hang.
FairSpec == Spec /\ ProxyFairness /\ DriverFairness
\* Sink streams besides never stay pending for good.
LiveSpec == FairSpec /\ SinkFairness

-----------------------------------------------------------------------------
(* Safety.                                                                 *)

\* The pipe is FIFO and loses nothing: whatever a sink stream has yielded is
\* received, buffered or held by the proxy, in that order, until the proxy
\* finds the receiver gone; then it drops the one item that it holds, and no
\* more (run.rs:401-413).
NothingLost == \A d \in Drivers :
  LET through == taken[d] \o channel[d] \o held[d]
  IN  IF proxy[d] = "disconnected"
      THEN \E x \in Items : yielded[d] = Append(through, x)
      ELSE yielded[d] = through

\* "The sink stream is strictly pull-based": it is never further ahead of its
\* driver than the channel and the one item in the proxy (run.rs:14-20).
PullBased == \A d \in Drivers :
  Len(yielded[d]) - Len(taken[d]) <= SINK_PROXY_BUFFER_LEN + 1

\* `run` returns Ok only with the value of the first driver, after every proxy
\* is over; a sink that was not proxied to its end belongs to a driver that
\* has let go of it (run.rs:70-76, 221-225).
FirstDecides ==
  outcome = "ok" => /\ termination = {First}
                    /\ driver[First] = "exited"
                    /\ \A d \in Drivers : \/ proxy[d] = "ended"
                                          \/ /\ proxy[d] = "disconnected"
                                             /\ driver[d] # "running"

\* The `unreachable!()` after the aggregate loop is (run.rs:243).
NeverUnreachable == outcome # "panic"

-----------------------------------------------------------------------------
(* Liveness.                                                               *)

\* Proxies are merged, not chained: what is yielded for an attentive driver
\* reaches it, whatever other sinks, proxies and drivers are stuck in, unless
\* the driver lets go of the sink or the run is over.
Independent == \A d \in Attentive : \A n \in 1..MaxItems :
  Len(yielded[d]) = n ~> \/ Len(taken[d]) >= n
                         \/ driver[d] # "running"
                         \/ outcome # "running"

\* A sink that blocks on a full channel while its receiver is kept alive by a
\* source stream inside a sink, when no run loop is there to empty it.
Wedged(d) == /\ proxy[d] = "reserve"
             /\ driver[d] # "running"
             /\ Len(channel[d]) = SINK_PROXY_BUFFER_LEN
             /\ \E s \in Drivers : d \in Holds[s] /\ ~Over(proxy, s)

\* With an attentive first driver and sinks that end, the run returns, or ends
\* up wedged in that way and no other: whatever the other drivers do, and
\* however sinks depend on sources (run.rs:221-243, 402-415, 567).
ReturnsOrWedged ==
  First \in Attentive =>
    <>[](outcome # "running" \/ \E d \in Drivers : Wedged(d))

-----------------------------------------------------------------------------
(* What the run promises its caller.                                       *)

Promise == INSTANCE Wiring WITH
  Window <- SINK_PROXY_BUFFER_LEN + 1,
  observed <- taken,
  open <- {d \in Drivers : ~Over(proxy, d)},
  terminated <- termination # {},
  result <- outcome

\* Proxies, channels and run loops together are, for each driver, a lossless
\* FIFO pipe that holds two items, and the result is the first driver's once
\* all pipes are closed (run.rs:581-590).
KeepsPromise == Promise!Spec
=============================================================================
