# cyclers, specified and checked

TLA+ modules for [cyclers](../src/README.md), a Rust library in the manner of
Cycle.js: a `main` function maps *sources* to *sink streams*, *drivers* perform
the sinks' commands and provide the sources, and `cyclers::run` ties the knot.

## The system

| Component | State it keeps | Operations | Interacts by |
| --- | --- | --- | --- |
| wiring (`crates/cyclers/src/run.rs`) | per sink a proxy future and a channel of one; the aggregate run loop of all drivers | await an item, await room, send; the first driver's exit or any error ends the run | polls sink streams and run loops side by side in one task |
| tuple macros (`crates/cyclers/src/util.rs`) | none | mark the first driver's result as the one that counts | used by the wiring |
| terminal driver (`crates/cyclers-terminal/src/driver.rs`) | two handles of the shared sink, stdout, a framed stdin | Write, Flush, Exit; `lines` for ReadLine | proxy channel; `lines` is polled by whoever holds it, usually a sink stream |
| its line reader on WASI | a buffer of bytes | find a newline, grow, read, cut back | `lines` |
| AsyncStdin (`sys/unix.rs`) | a non-blocking file | poll_read | `lines` |
| HTTP driver (`crates/cyclers-http/src/driver.rs`) | three handles of the shared sink, client channel, chosen client, requests under way, response channel | ConfigureClient, SendRequest; `responses` | proxy channel; client channel between run loop and source |
| WebRTC driver (`crates/cyclers-webrtc/src/driver.rs`) | three handles, three oneshots, a close token, socket and receiver behind mutexes | Connect, Send, Disconnect; `receive`, `peer_changes`, `connected_peers` | proxy channel, oneshots, mutexes |
| WebTransport driver (`crates/cyclers-webtrans/src`) | client channel, maps of sessions and streams behind locks | ConfigureClient, EstablishSession, TerminateSession, Create*Stream, SendBytes; one source stream per kind of event | proxy channel, shared maps, locks |
| examples (`examples/*`) | none | `main` functions | `cyclers::run` |

There is one task: everything that `run` does is polled by the future it
returns.  So the concurrency is that of futures: between two awaits a future
runs alone, and which of those that can go on does so next is up to the order
of wake-ups.  A step of a model is what one future does between two awaits.

What is hard here: the cycle (a sink stream that captures a source is polled
in order to poll the driver's own channel, and keeps its receiver alive), the
multicast of a sink to handles of which any may pull and some are never
polled, the ends of things (a driver exits, a sink ends, stdin ends, a channel
is full or closed), and data handed over between streams that are awaited one
after the other.  `hazards` in `PROJECT.json` lists each at its line.

What makes each part correct:

* wiring: items pass through losslessly, in order, at most two under way; the
  first driver alone decides the result; one stuck proxy stops no other; the
  run returns when it can.
* terminal: each command is performed once, in order, by the handle that it is
  for, whoever pulled it; one line per ReadLine; the run loop does not depend
  on `lines` being polled.
* HTTP: one client for all requests, each request answered once, nobody waits
  for ever for the client channel.
* WebRTC: packets go out in order and completely once connected, the driver
  returns after Disconnect or its sink, and no part of it is ever missing the
  one that it waits for.
* WebTransport: each session gets the client that is meant for it, bytes go to
  the session that main means, in order and once, a session is closed when it is
  to be, and the driver ends with its sink or says why it failed.

## Modules

| Module | Models |
| --- | --- |
| `Wiring` | the abstract promise of `run`: per driver a FIFO pipe with a bounded window, and a result |
| `CyclersRun` | `run.rs`, for any set of drivers, each left open in what it does |
| `CyclersRunProofs` | the theorems about `CyclersRun` |
| `MCCyclersRun` | its instance, with a cycle between two drivers |
| `Terminal` | the terminal driver, run loop and `lines` |
| `TerminalProofs` | the theorems about `Terminal` |
| `MCTerminal` | its instance |
| `LineReader` | splitting stdin into lines on WASI |
| `LineReaderProofs` | the theorems about `LineReader` |
| `TerminalEcho` | a whole application: `Terminal`, its proxy and the sink stream of `examples/terminal-echo`, refined to `CyclersRun` |
| `TerminalEchoProofs` | the theorems about `TerminalEcho` |
| `MCTerminalEcho` | its instances: the echo, and a main that sends Exit |
| `Http` | the HTTP driver, run loop and `responses` |
| `HttpProofs` | the theorems about `Http` |
| `MCHttp` | its instances |
| `WebRtc` | the WebRTC driver, its handlers and its source |
| `WebRtcProofs` | the theorems about `WebRtc` |
| `MCWebRtc` | its instances |
| `WebTrans` | the WebTransport driver, its handlers, its source and the maps between them |
| `WebTransProofs` | the theorems about `WebTrans` |
| `MCWebTrans` | its instances |
| `Selection` | what of a history is meant for somebody, in order: functions on its positions |
| `SequenceLemmas` | lemmas about queues, channels, selections, and sequences put one after the other, for these proofs |

`MC` modules only declare model values and define constants.  Definitions whose
comment says *Mutant* are plausible bugs; they are in no next-state relation,
and show that a property can fail (see the end of this text).

### CyclersRun

`yielded`, `held`, `channel` and `taken` are the stages of an item: history of
the sink stream, the local variable `x` of the unfold closure (run.rs:402-407),
the mpsc channel, history of the receiving end.  `proxy[d]` is the await at
which that closure stands.  `driver[d]` is the run loop: running with its sink,
running without it ("deaf"), exited, failed, or dropped with the aggregate run.
`Holds` says which sources `main` has moved into which sink: it stands for any
`main`.

| Action | Code |
| --- | --- |
| `SinkYield`, `SinkFail`, `SinkEnd` | `sink.next().await?` with Ok, Err, None (402-405) |
| `ProxySend`, `ProxyDisconnected` | `tx.reserve().await.ok()?` with and without a permit (406-409) |
| `RunLoopTake`, `SourceTake` | the driver or its source polls the receiver; a source stream inside sink `s` only while the proxy of `s` awaits that sink |
| `DropSink` | a driver that does not use its sink, as in `crates/cyclers/tests/run.rs` |
| `DriverExit`, `DriverFail` | the loop of the aggregate run (220-244) and `try_join` (567) |

Whether a receiver is disconnected (`ReceiverOpen`) is not a choice of the
model: it follows from who still owns a handle of the shared sink.

### Terminal, Http, WebRtc

The sink that a driver gets is `share()`d: each handle has a queue of its own,
and the handle that is polled pulls an item from the channel and publishes it
to the queues of all live handles.  This is how futures_rx, which is not in the
repository, behaves, and is marked external in the map (`Pull`, `Take`), as is
the user at stdin.

`Terminal` has two handles (run loop, `lines`).  A read that fails is yielded and
`lines` lives on (terminal driver.rs:258): its framed reader has ended, which it
only finds out with the next ReadLine (`LinesError`, `Exhausted`).

`Http` has three: the run
loop's filter, the requests of `responses`, and their first element for the
default client.  In `Http` a step of `responses` is one poll result of what it
is composed of: `zip` polls clients before requests (`ZipClient`, `ZipDefault`,
then `ZipRequest`), `or` polls its second stream only while the first is
pending, `co().map().for_each()` runs the futures (`Execute`, `Respond`).  The
future of a request begins with its conversion for reqwest, which panics for an
`Invalid` one (`RequestPanic`, http driver.rs:309-319), and a panic of either side
stops both (`Panicked`), since one task polls them.  On WASI there is no such
conversion.

`WebRtc` has a handle for each of its three handlers.

| State | Code |
| --- | --- |
| `connection` | the three oneshot channels: they are sent together (173-181), and are dropped together when the Connect handler ends without a Connect or is dropped |
| `looping`, `sending`, `disconnecting` | where each handler of the `try_join` stands (148-259) |
| `held`, "asked" | what the `zip` of a handler keeps while it has no sender yet (195, 227) |
| `cancelled` | the close token is cancelled and, in the same poll, the sender closed (241-245) |
| `changes`, `listed` | the changes of peers that nobody has taken yet, each of which goes to one consumer of `connected_peers`, and the list of each consumer (305-370) |
| `receiving` | `receive`: "locked" while it holds the mutex across its await (386-399) |
| `panicked` | the end of a oneshot channel that an `expect` has missed (79, 143, 173-181, 285) |

`LoopSend`, `Arrive` and `PeerChange` stand for the message loop of
matchbox_socket, which is external.  The order in which woken handlers poll the
sink and the oneshots is left open.  All three handles are taken to subscribe
before the sink is polled first, in `Http` and `Terminal` too.  The handle in
the source (`_sink`) and the originals of cloned handles are left out: nobody
reads them.

### WebTrans

The driver is a `try_join` of three handlers, and the source shares the maps of
sessions and streams with it.  A session is behind a readers-writer lock.

| State | Code |
| --- | --- |
| `queue[h]` | the commands for a handle of the sink, filtered: "configure", "unless" and "first" of configure_client (driver.rs:83-207), "terminate", "send", and "ready" of `session_ready` |
| `asks[p]` | the CreateUniStream or CreateBiStream commands for stream `p` of the source |
| `configuring`, `building`, `defaulting` | the configure handler: at its sink or at `reserve().await` with a client, and whether a default client may still be made |
| `clients`, `slot`, `used` | the client channel, what `zip` keeps, and what sessions were established with |
| `terminating`, `locking` | the terminate handler: at its sink or at `write().await` of a session |
| `taken` | the builders that have been taken out of their command, of which there may be clones |
| `sending`, `writing` | the send handler: at its sink, or in `write_all(..).await` with a SendBytes, which the peer may have stopped |
| `sessions`, `streams` | the two maps; a session is open or closed, a stream ID has one entry whichever session it belongs to |
| `streamer[p]` | whether a stream of created or received streams holds the read lock of its session, which it does across its await |
| `read` | the entry that `bytes_received` was made for |

| Action | Code |
| --- | --- |
| `ConfigureBuild`, `ConfigurePanic`, `ConfigureSend`, `ConfigureEnd` | the first stream of clients (driver.rs:83-121, 168-207); the `expect` at 177 meets a clone |
| `DefaultSend`, `DefaultOff` | the default client, unless there is a ConfigureClient (136-165) |
| `TerminateTake`, `TerminateClose`, `TerminateEnd` | 212-245; the session is looked up when the command is taken |
| `SendWrite`, `SendWait`, `SendInvalid`, `SendFail`, `SendEnd` | the unfold of SendBytes (249-307): the peer has given credit for the bytes, or the handler waits for it; a write fails when the session is closed or the peer has stopped the stream |
| `ReadyClient`, `ReadySession`, `ReadyError`, `ReadyEnd` | `session_ready` (source.rs:139-217) |
| `StreamLock`, `StreamCreated`, `StreamReceived`, `StreamError` | the four streams of streams (222-533): the lock, then what comes of the await |
| `BytesLock`, `BytesYield` | `bytes_received` (537-626) |
| `Lost`, `Credit`, `Stop` | QUIC: a session is lost, a peer reads on, or asks for no more bytes (STOP_SENDING) |
| `BuildFail`, `DefaultFail` | the builders of clients |

The fallback to the default client is read as it is written: it is polled while
the first stream of clients is pending, and ends with that.  `main` only has
IDs that the source has yielded, and has subscribed to the streams created in a
session before it asks for one; `Polled` says to which it has.  It may send a
clone of a ConfigureClient.  Commands are taken out of the proxy channel only while the driver
runs, for it is what the sink belongs to, and are counted when they are pulled.
One read is awaited at a time.  A stream ID is what QUIC makes of it: the kind,
who opened it, and a number in its session; the Symbols of WebAssembly, which
never collide, are not modelled.  Bytes, URLs, error codes and send orders are data.
A write is of all its bytes or none: what part of them a peer has got when it
fails or waits is not told apart, and a write for which there is credit is one
step.  A peer's STOP_SENDING is seen by a write only, so it comes while one waits.

### LineReader

Bytes are newline, invalid, other, and the zero byte that `resize` fills in.
`filled` is the history of what has been put into the buffer, with the zero bytes
of failed reads, and `got` that of what has been read.  Failed reads are counted;
each has been yielded as an error.

### Selection

Several properties speak of the commands of the sink that are of one kind.  A
selection is a function on the positions of these commands, as `TextsOf(sent)`;
`Lists(t, f)` says that the sequence `t` has the values of `f` in the order of
the positions.  It needs no recursion, so one can prove how `Lists` goes on when
a command is added (`ListsAppend`, `ListsConcat`).

## What is checked

Bounds are constants in the `.cfg` files.

| Run | Shows | Bounds, and why they are enough |
| --- | --- | --- |
| `run` | all of `CyclersRun`: safety, `KeepsPromise`, `Independent`, `ReturnsOrWedged`, for two drivers in a cycle, the first one attentive, the second free to hang, fail or drop its sink | 2 values to tell an order; more items than the channel and the proxy hold, so that a sink waits for room |
| `terminal` | any 3 commands on 2 texts and 2 codes, 2 lines and a failed read; the run loop alone is fair, `lines` may never be polled | a Write, Exit and ReadLine in every order; a line typed ahead of the one asked for |
| `echo` | terminal-echo, with one line (`quit`) that makes it send Exit and read on: echoes once and in order, `SinkHoldsReceiver`, `ReturnsAtEof`, and each step is one of `CyclersRun` | 3 lines: one being echoed, one typed ahead, one more; at most 2 answers to a line (`MaxReply`), which is what the example gives |
| `line_reader` | all inputs of up to 5 bytes, chunks of 2, one failing read | a line over three chunks, several lines in one |
| `http` | 2 builders, which can be sent twice since commands can be cloned, and 3 requests, of which one cannot be converted, 3 commands in every order, with a main that polls `responses` | two clients and the default one can race; with one place in the client channel the second client is one too many |
| `webrtc` | any 3 commands, a packet that arrives, a peer that comes and goes, two consumers of connected peers; the driver is fair, the source may never be polled | Send, Connect and Disconnect in every order; one packet held before the connection and one queued behind it |
| `webtrans` | 3 commands and a ConfigureClient, or 2 and it twice, in every order, 2 sessions, 2 streams; the driver is fair and so is `session_ready`, the other streams of the source may never be polled | a configured and the default client race for 2 sessions; the 2 streams can be in one session or have one ID in two; after both streams there is one SendBytes to the stream that was replaced |
| `echo_exit`, `line_reader_padding`, `http_clients`, `webrtc_end`, `webtrans_fin` | one expected violation each, see Findings | |

In `webtrans` there is one builder, so a second ConfigureClient is a clone of the
first; `MaxClients` bounds them, `MaxOthers` the other commands, and `MaxSent` all.

`ReturnsOrWedged`, `ExitsOrBlocked`, `EndsOrLocked`, `TerminatedOrLocked`,
`SessionsAnswered`, `PanicExplained` and `FailuresExplained` are stated so that
they name everything that can go wrong:

* the run returns unless `Wedged`: a proxy waits for room in a channel that only
  a captured source keeps open;
* the HTTP run loop ends with its sink unless `Blocked`, by a second client and
  no one to read it; and it panics only when a ConfigureClient and a clone of it
  have both been sent, for the builder is taken out of the command (http
  driver.rs:161);
* each HTTP request is answered and `responses` ends with the sink, unless that
  or the run loop has panicked (`Panicked`), and `responses` panics only for a
  request that cannot be converted, sent and not answered before (http
  driver.rs:317);
* the WebRTC driver ends with its sink or a Disconnect unless it waits for the
  mutex of a `receive` that is not polled; and it panics only in the cases listed;
* the WebTransport driver ends with its sink, closes the sessions that it is told
  to, and answers EstablishSession, unless the terminate handler waits for the
  lock that a stream of that very session holds across its await (`LockedOut`),
  or the configure handler for room in a channel that `session_ready` empties
  only as sessions are asked for (`NoRoom`), or the send handler for the credit
  of a peer that does not read (`Stalled`, webtrans driver.rs:287), with which
  every later SendBytes waits; every client is used for one session, so a session
  waits for good when all clients are used.  It fails only on a stream that is
  not writable or that its peer has stopped, a closed session, a dropped source,
  a builder that fails, or a ConfigureClient whose clone has come before.

Each shows that there is no other.  Two hazards of `PROJECT.json` show in what a
property claims: `RightStream` of `WebTrans` excepts streams of two sessions that
have the same ID, as the map of streams does not have the session in its key
(source.rs:446), and `SomeoneKnows` of `WebRtc` says of two consumers of
connected peers only what they know between them, since they split the changes
(see Findings).

`CHECK_DEADLOCK FALSE` is in every configuration because every one of these
systems stops: a run returns, a stream ends.

### Fairness

Weak fairness stands for an executor that polls again a future whose waker was
called.  It is asserted per future, never per branch of what a peer decides:

* each proxy (`ProxyFairness`): `merge` polls a proxy that was woken;
* each *attentive* driver, separately for taking an item and for ending with
  its sink, which is what the drivers of this repository do (`while let
  Some(..) = sink.next().await`).  Other drivers have no fairness at all;
* sink streams only in `LiveSpec`, where they do not stay pending for good;
* in `Terminal` the run loop, not `lines`: that is polled by `main` if at all;
* in `TerminalEcho` the proxy (`ProxyReady`) and the run loop; a failure of
  stdin is never forced;
* in `Http` the run loop, `responses` for a main that awaits them, and each
  exchange with the server, which ends by a response or a timeout.
  `ResponsesStep` is one future, so its fairness is one conjunct;
* in `WebRtc` the driver, which is one future with its message loop, and not
  the source; packets and peers need not come;
* in `WebTrans` the driver, which is one future (`FairSpec`), and in `PolledSpec`
  `session_ready` for a main that awaits it, whose connects succeed or fail.
  Whether a write has credit at once or waits is not decided by fairness, and a
  peer never has to read (`Credit`), to stop or to lose anything.
  The other streams of the source need not be polled, and no stream need ever be
  opened by a peer: that is what the lock is held across.

## What is proved

`CyclersRunProofs` proves, for every set of drivers and items, every `Holds`
and every capacity at least 1 (`DriversAssumption`, `HoldsAssumption`,
`BufferAssumption`, `BoundAssumption`):

| Theorem | States |
| --- | --- |
| `Typing` | `Spec => []TypeOK` |
| `Lossless` | `Spec => []NothingLost` |
| `PulledOnly` | `Spec => []PullBased` |
| `FirstDriverDecides` | `Spec => []FirstDecides` |
| `Unreachable` | `Spec => []NeverUnreachable` |
| `Implements` | `Spec => KeepsPromise`, the refinement of `Wiring` |
| `Invariance` | `Spec => []IInv`, which they follow from |

None of the properties is inductive by itself.  `IInv` adds to `TypeOK` and
`NothingLost`:

* `HeldInv`: a proxy holds an item exactly while it awaits a permit.  Without
  it `ProxySend` could append nothing or two items, and `PullBased` fails.
* `RoomInv`: the channel is within its capacity.  With `HeldInv` and
  `NothingLost` it gives `PullBased`, by the length of a concatenation.
* `GoneInv`: a proxy that found its receiver gone belongs to a driver that is
  not running.  It is what makes a sink that was not proxied to its end
  harmless in `FirstDecides`.
* `AggregateInv`: `termination` is empty or the first driver, who has exited
  then, and is alive before that.  It makes the `unreachable!()` so.
* `OutcomeInv`: a result of "ok" means that both sides of `try_join` are done.

The step is split by actions: `PipeStep` for the pipe, `ProxyStep` for proxies
and `AggregateStep` for run loops.  For the refinement `PromiseStep` maps
`SinkYield` to `Emit`, the receiving actions to `Observe`, the ends of a proxy
to `Close`, the first driver's exit to `Terminate`, failures to `Fail`, and the
rest to stuttering.  That `Observe` yields the right item is `NothingLost`, and
the window of `Emit` is `RoomInv`.

`TerminalProofs`, for every set of texts and codes and any bounds
(`CodesAssumption`: the codes include SUCCESS and are none of the two words for a
loop without a code):

| Theorem | States |
| --- | --- |
| `Typing` | `Spec => []TypeOK` |
| `ReturnsFirstExit` | `Spec => []FirstExitDecides` |
| `WritesPerformedInOrder` | `Spec => []WritesInOrder` |
| `LinesReadOnDemand` | `Spec => []LinesOnDemand` |
| `Invariance` | `Spec => []IInv` |

`RunningInv` says that the queue of the run loop and then the channel are the
rest of the sink, that there is no Exit before that rest, and that the writes
before it are what has been written; `ReturnedInv` is what the last step of the
loop makes of it, and survives that the sink goes on.  `ReaderInv` is the like
for `lines`: it counts the ReadLines before its rest of the sink, those that a
failed read has answered among them.  The invariant
is kept by every `Move`: a step of the driver, of the user, or of a proxy that
sends or ends, without the bounds on them.  So it carries over to a composition
of the driver with a sink of its own.

`TerminalEchoProofs`, for every main that answers a line read with any commands,
and any bounds (`ReplyAssumption`, which has `MaxReply` bound the answers,
`CodesAssumption` and `BoundsAssumption`):

| Theorem | States |
| --- | --- |
| `EchoesEveryLine` | `EchoSpec => []EchoesAll` |
| `HoldsReceiver` | `EchoSpec => []SinkHoldsReceiver` |
| `EchoReturnsFirstExit` | `EchoSpec => [](FirstExitDecides /\ WritesInOrder)` |
| `EchoReadsOnDemand` | `EchoSpec => []LinesOnDemand` |
| `EchoImplements` | `EchoSpec => RunsOnCyclers`, the refinement of `CyclersRun` |
| `EchoKeepsPromise` | the refinement of `Wiring`, by the theorem `Implements` of `CyclersRunProofs` |
| `EchoInvariance` | `EchoSpec => []EchoInv` |

Each step of the application is a `Move` of its driver or leaves that alone
(`EchoMoves`), so `IInv` of the driver is an invariant here.  To it `EchoInv`
adds:

* `ProxyInv`: what the sink stream has yielded is what has been sent, and the
  command that the proxy holds;
* `AnswerInv`: what it has yielded and will yield before the next line are the
  answers to the lines read.  Together they tie the commands of the driver to the
  lines that it gives, once around the cycle;
* `EndInv`: `lines` ends only while the proxy awaits it, so nothing is left to
  be sent then, and it ends with stdin and after the last line, or in an error
  that the run returns; it makes `SinkHoldsReceiver` hold, and with
  `JoinInv` a result of "ok" the end of everything;
* `WrittenInv`: `IInv` says nothing of the writes of a run loop that has failed;
  these are of a first part of the commands still;
* `SizeInv`: no more commands than `MaxItems` of `CyclersRun` admits.

In the refinement `SinkYield`, `ProxySend`, `SinkFail` and `SinkEnd` are the
actions of that name; a `Pull` is a `SourceTake` when `lines` does it, and a
`RunLoopTake` when the run loop does; `LoopFail` is `DriverFail`, `LoopExit` and
`LoopEnd` are `DriverExit`, and all other steps are stuttering.  That `yielded`
and `taken` grow by one item at a time is `ProxyInv`, and that what is pulled is
not cut off at the end of `sent` is that of `IInv`.

`Answers` flattens a sequence of sequences by `FlattenSeq`, which is a recursive
function inside of its definition.  As induction over data is not available,
`SequenceLemmas` shows what `FlattenSeq` does when one is added to the end by the
set of the numbers for which it holds, which has no least one that is missing.

`LineReaderProofs`, for every size of a read that is not 0 and any bounds
(`ChunkAssumption`, `BoundsAssumption`):

| Theorem | States |
| --- | --- |
| `KeepsEveryByte` | `Spec => []NoByteLost` |
| `YieldsWholeLines` | `Spec => []WholeLines` |
| `Invariance` | `Spec => []IInv` |

`CutInv` says where the buffer begins in what has been put into it, and that the
lines before that cut are yielded; when a line is, the cut moves to behind the
first newline after it (`YieldCut`).  `InputInv` says that without padding it is
what has been read, `CountInv` that no newline is padding, and `EndInv` what the
end of the stream means.

`HttpProofs`, for every set of requests and builders and any capacities
(`BuffersAssumption`, `ClientsAssumption`):

| Theorem | States |
| --- | --- |
| `Typing` | `Spec => []TypeOK` |
| `OneClientSends` | `Spec => []OneClient` |
| `PanicsExplained` | `Spec => []PanicExplained` |
| `AnswersOnce` | `Spec => []AnsweredOnce` |
| `Invariance` | `Spec => []IInv` |

`OneClient` needs to know which client a request may be paired with *before* one
has been chosen: the default client, if it has been made (`PairingInv`).  For
`AnsweredOnce` each request of the sink is in one of the places from the queues
to the response that was yielded (`HandledInv`, `ZippingInv`); the end of the
stream of responses then leaves no other place.  `TakenInv` says that a builder
which is gone was taken by a command before the one at hand.  That a
panic of `responses` leaves its request without an answer follows from
`HandledInv`.

`WebRtcProofs`, for every set of peers and consumers and any bounds:

| Theorem | States |
| --- | --- |
| `Typing` | `Spec => []TypeOK` |
| `FailuresHaveReasons` | `Spec => []FailuresExplained` |
| `SomeoneKnowsEachPeer` | `Spec => []SomeoneKnows`, if there is a consumer |
| `OnlyConsumerIsLatest` | the list of a single consumer is the peers connected, when no change waits |
| `PacketsPassedInOrder` | `Spec => []SendsInOrder` |

A handler panics when another has ended before it; so the invariant says, as
long as there is no connection, which commands each handler may still have ahead
of it (`WaitingInv`), and why one that is over is (`OverInv`).  Packets go to
the socket in the order of the sink because, while the Send handler runs, the
packets passed on are those of the commands before its queue, but for the one
that `zip` has kept (`SendingInv`); when it is over they stay those of a first
part of the commands (`PassedInv`).

`WebTransProofs`, for every set of builders, every capacity at least 1, every
`Polled` and any bounds (`PolledAssumption`, `BufferAssumption`,
`ClientsAssumption`, `BoundsAssumption`):

| Theorem | States |
| --- | --- |
| `Typing` | `Spec => []TypeOK` |
| `RightUnlessCollision` | `Spec => []RightStream` |
| `FailuresHaveReasons` | `Spec => []FailuresExplained` |
| `WritesInOrder` | `Spec => []WrittenInOrder` |
| `UsesClientsInOrder` | `Spec => []ClientsInOrder` |
| `KeepsTerminations` | `Spec => TerminationsKept`, the action property within `TerminatedOrLocked` |

A SendBytes is only sent for a stream that has been yielded (`QueuedInv`), and a
stream is in the map before it is yielded and has an entry ever after
(`StreamsInv`), although it may be that of another session; it follows that no
ID is invalid.  `HeldInv` says the same of the SendBytes that waits for credit,
for the stream it has looked up before.  `WritingInv` is that SendBytes and the
queue of the send handler as the rest of the history.  Clients are one chain from the sink over the handler, the channel and
the slot of `zip` to the sessions (`BuiltInv`, `UsedInv`), either of the builders
or of the default client and then the builders; that it never has the default
client further back is `UnlessInv`: as long as it may still be made no builder has
come.  `HandsInv` has every builder taken in the hand of the handler or among the
clients built, so that one which is missed is twice in the chain.  `LockInv` says that the terminate handler has a session in hand
only while it waits for its lock, and one that the source has yielded: so taking
the next TerminateSession drops none.

Each module also has the `Invariance` of its inductive invariant.

Each invariant that a run checks is a theorem for every value of the constants,
and so are both refinements.  Model-checked only are the liveness properties:
`Independent`, `ReturnsOrWedged`, `WritesPerformed`, `ReturnsAtEof`,
`EveryRequestAnswered`, `SendsDelivered`, `EndsOrLocked`, `SendsPerformed`,
`SessionsAnswered`, both `ExitsOrBlocked`, and of `TerminatedOrLocked` that
everything is closed in the end.  Liveness under fairness stays with TLC for
good: it needs ENABLED, which tlapm does not support.

## Findings

* `echo_exit`: Exit does not exit.  The run loop returns the code, but `run`
  also waits for the proxies, and the sink that captures `lines` waits for
  stdin (run.rs:567, terminal driver.rs:54).  If that sink yields two more
  commands the first fills the channel, the second waits for room for ever,
  and the run does not return after the end of stdin either; this is the case
  that `ReturnsAtEof` excepts.
* `line_reader_padding`: a failed read on WASI leaves zero bytes in the next
  line (terminal driver.rs:340).
* `http_clients`: with a second client to hand over, the run loop of the HTTP
  driver never ends, as nobody reads the client channel after the first
  (http driver.rs:176, 230).
* `webrtc_end`: when the sink ends without a Connect, the driver panics
  instead of returning, unless the sink had ended before it was polled first
  (webrtc driver.rs:143, 150).  Two more panics are within
  `FailuresExplained`: Connect panics when the source has been dropped (175),
  and when a Connect is all that its sink had and the other handlers have seen
  the end first (178).
* Two consumers: a consumer of connected peers "yields the latest list of all
  connected peers" (webrtc driver.rs:335) only if it is the only one.  The streams
  are made from one socket, and each change goes to the one that polls first, so
  of two consumers neither need list the peers that are connected; no run is about
  that.  `SomeoneKnows` holds in its place, and with a single consumer it is what
  the doc says (`OnlyConsumerIsLatest`).
* `webtrans_fin`: a SendBytes with `finished` ends the handler of all SendBytes,
  not only its stream; later ones are ignored, whatever stream and session they
  are for (webtrans driver.rs:295-297, command.rs:74-75).

## Not modelled

AsyncStdin is I/O without state; what comes out of it is in `Terminal`.  Tracing,
error display and type conversions have no property.  Bodies of requests and
responses are data; the transport under reqwest is a step that ends.  That the default client
cannot be made, and reqwest panics where it has no TLS backend, is left out: a
matter of the platform, before anything is sent.
Construction of wasm and native variants differs in types only, but for `lines`
on WASI, which `LineReader` has.

The examples other than terminal-echo keep no state.  Their wiring is an instance
of `CyclersRun`, for any `main`; what is their own is how combinators of other
crates (switch_map, zip, flat_map, stop_after_future) lay out text for a
terminal, and a model of it would be one of those crates.  From reading
webtrans-echo, and not from a run: its `flat_map` over messages waits for the
end of `bi_stream_created` of the first message, which does not come before that
of the sink it is part of, so that it sends one message only.

Crashes and restarts do not occur: nothing is kept outside of the process.
Messages are not lost between a proxy and its driver; between peers they are the
matter of the transports, whose failures are steps (`LoopFail`, `Lost`,
`BuildFail`, a failed exchange).

## What could be added

* More than one read at a time, and a `main` that subscribes late, in `WebTrans`.
* A composition of two drivers with one `main`, refined to `CyclersRun` as
  `TerminalEcho` is.

## Mutants

Each property of a passing run has a mutant in `PROJECT.json`: a definition of
the module replaced by one that a plausible bug would give (`ProxySendUnbounded`:
no capacity; `TaggedAny`: the wrong driver's value; `NextSendNewest`: a packet
overtakes the one kept; `ZipDefaultUnsent`: the default client not remembered;
`MutantStreamReceived`: the ID of a stream yielded before it is in the map).  TLC
finds the property violated with it.
