------------------------------ MODULE WebTrans ------------------------------
(***************************************************************************)
(* The WebTransport driver (crates/cyclers-webtrans/src): three handlers   *)
(* that are joined, for ConfigureClient, TerminateSession and SendBytes,   *)
(* and the streams of the source that main polls, if it does: session      *)
(* ready, for each session the four streams of created and received        *)
(* streams, and for each stream the bytes received.                        *)
(*                                                                         *)
(* Clients go from the driver to `session_ready` through a channel of one. *)
(* Sessions and streams are kept in maps that driver and source share; a   *)
(* session is behind a readers-writer lock.                                *)
(*                                                                         *)
(* A handle of the sink is filtered: its queue only has the commands that  *)
(* its filter lets through.  A stream has the ID that QUIC gives it, which *)
(* tells who has opened it, in which way, and how many came before it in   *)
(* that session.                                                           *)
(***************************************************************************)
EXTENDS Integers, FiniteSets, Sequences, SequencesExt

CONSTANTS
  Builders,           \* the client builders that the sink may send
  Default,            \* the client that is made without any of them
  NoClient,           \* stands for no client
  CLIENT_BUFFER_LEN,  \* 1 in the code
  Polled,             \* the streams of streams that main polls: pairs of a
                      \* session and a kind of streams
  MaxSessions,        \* bounds of the model: sessions,
  MaxStreams,         \* streams that main wants and gets,
  MaxClients,         \* ConfigureClient commands,
  MaxOthers,          \* other commands,
  MaxSent             \* and commands in all

Sessions == 1..MaxSessions
NoSession == 0
Kinds == {"OutgoingUni", "OutgoingBi", "IncomingUni", "IncomingBi"}
Outgoing(p) == p[2] \in {"OutgoingUni", "OutgoingBi"}

ASSUME PolledAssumption == Polled \subseteq Sessions \X Kinds
ASSUME BufferAssumption == CLIENT_BUFFER_LEN \in Nat \ {0}
ASSUME ClientsAssumption == /\ Default \notin Builders
                            /\ NoClient \notin Builders \cup {Default}
ASSUME BoundsAssumption == {MaxSessions, MaxStreams, MaxClients, MaxOthers, MaxSent} \subseteq Nat

Clients == Builders \cup {Default}
StreamIds == [kind : Kinds, n : 1..MaxStreams]

ConfigureClient(b) == [op |-> "ConfigureClient", builder |-> b]
EstablishSession == [op |-> "EstablishSession"]
TerminateSession(s) == [op |-> "TerminateSession", session |-> s]
CreateStream(p) == [op |-> "CreateStream", session |-> p[1], kind |-> p[2]]

\* The p-th SendBytes.  The session is the one whose stream main means by the
\* ID; the command does not have it.
SendBytes(p, id, s, fin) == [op |-> "SendBytes", packet |-> p, stream_id |-> id,
                             session |-> s, finished |-> fin]

Packets == 1..MaxSent
Sends == [op : {"SendBytes"}, packet : Packets, stream_id : StreamIds,
          session : Sessions, finished : BOOLEAN]
Commands == {ConfigureClient(b) : b \in Builders} \cup {EstablishSession}
              \cup {TerminateSession(s) : s \in Sessions}
              \cup {CreateStream(p) : p \in {q \in Polled : Outgoing(q)}}
              \cup Sends

Handles == {"configure", "unless", "first", "terminate", "send", "ready"}

\* What the filter of handle h lets through.
Accepts(h, c) ==
  c.op = CASE h \in {"configure", "unless"} -> "ConfigureClient"
           [] h \in {"first", "ready"} -> "EstablishSession"
           [] h = "terminate" -> "TerminateSession"
           [] h = "send" -> "SendBytes"

VARIABLES
  sent,         \* how many commands have come out of the proxy channel, and
  builders,     \* history of the builders
  sends,        \* and of the SendBytes among them
  closed,       \* whether its sending end is gone, and nothing is left in it
  queue,        \* queue[h]: what has been published to handle h and not taken
  asks,         \* asks[p]: how many CreateStream have been to stream p
  configuring,  \* the configure handler: "next", "reserve" or "over"
  taken,        \* the builders that have been taken out of their command
  building,     \* the client that it awaits a permit for, or NoClient
  defaulting,   \* whether it still waits for a reason to make a default client
  clients,      \* the client channel
  built,        \* history of the clients sent to it
  terminating,  \* the terminate handler: "next", "lock" or "over"
  locking,      \* the session that it awaits the write lock of, or NoSession
  sending,      \* the send handler: "next", "write" while it waits for credit,
                \* "stopped" when the peer wants no more bytes, or "over"
  writing,      \* the SendBytes that it waits with, and the session that has the
                \* stream to write to, or <<>>
  written,      \* history of the SendBytes performed, with the session written to
  ready,        \* `session_ready`: "polled" by main, "over", or "dropped" with
                \* the source
  slot,         \* the client that its zip keeps, or NoClient
  used,         \* history of the clients that it has connected with
  sessions,     \* the map of sessions: whether the transport of each is open
  streamer,     \* streamer[p]: "idle", or "locked" while it holds a read lock
  opened,       \* history of what they have yielded: streams, with session and ID
  streams,      \* the map of streams: the session that has the stream, if any
  read,         \* a read that is awaited, if any: the ID that it was made for, the
                \* session whose stream main means by it, and the one read from
  outcome       \* of the driver: "running", or why it is over before its handlers

sinkVars == <<sent, builders, sends, closed>>
queueVars == <<queue, asks>>
clientVars == <<configuring, taken, building, defaulting, clients, built>>
terminateVars == <<terminating, locking>>
sendVars == <<sending, writing, written>>
handlerVars == <<terminateVars, sendVars>>
readyVars == <<ready, slot, used>>
streamVars == <<streamer, opened, streams>>
vars == <<sinkVars, queueVars, clientVars, handlerVars, readyVars, sessions,
          streamVars, read, outcome>>

Outcomes == {"running", "no builder", "no client", "no receiver", "invalid session",
             "invalid stream", "not writable", "not written"}
Writes == [command : Sends, to : Sessions]

TypeOK == /\ sent \in 0..MaxSent
          /\ builders \in Seq(Builders)
          /\ sends \in Seq(Sends)
          /\ closed \in BOOLEAN
          /\ queue \in [Handles -> Seq(Commands)]
          /\ asks \in [Polled -> Nat]
          /\ configuring \in {"next", "reserve", "over"}
          /\ taken \subseteq Builders
          /\ building \in Clients \cup {NoClient}
          /\ defaulting \in BOOLEAN
          /\ clients \in Seq(Clients) /\ Len(clients) <= CLIENT_BUFFER_LEN
          /\ built \in Seq(Clients)
          /\ terminating \in {"next", "lock", "over"}
          /\ locking \in Sessions \cup {NoSession}
          /\ sending \in {"next", "write", "stopped", "over"}
          /\ writing = <<>> \/ writing \in Writes
          /\ written \in Seq(Writes)
          /\ ready \in {"polled", "over", "dropped"}
          /\ slot \in Clients \cup {NoClient}
          /\ used \in Seq(Clients)
          /\ sessions \in Seq(BOOLEAN) /\ Len(sessions) <= MaxSessions
          /\ streamer \in [Polled -> {"idle", "locked"}]
          /\ opened \subseteq [session : Sessions, stream_id : StreamIds]
          /\ streams \in [StreamIds -> Sessions \cup {NoSession}]
          /\ \/ read = <<>>
             \/ read \in [stream_id : StreamIds, session : Sessions, from : Sessions]
          /\ outcome \in Outcomes

Init == /\ sent = 0
        /\ builders = <<>>
        /\ sends = <<>>
        /\ closed = FALSE
        /\ queue = [h \in Handles |-> <<>>]
        /\ asks = [p \in Polled |-> 0]
        /\ configuring = "next"
        /\ taken = {}
        /\ building = NoClient
        /\ defaulting = TRUE
        /\ clients = <<>>
        /\ built = <<>>
        /\ terminating = "next"
        /\ locking = NoSession
        /\ sending = "next"
        /\ writing = <<>>
        /\ written = <<>>
        /\ ready = "polled"
        /\ slot = NoClient
        /\ used = <<>>
        /\ sessions = <<>>
        /\ streamer = [p \in Polled |-> "idle"]
        /\ opened = {}
        /\ streams = [id \in StreamIds |-> NoSession]
        /\ read = <<>>
        /\ outcome = "running"

-----------------------------------------------------------------------------
(* The shared sink.                                                        *)

HandlersOver == configuring = "over" /\ terminating = "over" /\ sending = "over"

\* try_join goes on until a handler fails or all of them are over.
Running == outcome = "running" /\ ~HandlersOver

\* The driver is over, and what is left of its commands is dropped.
Fail(why) == /\ outcome' = why
             /\ queue' = [h \in Handles |-> <<>>]

\* Handles that a command is published to.
Live(h) == Running /\ CASE h = "configure" -> configuring # "over"
                        [] h = "unless" -> defaulting /\ queue["unless"] = <<>>
                        [] h = "first" -> defaulting /\ queue["first"] = <<>>
                        [] h = "terminate" -> terminating # "over"
                        [] h = "send" -> sending # "over"
                        [] h = "ready" -> ready = "polled"

\* Those that are polled for one.
Polls(h) == Live(h) /\ CASE h = "configure" -> configuring = "next"
                         [] h = "terminate" -> terminating = "next"
                         [] h = "send" -> sending = "next"
                         [] OTHER -> TRUE

Known(s) == s <= Len(sessions)

Finished(h) == closed /\ queue[h] = <<>>

\* Some handle pulls a command out of the proxy channel for all of them.
Publish(c) ==
  /\ Running /\ ~closed
  /\ \/ \E h \in Handles : Polls(h) /\ queue[h] = <<>>
     \/ \E p \in Polled : Known(p[1]) /\ Outgoing(p) /\ streamer[p] = "idle" /\ asks[p] = 0
  /\ sent' = sent + 1
  /\ builders' = IF c.op = "ConfigureClient" THEN Append(builders, c.builder) ELSE builders
  /\ sends' = IF c.op = "SendBytes" THEN Append(sends, c) ELSE sends
  /\ queue' = [h \in Handles |-> IF Live(h) /\ Accepts(h, c) THEN Append(queue[h], c)
                                                             ELSE queue[h]]
  /\ asks' = [p \in Polled |-> asks[p] + IF c = CreateStream(p) THEN 1 ELSE 0]
  /\ UNCHANGED <<closed, clientVars, handlerVars, readyVars, sessions, streamVars, read,
                 outcome>>

\* Handle h takes the next command published to it.
Take(h, c) == /\ Polls(h)
              /\ queue[h] # <<>>
              /\ c = Head(queue[h])
              /\ queue' = [queue EXCEPT ![h] = Tail(@)]

-----------------------------------------------------------------------------
(* The configure handler: each client is built and sent to the source, and *)
(* so is a default one if a session is to be established before the first. *)

NextBuilder(b) == Polls("configure") /\ queue["configure"] # <<>>
                    /\ Head(queue["configure"]) = ConfigureClient(b)

\* The builder is taken out of its command, and a client is built with it.
ConfigureBuild(b) ==
  /\ NextBuilder(b) /\ b \notin taken
  /\ queue' = [queue EXCEPT !["configure"] = Tail(@)]
  /\ taken' = taken \cup {b}
  /\ building' = b
  /\ configuring' = "reserve"
  /\ UNCHANGED <<sinkVars, asks, defaulting, clients, built, handlerVars, readyVars,
                 sessions, streamVars, read, outcome>>

\* It is `expect`ed to be there: a clone of a command sent before does not have
\* it any more.
ConfigurePanic(b) ==
  /\ NextBuilder(b) /\ b \in taken
  /\ Fail("no builder")
  /\ UNCHANGED <<sinkVars, asks, clientVars, handlerVars, readyVars, sessions, streamVars,
                 read>>

\* Mutant: the client is sent whether or not there is room.
MutantConfigureSend ==
  /\ Running /\ configuring = "reserve"
  /\ ready # "dropped"
  /\ clients' = Append(clients, building)
  /\ built' = Append(built, building)
  /\ building' = NoClient
  /\ configuring' = "next"
  /\ UNCHANGED <<sinkVars, queueVars, taken, defaulting, handlerVars, readyVars, sessions,
                 streamVars, read, outcome>>

ConfigureSend ==
  /\ Running /\ configuring = "reserve"
  /\ ready # "dropped"
  /\ Len(clients) < CLIENT_BUFFER_LEN
  /\ clients' = Append(clients, building)
  /\ built' = Append(built, building)
  /\ building' = NoClient
  /\ configuring' = "next"
  /\ UNCHANGED <<sinkVars, queueVars, taken, defaulting, handlerVars, readyVars, sessions,
                 streamVars, read, outcome>>

DefaultOver == /\ defaulting' = FALSE
               /\ queue' = [queue EXCEPT !["unless"] = <<>>, !["first"] = <<>>]

\* Mutant: a ConfigureClient does not keep the default client from being made.
MutantDefaultPolled == /\ Running /\ defaulting
                       /\ \/ configuring = "reserve"
                          \/ configuring = "next" /\ queue["configure"] = <<>> /\ ~closed
                       /\ queue["first"] # <<>>

\* Mutant: the default client has its turn when the first stream has ended.
MutantChained == Running /\ defaulting /\ configuring = "over" /\ queue["first"] # <<>>

\* `fallback` polls the default client while the first stream is pending, and
\* that is not made any more once there is a ConfigureClient.
DefaultPolled == /\ Running /\ defaulting
                 /\ \/ configuring = "reserve"
                    \/ configuring = "next" /\ queue["configure"] = <<>> /\ ~closed
                 /\ queue["unless"] = <<>>
                 /\ queue["first"] # <<>>

DefaultSend == /\ DefaultPolled
               /\ ready # "dropped"
               /\ Len(clients) < CLIENT_BUFFER_LEN
               /\ clients' = Append(clients, Default)
               /\ built' = Append(built, Default)
               /\ DefaultOver
               /\ UNCHANGED <<sinkVars, asks, configuring, taken, building, handlerVars,
                              readyVars, sessions, streamVars, read, outcome>>

DefaultOff == /\ Running
              /\ queue["unless"] # <<>>
              /\ DefaultOver
              /\ UNCHANGED <<sinkVars, asks, configuring, taken, building, clients, built,
                             handlerVars, readyVars, sessions, streamVars, read,
                             outcome>>

\* The builder fails, and with it the driver.
BuildFail(b) ==
  /\ NextBuilder(b) /\ b \notin taken
  /\ Fail("no client")
  /\ taken' = taken \cup {b}
  /\ UNCHANGED <<sinkVars, asks, configuring, building, defaulting, clients, built,
                 handlerVars, readyVars, sessions, streamVars, read>>

\* So does that of the default client.
DefaultFail ==
  /\ DefaultPolled
  /\ Fail("no client")
  /\ UNCHANGED <<sinkVars, asks, clientVars, handlerVars, readyVars, sessions, streamVars,
                 read>>

\* The client channel is closed: with the source, the receiver is gone.
ClientUnreceived ==
  /\ (Running /\ configuring = "reserve") \/ DefaultPolled
  /\ ready = "dropped"
  /\ Fail("no receiver")
  /\ UNCHANGED <<sinkVars, asks, clientVars, handlerVars, readyVars, sessions, streamVars,
                 read>>

\* Mutant: the handler goes on for as long as there may be a default client.
MutantConfigureEnd ==
  /\ Polls("configure")
  /\ Finished("configure") /\ ~defaulting
  /\ configuring' = "over"
  /\ UNCHANGED <<sinkVars, queueVars, taken, defaulting, building, clients, built,
                 handlerVars, readyVars, sessions, streamVars, read, outcome>>

\* The handler ends with the first of the two streams, whatever the default
\* client is doing; no more clients can come.
ConfigureEnd ==
  /\ Polls("configure")
  /\ Finished("configure")
  /\ configuring' = "over"
  /\ DefaultOver
  /\ UNCHANGED <<sinkVars, asks, taken, building, clients, built, handlerVars, readyVars,
                 sessions, streamVars, read, outcome>>

-----------------------------------------------------------------------------
(* The terminate handler.                                                  *)

\* The session is looked up before its write lock is awaited.
TerminateTake(s) ==
  /\ Polls("terminate") /\ queue["terminate"] # <<>>
  /\ Head(queue["terminate"]) = TerminateSession(s)
  /\ IF Known(s) THEN /\ locking' = s
                     /\ terminating' = "lock"
                     /\ queue' = [queue EXCEPT !["terminate"] = Tail(@)]
                     /\ UNCHANGED outcome
                ELSE /\ Fail("invalid session")
                     /\ UNCHANGED <<locking, terminating>>
  /\ UNCHANGED <<sinkVars, asks, clientVars, sendVars, readyVars, sessions,
                 streamVars, read>>

\* The write lock is there when no stream of the source has a read lock.
TerminateClose ==
  /\ Running /\ terminating = "lock"
  /\ \A p \in Polled : streamer[p] = "locked" => p[1] # locking
  /\ sessions' = [sessions EXCEPT ![locking] = FALSE]
  /\ locking' = NoSession
  /\ terminating' = "next"
  /\ UNCHANGED <<sinkVars, queueVars, clientVars, sendVars, readyVars, streamVars, read,
                 outcome>>

TerminateEnd ==
  /\ Polls("terminate")
  /\ Finished("terminate")
  /\ terminating' = "over"
  /\ UNCHANGED <<sinkVars, queueVars, clientVars, locking, sendVars, readyVars,
                 sessions, streamVars, read, outcome>>

-----------------------------------------------------------------------------
(* The send handler.                                                       *)

NextSend == Head(queue["send"])

\* It is to be written to the stream that the map has under its ID.
NextWrite == [command |-> NextSend, to |-> streams[NextSend.stream_id]]

Writable == /\ Polls("send") /\ queue["send"] # <<>>
            /\ NextSend.stream_id.kind # "IncomingUni"
            /\ streams[NextSend.stream_id] # NoSession

\* All the bytes of w are written.  With FIN the handler itself is over.
Written(w, rest) ==
  /\ sessions[w.to]
  /\ written' = Append(written, w)
  /\ writing' = <<>>
  /\ sending' = IF w.command.finished THEN "over" ELSE "next"
  /\ queue' = [queue EXCEPT !["send"] = IF w.command.finished THEN <<>> ELSE rest]
  /\ UNCHANGED <<sinkVars, asks, clientVars, terminateVars, readyVars, sessions,
                 streamVars, read, outcome>>

\* The peer has given credit for all of them, ...
SendWrite == Writable /\ Written(NextWrite, Tail(queue["send"]))

\* ... or the handler has to wait for it.
SendWait ==
  /\ Writable /\ sessions[NextWrite.to]
  /\ writing' = NextWrite
  /\ sending' = "write"
  /\ queue' = [queue EXCEPT !["send"] = Tail(@)]
  /\ UNCHANGED <<sinkVars, asks, clientVars, terminateVars, written, readyVars, sessions,
                 streamVars, read, outcome>>

\* Mutant: a SendBytes to a stream that is not writable is skipped.
MutantSendInvalid ==
  /\ Polls("send") /\ queue["send"] # <<>>
  /\ NextSend.stream_id.kind = "IncomingUni"
  /\ queue' = [queue EXCEPT !["send"] = Tail(@)]
  /\ UNCHANGED <<sinkVars, asks, clientVars, handlerVars, readyVars, sessions, streamVars,
                 read, outcome>>

SendInvalid ==
  /\ Polls("send") /\ queue["send"] # <<>>
  /\ IF streams[NextSend.stream_id] = NoSession THEN Fail("invalid stream")
     ELSE NextSend.stream_id.kind = "IncomingUni" /\ Fail("not writable")
  /\ UNCHANGED <<sinkVars, asks, clientVars, handlerVars, readyVars, sessions, streamVars,
                 read>>

\* The write has an error: the transport is closed, or the peer has asked for no
\* more bytes.
SendFail ==
  /\ \/ Writable /\ ~sessions[NextWrite.to]
     \/ Running /\ sending = "write" /\ ~sessions[writing.to]
     \/ Running /\ sending = "stopped"
  /\ Fail("not written")
  /\ UNCHANGED <<sinkVars, asks, clientVars, handlerVars, readyVars, sessions, streamVars,
                 read>>

\* Mutant: the end of the sink is taken before what has been published.
MutantSendEnd ==
  /\ Polls("send")
  /\ closed
  /\ sending' = "over"
  /\ UNCHANGED <<sinkVars, queueVars, clientVars, terminateVars, writing, written,
                 readyVars, sessions, streamVars, read, outcome>>

SendEnd ==
  /\ Polls("send")
  /\ Finished("send")
  /\ sending' = "over"
  /\ UNCHANGED <<sinkVars, queueVars, clientVars, terminateVars, writing, written,
                 readyVars, sessions, streamVars, read, outcome>>

-----------------------------------------------------------------------------
(* The source: `session_ready`, a zip of clients with EstablishSession.    *)

ReadyPolled == Running /\ ready = "polled"

ReadyClient ==
  /\ ReadyPolled
  /\ slot = NoClient /\ clients # <<>>
  /\ slot' = Head(clients)
  /\ clients' = Tail(clients)
  /\ UNCHANGED <<sinkVars, queueVars, configuring, taken, building, defaulting, built,
                 handlerVars, ready, used, sessions, streamVars, read, outcome>>

Connect ==
  /\ slot # NoClient /\ Take("ready", EstablishSession)
  /\ used' = Append(used, slot)
  /\ slot' = NoClient
  /\ UNCHANGED <<sinkVars, asks, clientVars, handlerVars, ready, streamVars, read,
                 outcome>>

\* The session is inserted before its ID is yielded.
ReadySession == /\ Connect
                /\ Len(sessions) < MaxSessions
                /\ sessions' = Append(sessions, TRUE)

ReadyError == Connect /\ UNCHANGED sessions

\* zip ends when the commands do, or no client can come any more.
ReadyEnd ==
  /\ ReadyPolled
  /\ \/ Finished("ready")
     \/ slot = NoClient /\ clients = <<>> /\ configuring = "over"
  /\ ready' = "over"
  /\ queue' = [queue EXCEPT !["ready"] = <<>>]
  /\ UNCHANGED <<sinkVars, asks, clientVars, handlerVars, slot, used, sessions,
                 streamVars, read, outcome>>

-----------------------------------------------------------------------------
(* The source: created and received streams.  A read lock is held across   *)
(* the await of the stream.                                                *)

\* Mutant: the lock is given to readers first.
MutantStreamLock(p) ==
  /\ Running /\ Known(p[1])
  /\ streamer[p] = "idle"
  /\ Outgoing(p) => asks[p] > 0
  /\ Cardinality(opened) < MaxStreams
  /\ streamer' = [streamer EXCEPT ![p] = "locked"]
  /\ UNCHANGED <<sinkVars, queueVars, clientVars, handlerVars, readyVars, sessions, opened,
                 streams, read, outcome>>

\* The lock is fair: a handler that waits for it comes first.
StreamLock(p) ==
  /\ Running /\ Known(p[1]) /\ locking # p[1]
  /\ streamer[p] = "idle"
  /\ Outgoing(p) => asks[p] > 0
  /\ Cardinality(opened) < MaxStreams
  /\ streamer' = [streamer EXCEPT ![p] = "locked"]
  /\ UNCHANGED <<sinkVars, queueVars, clientVars, handlerVars, readyVars, sessions, opened,
                 streams, read, outcome>>

\* What comes of the await is yielded, and the lock released.
StreamYield(p) ==
  /\ Running /\ streamer[p] = "locked"
  /\ streamer' = [streamer EXCEPT ![p] = "idle"]
  /\ asks' = IF Outgoing(p) THEN [asks EXCEPT ![p] = @ - 1] ELSE asks
  /\ UNCHANGED <<sinkVars, queue, clientVars, handlerVars, readyVars, sessions, read,
                 outcome>>

\* QUIC numbers the streams of a kind in a session.
NextId(s, k) ==
  [kind |-> k, n |-> Cardinality({o \in opened : o.session = s /\ o.stream_id.kind = k}) + 1]

Opened(s, id) == [session |-> s, stream_id |-> id] \in opened

\* Mutant: the stream is opened in the first session, whatever the session.
MutantInsert(s, id) ==
  /\ Cardinality(opened) < MaxStreams
  /\ opened' = opened \cup {[session |-> s, stream_id |-> id]}
  /\ streams' = [streams EXCEPT ![id] = 1]

\* A new stream is inserted into the map, in the place of one with its ID.
Insert(s, id) ==
  /\ Cardinality(opened) < MaxStreams
  /\ opened' = opened \cup {[session |-> s, stream_id |-> id]}
  /\ streams' = [streams EXCEPT ![id] = s]

StreamCreated(p) == /\ Outgoing(p) /\ StreamYield(p)
                    /\ sessions[p[1]]
                    /\ Insert(p[1], NextId(p[1], p[2]))

\* Mutant: the ID is yielded before the stream is inserted.
MutantStreamReceived(p) ==
  /\ ~Outgoing(p) /\ StreamYield(p)
  /\ sessions[p[1]]
  /\ Cardinality(opened) < MaxStreams
  /\ opened' = opened \cup {[session |-> p[1], stream_id |-> NextId(p[1], p[2])]}
  /\ UNCHANGED streams

StreamReceived(p) == /\ ~Outgoing(p) /\ StreamYield(p)
                     /\ sessions[p[1]]
                     /\ Insert(p[1], NextId(p[1], p[2]))

StreamError(p) == /\ StreamYield(p)
                  /\ ~sessions[p[1]]
                  /\ UNCHANGED <<opened, streams>>

-----------------------------------------------------------------------------
(* The source: `bytes_received`.                                           *)

\* main polls `bytes_received` for the stream of session s that it knows by the
\* ID.  What is read is the stream that the map has under the ID, and only one
\* that is readable is locked, to be read: for others there is an error.
BytesLock(s, id) ==
  /\ Running
  /\ Opened(s, id) /\ read = <<>>
  /\ streams[id] # NoSession /\ id.kind # "OutgoingUni"
  /\ read' = [stream_id |-> id, session |-> s, from |-> streams[id]]
  /\ UNCHANGED <<sinkVars, queueVars, clientVars, handlerVars, readyVars, sessions,
                 streamVars, outcome>>

\* A chunk is yielded, or an error since the transport is closed, or the end
\* since the peer has finished the stream.
BytesYield ==
  /\ Running /\ read # <<>>
  /\ read' = <<>>
  /\ UNCHANGED <<sinkVars, queueVars, clientVars, handlerVars, readyVars, sessions,
                 streamVars, outcome>>

-----------------------------------------------------------------------------
(* The peers.                                                              *)

Lost(s) == /\ Running /\ Known(s) /\ sessions[s]
           /\ sessions' = [sessions EXCEPT ![s] = FALSE]
           /\ UNCHANGED <<sinkVars, queueVars, clientVars, handlerVars, readyVars,
                          streamVars, read, outcome>>

\* A peer reads on, and gives credit for what is to be written to it.  It may do
\* so late or never.
Credit == /\ Running /\ sending = "write"
          /\ Written(writing, queue["send"])

\* A peer asks for no more bytes of a stream (QUIC's STOP_SENDING), before or
\* while there are bytes to write; nothing but a write sees it.
Stop == /\ Running /\ sending = "write"
        /\ sending' = "stopped"
        /\ UNCHANGED <<sinkVars, queueVars, clientVars, terminateVars, writing, written,
                       readyVars, sessions, streamVars, read, outcome>>

-----------------------------------------------------------------------------
(* The environment: main, the proxy of the sink, and who holds the driver. *)

\* main only has the IDs that the source has yielded.
SendCommand(c) ==
  /\ sent < MaxSent
  /\ IF c.op = "ConfigureClient" THEN Len(builders) < MaxClients
                                 ELSE sent - Len(builders) < MaxOthers
  /\ c.op \in {"TerminateSession", "CreateStream"} => Known(c.session)
  /\ c.op = "SendBytes" => Opened(c.session, c.stream_id) /\ c.packet = Len(sends) + 1
  /\ Publish(c)

CloseSink ==
  /\ Running /\ ~closed
  /\ closed' = TRUE
  /\ UNCHANGED <<sent, builders, sends, queueVars, clientVars, handlerVars, readyVars, sessions,
                 streamVars, read, outcome>>

\* The source and `session_ready` are dropped; nothing else has the receiver.
DropSource ==
  /\ Running /\ ready # "dropped"
  /\ ready' = "dropped"
  /\ queue' = [queue EXCEPT !["ready"] = <<>>]
  /\ UNCHANGED <<sinkVars, asks, clientVars, handlerVars, slot, used, sessions,
                 streamVars, read, outcome>>

-----------------------------------------------------------------------------
DriverStep == \/ \E b \in Builders : ConfigureBuild(b) \/ ConfigurePanic(b)
              \/ ConfigureSend \/ DefaultSend \/ DefaultOff \/ ClientUnreceived
              \/ ConfigureEnd
              \/ \E s \in Sessions : TerminateTake(s)
              \/ TerminateClose \/ TerminateEnd
              \/ SendWrite \/ SendWait \/ SendInvalid \/ SendFail \/ SendEnd

ReadyStep == ReadyClient \/ ReadySession \/ ReadyError \/ ReadyEnd

SourceStep == \/ \E p \in Polled : \/ StreamLock(p) \/ StreamCreated(p)
                                  \/ StreamReceived(p) \/ StreamError(p)
              \/ \E s \in Sessions, id \in StreamIds : BytesLock(s, id)
              \/ BytesYield

Network == \/ \E b \in Builders : BuildFail(b)
           \/ DefaultFail
           \/ \E s \in Sessions : Lost(s)
           \/ Credit \/ Stop

Environment == \/ \E c \in Commands : SendCommand(c)
               \/ CloseSink \/ DropSource

Next == DriverStep \/ ReadyStep \/ SourceStep \/ Network \/ Environment

Spec == Init /\ [][Next]_vars

\* The driver is polled whenever it has been woken; the source may never be.
FairSpec == Spec /\ WF_vars(DriverStep)

\* main polls session_ready, whose connects end.
PolledSpec == FairSpec /\ WF_vars(ReadyStep)

-----------------------------------------------------------------------------
(* Properties.                                                             *)

\* Bytes are written for the SendBytes in the order of the sink, none is left
\* out before one that is written, and a FIN is the last that is ever written
\* (driver.rs, the unfold of send_bytes), whatever the source and the other
\* handlers do in the meantime.
WrittenInOrder ==
  /\ IsPrefix([i \in DOMAIN written |-> written[i].command], sends)
  /\ \A i \in 1..(Len(written) - 1) : ~written[i].command.finished

\* Streams of two sessions have the same ID.
Collides(id) == \E o1, o2 \in opened : o1.stream_id = id /\ o2.stream_id = id /\ o1 # o2

\* Bytes are sent to and received from the session that has yielded the stream
\* to main, except when a stream of another session has the same ID, which takes
\* its place in the map of streams (source.rs, streams.pin().insert).
RightStream ==
  /\ \A i \in DOMAIN written : LET c == written[i].command
                               IN  written[i].to = c.session \/ Collides(c.stream_id)
  /\ read # <<>> => read.from = read.session \/ Collides(read.stream_id)

\* Sessions are established with the configured clients, each once and in the
\* order of the sink; only the very first may be the default client
\* (driver.rs, "Once we receive a `ConfigureClient` command, we will never yield
\* the default client"), however the two streams of clients race.
ClientsInOrder == IsPrefix(used, builders) \/ IsPrefix(used, <<Default>> \o builders)

\* A driver that fails, and drops every session's commands with it, does so for
\* a reason that main can know: with IDs that the source has yielded a session
\* and a stream are always found; bytes are refused by a stream that is not
\* writable, whose peer has stopped it, or of a session that is closed; a client
\* finds no receiver when the source is gone; and a builder is only missed when
\* its command has been sent before (driver.rs, `expect("`configure_client_fn`
\* should not be `None`")`).
FailuresExplained ==
  /\ outcome \notin {"invalid session", "invalid stream"}
  /\ outcome = "no builder" =>
       \E i, j \in DOMAIN builders : i < j /\ builders[i] = builders[j]
  /\ outcome = "not writable" =>
       \E i \in DOMAIN sends : sends[i].stream_id.kind = "IncomingUni"
  /\ outcome = "not written" =>
       \E i \in DOMAIN sends : \E o \in opened :
         o.stream_id = sends[i].stream_id /\ (sending # "stopped" => ~sessions[o.session])
  /\ outcome = "no receiver" => ready = "dropped"

\* The send handler waits for a peer that gives no credit, of a session that is
\* open.
Stalled == sending = "write" /\ sessions[writing.to]

\* Under FairSpec, in the end every SendBytes is performed, unless one before it
\* had a FIN, the peer of one before it does not read, or the driver is over; that
\* main no longer polls any stream of the source does not keep it from being
\* performed.
SendsPerformed ==
  <>[](Len(written) < Len(sends) =>
         ~Running \/ Stalled \/ \E i \in DOMAIN written : written[i].command.finished)

\* The terminate handler waits for a stream of the source that has a read lock
\* of the session, across an await that may never end.
LockedOut == terminating = "lock" /\ \E p \in Polled : p[1] = locking /\ streamer[p] = "locked"

ToTerminate(s) == locking = s \/ TerminateSession(s) \in ToSet(queue["terminate"])

\* A TerminateSession is not given up before its session is closed, unless the
\* driver is over (driver.rs, the then of terminate_session).
TerminationsKept ==
  [][\A s \in Sessions :
        ToTerminate(s) /\ ~ToTerminate(s)' /\ Running' => ~sessions'[s]]_vars

\* Besides, under FairSpec none is left in the end, unless the terminate handler
\* is locked out for good, by the session that it is closing (driver.rs,
\* `.write().await` in the then of terminate_session).
TerminatedOrLocked ==
  /\ TerminationsKept
  /\ <>[](Running => LockedOut \/ \A s \in Sessions : ~ToTerminate(s))

\* The configure handler waits for room in the client channel.
NoRoom == configuring = "reserve" /\ ready # "dropped" /\ Len(clients) = CLIENT_BUFFER_LEN

\* Under FairSpec, the driver is over after the end of its sink, unless the
\* terminate handler is locked out, there is a client that nobody takes, or the
\* peer of a stream does not read; those are the only ways for it to stay, "it
\* exits when the sink stream has finished" (tests/driver.rs).
ExitsOrBlocked == <>[](closed => ~Running \/ LockedOut \/ NoRoom \/ Stalled)

\* Under PolledSpec, an EstablishSession waits for ever only when every client
\* has been used, and the first one not even then, for a default client is made
\* for it, unless the sink ends, the source is dropped or the driver is over.
SessionsAnswered ==
  <>[](Running /\ queue["ready"] # <<>> => used = built /\ (used # <<>> \/ closed))

\* Does not hold.  Under FairSpec, in the end every SendBytes is performed, unless
\* there has been a FIN on its own stream, the peer of one before it does not read
\* or the driver is over ("The sender can also indicate a FIN, signalling the fact
\* that no new data will be sent on the stream", command.rs:74-75).
FinishesStreamOnly ==
  <>[](Running /\ ~Stalled =>
                  \A p \in Len(written) + 1 .. Len(sends) :
                    \E i \in 1..(p - 1) : /\ sends[i].finished
                                          /\ sends[i].stream_id = sends[p].stream_id)
=============================================================================
