------------------------------- MODULE WebRtc -------------------------------
(***************************************************************************)
(* The WebRTC driver (crates/cyclers-webrtc/src/driver.rs): three handlers *)
(* that are joined, for Connect, Send and Disconnect, each with a handle   *)
(* of the shared sink, and the `receive` and `connected_peers` streams of  *)
(* the source.                                                             *)
(*                                                                         *)
(* Connecting makes a socket of matchbox_socket, whose message loop is     *)
(* then polled by the Connect handler, and hands its parts to the others   *)
(* through oneshot channels.  Those that wait for them `expect` that they  *)
(* are sent, and the Connect handler expects that somebody waits.          *)
(*                                                                         *)
(* Which woken handler polls the sink or a oneshot channel first is left   *)
(* open.                                                                   *)
(***************************************************************************)
EXTENDS Integers, Sequences, FiniteSets, SequencesExt, Selection

CONSTANTS
  Peers,
  Consumers,    \* the streams of connected peers that main has made
  MaxSent,      \* bounds of the model: commands sent,
  MaxArrivals,  \* packets that arrive from peers,
  MaxChanges    \* and changes of peers that wait to be taken

ASSUME BoundsAssumption == {MaxSent, MaxArrivals, MaxChanges} \subseteq Nat

\* A packet, with the peer it is for, goes by the number of its Send.
Packets == 1..MaxSent
NoPacket == 0

Connect == [op |-> "Connect"]
Disconnect == [op |-> "Disconnect"]
Send(p) == [op |-> "Send", packet |-> p]
Commands == {Connect, Disconnect} \cup {Send(p) : p \in Packets}

IsSend(c) == c.op = "Send"
Sends(commands) == {i \in 1..Len(commands) : IsSend(commands[i])}
PacketsOf(commands) == [i \in Sends(commands) |-> commands[i].packet]

Handles == {"connect", "send", "disconnect"}

\* The command that the filter of handle h lets through.
Accepts(h, c) == CASE h = "connect" -> c = Connect
                   [] h = "send" -> c.op = "Send"
                   [] h = "disconnect" -> c = Disconnect

\* The ends of oneshot channels whose absence is a panic of the other end.
Expected == {"socket_rx", "channel_sender_rx",
             "channel_sender_tx", "channel_receiver_tx", "socket_tx"}

VARIABLES
  sent,          \* history of the commands sent to the driver
  inbox,         \* the receiving end of its proxy channel
  closed,        \* whether the sending end is gone
  queue,         \* queue[h]: what has been published to handle h and not taken
  connection,    \* the oneshots: "none" sent yet, "open" for sent, or "dropped"
  looping,       \* the Connect handler: "connect", "running" the loop, "over"
  sending,       \* the Send handler: "running" or "over"
  held,          \* the packet that its zip keeps until connected, or NoPacket
  disconnecting, \* that of Disconnect: "waiting", "asked" to before it is
                 \* connected, "locking" the receiver, "over"
  cancelled,     \* whether it has cancelled the token and closed the sender
  outgoing,      \* the channel of packets to the message loop
  delivered,     \* history of the packets that the loop has taken
  arrived,       \* how many packets have come from peers
  incoming,      \* how many of them are in the channel of the receiver
  receiving,     \* `receive`: "idle", "locked" while it awaits one, "over"
  received,      \* how many it has yielded
  connected,     \* the peers that are connected
  changes,       \* the changes of it that nobody has taken from the socket
  listed,        \* listed[c]: the peers in the list that c has yielded last
  source,        \* whether the source is "held" or has been "dropped"
  outcome,       \* of the driver, while not all handlers are over: "running",
                 \* "failed", "unsent" by a failed send, or it was "dropped"
  panicked       \* what was missing in a panic, or "nothing"

sinkVars == <<sent, inbox, closed>>
handlerVars == <<connection, looping, sending, held, disconnecting, cancelled>>
outVars == <<outgoing, delivered>>
inVars == <<arrived, incoming, receiving, received>>
peerVars == <<connected, changes, listed>>
endVars == <<source, outcome, panicked>>
vars == <<sinkVars, queue, handlerVars, outVars, inVars, peerVars, endVars>>

TypeOK == /\ sent \in Seq(Commands)
          /\ inbox \in Seq(Commands) /\ Len(inbox) <= 1
          /\ closed \in BOOLEAN
          /\ queue \in [Handles -> Seq(Commands)]
          /\ connection \in {"none", "open", "dropped"}
          /\ looping \in {"connect", "running", "over"}
          /\ sending \in {"running", "over"}
          /\ held \in Packets \cup {NoPacket}
          /\ disconnecting \in {"waiting", "asked", "locking", "over"}
          /\ cancelled \in BOOLEAN
          /\ {outgoing, delivered} \subseteq Seq(Packets)
          /\ arrived \in Nat
          /\ received \in 0..arrived
          /\ incoming \in 0..(arrived - received)
          /\ receiving \in {"idle", "locked", "over"}
          /\ connected \subseteq Peers
          /\ changes \in Seq([peer : Peers, up : BOOLEAN])
          /\ listed \in [Consumers -> SUBSET Peers]
          /\ source \in {"held", "dropped"}
          /\ outcome \in {"running", "failed", "unsent", "dropped"}
          /\ panicked \in Expected \cup {"nothing"}

Init == /\ sent = <<>>
        /\ inbox = <<>>
        /\ closed = FALSE
        /\ queue = [h \in Handles |-> <<>>]
        /\ connection = "none"
        /\ looping = "connect"
        /\ sending = "running"
        /\ held = NoPacket
        /\ disconnecting = "waiting"
        /\ cancelled = FALSE
        /\ outgoing = <<>>
        /\ delivered = <<>>
        /\ arrived = 0
        /\ incoming = 0
        /\ receiving = "idle"
        /\ received = 0
        /\ connected = {}
        /\ changes = <<>>
        /\ listed = [c \in Consumers |-> {}]
        /\ source = "held"
        /\ outcome = "running"
        /\ panicked = "nothing"

HandlersOver == looping = "over" /\ sending = "over" /\ disconnecting = "over"

\* try_join goes on until a handler fails or all of them are over.
Running == outcome = "running" /\ panicked = "nothing" /\ ~HandlersOver

Panic(end) == panicked' = end /\ UNCHANGED <<source, outcome>>

\* The driver is over, and its handles of the sink are dropped.
Fail(how) == /\ outcome' = how
             /\ queue' = [h \in Handles |-> <<>>]
             /\ UNCHANGED <<source, panicked>>

-----------------------------------------------------------------------------
(* The shared sink.                                                        *)

Live(h) == CASE h = "connect" -> looping # "over"
             [] h = "send" -> sending # "over"
             [] h = "disconnect" -> disconnecting # "over"

\* A handler does not poll for more while zip keeps a command for it.
Polls(h) == /\ Running
            /\ CASE h = "connect" -> looping = "connect"
                 [] h = "send" -> sending = "running" /\ held = NoPacket
                 [] h = "disconnect" -> disconnecting = "waiting"

Finished(h) == closed /\ inbox = <<>> /\ queue[h] = <<>>

\* Handle h polls the channel for all handles.
Pull(h) == /\ Polls(h)
           /\ inbox # <<>>
           /\ inbox' = Tail(inbox)
           /\ queue' = [g \in Handles |-> IF Live(g)
                                          THEN Append(queue[g], Head(inbox))
                                          ELSE queue[g]]
           /\ UNCHANGED <<sent, closed, handlerVars, outVars, inVars, peerVars,
                          endVars>>

\* Handle h takes the next command published to it.
Take(h, c) == /\ Polls(h)
              /\ queue[h] # <<>>
              /\ c = Head(queue[h])
              /\ queue' = [queue EXCEPT ![h] = Tail(@)]

\* Its filter skips the commands of the other handlers.
Skip(h) == /\ \E c \in Commands : Take(h, c) /\ ~Accepts(h, c)
           /\ UNCHANGED <<sinkVars, handlerVars, outVars, inVars, peerVars, endVars>>

-----------------------------------------------------------------------------
(* The Connect handler.                                                    *)

\* The socket, the sender and the receiver are sent to those that wait for
\* them: the source, the two other handlers, and both.
ConnectFirst ==
  /\ Take("connect", Connect)
  /\ source = "held" /\ (sending # "over" \/ disconnecting # "over")
  /\ connection' = "open"
  /\ looping' = "running"
  /\ UNCHANGED <<sinkVars, sending, held, disconnecting, cancelled, outVars, inVars,
                 peerVars, endVars>>

ConnectPanic ==
  /\ Take("connect", Connect)
  /\ \/ source = "dropped" /\ Panic("socket_rx")
     \/ /\ source = "held" /\ sending = "over" /\ disconnecting = "over"
        /\ Panic("channel_sender_rx")
  /\ UNCHANGED <<sinkVars, handlerVars, outVars, inVars, peerVars>>

\* The sink ends without a Connect; the oneshots are dropped.
ConnectEnd ==
  /\ Polls("connect")
  /\ Finished("connect")
  /\ looping' = "over"
  /\ connection' = "dropped"
  /\ UNCHANGED <<sinkVars, queue, sending, held, disconnecting, cancelled, outVars,
                 inVars, peerVars, endVars>>

-----------------------------------------------------------------------------
(* The Send handler: zip of the sender with the Send commands, raced with  *)
(* the cancellation.                                                       *)

\* Mutant: what zip keeps is overtaken.
NextSendNewest(p) ==
  \/ held # NoPacket /\ queue["send"] = <<>> /\ p = held /\ UNCHANGED queue
  \/ /\ queue["send"] # <<>> /\ Send(p) = Head(queue["send"])
     /\ queue' = [queue EXCEPT !["send"] = Tail(@)]

\* Mutant: zip only ever has what it kept.
NextSendHeld(p) == held = p /\ UNCHANGED queue

\* The next packet is what zip keeps, or comes from the sink.
NextSend(p) == \/ held = p /\ UNCHANGED queue
               \/ held = NoPacket /\ Take("send", Send(p))

\* zip keeps a packet until there is a sender.
HoldSend(p) == /\ connection = "none"
               /\ Take("send", Send(p))
               /\ held' = p
               /\ UNCHANGED <<sinkVars, connection, looping, sending, disconnecting,
                              cancelled, outVars, inVars, peerVars, endVars>>

SenderClosed == cancelled \/ looping = "over"

SendPacket(p) ==
  /\ Running /\ sending = "running" /\ connection = "open"
  /\ NextSend(p)
  /\ ~SenderClosed
  /\ outgoing' = Append(outgoing, p)
  /\ held' = NoPacket
  /\ UNCHANGED <<sinkVars, connection, looping, sending, disconnecting, cancelled,
                 delivered, inVars, peerVars, endVars>>

\* A send on a closed channel fails the driver.
SendFail ==
  /\ Running /\ sending = "running" /\ connection = "open"
  /\ held # NoPacket \/ (queue["send"] # <<>> /\ IsSend(Head(queue["send"])))
  /\ SenderClosed
  /\ Fail("unsent")
  /\ UNCHANGED <<sinkVars, handlerVars, outVars, inVars, peerVars>>

SendCancelled ==
  /\ Running /\ sending = "running"
  /\ cancelled
  /\ sending' = "over"
  /\ UNCHANGED <<sinkVars, queue, connection, looping, held, disconnecting, cancelled,
                 outVars, inVars, peerVars, endVars>>

\* Mutant: zip ends with its sink although it keeps a packet.
SendEndHeld ==
  /\ Running /\ sending = "running"
  /\ Finished("send")
  /\ sending' = "over"
  /\ UNCHANGED <<sinkVars, queue, connection, looping, held, disconnecting, cancelled,
                 outVars, inVars, peerVars, endVars>>

SendEnd ==
  /\ Polls("send")
  /\ Finished("send")
  /\ sending' = "over"
  /\ UNCHANGED <<sinkVars, queue, connection, looping, held, disconnecting, cancelled,
                 outVars, inVars, peerVars, endVars>>

\* The sender that zip waits for will never come.
SendPanic ==
  /\ Running /\ sending = "running"
  /\ connection = "dropped"
  /\ Panic("channel_sender_tx")
  /\ UNCHANGED <<sinkVars, queue, handlerVars, outVars, inVars, peerVars>>

-----------------------------------------------------------------------------
(* The Disconnect handler: zip of both ends with the first Disconnect.     *)

HoldDisconnect ==
  /\ connection = "none"
  /\ Take("disconnect", Disconnect)
  /\ disconnecting' = "asked"
  /\ UNCHANGED <<sinkVars, connection, looping, sending, held, cancelled, outVars,
                 inVars, peerVars, endVars>>

\* The token is cancelled and the sender closed.
DisconnectSender ==
  /\ Running /\ connection = "open"
  /\ \/ disconnecting = "asked" /\ UNCHANGED queue
     \/ Take("disconnect", Disconnect)
  /\ cancelled' = TRUE
  /\ disconnecting' = "locking"
  /\ UNCHANGED <<sinkVars, connection, looping, sending, held, outVars, inVars,
                 peerVars, endVars>>

\* Mutant: the receiver is only closed after `receive` has ended.
DisconnectReceiverLast ==
  /\ Running /\ disconnecting = "locking"
  /\ receiving = "over"
  /\ disconnecting' = "over"
  /\ UNCHANGED <<sinkVars, queue, connection, looping, sending, held, cancelled,
                 outVars, inVars, peerVars, endVars>>

\* The receiver is closed when its mutex is free.
DisconnectReceiver ==
  /\ Running /\ disconnecting = "locking"
  /\ receiving # "locked"
  /\ disconnecting' = "over"
  /\ UNCHANGED <<sinkVars, queue, connection, looping, sending, held, cancelled,
                 outVars, inVars, peerVars, endVars>>

DisconnectEnd ==
  /\ Polls("disconnect")
  /\ Finished("disconnect")
  /\ disconnecting' = "over"
  /\ UNCHANGED <<sinkVars, queue, connection, looping, sending, held, cancelled,
                 outVars, inVars, peerVars, endVars>>

DisconnectPanic ==
  /\ Running /\ disconnecting \in {"waiting", "asked"}
  /\ connection = "dropped"
  /\ Panic("channel_sender_tx")
  /\ UNCHANGED <<sinkVars, queue, handlerVars, outVars, inVars, peerVars>>

-----------------------------------------------------------------------------
(* The message loop of matchbox_socket.                                    *)

LoopRuns == Running /\ looping = "running"
ReceiverClosed == cancelled /\ disconnecting = "over"

\* It passes the packets on in order, and ends when the sender is closed, or
\* gone with both handlers that have it.
LoopSend == /\ LoopRuns
            /\ outgoing # <<>>
            /\ delivered' = Append(delivered, Head(outgoing))
            /\ outgoing' = Tail(outgoing)
            /\ UNCHANGED <<sinkVars, queue, handlerVars, inVars, peerVars, endVars>>

LoopEnd == /\ LoopRuns
           /\ outgoing = <<>>
           /\ cancelled \/ (sending = "over" /\ disconnecting = "over")
           /\ looping' = "over"
           /\ UNCHANGED <<sinkVars, queue, connection, sending, held, disconnecting,
                          cancelled, outVars, inVars, peerVars, endVars>>

LoopFail == /\ LoopRuns
            /\ Fail("failed")
            /\ UNCHANGED <<sinkVars, handlerVars, outVars, inVars, peerVars>>

Arrive == /\ LoopRuns
          /\ arrived < MaxArrivals
          /\ arrived' = arrived + 1
          /\ incoming' = IF ReceiverClosed THEN incoming ELSE incoming + 1
          /\ UNCHANGED <<sinkVars, queue, handlerVars, outVars, receiving, received,
                         peerVars, endVars>>

-----------------------------------------------------------------------------
(* The source: `receive`, each step while main polls it.                   *)

\* The receiver's mutex is fair: a handler that waits for it comes first.
ReceiveLock == /\ panicked = "nothing"
               /\ receiving = "idle" /\ connection = "open"
               /\ ~(Running /\ disconnecting = "locking")
               /\ receiving' = "locked"
               /\ UNCHANGED <<sinkVars, queue, handlerVars, outVars, arrived, incoming,
                              received, peerVars, endVars>>

\* Mutant: what is yielded stays in the channel.
ReceiveYieldAgain == /\ panicked = "nothing"
                     /\ receiving = "locked" /\ incoming > 0
                     /\ incoming' = incoming
                     /\ received' = received + 1
                     /\ receiving' = "idle"
                     /\ UNCHANGED <<sinkVars, queue, handlerVars, outVars, arrived,
                                    peerVars, endVars>>

ReceiveYield == /\ panicked = "nothing"
                /\ receiving = "locked" /\ incoming > 0
                /\ incoming' = incoming - 1
                /\ received' = received + 1
                /\ receiving' = "idle"
                /\ UNCHANGED <<sinkVars, queue, handlerVars, outVars, arrived, peerVars,
                               endVars>>

ReceiveEnd == /\ panicked = "nothing"
              /\ receiving = "locked"
              /\ \/ cancelled
                 \/ incoming = 0 /\ (ReceiverClosed \/ ~LoopRuns)
              /\ receiving' = "over"
              /\ UNCHANGED <<sinkVars, queue, handlerVars, outVars, arrived, incoming,
                             received, peerVars, endVars>>

ReceivePanic == /\ panicked = "nothing"
                /\ receiving = "idle" /\ connection = "dropped"
                /\ Panic("channel_receiver_tx")
                /\ UNCHANGED <<sinkVars, queue, handlerVars, outVars, inVars, peerVars>>

-----------------------------------------------------------------------------
(* The source: `connected_peers`.                                          *)

PeerChange(x) ==
  /\ LoopRuns
  /\ Len(changes) < MaxChanges
  /\ connected' = IF x \in connected THEN connected \ {x} ELSE connected \cup {x}
  /\ changes' = Append(changes, [peer |-> x, up |-> x \notin connected])
  /\ UNCHANGED <<sinkVars, queue, handlerVars, outVars, inVars, listed, endVars>>

\* Mutant: peers that are no longer connected stay in the list.
ListPeersAll(c) ==
  /\ panicked = "nothing" /\ source = "held" /\ connection = "open"
  /\ changes # <<>>
  /\ changes' = Tail(changes)
  /\ listed' = [listed EXCEPT ![c] = @ \cup {Head(changes).peer}]
  /\ UNCHANGED <<sinkVars, queue, handlerVars, outVars, inVars, connected, endVars>>

\* Consumer c has the lock on the socket and takes the next change from it.
ListPeers(c) ==
  /\ panicked = "nothing" /\ source = "held" /\ connection = "open"
  /\ changes # <<>>
  /\ changes' = Tail(changes)
  /\ LET change == Head(changes)
     IN  listed' = [listed EXCEPT ![c] =
           IF change.up THEN @ \cup {change.peer} ELSE @ \ {change.peer}]
  /\ UNCHANGED <<sinkVars, queue, handlerVars, outVars, inVars, connected, endVars>>

ListPanic == /\ Consumers # {}
             /\ panicked = "nothing" /\ source = "held" /\ connection = "dropped"
             /\ Panic("socket_tx")
             /\ UNCHANGED <<sinkVars, queue, handlerVars, outVars, inVars, peerVars>>

-----------------------------------------------------------------------------
(* The environment: the proxy of the sink, and who holds source and driver. *)

\* (Nobody looks at commands any more when the driver is over, and it makes no
\* difference to drop the source of an open connection.)
SendCommand(c) == /\ Running
                  /\ ~closed /\ inbox = <<>>
                  /\ Len(sent) < MaxSent
                  /\ c.op = "Send" => c.packet = Cardinality(Sends(sent)) + 1
                  /\ sent' = Append(sent, c)
                  /\ inbox' = Append(inbox, c)
                  /\ UNCHANGED <<closed, queue, handlerVars, outVars, inVars, peerVars,
                                 endVars>>

CloseSink == /\ Running
             /\ ~closed
             /\ closed' = TRUE
             /\ UNCHANGED <<sent, inbox, queue, handlerVars, outVars, inVars, peerVars,
                            endVars>>

\* main drops the source and the streams of peers, but not `receive`.
DropSource == /\ source = "held" /\ connection = "none"
              /\ source' = "dropped"
              /\ UNCHANGED <<sinkVars, queue, handlerVars, outVars, inVars, peerVars,
                             outcome, panicked>>

\* The aggregate run drops the driver, and with it any oneshot not yet sent.
DropDriver == /\ Running
              /\ Fail("dropped")
              /\ connection' = IF connection = "none" THEN "dropped" ELSE connection
              /\ UNCHANGED <<sinkVars, looping, sending, held, disconnecting, cancelled,
                             outVars, inVars, peerVars>>

-----------------------------------------------------------------------------
DriverStep == \/ \E h \in Handles : Pull(h) \/ Skip(h)
              \/ ConnectFirst \/ ConnectPanic \/ ConnectEnd
              \/ \E p \in Packets : HoldSend(p) \/ SendPacket(p)
              \/ SendFail \/ SendCancelled \/ SendEnd \/ SendPanic
              \/ HoldDisconnect \/ DisconnectSender \/ DisconnectReceiver
              \/ DisconnectEnd \/ DisconnectPanic
              \/ LoopSend \/ LoopEnd

SourceStep == \/ ReceiveLock \/ ReceiveYield \/ ReceiveEnd \/ ReceivePanic
              \/ \E c \in Consumers : ListPeers(c)
              \/ ListPanic

Network == LoopFail \/ Arrive \/ \E x \in Peers : PeerChange(x)

Environment == \/ \E c \in Commands : SendCommand(c)
               \/ CloseSink \/ DropSource \/ DropDriver

Next == DriverStep \/ SourceStep \/ Network \/ Environment

Spec == Init /\ [][Next]_vars

\* The driver is polled whenever it has been woken; the source may never be.
FairSpec == Spec /\ WF_vars(DriverStep)

-----------------------------------------------------------------------------
(* Safety.                                                                 *)

\* Packets are sent in the order of the sink, and none is skipped, whether zip
\* has kept it from before the connection or not (driver.rs:195-219).
SendsInOrder ==
  \E n \in 0..Len(sent) : Lists(delivered \o outgoing, PacketsOf(SubSeq(sent, 1, n)))

\* The driver fails on a closed channel only after a Disconnect.  Apart from
\* being dropped too early, nobody misses the other end of a oneshot channel
\* except for: the handlers when the sink ends without a Connect; and the
\* Connect handler when the source has been dropped, or when the others have
\* seen the end of a sink that has nothing for them (driver.rs:141-181, 239).
FailuresExplained ==
  /\ outcome = "unsent" => Disconnect \in ToSet(sent)
  /\ panicked = "channel_sender_tx" => closed /\ Connect \notin ToSet(sent)
  /\ panicked \in {"channel_receiver_tx", "socket_tx"} =>
       outcome = "dropped" \/ (closed /\ Connect \notin ToSet(sent))
  /\ panicked = "socket_rx" => source = "dropped"
  /\ panicked = "channel_sender_rx" => closed /\ ToSet(sent) = {Connect}

\* A change of a peer goes to one of the streams of connected peers only.  When
\* none waits to be taken, one of them is right about each peer, so that a single
\* one lists exactly the peers that are connected; of several, none need do so
\* (driver.rs:305-370).
SomeoneKnows == changes = <<>> =>
  \A x \in Peers : \E c \in Consumers : x \in listed[c] <=> x \in connected

\* "`channel_sender_tx` dropped without sending" (driver.rs:143) never happens.
SenderNotDropped == panicked # "channel_sender_tx"

-----------------------------------------------------------------------------
(* Liveness.                                                               *)

\* Once connected, the driver catches up with every packet sent, also when the
\* sink ends, unless it disconnects or fails (driver.rs:195-223).
SendsDelivered ==
  connection = "open" ~>
    Lists(delivered, PacketsOf(sent)) \/ cancelled \/ outcome # "running"

\* The driver returns after a Disconnect or the end of its sink, unless a
\* `receive` that is not polled any more holds the mutex, and for no other
\* reason (driver.rs:237-253).
EndsOrLocked ==
  <>[](closed \/ cancelled =>
         ~Running \/ (disconnecting = "locking" /\ receiving = "locked"))
=============================================================================
