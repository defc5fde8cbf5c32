---------------------------- MODULE WebRtcProofs ----------------------------
(***************************************************************************)
(* Proofs about WebRtc, for any peers, any consumers and any bounds.       *)
(*                                                                         *)
(* IInv is inductive.  Beyond the properties it says that the queues of    *)
(* the handles hold nothing but commands of the sink (QueuedInv), that the *)
(* commands of a handler that has not been connected yet are in its queue  *)
(* or in the channel (WaitingInv), what follows for the end of each        *)
(* handler (OverInv), and that the Send handler has passed on the packets  *)
(* of all the commands before the rest of the sink that is ahead of it,    *)
(* except for the last one while zip keeps it (SendingInv).                *)
(***************************************************************************)
EXTENDS WebRtc, SequenceLemmas, SequenceTheorems, FiniteSetTheorems, TLAPS

\* What is in the channel and in a queue comes from the sink.
QueuedInv == /\ ToSet(inbox) \subseteq ToSet(sent)
             /\ \A h \in Handles : ToSet(queue[h]) \subseteq ToSet(sent)

\* Handle h has been given none of the commands that it accepts.
Unseen(h) == \A c \in ToSet(sent) : Accepts(h, c) => c \in ToSet(queue[h]) \cup ToSet(inbox)

\* The sink has ended without a command for h.
Without(h) == closed /\ \A c \in ToSet(sent) : ~Accepts(h, c)

\* Before there is a connection, a handler has what it waits for ahead of it.
WaitingInv ==
  connection = "none" /\ outcome = "running" /\ panicked = "nothing" =>
    /\ looping = "connect" /\ Unseen("connect")
    /\ sending = "running" /\ held = NoPacket => Unseen("send")
    /\ sending = "over" => Without("send")
    /\ disconnecting = "waiting" => Unseen("disconnect")
    /\ disconnecting = "over" => Without("disconnect")
    /\ disconnecting # "locking" /\ ~cancelled

\* Why a handler, and with it what it would have sent, is gone.
OverInv == /\ cancelled \/ disconnecting = "asked" => Disconnect \in ToSet(sent)
           /\ connection = "open" /\ looping = "over" => cancelled \/ sending = "over"
           /\ connection = "dropped" => outcome = "dropped" \/ Without("connect")
           /\ looping = "connect" => connection = "none" \/ outcome = "dropped"

\* What the message loop has been given, and the packets of the first n commands
\* of s.
PassedOn == delivered \o outgoing
PacketsTo(s, n) == [i \in {j \in 1..n : IsSend(s[j])} |-> s[i].packet]

\* The Send handler has the rest of the sink ahead of it, and has passed on all
\* packets before that, or all but the one that zip keeps, which is the last.
SendingInv ==
  sending = "running" /\ outcome = "running" =>
    LET b == Before(sent, queue["send"], inbox)
    IN  /\ Rest(sent, queue["send"], inbox)
        /\ held = NoPacket => Lists(PassedOn, PacketsTo(sent, b))
        /\ held # NoPacket => /\ b # 0 /\ sent[b] = Send(held)
                              /\ Lists(PassedOn, PacketsTo(sent, b - 1))

\* What has been passed on are the packets of a first part of the commands.
PassedInv == \E n \in 0..Len(sent) : Lists(PassedOn, PacketsTo(sent, n))

IInv == /\ TypeOK
        /\ QueuedInv
        /\ WaitingInv
        /\ OverInv
        /\ FailuresExplained
        /\ SendingInv
        /\ PassedInv

-----------------------------------------------------------------------------
(* Typing.                                                                 *)

\* What a handle takes is a command, and what is left are commands.
LEMMA TakeQueue ==
  ASSUME queue \in [Handles -> Seq(Commands)], NEW h \in Handles, NEW c, Take(h, c)
  PROVE  /\ c \in Commands /\ queue' \in [Handles -> Seq(Commands)]
         /\ queue[h] # <<>> /\ c = Head(queue[h]) /\ queue'[h] = Tail(queue[h])
         /\ \A g \in Handles : g # h => queue'[g] = queue[g]
<1>1. queue[h] \in Seq(Commands) /\ queue[h] # <<>>
  BY DEF Take
<1>2. Head(queue[h]) \in Commands /\ Tail(queue[h]) \in Seq(Commands)
  BY <1>1, HeadTailProperties
<1> QED
  BY <1>1, <1>2 DEF Take

\* Queues that have been dropped have no elements.
LEMMA EmptyQueues ==
  ASSUME queue' = [h \in Handles |-> <<>>]
  PROVE  /\ queue' \in [Handles -> Seq(Commands)]
         /\ \A h \in Handles : ToSet(queue'[h]) = {}
BY DEF ToSet

\* Every step keeps the types.
LEMMA TypingStep == TypeOK /\ [Next]_vars => TypeOK'
<1> SUFFICES ASSUME TypeOK, [Next]_vars PROVE TypeOK'
  OBVIOUS
<1> USE DEF TypeOK, sinkVars, handlerVars, outVars, inVars, peerVars, endVars
<1>0. "connect" \in Handles /\ "send" \in Handles /\ "disconnect" \in Handles
  BY DEF Handles
<1>1. ASSUME NEW h \in Handles, Pull(h) PROVE TypeOK'
  <2>1. /\ Head(inbox) \in Commands /\ Tail(inbox) \in Seq(Commands)
        /\ Len(Tail(inbox)) = Len(inbox) - 1
    BY <1>1, HeadTailProperties DEF Pull
  <2> QED
    BY <1>1, <2>1 DEF Pull
<1>2. ASSUME NEW h \in Handles, Skip(h) PROVE TypeOK'
  BY <1>2, TakeQueue DEF Skip
<1>3. ASSUME ConnectFirst PROVE TypeOK'
  <2>1. queue' \in [Handles -> Seq(Commands)]
    BY <1>3, <1>0, TakeQueue DEF ConnectFirst
  <2> QED
    BY <1>3, <2>1 DEF ConnectFirst
<1>4. ASSUME ConnectPanic PROVE TypeOK'
  <2>1. queue' \in [Handles -> Seq(Commands)]
    BY <1>4, <1>0, TakeQueue DEF ConnectPanic
  <2> QED
    BY <1>4, <2>1 DEF ConnectPanic, Panic, Expected
<1>5. ASSUME ConnectEnd PROVE TypeOK'
  BY <1>5 DEF ConnectEnd
<1>6. ASSUME NEW p \in Packets, HoldSend(p) PROVE TypeOK'
  <2>1. queue' \in [Handles -> Seq(Commands)]
    BY <1>6, <1>0, TakeQueue DEF HoldSend
  <2> QED
    BY <1>6, <2>1 DEF HoldSend
<1>7. ASSUME NEW p \in Packets, SendPacket(p) PROVE TypeOK'
  <2>1. queue' \in [Handles -> Seq(Commands)]
    BY <1>7, <1>0, TakeQueue DEF SendPacket, NextSend
  <2>2. outgoing' \in Seq(Packets)
    BY <1>7, AppendProperties DEF SendPacket
  <2> QED
    BY <1>7, <2>1, <2>2 DEF SendPacket
<1>8. ASSUME SendFail PROVE TypeOK'
  <2>1. queue' \in [Handles -> Seq(Commands)]
    BY <1>8, EmptyQueues DEF SendFail, Fail
  <2> QED
    BY <1>8, <2>1 DEF SendFail, Fail
<1>9. ASSUME SendCancelled PROVE TypeOK'
  BY <1>9 DEF SendCancelled
<1>10. ASSUME SendEnd PROVE TypeOK'
  BY <1>10 DEF SendEnd
<1>11. ASSUME SendPanic PROVE TypeOK'
  BY <1>11 DEF SendPanic, Panic, Expected
<1>12. ASSUME HoldDisconnect PROVE TypeOK'
  <2>1. queue' \in [Handles -> Seq(Commands)]
    BY <1>12, <1>0, TakeQueue DEF HoldDisconnect
  <2> QED
    BY <1>12, <2>1 DEF HoldDisconnect
<1>13. ASSUME DisconnectSender PROVE TypeOK'
  <2>1. queue' \in [Handles -> Seq(Commands)]
    BY <1>13, <1>0, TakeQueue DEF DisconnectSender
  <2> QED
    BY <1>13, <2>1 DEF DisconnectSender
<1>14. ASSUME DisconnectReceiver PROVE TypeOK'
  BY <1>14 DEF DisconnectReceiver
<1>15. ASSUME DisconnectEnd PROVE TypeOK'
  BY <1>15 DEF DisconnectEnd
<1>16. ASSUME DisconnectPanic PROVE TypeOK'
  BY <1>16 DEF DisconnectPanic, Panic, Expected
<1>17. ASSUME LoopSend PROVE TypeOK'
  <2>1. Head(outgoing) \in Packets /\ Tail(outgoing) \in Seq(Packets)
    BY <1>17, HeadTailProperties DEF LoopSend
  <2>2. delivered' \in Seq(Packets)
    BY <1>17, <2>1, AppendProperties DEF LoopSend
  <2> QED
    BY <1>17, <2>1, <2>2 DEF LoopSend
<1>18. ASSUME LoopEnd PROVE TypeOK'
  BY <1>18 DEF LoopEnd
<1>19. ASSUME LoopFail PROVE TypeOK'
  <2>1. queue' \in [Handles -> Seq(Commands)]
    BY <1>19, EmptyQueues DEF LoopFail, Fail
  <2> QED
    BY <1>19, <2>1 DEF LoopFail, Fail
<1>20. ASSUME Arrive PROVE TypeOK'
  BY <1>20 DEF Arrive
<1>21. ASSUME ReceiveLock PROVE TypeOK'
  BY <1>21 DEF ReceiveLock
<1>22. ASSUME ReceiveYield PROVE TypeOK'
  BY <1>22 DEF ReceiveYield
<1>23. ASSUME ReceiveEnd PROVE TypeOK'
  BY <1>23 DEF ReceiveEnd
<1>24. ASSUME ReceivePanic PROVE TypeOK'
  BY <1>24 DEF ReceivePanic, Panic, Expected
<1>25. ASSUME NEW x \in Peers, PeerChange(x) PROVE TypeOK'
  <2>1. changes' \in Seq([peer : Peers, up : BOOLEAN])
    BY <1>25, AppendProperties DEF PeerChange
  <2>2. connected' \subseteq Peers
    BY <1>25 DEF PeerChange
  <2>3. UNCHANGED <<sinkVars, queue, handlerVars, outVars, inVars, listed, endVars>>
    BY <1>25 DEF PeerChange
  <2> QED
    BY <2>1, <2>2, <2>3
<1>26. ASSUME NEW c \in Consumers, ListPeers(c) PROVE TypeOK'
  <2>1. Head(changes).peer \in Peers /\ Tail(changes) \in Seq([peer : Peers, up : BOOLEAN])
    <3>1. changes \in Seq([peer : Peers, up : BOOLEAN]) /\ changes # <<>>
      BY <1>26 DEF ListPeers
    <3>2. /\ Head(changes) \in [peer : Peers, up : BOOLEAN]
          /\ Tail(changes) \in Seq([peer : Peers, up : BOOLEAN])
      <4> HIDE DEF TypeOK
      <4> QED
        BY <3>1, HeadTailProperties
    <3> QED
      BY <3>2
  <2>3. listed' \in [Consumers -> SUBSET Peers]
    <3>1. listed[c] \subseteq Peers
      OBVIOUS
    <3>2. PICK ps \in SUBSET Peers : listed' = [listed EXCEPT ![c] = ps]
      BY <1>26, <2>1, <3>1 DEF ListPeers
    <3> QED
      BY <3>2
  <2>4. /\ changes' = Tail(changes)
        /\ UNCHANGED <<sinkVars, queue, handlerVars, outVars, inVars, connected, endVars>>
    BY <1>26 DEF ListPeers
  <2> QED
    BY <2>1, <2>3, <2>4
<1>27. ASSUME ListPanic PROVE TypeOK'
  BY <1>27 DEF ListPanic, Panic, Expected
<1>28. ASSUME NEW c \in Commands, SendCommand(c) PROVE TypeOK'
  <2>1. /\ sent' \in Seq(Commands) /\ inbox' \in Seq(Commands)
        /\ Len(inbox') = Len(inbox) + 1 /\ inbox = <<>>
    BY <1>28, AppendProperties DEF SendCommand
  <2>2. Len(inbox') <= 1
    BY <2>1
  <2> QED
    BY <1>28, <2>1, <2>2 DEF SendCommand
<1>29. ASSUME CloseSink PROVE TypeOK'
  BY <1>29 DEF CloseSink
<1>30. ASSUME DropSource PROVE TypeOK'
  BY <1>30 DEF DropSource
<1>31. ASSUME DropDriver PROVE TypeOK'
  <2>1. queue' \in [Handles -> Seq(Commands)]
    BY <1>31, EmptyQueues DEF DropDriver, Fail
  <2> QED
    BY <1>31, <2>1 DEF DropDriver, Fail
<1>32. CASE UNCHANGED vars
  BY <1>32 DEF vars
<1> HIDE DEF TypeOK, sinkVars, handlerVars, outVars, inVars, peerVars, endVars
<1> QED
  BY <1>1, <1>2, <1>3, <1>4, <1>5, <1>6, <1>7, <1>8, <1>9, <1>10, <1>11, <1>12, <1>13,
     <1>14, <1>15, <1>16, <1>17, <1>18, <1>19, <1>20, <1>21, <1>22, <1>23, <1>24, <1>25,
     <1>26, <1>27, <1>28, <1>29, <1>30, <1>31, <1>32
  DEF Next, DriverStep, SourceStep, Network, Environment

-----------------------------------------------------------------------------
(* The commands.                                                           *)

\* What is taken from a queue leaves the other commands in it.
LEMMA TakeSet ==
  ASSUME queue \in [Handles -> Seq(Commands)], NEW h \in Handles, NEW c, Take(h, c)
  PROVE  /\ ToSet(queue[h]) = ToSet(queue'[h]) \cup {c}
         /\ \A g \in Handles : g # h => queue'[g] = queue[g]
         /\ \A g \in Handles : ToSet(queue'[g]) \subseteq ToSet(queue[g])
<1>1. /\ queue[h] \in Seq(Commands) /\ queue[h] # <<>>
      /\ c = Head(queue[h]) /\ queue'[h] = Tail(queue[h])
      /\ \A g \in Handles : g # h => queue'[g] = queue[g]
  BY TakeQueue
<1>2. ToSet(queue[h]) = ToSet(queue'[h]) \cup {c}
  BY <1>1, ToSetTail
<1> QED
  BY <1>1, <1>2

\* Every step keeps the commands together.
LEMMA QueuedStep == TypeOK /\ QueuedInv /\ [Next]_vars => QueuedInv'
<1> SUFFICES ASSUME TypeOK, QueuedInv, [Next]_vars PROVE QueuedInv'
  OBVIOUS
<1> USE DEF QueuedInv, sinkVars, handlerVars, outVars, inVars, peerVars, endVars
<1>0. /\ sent \in Seq(Commands) /\ inbox \in Seq(Commands)
      /\ queue \in [Handles -> Seq(Commands)]
      /\ \A h \in Handles : queue[h] \in Seq(Commands)
      /\ "connect" \in Handles /\ "send" \in Handles /\ "disconnect" \in Handles
  BY DEF TypeOK, Handles
<1>1. ASSUME NEW h \in Handles, Pull(h) PROVE QueuedInv'
  <2>1. inbox # <<>> /\ inbox' = Tail(inbox) /\ UNCHANGED sent
    BY <1>1 DEF Pull
  <2>2. ToSet(inbox) = ToSet(inbox') \cup {Head(inbox)} /\ Head(inbox) \in Commands
    BY <1>0, <2>1, ToSetTail, HeadTailProperties
  <2>3. ASSUME NEW g \in Handles PROVE ToSet(queue'[g]) \subseteq ToSet(queue[g]) \cup {Head(inbox)}
    <3>1. queue'[g] = queue[g] \/ queue'[g] = Append(queue[g], Head(inbox))
      BY <1>1 DEF Pull
    <3>2. ToSet(Append(queue[g], Head(inbox))) = ToSet(queue[g]) \cup {Head(inbox)}
      BY <1>0, <2>2, ToSetAppend
    <3> QED
      BY <3>1, <3>2
  <2> QED
    BY <2>1, <2>2, <2>3
<1>2. ASSUME NEW h \in Handles, Skip(h) PROVE QueuedInv'
  <2>1. UNCHANGED <<sent, inbox>>
    BY <1>2 DEF Skip
  <2>2. \A g \in Handles : ToSet(queue'[g]) \subseteq ToSet(queue[g])
    BY <1>2, <1>0, TakeSet DEF Skip
  <2> QED
    BY <2>1, <2>2
<1>3. ASSUME ConnectFirst PROVE QueuedInv'
  <2>1. UNCHANGED <<sent, inbox>>
    BY <1>3 DEF ConnectFirst
  <2>2. \A h \in Handles : ToSet(queue'[h]) \subseteq ToSet(queue[h])
    BY <1>3, <1>0, TakeSet DEF ConnectFirst
  <2> QED
    BY <2>1, <2>2
<1>4. ASSUME ConnectPanic PROVE QueuedInv'
  <2>1. UNCHANGED <<sent, inbox>>
    BY <1>4 DEF ConnectPanic
  <2>2. \A h \in Handles : ToSet(queue'[h]) \subseteq ToSet(queue[h])
    BY <1>4, <1>0, TakeSet DEF ConnectPanic
  <2> QED
    BY <2>1, <2>2
<1>5. ASSUME ConnectEnd PROVE QueuedInv'
  BY <1>5 DEF ConnectEnd
<1>6. ASSUME NEW p \in Packets, HoldSend(p) PROVE QueuedInv'
  <2>1. UNCHANGED <<sent, inbox>>
    BY <1>6 DEF HoldSend
  <2>2. \A h \in Handles : ToSet(queue'[h]) \subseteq ToSet(queue[h])
    BY <1>6, <1>0, TakeSet DEF HoldSend
  <2> QED
    BY <2>1, <2>2
<1>7. ASSUME NEW p \in Packets, SendPacket(p) PROVE QueuedInv'
  <2>1. UNCHANGED <<sent, inbox>>
    BY <1>7 DEF SendPacket, NextSend
  <2>2. \A h \in Handles : ToSet(queue'[h]) \subseteq ToSet(queue[h])
    BY <1>7, <1>0, TakeSet DEF SendPacket, NextSend
  <2> QED
    BY <2>1, <2>2
<1>8. ASSUME SendFail PROVE QueuedInv'
  <2>1. UNCHANGED <<sent, inbox>>
    BY <1>8 DEF SendFail
  <2>2. \A h \in Handles : ToSet(queue'[h]) = {}
    BY <1>8, EmptyQueues DEF SendFail, Fail
  <2> QED
    BY <2>1, <2>2
<1>9. ASSUME SendCancelled PROVE QueuedInv'
  BY <1>9 DEF SendCancelled
<1>10. ASSUME SendEnd PROVE QueuedInv'
  BY <1>10 DEF SendEnd
<1>11. ASSUME SendPanic PROVE QueuedInv'
  BY <1>11 DEF SendPanic, Panic
<1>12. ASSUME HoldDisconnect PROVE QueuedInv'
  <2>1. UNCHANGED <<sent, inbox>>
    BY <1>12 DEF HoldDisconnect
  <2>2. \A h \in Handles : ToSet(queue'[h]) \subseteq ToSet(queue[h])
    BY <1>12, <1>0, TakeSet DEF HoldDisconnect
  <2> QED
    BY <2>1, <2>2
<1>13. ASSUME DisconnectSender PROVE QueuedInv'
  <2>1. UNCHANGED <<sent, inbox>>
    BY <1>13 DEF DisconnectSender
  <2>2. \A h \in Handles : ToSet(queue'[h]) \subseteq ToSet(queue[h])
    BY <1>13, <1>0, TakeSet DEF DisconnectSender
  <2> QED
    BY <2>1, <2>2
<1>14. ASSUME DisconnectReceiver PROVE QueuedInv'
  BY <1>14 DEF DisconnectReceiver
<1>15. ASSUME DisconnectEnd PROVE QueuedInv'
  BY <1>15 DEF DisconnectEnd
<1>16. ASSUME DisconnectPanic PROVE QueuedInv'
  BY <1>16 DEF DisconnectPanic, Panic
<1>17. ASSUME LoopSend PROVE QueuedInv'
  BY <1>17 DEF LoopSend
<1>18. ASSUME LoopEnd PROVE QueuedInv'
  BY <1>18 DEF LoopEnd
<1>19. ASSUME LoopFail PROVE QueuedInv'
  <2>1. UNCHANGED <<sent, inbox>>
    BY <1>19 DEF LoopFail
  <2>2. \A h \in Handles : ToSet(queue'[h]) = {}
    BY <1>19, EmptyQueues DEF LoopFail, Fail
  <2> QED
    BY <2>1, <2>2
<1>20. ASSUME Arrive PROVE QueuedInv'
  BY <1>20 DEF Arrive
<1>21. ASSUME ReceiveLock PROVE QueuedInv'
  BY <1>21 DEF ReceiveLock
<1>22. ASSUME ReceiveYield PROVE QueuedInv'
  BY <1>22 DEF ReceiveYield
<1>23. ASSUME ReceiveEnd PROVE QueuedInv'
  BY <1>23 DEF ReceiveEnd
<1>24. ASSUME ReceivePanic PROVE QueuedInv'
  BY <1>24 DEF ReceivePanic
<1>25. ASSUME NEW x \in Peers, PeerChange(x) PROVE QueuedInv'
  BY <1>25 DEF PeerChange
<1>26. ASSUME NEW c \in Consumers, ListPeers(c) PROVE QueuedInv'
  BY <1>26 DEF ListPeers
<1>27. ASSUME ListPanic PROVE QueuedInv'
  BY <1>27 DEF ListPanic
<1>28. ASSUME NEW c \in Commands, SendCommand(c) PROVE QueuedInv'
  <2>1. inbox = <<>> /\ inbox' = Append(inbox, c) /\ sent' = Append(sent, c) /\ UNCHANGED queue
    BY <1>28 DEF SendCommand
  <2>2. ToSet(inbox') = ToSet(inbox) \cup {c} /\ ToSet(sent') = ToSet(sent) \cup {c}
    <3>1. /\ ToSet(Append(inbox, c)) = ToSet(inbox) \cup {c}
          /\ ToSet(Append(sent, c)) = ToSet(sent) \cup {c}
      BY <1>0, ToSetAppend
    <3> QED
      BY <2>1, <3>1
  <2> QED
    BY <2>1, <2>2
<1>29. ASSUME CloseSink PROVE QueuedInv'
  BY <1>29 DEF CloseSink
<1>30. ASSUME DropSource PROVE QueuedInv'
  BY <1>30 DEF DropSource
<1>31. ASSUME DropDriver PROVE QueuedInv'
  <2>1. UNCHANGED <<sent, inbox>>
    BY <1>31 DEF DropDriver
  <2>2. \A h \in Handles : ToSet(queue'[h]) = {}
    BY <1>31, EmptyQueues DEF DropDriver, Fail
  <2> QED
    BY <2>1, <2>2
<1>32. CASE UNCHANGED vars
  BY <1>32 DEF vars
<1> HIDE DEF QueuedInv, sinkVars, handlerVars, outVars, inVars, peerVars, endVars
<1> QED
  BY <1>1, <1>2, <1>3, <1>4, <1>5, <1>6, <1>7, <1>8, <1>9, <1>10, <1>11, <1>12, <1>13,
     <1>14, <1>15, <1>16, <1>17, <1>18, <1>19, <1>20, <1>21, <1>22, <1>23, <1>24, <1>25,
     <1>26, <1>27, <1>28, <1>29, <1>30, <1>31, <1>32
  DEF Next, DriverStep, SourceStep, Network, Environment

-----------------------------------------------------------------------------
(* Before there is a connection.                                           *)

\* What the filters of the handlers let through.
LEMMA AcceptsFacts ==
  \A c : /\ Accepts("connect", c) <=> c = Connect
         /\ Accepts("send", c) <=> c.op = "Send"
         /\ Accepts("disconnect", c) <=> c = Disconnect
BY DEF Accepts

\* A handle whose queue and channel are empty, at the end of the sink, has been
\* given all there is.
LEMMA EndsWithout ==
  ASSUME NEW h \in Handles, Finished(h), Unseen(h)
  PROVE  Without(h)
BY DEF Finished, Unseen, Without, ToSet

\* A command that a handler waits for does not pass it by.
LEMMA WaitingStep == TypeOK /\ WaitingInv /\ [Next]_vars => WaitingInv'
<1> SUFFICES ASSUME TypeOK, WaitingInv, [Next]_vars PROVE WaitingInv'
  OBVIOUS
<1> USE DEF WaitingInv, sinkVars, handlerVars, outVars, inVars, peerVars, endVars
<1>0. /\ sent \in Seq(Commands) /\ inbox \in Seq(Commands)
      /\ queue \in [Handles -> Seq(Commands)]
      /\ \A h \in Handles : queue[h] \in Seq(Commands)
      /\ "connect" \in Handles /\ "send" \in Handles /\ "disconnect" \in Handles
  BY DEF TypeOK, Handles
<1>1. ASSUME NEW h \in Handles, Pull(h) PROVE WaitingInv'
  <2> SUFFICES ASSUME connection = "none", outcome = "running", panicked = "nothing"
               PROVE  WaitingInv'
    BY <1>1 DEF Pull
  <2>1. inbox # <<>> /\ inbox' = Tail(inbox)
        /\ UNCHANGED <<sent, closed, connection, looping, sending, held, disconnecting,
                       cancelled, outcome, panicked>>
    BY <1>1 DEF Pull
  <2>2. ToSet(inbox) = ToSet(inbox') \cup {Head(inbox)} /\ Head(inbox) \in Commands
    BY <1>0, <2>1, ToSetTail, HeadTailProperties
  <2>3. ASSUME NEW g \in Handles, Live(g), Unseen(g) PROVE Unseen(g)'
    <3>1. queue'[g] = Append(queue[g], Head(inbox))
      BY <1>1, <2>3 DEF Pull
    <3>2. ToSet(Append(queue[g], Head(inbox))) = ToSet(queue[g]) \cup {Head(inbox)}
      BY <1>0, <2>2, ToSetAppend
    <3> QED
      BY <2>1, <2>2, <2>3, <3>1, <3>2 DEF Unseen
  <2>4. /\ looping = "connect" => Live("connect")
        /\ sending = "running" => Live("send")
        /\ disconnecting = "waiting" => Live("disconnect")
    BY DEF Live
  <2> QED
    BY <1>0, <2>1, <2>3, <2>4 DEF Without
<1>2. ASSUME NEW h \in Handles, Skip(h) PROVE WaitingInv'
  <2>1. PICK c \in Commands : Take(h, c) /\ ~Accepts(h, c)
    BY <1>2 DEF Skip
  <2>2. /\ ToSet(queue[h]) = ToSet(queue'[h]) \cup {c}
        /\ \A g \in Handles : g # h => queue'[g] = queue[g]
    BY <1>0, <2>1, TakeSet
  <2>3. UNCHANGED <<sinkVars, handlerVars, outcome, panicked>>
    BY <1>2 DEF Skip
  <2>4. ASSUME NEW g \in Handles, Unseen(g) PROVE Unseen(g)'
    BY <2>1, <2>2, <2>3, <2>4 DEF Unseen
  <2> QED
    BY <1>0, <2>3, <2>4 DEF Without
<1>3. ASSUME ConnectFirst PROVE WaitingInv'
  BY <1>3 DEF ConnectFirst, Unseen, Without
<1>4. ASSUME ConnectPanic PROVE WaitingInv'
  BY <1>4 DEF ConnectPanic, Panic
<1>5. ASSUME ConnectEnd PROVE WaitingInv'
  BY <1>5 DEF ConnectEnd, Unseen, Without
<1>6. ASSUME NEW p \in Packets, HoldSend(p) PROVE WaitingInv'
  <2>1. \A h \in Handles : h # "send" => queue'[h] = queue[h]
    BY <1>6, <1>0, TakeSet DEF HoldSend
  <2>2. held' # NoPacket
    BY <1>6, BoundsAssumption DEF HoldSend, Packets, NoPacket
  <2> QED
    BY <1>6, <1>0, <2>1, <2>2 DEF HoldSend, Unseen, Without
<1>7. ASSUME NEW p \in Packets, SendPacket(p) PROVE WaitingInv'
  BY <1>7 DEF SendPacket, Unseen, Without
<1>8. ASSUME SendFail PROVE WaitingInv'
  BY <1>8 DEF SendFail, Fail
<1>9. ASSUME SendCancelled PROVE WaitingInv'
  BY <1>9 DEF SendCancelled, Unseen, Without
<1>10. ASSUME SendEnd PROVE WaitingInv'
  <2>1. Finished("send") /\ held = NoPacket /\ sending = "running"
    BY <1>10 DEF SendEnd, Polls
  <2>2. Unseen("send") => Without("send")
    BY <1>0, <2>1, EndsWithout
  <2> QED
    BY <1>10, <2>1, <2>2 DEF SendEnd, Unseen, Without
<1>11. ASSUME SendPanic PROVE WaitingInv'
  BY <1>11 DEF SendPanic, Panic
<1>12. ASSUME HoldDisconnect PROVE WaitingInv'
  <2>1. \A h \in Handles : h # "disconnect" => queue'[h] = queue[h]
    BY <1>12, <1>0, TakeSet DEF HoldDisconnect
  <2> QED
    BY <1>12, <1>0, <2>1 DEF HoldDisconnect, Unseen, Without
<1>13. ASSUME DisconnectSender PROVE WaitingInv'
  BY <1>13 DEF DisconnectSender, Unseen, Without
<1>14. ASSUME DisconnectReceiver PROVE WaitingInv'
  BY <1>14 DEF DisconnectReceiver, Unseen, Without
<1>15. ASSUME DisconnectEnd PROVE WaitingInv'
  <2>1. Finished("disconnect") /\ disconnecting = "waiting"
    BY <1>15 DEF DisconnectEnd, Polls
  <2>2. Unseen("disconnect") => Without("disconnect")
    BY <1>0, <2>1, EndsWithout
  <2> QED
    BY <1>15, <2>1, <2>2 DEF DisconnectEnd, Unseen, Without
<1>16. ASSUME DisconnectPanic PROVE WaitingInv'
  BY <1>16 DEF DisconnectPanic, Panic
<1>17. ASSUME LoopSend PROVE WaitingInv'
  BY <1>17 DEF LoopSend, Unseen, Without
<1>18. ASSUME LoopEnd PROVE WaitingInv'
  BY <1>18 DEF LoopEnd, LoopRuns, Unseen, Without
<1>19. ASSUME LoopFail PROVE WaitingInv'
  BY <1>19 DEF LoopFail, Fail
<1>20. ASSUME Arrive PROVE WaitingInv'
  BY <1>20 DEF Arrive, Unseen, Without
<1>21. ASSUME ReceiveLock PROVE WaitingInv'
  BY <1>21 DEF ReceiveLock, Unseen, Without
<1>22. ASSUME ReceiveYield PROVE WaitingInv'
  BY <1>22 DEF ReceiveYield, Unseen, Without
<1>23. ASSUME ReceiveEnd PROVE WaitingInv'
  BY <1>23 DEF ReceiveEnd, Unseen, Without
<1>24. ASSUME ReceivePanic PROVE WaitingInv'
  BY <1>24 DEF ReceivePanic, Panic
<1>25. ASSUME NEW x \in Peers, PeerChange(x) PROVE WaitingInv'
  BY <1>25 DEF PeerChange, Unseen, Without
<1>26. ASSUME NEW c \in Consumers, ListPeers(c) PROVE WaitingInv'
  BY <1>26 DEF ListPeers, Unseen, Without
<1>27. ASSUME ListPanic PROVE WaitingInv'
  BY <1>27 DEF ListPanic, Panic
<1>28. ASSUME NEW c \in Commands, SendCommand(c) PROVE WaitingInv'
  <2>1. inbox = <<>> /\ inbox' = Append(inbox, c) /\ sent' = Append(sent, c) /\ ~closed
        /\ UNCHANGED <<queue, connection, looping, sending, held, disconnecting, cancelled,
                       outcome, panicked>>
    BY <1>28 DEF SendCommand
  <2>2. ToSet(inbox') = ToSet(inbox) \cup {c} /\ ToSet(sent') = ToSet(sent) \cup {c}
    <3>1. /\ ToSet(Append(inbox, c)) = ToSet(inbox) \cup {c}
          /\ ToSet(Append(sent, c)) = ToSet(sent) \cup {c}
      BY <1>0, ToSetAppend
    <3> QED
      BY <2>1, <3>1
  <2>3. ASSUME NEW h \in Handles, Unseen(h) PROVE Unseen(h)'
    BY <2>1, <2>2, <2>3 DEF Unseen
  <2> QED
    BY <1>0, <2>1, <2>3 DEF Without
<1>29. ASSUME CloseSink PROVE WaitingInv'
  BY <1>29 DEF CloseSink, Unseen, Without
<1>30. ASSUME DropSource PROVE WaitingInv'
  BY <1>30 DEF DropSource, Unseen, Without
<1>31. ASSUME DropDriver PROVE WaitingInv'
  BY <1>31 DEF DropDriver, Fail
<1>32. CASE UNCHANGED vars
  BY <1>32 DEF vars, Unseen, Without
<1> HIDE DEF WaitingInv, sinkVars, handlerVars, outVars, inVars, peerVars, endVars
<1> QED
  BY <1>1, <1>2, <1>3, <1>4, <1>5, <1>6, <1>7, <1>8, <1>9, <1>10, <1>11, <1>12, <1>13,
     <1>14, <1>15, <1>16, <1>17, <1>18, <1>19, <1>20, <1>21, <1>22, <1>23, <1>24, <1>25,
     <1>26, <1>27, <1>28, <1>29, <1>30, <1>31, <1>32
  DEF Next, DriverStep, SourceStep, Network, Environment

-----------------------------------------------------------------------------
(* What comes of the end of a handler.                                     *)

\* Every step keeps what is known of a handler that is over.
LEMMA OverStep == TypeOK /\ QueuedInv /\ WaitingInv /\ OverInv /\ [Next]_vars => OverInv'
<1> SUFFICES ASSUME TypeOK, QueuedInv, WaitingInv, OverInv, [Next]_vars PROVE OverInv'
  OBVIOUS
<1> USE DEF OverInv, sinkVars, handlerVars, outVars, inVars, peerVars, endVars
<1>0. /\ sent \in Seq(Commands) /\ inbox \in Seq(Commands)
      /\ queue \in [Handles -> Seq(Commands)]
      /\ \A h \in Handles : queue[h] \in Seq(Commands)
      /\ "connect" \in Handles /\ "send" \in Handles /\ "disconnect" \in Handles
  BY DEF TypeOK, Handles
<1>1. ASSUME NEW h \in Handles, Pull(h) PROVE OverInv'
  BY <1>1 DEF Pull, Without
<1>2. ASSUME NEW h \in Handles, Skip(h) PROVE OverInv'
  BY <1>2 DEF Skip, Without
<1>3. ASSUME ConnectFirst PROVE OverInv'
  BY <1>3 DEF ConnectFirst, Without
<1>4. ASSUME ConnectPanic PROVE OverInv'
  BY <1>4 DEF ConnectPanic, Panic, Without
<1>5. ASSUME ConnectEnd PROVE OverInv'
  <2>1. Finished("connect") /\ looping = "connect" /\ outcome = "running" /\ panicked = "nothing"
    BY <1>5 DEF ConnectEnd, Polls, Running
  <2>2. Without("connect")
    BY <1>0, <2>1, EndsWithout DEF WaitingInv
  <2> QED
    BY <1>5, <2>2 DEF ConnectEnd, Without
<1>6. ASSUME NEW p \in Packets, HoldSend(p) PROVE OverInv'
  BY <1>6 DEF HoldSend, Without
<1>7. ASSUME NEW p \in Packets, SendPacket(p) PROVE OverInv'
  BY <1>7 DEF SendPacket, Without
<1>8. ASSUME SendFail PROVE OverInv'
  BY <1>8 DEF SendFail, Fail, Running, Without
<1>9. ASSUME SendCancelled PROVE OverInv'
  BY <1>9 DEF SendCancelled, Without
<1>10. ASSUME SendEnd PROVE OverInv'
  BY <1>10 DEF SendEnd, Without
<1>11. ASSUME SendPanic PROVE OverInv'
  BY <1>11 DEF SendPanic, Panic, Without
<1>12. ASSUME HoldDisconnect PROVE OverInv'
  <2>1. Disconnect \in ToSet(sent)
    <3>1. disconnecting = "asked" \/ Disconnect \in ToSet(queue["disconnect"])
      BY <1>12, <1>0, TakeSet DEF HoldDisconnect
    <3> QED
      BY <1>0, <3>1 DEF QueuedInv
  <2> QED
    BY <1>12, <2>1 DEF HoldDisconnect, Without
<1>13. ASSUME DisconnectSender PROVE OverInv'
  <2>1. Disconnect \in ToSet(sent)
    <3>1. disconnecting = "asked" \/ Disconnect \in ToSet(queue["disconnect"])
      BY <1>13, <1>0, TakeSet DEF DisconnectSender
    <3> QED
      BY <1>0, <3>1 DEF QueuedInv
  <2> QED
    BY <1>13, <2>1 DEF DisconnectSender, Without
<1>14. ASSUME DisconnectReceiver PROVE OverInv'
  BY <1>14 DEF DisconnectReceiver, Without
<1>15. ASSUME DisconnectEnd PROVE OverInv'
  BY <1>15 DEF DisconnectEnd, Without
<1>16. ASSUME DisconnectPanic PROVE OverInv'
  BY <1>16 DEF DisconnectPanic, Panic, Without
<1>17. ASSUME LoopSend PROVE OverInv'
  BY <1>17 DEF LoopSend, Without
<1>18. ASSUME LoopEnd PROVE OverInv'
  BY <1>18 DEF LoopEnd, Without
<1>19. ASSUME LoopFail PROVE OverInv'
  BY <1>19 DEF LoopFail, Fail, LoopRuns, Running, Without
<1>20. ASSUME Arrive PROVE OverInv'
  BY <1>20 DEF Arrive, Without
<1>21. ASSUME ReceiveLock PROVE OverInv'
  BY <1>21 DEF ReceiveLock, Without
<1>22. ASSUME ReceiveYield PROVE OverInv'
  BY <1>22 DEF ReceiveYield, Without
<1>23. ASSUME ReceiveEnd PROVE OverInv'
  BY <1>23 DEF ReceiveEnd, Without
<1>24. ASSUME ReceivePanic PROVE OverInv'
  BY <1>24 DEF ReceivePanic, Panic, Without
<1>25. ASSUME NEW x \in Peers, PeerChange(x) PROVE OverInv'
  BY <1>25 DEF PeerChange, Without
<1>26. ASSUME NEW c \in Consumers, ListPeers(c) PROVE OverInv'
  BY <1>26 DEF ListPeers, Without
<1>27. ASSUME ListPanic PROVE OverInv'
  BY <1>27 DEF ListPanic, Panic, Without
<1>28. ASSUME NEW c \in Commands, SendCommand(c) PROVE OverInv'
  <2>1. ~closed /\ sent' = Append(sent, c)
        /\ UNCHANGED <<connection, looping, sending, disconnecting, cancelled, outcome>>
    BY <1>28 DEF SendCommand
  <2>2. ToSet(sent) \subseteq ToSet(sent')
    BY <1>0, <2>1, ToSetAppend
  <2> QED
    BY <2>1, <2>2 DEF Without
<1>29. ASSUME CloseSink PROVE OverInv'
  BY <1>29 DEF CloseSink, Without
<1>30. ASSUME DropSource PROVE OverInv'
  BY <1>30 DEF DropSource, Without
<1>31. ASSUME DropDriver PROVE OverInv'
  BY <1>31 DEF DropDriver, Fail, Running, Without
<1>32. CASE UNCHANGED vars
  BY <1>32 DEF vars, Without
<1> HIDE DEF OverInv, sinkVars, handlerVars, outVars, inVars, peerVars, endVars
<1> QED
  BY <1>1, <1>2, <1>3, <1>4, <1>5, <1>6, <1>7, <1>8, <1>9, <1>10, <1>11, <1>12, <1>13,
     <1>14, <1>15, <1>16, <1>17, <1>18, <1>19, <1>20, <1>21, <1>22, <1>23, <1>24, <1>25,
     <1>26, <1>27, <1>28, <1>29, <1>30, <1>31, <1>32
  DEF Next, DriverStep, SourceStep, Network, Environment

\* A driver that fails or panics does so for one of the reasons.
LEMMA FailuresStep ==
  TypeOK /\ QueuedInv /\ WaitingInv /\ OverInv /\ FailuresExplained
    /\ [Next]_vars => FailuresExplained'
<1> SUFFICES ASSUME TypeOK, QueuedInv, WaitingInv, OverInv, FailuresExplained, [Next]_vars
             PROVE FailuresExplained'
  OBVIOUS
<1> USE DEF FailuresExplained, sinkVars, handlerVars, outVars, inVars, peerVars, endVars
<1>0. /\ sent \in Seq(Commands) /\ inbox \in Seq(Commands)
      /\ queue \in [Handles -> Seq(Commands)]
      /\ \A h \in Handles : queue[h] \in Seq(Commands)
      /\ "connect" \in Handles /\ "send" \in Handles /\ "disconnect" \in Handles
  BY DEF TypeOK, Handles
<1>1. ASSUME NEW h \in Handles, Pull(h) PROVE FailuresExplained'
  BY <1>1 DEF Pull
<1>2. ASSUME NEW h \in Handles, Skip(h) PROVE FailuresExplained'
  BY <1>2 DEF Skip
<1>3. ASSUME ConnectFirst PROVE FailuresExplained'
  BY <1>3 DEF ConnectFirst
<1>4. ASSUME ConnectPanic PROVE FailuresExplained'
  <2>1. /\ Connect \in ToSet(sent) /\ looping = "connect"
        /\ outcome = "running" /\ panicked = "nothing" /\ connection = "none"
    <3>1. Take("connect", Connect)
      BY <1>4 DEF ConnectPanic
    <3>2. Connect \in ToSet(queue["connect"])
      BY <1>0, <3>1, TakeSet
    <3> QED
      BY <1>0, <3>1, <3>2 DEF Take, Polls, Running, QueuedInv, OverInv
  <2>2. ASSUME sending = "over", disconnecting = "over"
        PROVE  closed /\ ToSet(sent) = {Connect}
    <3>1. closed /\ \A c \in ToSet(sent) : ~Accepts("send", c) /\ ~Accepts("disconnect", c)
      BY <2>1, <2>2 DEF WaitingInv, Without
    <3>2. \A c \in ToSet(sent) : c \in Commands
      BY <1>0, ElementsTyped
    <3>3. \A c \in Commands : c = Connect \/ Accepts("send", c) \/ Accepts("disconnect", c)
      BY AcceptsFacts DEF Commands, Send
    <3> QED
      BY <2>1, <3>1, <3>2, <3>3
  <2>3. UNCHANGED <<sent, closed, source, outcome>>
    BY <1>4 DEF ConnectPanic, Panic
  <2>4. \/ source = "dropped" /\ panicked' = "socket_rx"
        \/ sending = "over" /\ disconnecting = "over" /\ panicked' = "channel_sender_rx"
    BY <1>4 DEF ConnectPanic, Panic
  <2> QED
    BY <2>1, <2>2, <2>3, <2>4
<1>5. ASSUME ConnectEnd PROVE FailuresExplained'
  BY <1>5 DEF ConnectEnd
<1>6. ASSUME NEW p \in Packets, HoldSend(p) PROVE FailuresExplained'
  BY <1>6 DEF HoldSend
<1>7. ASSUME NEW p \in Packets, SendPacket(p) PROVE FailuresExplained'
  BY <1>7 DEF SendPacket
<1>8. ASSUME SendFail PROVE FailuresExplained'
  <2>1. Disconnect \in ToSet(sent)
    BY <1>8 DEF SendFail, SenderClosed, OverInv
  <2> QED
    BY <1>8, <2>1 DEF SendFail, Fail, Running
<1>9. ASSUME SendCancelled PROVE FailuresExplained'
  BY <1>9 DEF SendCancelled
<1>10. ASSUME SendEnd PROVE FailuresExplained'
  BY <1>10 DEF SendEnd
<1>11. ASSUME SendPanic PROVE FailuresExplained'
  <2>1. Without("connect")
    BY <1>11 DEF SendPanic, Running, OverInv
  <2> QED
    BY <1>11, <2>1, AcceptsFacts DEF SendPanic, Panic, Running, Without
<1>12. ASSUME HoldDisconnect PROVE FailuresExplained'
  BY <1>12 DEF HoldDisconnect
<1>13. ASSUME DisconnectSender PROVE FailuresExplained'
  BY <1>13 DEF DisconnectSender
<1>14. ASSUME DisconnectReceiver PROVE FailuresExplained'
  BY <1>14 DEF DisconnectReceiver
<1>15. ASSUME DisconnectEnd PROVE FailuresExplained'
  BY <1>15 DEF DisconnectEnd
<1>16. ASSUME DisconnectPanic PROVE FailuresExplained'
  <2>1. Without("connect")
    BY <1>16 DEF DisconnectPanic, Running, OverInv
  <2> QED
    BY <1>16, <2>1, AcceptsFacts DEF DisconnectPanic, Panic, Running, Without
<1>17. ASSUME LoopSend PROVE FailuresExplained'
  BY <1>17 DEF LoopSend
<1>18. ASSUME LoopEnd PROVE FailuresExplained'
  BY <1>18 DEF LoopEnd
<1>19. ASSUME LoopFail PROVE FailuresExplained'
  BY <1>19 DEF LoopFail, Fail, LoopRuns, Running
<1>20. ASSUME Arrive PROVE FailuresExplained'
  BY <1>20 DEF Arrive
<1>21. ASSUME ReceiveLock PROVE FailuresExplained'
  BY <1>21 DEF ReceiveLock
<1>22. ASSUME ReceiveYield PROVE FailuresExplained'
  BY <1>22 DEF ReceiveYield
<1>23. ASSUME ReceiveEnd PROVE FailuresExplained'
  BY <1>23 DEF ReceiveEnd
<1>24. ASSUME ReceivePanic PROVE FailuresExplained'
  BY <1>24, AcceptsFacts DEF ReceivePanic, Panic, OverInv, Without
<1>25. ASSUME NEW x \in Peers, PeerChange(x) PROVE FailuresExplained'
  BY <1>25 DEF PeerChange
<1>26. ASSUME NEW c \in Consumers, ListPeers(c) PROVE FailuresExplained'
  BY <1>26 DEF ListPeers
<1>27. ASSUME ListPanic PROVE FailuresExplained'
  BY <1>27, AcceptsFacts DEF ListPanic, Panic, OverInv, Without
<1>28. ASSUME NEW c \in Commands, SendCommand(c) PROVE FailuresExplained'
  BY <1>28 DEF SendCommand, Running
<1>29. ASSUME CloseSink PROVE FailuresExplained'
  BY <1>29 DEF CloseSink, Running
<1>30. ASSUME DropSource PROVE FailuresExplained'
  BY <1>30 DEF DropSource
<1>31. ASSUME DropDriver PROVE FailuresExplained'
  BY <1>31 DEF DropDriver, Fail, Running
<1>32. CASE UNCHANGED vars
  BY <1>32 DEF vars
<1> HIDE DEF FailuresExplained, sinkVars, handlerVars, outVars, inVars, peerVars, endVars
<1> QED
  BY <1>1, <1>2, <1>3, <1>4, <1>5, <1>6, <1>7, <1>8, <1>9, <1>10, <1>11, <1>12, <1>13,
     <1>14, <1>15, <1>16, <1>17, <1>18, <1>19, <1>20, <1>21, <1>22, <1>23, <1>24, <1>25,
     <1>26, <1>27, <1>28, <1>29, <1>30, <1>31, <1>32
  DEF Next, DriverStep, SourceStep, Network, Environment

-----------------------------------------------------------------------------
(* The packets.                                                            *)

\* What the filter of the Send handler tells of a command.
LEMMA SendKinds ==
  /\ \A p : IsSend(Send(p)) /\ Send(p).packet = p
  /\ \A c \in Commands : IsSend(c) => \E p \in Packets : c = Send(p)
  /\ \A c : IsSend(c) <=> Accepts("send", c)
  /\ NoPacket \notin Packets
BY BoundsAssumption, AcceptsFacts
DEF IsSend, Send, Commands, Connect, Disconnect, Packets, NoPacket

\* One more command, a Send or another, before the rest.
LEMMA PacketsNext ==
  ASSUME NEW s, NEW n \in Nat, NEW t \in Seq(Packets), Lists(t, PacketsTo(s, n))
  PROVE  /\ \A p \in Packets : s[n + 1] = Send(p) => Lists(Append(t, p), PacketsTo(s, n + 1))
         /\ ~IsSend(s[n + 1]) => Lists(t, PacketsTo(s, n + 1))
<1> DEFINE f == PacketsTo(s, n)
<1> DEFINE g == PacketsTo(s, n + 1)
<1>1. 1..(n + 1) = 1..n \cup {n + 1}
  OBVIOUS
<1>2. DOMAIN f \subseteq 1..n /\ \A i \in DOMAIN f : g[i] = f[i]
  BY <1>1 DEF PacketsTo
<1>3. ASSUME NEW p \in Packets, s[n + 1] = Send(p) PROVE Lists(Append(t, p), g)
  <2>1. IsSend(s[n + 1]) /\ s[n + 1].packet = p
    BY <1>3, SendKinds
  <2> DEFINE k == n + 1
  <2>2. g = WithOne(f, k, p)
    <3>1. DOMAIN g = DOMAIN f \cup {k} /\ g[k] = p
      BY <1>1, <2>1 DEF PacketsTo
    <3> QED
      BY <1>2, <3>1 DEF PacketsTo, WithOne
  <2>3. n \in Int /\ k \in Int /\ n < k /\ Lists(t, f)
    OBVIOUS
  <2> HIDE DEF f, g, k
  <2> QED
    BY <1>2, <2>2, <2>3, ListsAppend
<1>4. ASSUME ~IsSend(s[n + 1]) PROVE g = f
  <2>1. {j \in 1..(n + 1) : IsSend(s[j])} = {j \in 1..n : IsSend(s[j])}
    BY <1>1, <1>4
  <2> QED
    BY <2>1 DEF PacketsTo
<1> QED
  BY <1>3, <1>4

\* What is sent later is not among the first n commands.
LEMMA SentLater ==
  ASSUME NEW s \in Seq(Commands), NEW c \in Commands, NEW n, \A k \in 1..n : k \in 1..Len(s)
  PROVE  PacketsTo(Append(s, c), n) = PacketsTo(s, n)
<1>1. \A i \in 1..n : Append(s, c)[i] = s[i]
  BY AppendProperties
<1>2. {j \in 1..n : IsSend(Append(s, c)[j])} = {j \in 1..n : IsSend(s[j])}
  BY <1>1
<1> QED
  BY <1>1, <1>2 DEF PacketsTo

\* Nothing changes of what SendingInv is about, unless the handler is over.
LEMMA SendingStill ==
  ASSUME SendingInv,
         sending' = "running" /\ outcome' = "running" =>
           sending = "running" /\ outcome = "running" /\ queue'["send"] = queue["send"],
         UNCHANGED <<sent, inbox, held, delivered, outgoing>>
  PROVE  SendingInv'
BY DEF SendingInv, PassedOn

\* The Send handler takes a command that is not a Send, keeps its packet, or
\* passes it on.
LEMMA SendingTakes ==
  ASSUME TypeOK, SendingInv, sending = "running", outcome = "running", held = NoPacket,
         NEW c, Take("send", c), UNCHANGED <<sent, inbox>>,
         \/ ~IsSend(c) /\ UNCHANGED <<held, PassedOn>>
         \/ \E p \in Packets : c = Send(p) /\ held' = p /\ UNCHANGED PassedOn
         \/ \E p \in Packets : /\ c = Send(p) /\ held' = NoPacket
                               /\ PassedOn' = Append(PassedOn, p)
  PROVE  SendingInv'
<1>1. /\ sent \in Seq(Commands) /\ inbox \in Seq(Commands)
      /\ queue \in [Handles -> Seq(Commands)] /\ "send" \in Handles
      /\ PassedOn \in Seq(Packets)
  BY ThroughChannel DEF TypeOK, Handles, PassedOn
<1>2. /\ queue["send"] \in Seq(Commands) /\ queue["send"] # <<>>
      /\ c = Head(queue["send"]) /\ queue'["send"] = Tail(queue["send"])
  BY <1>1, TakeQueue
<1> DEFINE n == Before(sent, queue["send"], inbox)
<1>3. Rest(sent, queue["send"], inbox) /\ Lists(PassedOn, PacketsTo(sent, n))
  BY DEF SendingInv
<1>4. /\ Rest(sent, queue'["send"], inbox)
      /\ Before(sent, queue'["send"], inbox) = n + 1
      /\ sent[n + 1] = c
  BY <1>1, <1>2, <1>3, RestTake
<1>5. n \in Nat /\ n + 1 # 0 /\ (n + 1) - 1 = n
  BY <1>3 DEF Rest
<1> HIDE DEF n
<1>6. /\ \A p \in Packets : c = Send(p) => Lists(Append(PassedOn, p), PacketsTo(sent, n + 1))
      /\ ~IsSend(c) => Lists(PassedOn, PacketsTo(sent, n + 1))
  BY <1>1, <1>3, <1>4, <1>5, PacketsNext
<1>7. /\ held' = NoPacket => Lists(PassedOn', PacketsTo(sent, n + 1))
      /\ held' # NoPacket => c = Send(held') /\ PassedOn' = PassedOn
  BY <1>6, SendKinds
<1> QED
  BY <1>3, <1>4, <1>5, <1>7 DEF SendingInv

\* Every step keeps the packets together and in order.
LEMMA SendingStep == TypeOK /\ SendingInv /\ [Next]_vars => SendingInv'
<1> SUFFICES ASSUME TypeOK, SendingInv, [Next]_vars PROVE SendingInv'
  OBVIOUS
<1> USE DEF sinkVars, handlerVars, outVars, inVars, peerVars, endVars
<1>0. /\ sent \in Seq(Commands) /\ inbox \in Seq(Commands)
      /\ queue \in [Handles -> Seq(Commands)] /\ queue["send"] \in Seq(Commands)
      /\ "connect" \in Handles /\ "send" \in Handles /\ "disconnect" \in Handles
      /\ delivered \in Seq(Packets) /\ outgoing \in Seq(Packets)
  BY DEF TypeOK, Handles
<1>1. ASSUME NEW h \in Handles, Pull(h) PROVE SendingInv'
  <2>1. inbox # <<>> /\ inbox' = Tail(inbox)
        /\ UNCHANGED <<sent, sending, outcome, held, delivered, outgoing>>
    BY <1>1 DEF Pull
  <2>2. ASSUME sending = "running", outcome = "running"
        PROVE  /\ Rest(sent, queue'["send"], Tail(inbox))
               /\ Before(sent, queue'["send"], Tail(inbox)) = Before(sent, queue["send"], inbox)
    <3>1. queue'["send"] = Append(queue["send"], Head(inbox))
      BY <1>1, <1>0, <2>2 DEF Pull, Live
    <3>2. Rest(sent, queue["send"], inbox)
      BY <2>2 DEF SendingInv
    <3> QED
      BY <1>0, <2>1, <3>1, <3>2, RestPull
  <2> QED
    BY <2>1, <2>2 DEF SendingInv, PassedOn
<1>2. ASSUME NEW h \in Handles, Skip(h) PROVE SendingInv'
  <2>1. PICK c \in Commands : Take(h, c) /\ ~Accepts(h, c)
    BY <1>2 DEF Skip
  <2>2. UNCHANGED <<sent, inbox, sending, outcome, held, delivered, outgoing>>
    BY <1>2 DEF Skip
  <2>3. CASE h = "send"
    <3>1. /\ sending = "running" /\ outcome = "running" /\ held = NoPacket
          /\ ~IsSend(c) /\ Take("send", c)
      BY <2>1, <2>3, SendKinds DEF Take, Polls, Running
    <3>2. UNCHANGED PassedOn
      BY <2>2 DEF PassedOn
    <3> QED
      BY <2>2, <3>1, <3>2, SendingTakes
  <2>4. CASE h # "send"
    <3>1. queue'["send"] = queue["send"]
      BY <1>0, <2>1, <2>4, TakeQueue
    <3> QED
      BY <2>2, <3>1, SendingStill
  <2> QED
    BY <2>3, <2>4
<1>3. ASSUME ConnectFirst PROVE SendingInv'
  <2>1. queue'["send"] = queue["send"]
    BY <1>3, <1>0, TakeQueue DEF ConnectFirst
  <2> QED
    BY <1>3, <2>1, SendingStill DEF ConnectFirst
<1>4. ASSUME ConnectPanic PROVE SendingInv'
  <2>1. queue'["send"] = queue["send"]
    BY <1>4, <1>0, TakeQueue DEF ConnectPanic
  <2> QED
    BY <1>4, <2>1, SendingStill DEF ConnectPanic, Panic
<1>5. ASSUME ConnectEnd PROVE SendingInv'
  BY <1>5, SendingStill DEF ConnectEnd
<1>6. ASSUME NEW p \in Packets, HoldSend(p) PROVE SendingInv'
  <2>1. /\ sending = "running" /\ outcome = "running" /\ held = NoPacket
        /\ Take("send", Send(p)) /\ held' = p /\ UNCHANGED <<sent, inbox>>
    BY <1>6 DEF HoldSend, Take, Polls, Running
  <2>2. UNCHANGED PassedOn
    BY <1>6 DEF HoldSend, PassedOn
  <2> QED
    BY <2>1, <2>2, SendingTakes
<1>7. ASSUME NEW p \in Packets, SendPacket(p) PROVE SendingInv'
  <2>1. /\ sending = "running" /\ outcome = "running" /\ held' = NoPacket
        /\ UNCHANGED <<sent, inbox, delivered>> /\ outgoing' = Append(outgoing, p)
    BY <1>7 DEF SendPacket, Running
  <2>2. PassedOn' = Append(PassedOn, p)
    BY <1>0, <2>1, ThroughChannel DEF PassedOn
  <2>3. CASE held = NoPacket
    <3>1. Take("send", Send(p))
      BY <1>7, <2>3, SendKinds DEF SendPacket, NextSend
    <3> QED
      BY <2>1, <2>2, <2>3, <3>1, SendingTakes
  <2>4. CASE held # NoPacket
    <3>1. held = p /\ queue' = queue
      BY <1>7, <2>4 DEF SendPacket, NextSend
    <3> DEFINE b == Before(sent, queue["send"], inbox)
    <3>2. /\ Rest(sent, queue["send"], inbox) /\ b # 0 /\ sent[b] = Send(p)
          /\ Lists(PassedOn, PacketsTo(sent, b - 1))
      BY <2>1, <2>4, <3>1 DEF SendingInv
    <3>3. b \in Nat /\ b - 1 \in Nat /\ (b - 1) + 1 = b
      BY <3>2 DEF Rest
    <3>4. b' = b
      BY <2>1, <3>1
    <3>5. PICK m \in Nat : m = b
      BY <3>3
    <3> HIDE DEF b
    <3>6. PassedOn \in Seq(Packets)
      BY <1>0, ThroughChannel DEF PassedOn
    <3>7. Lists(Append(PassedOn, p), PacketsTo(sent, m))
      <4>1. PICK k \in Nat : k = b - 1
        BY <3>3
      <4>2. k + 1 = m /\ sent[k + 1] = Send(p) /\ Lists(PassedOn, PacketsTo(sent, k))
        BY <3>2, <3>3, <3>5, <4>1
      <4> QED
        BY <3>6, <4>2, PacketsNext
    <3> QED
      BY <2>1, <2>2, <3>1, <3>2, <3>5, <3>7 DEF SendingInv, b
  <2> QED
    BY <2>3, <2>4
<1>8. ASSUME SendFail PROVE SendingInv'
  BY <1>8 DEF SendFail, Fail, SendingInv
<1>9. ASSUME SendCancelled PROVE SendingInv'
  BY <1>9 DEF SendCancelled, SendingInv
<1>10. ASSUME SendEnd PROVE SendingInv'
  BY <1>10 DEF SendEnd, SendingInv
<1>11. ASSUME SendPanic PROVE SendingInv'
  BY <1>11, SendingStill DEF SendPanic, Panic
<1>12. ASSUME HoldDisconnect PROVE SendingInv'
  <2>1. queue'["send"] = queue["send"]
    BY <1>12, <1>0, TakeQueue DEF HoldDisconnect
  <2> QED
    BY <1>12, <2>1, SendingStill DEF HoldDisconnect
<1>13. ASSUME DisconnectSender PROVE SendingInv'
  <2>1. queue'["send"] = queue["send"]
    BY <1>13, <1>0, TakeQueue DEF DisconnectSender
  <2> QED
    BY <1>13, <2>1, SendingStill DEF DisconnectSender
<1>14. ASSUME DisconnectReceiver PROVE SendingInv'
  BY <1>14, SendingStill DEF DisconnectReceiver
<1>15. ASSUME DisconnectEnd PROVE SendingInv'
  BY <1>15, SendingStill DEF DisconnectEnd
<1>16. ASSUME DisconnectPanic PROVE SendingInv'
  BY <1>16, SendingStill DEF DisconnectPanic, Panic
<1>17. ASSUME LoopSend PROVE SendingInv'
  <2>1. PassedOn' = PassedOn
    BY <1>17, <1>0, ThroughChannel DEF LoopSend, PassedOn
  <2> QED
    BY <1>17, <2>1 DEF LoopSend, SendingInv
<1>18. ASSUME LoopEnd PROVE SendingInv'
  BY <1>18, SendingStill DEF LoopEnd
<1>19. ASSUME LoopFail PROVE SendingInv'
  BY <1>19 DEF LoopFail, Fail, SendingInv
<1>20. ASSUME Arrive PROVE SendingInv'
  BY <1>20, SendingStill DEF Arrive
<1>21. ASSUME ReceiveLock PROVE SendingInv'
  BY <1>21, SendingStill DEF ReceiveLock
<1>22. ASSUME ReceiveYield PROVE SendingInv'
  BY <1>22, SendingStill DEF ReceiveYield
<1>23. ASSUME ReceiveEnd PROVE SendingInv'
  BY <1>23, SendingStill DEF ReceiveEnd
<1>24. ASSUME ReceivePanic PROVE SendingInv'
  BY <1>24, SendingStill DEF ReceivePanic, Panic
<1>25. ASSUME NEW x \in Peers, PeerChange(x) PROVE SendingInv'
  BY <1>25, SendingStill DEF PeerChange
<1>26. ASSUME NEW c \in Consumers, ListPeers(c) PROVE SendingInv'
  BY <1>26, SendingStill DEF ListPeers
<1>27. ASSUME ListPanic PROVE SendingInv'
  BY <1>27, SendingStill DEF ListPanic, Panic
<1>28. ASSUME NEW c \in Commands, SendCommand(c) PROVE SendingInv'
  <2>1. /\ sent' = Append(sent, c) /\ inbox' = Append(inbox, c)
        /\ UNCHANGED <<queue, sending, outcome, held, delivered, outgoing>>
    BY <1>28 DEF SendCommand
  <2>2. ASSUME sending = "running", outcome = "running" PROVE SendingInv'
    <3> DEFINE b == Before(sent, queue["send"], inbox)
    <3>1. Rest(sent, queue["send"], inbox) /\ b \in Nat
      BY <2>2 DEF SendingInv, Rest
    <3>2. Rest(sent', queue["send"], inbox') /\ Before(sent', queue["send"], inbox') = b
      BY <1>0, <2>1, <3>1, RestSend
    <3>3. \A k \in 1..b : k \in 1..Len(sent)
      BY <1>0, <3>1, BeforeWithin
    <3>4. b # 0 => b \in 1..b /\ \A k \in 1..(b - 1) : k \in 1..b
      BY <3>1
    <3>5. \A k \in 1..Len(sent) : sent'[k] = sent[k]
      BY <1>0, <2>1, AppendProperties
    <3>6. PacketsTo(sent', b) = PacketsTo(sent, b)
      BY <1>0, <2>1, <3>3, SentLater
    <3>7. b # 0 => PacketsTo(sent', b - 1) = PacketsTo(sent, b - 1) /\ sent'[b] = sent[b]
      BY <1>0, <2>1, <3>3, <3>4, <3>5, SentLater
    <3>8. UNCHANGED PassedOn
      BY <2>1 DEF PassedOn
    <3>9. PICK m \in Nat : m = b
      BY <3>1
    <3> HIDE DEF b
    <3>10. /\ held = NoPacket => Lists(PassedOn, PacketsTo(sent', m))
           /\ held # NoPacket => /\ m # 0 /\ sent'[m] = Send(held)
                                 /\ Lists(PassedOn, PacketsTo(sent', m - 1))
      BY <2>2, <3>6, <3>7, <3>9 DEF SendingInv, b
    <3> QED
      BY <2>1, <3>2, <3>8, <3>9, <3>10 DEF SendingInv
  <2> QED
    BY <2>1, <2>2 DEF SendingInv
<1>29. ASSUME CloseSink PROVE SendingInv'
  BY <1>29, SendingStill DEF CloseSink
<1>30. ASSUME DropSource PROVE SendingInv'
  BY <1>30, SendingStill DEF DropSource
<1>31. ASSUME DropDriver PROVE SendingInv'
  BY <1>31 DEF DropDriver, Fail, SendingInv
<1>32. CASE UNCHANGED vars
  BY <1>32, SendingStill DEF vars
<1> HIDE DEF sinkVars, handlerVars, outVars, inVars, peerVars, endVars
<1> QED
  BY <1>1, <1>2, <1>3, <1>4, <1>5, <1>6, <1>7, <1>8, <1>9, <1>10, <1>11, <1>12, <1>13,
     <1>14, <1>15, <1>16, <1>17, <1>18, <1>19, <1>20, <1>21, <1>22, <1>23, <1>24, <1>25,
     <1>26, <1>27, <1>28, <1>29, <1>30, <1>31, <1>32
  DEF Next, DriverStep, SourceStep, Network, Environment

\* What has been passed on only grows while the Send handler runs.
LEMMA PassedStep ==
  TypeOK /\ SendingInv /\ SendingInv' /\ PassedInv /\ [Next]_vars => PassedInv'
<1> SUFFICES ASSUME TypeOK, SendingInv, SendingInv', PassedInv, [Next]_vars PROVE PassedInv'
  OBVIOUS
<1>0. /\ sent \in Seq(Commands) /\ Len(sent) \in Nat
      /\ delivered \in Seq(Packets) /\ outgoing \in Seq(Packets)
      /\ inbox \in Seq(Commands) /\ queue \in [Handles -> Seq(Commands)]
      /\ "send" \in Handles
  BY DEF TypeOK, Handles
<1>1. CASE UNCHANGED <<sent, delivered, outgoing>>
  BY <1>1 DEF PassedInv, PassedOn
<1>2. ASSUME NEW p \in Packets, SendPacket(p) PROVE PassedInv'
  <2>1. /\ sending' = "running" /\ outcome' = "running" /\ held' = NoPacket /\ sent' = sent
    BY <1>2 DEF SendPacket, Running, sinkVars, endVars
  <2>2. /\ Rest(sent', queue'["send"], inbox')
        /\ Lists(PassedOn', PacketsTo(sent', Before(sent', queue'["send"], inbox')))
    BY <2>1 DEF SendingInv
  <2>3. Before(sent', queue'["send"], inbox') \in 0..Len(sent')
    <3>1. inbox' = inbox /\ queue'["send"] \in Seq(Commands)
      <4>1. inbox' = inbox /\ (queue' = queue \/ Take("send", Send(p)))
        BY <1>2 DEF SendPacket, NextSend, sinkVars
      <4>2. queue' = queue \/ queue' \in [Handles -> Seq(Commands)]
        BY <1>0, <4>1, TakeQueue
      <4> QED
        BY <1>0, <4>1, <4>2
    <3>2. Len(inbox') \in Nat /\ Len(queue'["send"]) \in Nat /\ Len(sent') \in Nat
      BY <1>0, <2>1, <3>1
    <3> QED
      BY <2>2, <3>2 DEF Rest, Before
  <2> QED
    BY <2>2, <2>3 DEF PassedInv
<1>3. ASSUME LoopSend PROVE PassedInv'
  <2>1. PassedOn' = PassedOn /\ sent' = sent
    BY <1>3, <1>0, ThroughChannel DEF LoopSend, PassedOn, sinkVars
  <2> QED
    BY <2>1 DEF PassedInv
<1>4. ASSUME NEW c \in Commands, SendCommand(c) PROVE PassedInv'
  <2>1. sent' = Append(sent, c) /\ PassedOn' = PassedOn
    BY <1>4 DEF SendCommand, outVars, PassedOn
  <2>2. ASSUME NEW n \in 0..Len(sent)
        PROVE  n \in 0..Len(sent') /\ PacketsTo(sent', n) = PacketsTo(sent, n)
    <3>1. \A k \in 1..n : k \in 1..Len(sent)
      BY <1>0
    <3>2. Len(sent') = Len(sent) + 1
      BY <1>0, <2>1, AppendProperties
    <3> QED
      BY <1>0, <2>1, <3>1, <3>2, SentLater
  <2> QED
    BY <2>1, <2>2 DEF PassedInv
<1>5. \/ \E p \in Packets : SendPacket(p)
      \/ LoopSend
      \/ \E c \in Commands : SendCommand(c)
      \/ UNCHANGED <<sent, delivered, outgoing>>
  <2> USE DEF sinkVars, outVars
  <2>1. ASSUME DriverStep
        PROVE  \/ \E p \in Packets : SendPacket(p)
               \/ LoopSend
               \/ UNCHANGED <<sent, delivered, outgoing>>
    BY <2>1 DEF DriverStep, Pull, Skip, ConnectFirst, ConnectPanic, ConnectEnd, HoldSend,
       SendFail, SendCancelled, SendEnd, SendPanic, HoldDisconnect, DisconnectSender,
       DisconnectReceiver, DisconnectEnd, DisconnectPanic, LoopEnd
  <2>2. ASSUME SourceStep PROVE UNCHANGED <<sent, delivered, outgoing>>
    BY <2>2 DEF SourceStep, ReceiveLock, ReceiveYield, ReceiveEnd, ReceivePanic, ListPeers,
       ListPanic
  <2>3. ASSUME Network PROVE UNCHANGED <<sent, delivered, outgoing>>
    BY <2>3 DEF Network, LoopFail, Arrive, PeerChange
  <2>4. ASSUME Environment
        PROVE  (\E c \in Commands : SendCommand(c)) \/ UNCHANGED <<sent, delivered, outgoing>>
    BY <2>4 DEF Environment, CloseSink, DropSource, DropDriver
  <2> QED
    BY <2>1, <2>2, <2>3, <2>4 DEF Next, vars
<1> QED
  BY <1>1, <1>2, <1>3, <1>4, <1>5

-----------------------------------------------------------------------------
(* The lists of peers.                                                     *)

\* The last change of a peer that waits to be taken tells whether it is
\* connected; of a peer with none, whoever took the last one knows.
ChangedInv ==
  \A x \in Peers :
    /\ (\A i \in DOMAIN changes : changes[i].peer # x) =>
         \E c \in Consumers : x \in listed[c] <=> x \in connected
    /\ \A i \in DOMAIN changes :
         /\ changes[i].peer = x
         /\ \A j \in DOMAIN changes : j > i => changes[j].peer # x
         => (changes[i].up <=> x \in connected)

Change == [peer : Peers, up : BOOLEAN]

\* Every change is taken into account, by some consumer.
LEMMA ChangedStep == TypeOK /\ ChangedInv /\ [Next]_vars => ChangedInv'
<1> SUFFICES ASSUME TypeOK, ChangedInv, [Next]_vars PROVE ChangedInv'
  OBVIOUS
<1> USE DEF ChangedInv, sinkVars, handlerVars, outVars, inVars, peerVars, endVars
<1>0. changes \in Seq(Change) /\ listed \in [Consumers -> SUBSET Peers]
  BY DEF TypeOK, Change
<1>1. ASSUME NEW h \in Handles, Pull(h) PROVE ChangedInv'
  BY <1>1 DEF Pull
<1>2. ASSUME NEW h \in Handles, Skip(h) PROVE ChangedInv'
  BY <1>2 DEF Skip
<1>3. ASSUME ConnectFirst PROVE ChangedInv'
  BY <1>3 DEF ConnectFirst
<1>4. ASSUME ConnectPanic PROVE ChangedInv'
  BY <1>4 DEF ConnectPanic, Panic
<1>5. ASSUME ConnectEnd PROVE ChangedInv'
  BY <1>5 DEF ConnectEnd
<1>6. ASSUME NEW p \in Packets, HoldSend(p) PROVE ChangedInv'
  BY <1>6 DEF HoldSend
<1>7. ASSUME NEW p \in Packets, SendPacket(p) PROVE ChangedInv'
  BY <1>7 DEF SendPacket
<1>8. ASSUME SendFail PROVE ChangedInv'
  BY <1>8 DEF SendFail
<1>9. ASSUME SendCancelled PROVE ChangedInv'
  BY <1>9 DEF SendCancelled
<1>10. ASSUME SendEnd PROVE ChangedInv'
  BY <1>10 DEF SendEnd
<1>11. ASSUME SendPanic PROVE ChangedInv'
  BY <1>11 DEF SendPanic, Panic
<1>12. ASSUME HoldDisconnect PROVE ChangedInv'
  BY <1>12 DEF HoldDisconnect
<1>13. ASSUME DisconnectSender PROVE ChangedInv'
  BY <1>13 DEF DisconnectSender
<1>14. ASSUME DisconnectReceiver PROVE ChangedInv'
  BY <1>14 DEF DisconnectReceiver
<1>15. ASSUME DisconnectEnd PROVE ChangedInv'
  BY <1>15 DEF DisconnectEnd
<1>16. ASSUME DisconnectPanic PROVE ChangedInv'
  BY <1>16 DEF DisconnectPanic, Panic
<1>17. ASSUME LoopSend PROVE ChangedInv'
  BY <1>17 DEF LoopSend
<1>18. ASSUME LoopEnd PROVE ChangedInv'
  BY <1>18 DEF LoopEnd
<1>19. ASSUME LoopFail PROVE ChangedInv'
  BY <1>19 DEF LoopFail
<1>20. ASSUME Arrive PROVE ChangedInv'
  BY <1>20 DEF Arrive
<1>21. ASSUME ReceiveLock PROVE ChangedInv'
  BY <1>21 DEF ReceiveLock
<1>22. ASSUME ReceiveYield PROVE ChangedInv'
  BY <1>22 DEF ReceiveYield
<1>23. ASSUME ReceiveEnd PROVE ChangedInv'
  BY <1>23 DEF ReceiveEnd
<1>24. ASSUME ReceivePanic PROVE ChangedInv'
  BY <1>24 DEF ReceivePanic, Panic
<1>25. ASSUME NEW x \in Peers, PeerChange(x) PROVE ChangedInv'
  <2>1. /\ connected' = IF x \in connected THEN connected \ {x} ELSE connected \cup {x}
        /\ changes' = Append(changes, [peer |-> x, up |-> x \notin connected])
        /\ UNCHANGED listed
    BY <1>25 DEF PeerChange
  <2>2. \A c \in Consumers : listed'[c] = listed[c]
    BY <2>1
  <2>3. /\ DOMAIN changes' = DOMAIN changes \cup {Len(changes) + 1}
        /\ \A i \in DOMAIN changes : changes'[i] = changes[i] /\ Len(changes) + 1 > i /\ ~(i > Len(changes) + 1)
        /\ changes'[Len(changes) + 1].peer = x
        /\ changes'[Len(changes) + 1].up <=> x \notin connected
    <3>1. [peer |-> x, up |-> x \notin connected] \in Change
      BY DEF Change
    <3>2. /\ changes' \in Seq(Change) /\ Len(changes') = Len(changes) + 1
          /\ \A i \in 1..Len(changes) : changes'[i] = changes[i]
          /\ changes'[Len(changes) + 1] = [peer |-> x, up |-> x \notin connected]
      BY <1>0, <2>1, <3>1, AppendProperties
    <3>3. DOMAIN changes = 1..Len(changes) /\ DOMAIN changes' = 1..(Len(changes) + 1) /\ Len(changes) \in Nat
      BY <1>0, <3>2
    <3>4. DOMAIN changes' = DOMAIN changes \cup {Len(changes) + 1}
      BY <3>3
    <3>5. \A i \in DOMAIN changes : /\ changes'[i] = changes[i]
                                   /\ Len(changes) + 1 > i /\ ~(i > Len(changes) + 1)
      BY <3>2, <3>3
    <3>6. changes'[Len(changes) + 1].peer = x
      BY <3>2
    <3>7. changes'[Len(changes) + 1].up <=> x \notin connected
      <4>1. CASE x \in connected
        <5>1. (x \notin connected) = FALSE
          BY <4>1
        <5>2. changes'[Len(changes) + 1] = [peer |-> x, up |-> FALSE]
          BY <3>2, <5>1, Zenon
        <5> QED
          BY <4>1, <5>2
      <4>2. CASE x \notin connected
        <5>1. (x \notin connected) = TRUE
          BY <4>2
        <5>2. changes'[Len(changes) + 1] = [peer |-> x, up |-> TRUE]
          BY <3>2, <5>1, Zenon
        <5> QED
          BY <4>2, <5>2
      <4> QED
        BY <4>1, <4>2
    <3> QED
      BY <3>4, <3>5, <3>6, <3>7
  <2> QED
    BY <2>1, <2>2, <2>3
<1>26. ASSUME NEW c \in Consumers, ListPeers(c) PROVE ChangedInv'
  <2>1. /\ changes # <<>> /\ changes' = Tail(changes) /\ UNCHANGED connected
    BY <1>26 DEF ListPeers
  <2>2. /\ \A x \in Peers : x # Head(changes).peer => (x \in listed'[c] <=> x \in listed[c])
        /\ Head(changes).peer \in listed'[c] <=> Head(changes).up
        /\ \A d \in Consumers : d # c => listed'[d] = listed[d]
    <3>1. listed'[c] = IF Head(changes).up THEN listed[c] \cup {Head(changes).peer}
                                          ELSE listed[c] \ {Head(changes).peer}
      BY <1>26, <1>0 DEF ListPeers
    <3>2. \A d \in Consumers : d # c => listed'[d] = listed[d]
      BY <1>26, <1>0 DEF ListPeers
    <3> QED
      BY <3>1, <3>2
  <2>3. /\ \A i \in DOMAIN changes : i = 1 \/ (i - 1 \in DOMAIN changes' /\ changes'[i - 1] = changes[i])
        /\ \A i \in DOMAIN changes' : i + 1 \in DOMAIN changes /\ changes'[i] = changes[i + 1] /\ i + 1 > 1
        /\ 1 \in DOMAIN changes /\ Head(changes) = changes[1]
        /\ DOMAIN changes \subseteq Int /\ DOMAIN changes' \subseteq Int
    <3>1. /\ changes' \in Seq(Change) /\ Len(changes') = Len(changes) - 1
          /\ \A i \in 1..Len(changes') : changes'[i] = changes[i + 1]
      BY <1>0, <2>1, HeadTailProperties
    <3>2. /\ DOMAIN changes = 1..Len(changes) /\ DOMAIN changes' = 1..(Len(changes) - 1)
          /\ Len(changes) \in Nat /\ Len(changes) >= 1 /\ Head(changes) = changes[1]
      BY <1>0, <2>1, <3>1
    <3> QED
      BY <3>1, <3>2
  <2> SUFFICES ASSUME NEW x \in Peers
      PROVE /\ (\A i \in DOMAIN changes' : changes'[i].peer # x) =>
                 \E d \in Consumers : x \in listed'[d] <=> x \in connected
            /\ \A i \in DOMAIN changes' :
                 /\ changes'[i].peer = x
                 /\ \A j \in DOMAIN changes' : j > i => changes'[j].peer # x
                 => (changes'[i].up <=> x \in connected)
    BY <2>1
  <2>4. ASSUME \A i \in DOMAIN changes' : changes'[i].peer # x
        PROVE  \E d \in Consumers : x \in listed'[d] <=> x \in connected
    <3>1. \A i \in DOMAIN changes : i > 1 => changes[i].peer # x
      BY <2>3, <2>4
    <3>2. CASE changes[1].peer = x
      BY <2>2, <2>3, <3>1, <3>2
    <3>3. CASE changes[1].peer # x
      <4>1. \A i \in DOMAIN changes : changes[i].peer # x
        BY <2>3, <3>1, <3>3
      <4>2. PICK d \in Consumers : x \in listed[d] <=> x \in connected
        BY <4>1
      <4>3. x \in listed'[d] <=> x \in listed[d]
        BY <2>2, <2>3, <3>3
      <4> QED
        BY <4>2, <4>3
    <3> QED
      BY <3>2, <3>3
  <2>5. ASSUME NEW i \in DOMAIN changes', changes'[i].peer = x,
               \A j \in DOMAIN changes' : j > i => changes'[j].peer # x
        PROVE  changes'[i].up <=> x \in connected
    <3>1. \A j \in DOMAIN changes : j > i + 1 => j # 1 /\ j - 1 > i
      BY <2>3, <2>5
    <3>2. \A j \in DOMAIN changes : j > i + 1 => changes[j].peer # x
      BY <2>3, <2>5, <3>1
    <3> QED
      BY <2>3, <2>5, <3>2
  <2> QED
    BY <2>4, <2>5
<1>27. ASSUME ListPanic PROVE ChangedInv'
  BY <1>27 DEF ListPanic, Panic
<1>28. ASSUME NEW d \in Commands, SendCommand(d) PROVE ChangedInv'
  BY <1>28 DEF SendCommand
<1>29. ASSUME CloseSink PROVE ChangedInv'
  BY <1>29 DEF CloseSink
<1>30. ASSUME DropSource PROVE ChangedInv'
  BY <1>30 DEF DropSource
<1>31. ASSUME DropDriver PROVE ChangedInv'
  BY <1>31 DEF DropDriver
<1>32. CASE UNCHANGED vars
  BY <1>32 DEF vars
<1> HIDE DEF ChangedInv, sinkVars, handlerVars, outVars, inVars, peerVars, endVars
<1> QED
  BY <1>1, <1>2, <1>3, <1>4, <1>5, <1>6, <1>7, <1>8, <1>9, <1>10, <1>11, <1>12, <1>13,
     <1>14, <1>15, <1>16, <1>17, <1>18, <1>19, <1>20, <1>21, <1>22, <1>23, <1>24, <1>25,
     <1>26, <1>27, <1>28, <1>29, <1>30, <1>31, <1>32
  DEF Next, DriverStep, SourceStep, Network, Environment

-----------------------------------------------------------------------------
(* Theorems.                                                               *)

\* The invariant holds to begin with.
LEMMA Initial == Init => IInv
<1> SUFFICES ASSUME Init PROVE IInv
  OBVIOUS
<1> USE DEF Init
<1>1. TypeOK
  <2>1. \A S : <<>> \in Seq(S)
    OBVIOUS
  <2>2. Len(<<>>) = 0 /\ 0 \in 0..0 /\ 0 - 0 = 0
    OBVIOUS
  <2>3. {outgoing, delivered} \subseteq Seq(Packets) /\ changes \in Seq([peer : Peers, up : BOOLEAN])
    BY <2>1
  <2>4. listed \in [Consumers -> SUBSET Peers]
    OBVIOUS
  <2>5. arrived \in Nat /\ received \in 0..arrived /\ incoming \in 0..(arrived - received)
    OBVIOUS
  <2>6. /\ sent \in Seq(Commands) /\ inbox \in Seq(Commands) /\ Len(inbox) <= 1
        /\ queue \in [Handles -> Seq(Commands)]
    BY <2>1, <2>2
  <2>7. held \in Packets \cup {NoPacket} /\ panicked \in Expected \cup {"nothing"} /\ connected \subseteq Peers
    OBVIOUS
  <2> QED
    BY <2>3, <2>4, <2>5, <2>6, <2>7 DEF TypeOK
<1>2. QueuedInv /\ WaitingInv
  BY DEF QueuedInv, WaitingInv, Unseen, ToSet, Handles
<1>3. OverInv /\ FailuresExplained
  BY DEF OverInv, FailuresExplained
<1>4. SendingInv /\ PassedInv
  <2>1. /\ Rest(sent, queue["send"], inbox) /\ Before(sent, queue["send"], inbox) = 0
        /\ held = NoPacket
    BY RestEmpty DEF Handles
  <2>2. PassedOn = <<>> /\ DOMAIN PacketsTo(sent, 0) = {}
    BY DEF PassedOn, PacketsTo
  <2>3. Lists(PassedOn, PacketsTo(sent, 0)) /\ 0 \in 0..Len(sent)
    BY <2>2, ListsEmpty
  <2> QED
    BY <2>1, <2>3 DEF SendingInv, PassedInv
<1> QED
  BY <1>1, <1>2, <1>3, <1>4 DEF IInv

\* The strengthened invariant holds in every state.
THEOREM Invariance == Spec => []IInv
<1>1. IInv /\ [Next]_vars => IInv'
  BY TypingStep, QueuedStep, WaitingStep, OverStep, FailuresStep, SendingStep, PassedStep
  DEF IInv
<1> QED
  BY <1>1, Initial, PTL DEF Spec

\* The variables of the driver and its source keep their types; there are never
\* more packets received, or waiting to be, than have arrived.
THEOREM Typing == Spec => []TypeOK
<1>1. IInv => TypeOK
  BY DEF IInv
<1> QED
  BY <1>1, Invariance, PTL

\* A send fails, and an end of a oneshot channel is missing, only for the reasons
\* that FailuresExplained lists.
THEOREM FailuresHaveReasons == Spec => []FailuresExplained
<1>1. IInv => FailuresExplained
  BY DEF IInv
<1> QED
  BY <1>1, Invariance, PTL

\* The message loop is given the packets of the sink in their order, each of them
\* once and none skipped, whichever handler pulls the commands out of the channel
\* and whether zip keeps one of them until there is a connection or not
\* (driver.rs:195-219).
THEOREM PacketsPassedInOrder == Spec => []SendsInOrder
<1>1. IInv => SendsInOrder
  <2> SUFFICES ASSUME TypeOK, PassedInv PROVE SendsInOrder
    BY DEF IInv
  <2>1. PICK n \in 0..Len(sent) : Lists(PassedOn, PacketsTo(sent, n))
    BY DEF PassedInv
  <2>2. /\ Len(SubSeq(sent, 1, n)) = n
        /\ \A i \in 1..n : SubSeq(sent, 1, n)[i] = sent[i]
    <3>1. sent \in Seq(Commands) /\ Len(sent) \in Nat
      BY DEF TypeOK
    <3> QED
      BY <3>1, SubSeqProperties
  <2>3. Sends(SubSeq(sent, 1, n)) = {j \in 1..n : IsSend(sent[j])}
    BY <2>2 DEF Sends
  <2>4. PacketsOf(SubSeq(sent, 1, n)) = PacketsTo(sent, n)
    BY <2>2, <2>3 DEF PacketsOf, PacketsTo
  <2> QED
    BY <2>1, <2>4 DEF SendsInOrder, PassedOn
<1> QED
  BY Invariance, <1>1, PTL

\* Whichever of the streams of connected peers takes a change, one of them is
\* right about each peer when no change waits to be taken (driver.rs:305-370).
THEOREM SomeoneKnowsEachPeer ==
  ASSUME Consumers # {}
  PROVE  Spec => []SomeoneKnows
<1>1. Init => ChangedInv
  BY DEF Init, ChangedInv
<1>2. IInv /\ ChangedInv /\ [Next]_vars => ChangedInv'
  BY ChangedStep DEF IInv
<1>3. ChangedInv => SomeoneKnows
  <2> SUFFICES ASSUME ChangedInv, changes = <<>> PROVE SomeoneKnows
    BY DEF SomeoneKnows
  <2>1. DOMAIN changes = {}
    OBVIOUS
  <2> QED
    BY <2>1 DEF ChangedInv, SomeoneKnows
<1> QED
  BY <1>1, <1>2, <1>3, Invariance, PTL DEF Spec

\* A stream of connected peers that is the only one lists, when no change waits
\* to be taken, the peers that are connected: "the latest list of all connected
\* peers" (driver.rs:335).
COROLLARY OnlyConsumerIsLatest ==
  ASSUME NEW c, Consumers = {c}
  PROVE  Spec => [](changes = <<>> => listed[c] = connected)
<1>1. TypeOK /\ SomeoneKnows => (changes = <<>> => listed[c] = connected)
  <2> SUFFICES ASSUME TypeOK, SomeoneKnows, changes = <<>> PROVE listed[c] = connected
    OBVIOUS
  <2>1. connected \subseteq Peers /\ listed[c] \subseteq Peers
    BY DEF TypeOK
  <2>2. \A x \in Peers : x \in listed[c] <=> x \in connected
    BY DEF SomeoneKnows
  <2> QED
    BY <2>1, <2>2
<1>2. Spec => []SomeoneKnows
  BY SomeoneKnowsEachPeer
<1> QED
  BY <1>1, <1>2, Typing, PTL
=============================================================================
