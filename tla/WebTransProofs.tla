---------------------------- MODULE WebTransProofs ----------------------------
(***************************************************************************)
(* Proofs about WebTrans, for any clients, sessions, streams and bounds.   *)
(*                                                                         *)
(* IInv is inductive.  Beyond the properties it says what a handler has in *)
(* hand (HandsInv), that commands are about sessions and streams that the  *)
(* source has yielded (QueuedInv), and so is the SendBytes that waits for  *)
(* credit (HeldInv), that the map of streams has a session for each of     *)
(* them (StreamsInv), and that the send handler has the rest of the        *)
(* SendBytes ahead of it (WritingInv).  Clients go from the sink to        *)
(* the sessions in one chain (BuiltInv, UsedInv), which the default client *)
(* can only begin while there is no other (UnlessInv).                     *)
(***************************************************************************)
EXTENDS WebTrans, SequenceLemmas, FiniteSetTheorems, SequenceTheorems, TLAPS

\* The configure handler waits for a permit with a client, what it has taken out of
\* a command is in hand or has been built, and a stream of created streams holds a
\* read lock for a CreateStream.
HandsInv == /\ configuring = "reserve" <=> building # NoClient
            /\ outcome = "running" => \A b \in taken : b = building \/ b \in ToSet(built)
            /\ \A p \in Polled : Outgoing(p) /\ streamer[p] = "locked" => asks[p] > 0

\* Commands are about what the source has yielded.
QueuedInv == /\ ToSet(queue["send"]) \subseteq ToSet(sends)
             /\ \A c \in ToSet(queue["terminate"]) :
                  c.op = "TerminateSession" /\ Known(c.session)
             /\ \A c \in ToSet(sends) : Opened(c.session, c.stream_id)

\* The map of streams has an entry for each that has been yielded, and no other.
StreamsInv == /\ IsFiniteSet(opened)
              /\ \A o \in opened : streams[o.stream_id] # NoSession
              /\ \A id \in StreamIds : streams[id] # NoSession => Opened(streams[id], id)

\* A SendBytes w is one of the sink, and is for a stream that has been yielded.
Held(w) == w.command \in ToSet(sends) /\ Opened(w.to, w.command.stream_id)

\* So is the one that the send handler waits with.
HeldInv == sending \in {"write", "stopped"} => writing \in Writes /\ Held(writing)

\* The SendBytes that the send handler waits with, if any.
Doing == IF sending \in {"write", "stopped"} THEN <<writing.command>> ELSE <<>>

\* What has been written is what comes before the rest of the SendBytes, and
\* nothing comes after a FIN.
WritingInv ==
  /\ Len(written) <= Len(sends)
  /\ \A i \in 1..Len(written) : written[i].command = sends[i]
  /\ \A i \in 1..Len(written) :
       written[i].command.finished => i = Len(written) /\ sending = "over"
  /\ outcome = "running" /\ sending # "over" =>
       /\ Rest(sends, Doing, queue["send"])
       /\ Before(sends, Doing, queue["send"]) = Len(written)

\* As long as there may be a default client, there is no other.
UnlessInv ==
  outcome = "running" /\ defaulting /\ queue["unless"] = <<>> => builders = <<>>

\* What has one client in hand, or none.
Hand(client) == IF client = NoClient THEN <<>> ELSE <<client>>

\* The clients that are still to be built.
BuildersOf(q) == [k \in 1..Len(q) |-> q[k].builder]

\* Whether the configure handler goes on.
Building == outcome = "running" /\ configuring # "over"

\* The clients that have been built, blt, are the first of chain.  As long as the
\* handler goes on, the rest of it is ahead: in hand and to be built.
Chained(chain, bs, def, blt, on, hand, ahead) ==
  /\ chain = bs \/ ~def
  /\ Len(blt) <= Len(chain)
  /\ \A i \in 1..Len(blt) : blt[i] = chain[i]
  /\ on => /\ Rest(chain, hand, ahead)
           /\ Before(chain, hand, ahead) = Len(blt)

Follows(chain) == Chained(chain, builders, defaulting, built, Building, Hand(building),
                          BuildersOf(queue["configure"]))

\* The chain is that of the builders, or begins with the default client.
BuiltInv == /\ \A k \in 1..Len(queue["configure"]) :
                 queue["configure"][k].op = "ConfigureClient"
            /\ Follows(builders) \/ Follows(<<Default>> \o builders)

\* Those that have been used are the first that have been built, and the rest of
\* them is ahead of `session_ready`.
UsedInv == /\ \A i \in 1..Len(used) : used[i] = built[i]
           /\ Rest(built, Hand(slot), clients)
           /\ Before(built, Hand(slot), clients) = Len(used)

IInv == /\ TypeOK
        /\ HandsInv
        /\ QueuedInv
        /\ StreamsInv
        /\ HeldInv
        /\ WritingInv
        /\ UnlessInv
        /\ BuiltInv
        /\ UsedInv
        /\ RightStream
        /\ FailuresExplained

-----------------------------------------------------------------------------
(* Typing.                                                                 *)

\* What a handle takes is a command, and what is left are commands.
LEMMA TakeQueue ==
  ASSUME queue \in [Handles -> Seq(Commands)], NEW h \in Handles, NEW c, Take(h, c)
  PROVE  /\ c \in Commands /\ queue' \in [Handles -> Seq(Commands)]
         /\ queue[h] # <<>> /\ c = Head(queue[h]) /\ queue'[h] = Tail(queue[h])
         /\ \A g \in Handles : g # h => queue'[g] = queue[g]
<1>1. queue[h] \in Seq(Commands) /\ queue[h] # <<>>
  BY DEF Take
<1>2. Head(queue[h]) \in Commands /\ Tail(queue[h]) \in Seq(Commands)
  BY <1>1, HeadTailProperties
<1> QED
  BY <1>1, <1>2 DEF Take

\* A client is built with what the configure handler takes.
LEMMA BuilderTake ==
  ASSUME NEW b \in Builders, ConfigureBuild(b)
  PROVE  Take("configure", ConfigureClient(b))
BY DEF ConfigureBuild, NextBuilder, Take

\* The map of sessions keeps a session that is closed.
LEMMA ClosesSession ==
  ASSUME sessions \in Seq(BOOLEAN), NEW s, sessions' = [sessions EXCEPT ![s] = FALSE]
  PROVE  /\ sessions' \in Seq(BOOLEAN) /\ Len(sessions') = Len(sessions)
         /\ \A i \in 1..Len(sessions) : ~sessions[i] => ~sessions'[i]
<1>1. CASE s \in 1..Len(sessions)
  BY <1>1, ExceptSeq
<1>2. CASE s \notin 1..Len(sessions)
  <2>1. sessions' = sessions
    BY <1>2
  <2> QED
    BY <2>1
<1> QED
  BY <1>1, <1>2

\* A driver that fails has dropped its queues.
LEMMA Fails ==
  ASSUME NEW why \in Outcomes, Fail(why)
  PROVE  /\ outcome' \in Outcomes /\ queue' \in [Handles -> Seq(Commands)]
         /\ \A h \in Handles : queue'[h] = <<>>
BY DEF Fail

\* What there is no default client any more for is dropped.
LEMMA DefaultQueues ==
  ASSUME queue \in [Handles -> Seq(Commands)], DefaultOver
  PROVE  /\ queue' \in [Handles -> Seq(Commands)] /\ defaulting' = FALSE
         /\ queue'["configure"] = queue["configure"] /\ queue'["ready"] = queue["ready"]
         /\ queue'["terminate"] = queue["terminate"] /\ queue'["send"] = queue["send"]
         /\ queue'["unless"] = <<>> /\ queue'["first"] = <<>>
<1>1. <<>> \in Seq(Commands)
  OBVIOUS
<1> QED
  BY <1>1 DEF DefaultOver, Handles

\* What the fields of a command are.
LEMMA CommandKinds ==
  ASSUME NEW c \in Commands
  PROVE  /\ c.op = "ConfigureClient" => c.builder \in Builders
         /\ c.op = "TerminateSession" => c = TerminateSession(c.session) /\ c.session \in Sessions
         /\ c.op = "SendBytes" => c \in Sends
BY DEF Commands, ConfigureClient, EstablishSession, TerminateSession, CreateStream, Sends

\* The commands of a SendBytes.
LEMMA SendFacts ==
  ASSUME NEW c \in Sends
  PROVE  /\ c.op = "SendBytes" /\ c \in Commands /\ c.stream_id \in StreamIds
         /\ c.session \in Sessions /\ c.finished \in BOOLEAN
BY DEF Sends, Commands

\* The next SendBytes.
LEMMA NextSendFacts ==
  ASSUME TypeOK, QueuedInv, queue["send"] # <<>>
  PROVE  /\ NextSend \in ToSet(sends) /\ NextSend \in Sends
         /\ NextSend.stream_id \in StreamIds /\ NextSend.finished \in BOOLEAN
<1>1. /\ queue["send"] \in Seq(Commands) /\ sends \in Seq(Sends)
  BY DEF TypeOK, Handles
<1>2. NextSend \in ToSet(queue["send"])
  BY <1>1, ToSetTail DEF NextSend
<1>3. NextSend \in ToSet(sends) /\ ToSet(sends) \subseteq Sends
  BY <1>1, <1>2, ElementsTyped DEF QueuedInv
<1> QED
  BY <1>3, SendFacts

\* The next SendBytes, with the stream that the map has for it.
LEMMA NextWriteFacts ==
  ASSUME TypeOK, QueuedInv, StreamsInv, Writable
  PROVE  /\ NextWrite \in Writes /\ Held(NextWrite) /\ NextWrite.command = Head(queue["send"])
         /\ NextWrite.to = streams[NextSend.stream_id]
         /\ queue["send"] # <<>> /\ outcome = "running" /\ sending = "next"
<1>1. /\ queue["send"] # <<>> /\ streams[NextSend.stream_id] # NoSession
      /\ outcome = "running" /\ sending = "next"
  BY DEF Writable, Polls, Live, Running
<1>2. NextSend \in ToSet(sends) /\ NextSend \in Sends /\ NextSend.stream_id \in StreamIds
  BY <1>1, NextSendFacts
<1>3. streams[NextSend.stream_id] \in Sessions
  BY <1>1, <1>2 DEF TypeOK
<1>4. Opened(streams[NextSend.stream_id], NextSend.stream_id)
  BY <1>1, <1>2 DEF StreamsInv
<1>5. NextWrite.command = NextSend /\ NextWrite.to = streams[NextSend.stream_id]
  BY DEF NextWrite
<1> QED
  BY <1>1, <1>2, <1>3, <1>4, <1>5 DEF NextWrite, NextSend, Writes, Held

\* What the send handler writes is a SendBytes, to a stream that has been yielded.
LEMMA WrittenFacts ==
  ASSUME TypeOK, QueuedInv, StreamsInv, HeldInv, SendWrite \/ Credit
  PROVE  \E w \in Writes, rest \in Seq(Commands) :
           /\ Written(w, rest) /\ Held(w) /\ outcome = "running" /\ sending # "over"
           /\ ToSet(rest) \subseteq ToSet(queue["send"])
           /\ \/ /\ Doing = <<>> /\ queue["send"] # <<>>
                 /\ w.command = Head(queue["send"]) /\ rest = Tail(queue["send"])
              \/ Doing = <<w.command>> /\ rest = queue["send"]
<1>1. queue["send"] \in Seq(Commands)
  BY DEF TypeOK, Handles
<1>2. CASE SendWrite
  <2>1. Writable /\ Written(NextWrite, Tail(queue["send"]))
    BY <1>2 DEF SendWrite
  <2>2. /\ NextWrite \in Writes /\ Held(NextWrite) /\ NextWrite.command = Head(queue["send"])
        /\ queue["send"] # <<>> /\ outcome = "running" /\ sending = "next"
    BY <2>1, NextWriteFacts
  <2>3. /\ Tail(queue["send"]) \in Seq(Commands)
        /\ ToSet(Tail(queue["send"])) \subseteq ToSet(queue["send"])
    BY <1>1, <2>2, HeadTailProperties, ToSetTail
  <2>4. Doing = <<>>
    BY <2>2 DEF Doing
  <2> QED
    BY <2>1, <2>2, <2>3, <2>4
<1>3. CASE Credit
  <2>1. sending = "write" /\ outcome = "running" /\ Written(writing, queue["send"])
    BY <1>3 DEF Credit, Running
  <2>2. writing \in Writes /\ Held(writing)
    BY <2>1 DEF HeldInv
  <2>3. Doing = <<writing.command>>
    BY <2>1 DEF Doing
  <2> QED
    BY <1>1, <2>1, <2>2, <2>3
<1> QED
  BY <1>2, <1>3

\* The number of a new stream.
LEMMA NextIdFacts ==
  ASSUME TypeOK, StreamsInv, NEW s \in Sessions, NEW k \in Kinds,
         Cardinality(opened) < MaxStreams
  PROVE  NextId(s, k) \in StreamIds
<1> DEFINE same == {o \in opened : o.session = s /\ o.stream_id.kind = k}
<1>1. IsFiniteSet(opened)
  BY DEF StreamsInv
<1>2. IsFiniteSet(same) /\ Cardinality(same) <= Cardinality(opened)
  BY <1>1, FS_Subset
<1>3. Cardinality(same) \in Nat /\ Cardinality(opened) \in Nat
  BY <1>1, <1>2, FS_CardinalityType
<1>4. MaxStreams \in Nat
  BY BoundsAssumption
<1> HIDE DEF same
<1>5. Cardinality(same) + 1 \in 1..MaxStreams
  BY <1>2, <1>3, <1>4
<1> QED
  BY <1>5 DEF NextId, StreamIds, same

\* A stream of streams is of a session and of a kind.
LEMMA PolledFacts ==
  ASSUME NEW p \in Polled
  PROVE  p[1] \in Sessions /\ p[2] \in Kinds
BY PolledAssumption

\* Every step keeps the types.
LEMMA TypingStep ==
  TypeOK /\ HandsInv /\ QueuedInv /\ StreamsInv /\ HeldInv /\ [Next]_vars => TypeOK'
<1> SUFFICES ASSUME TypeOK, HandsInv, QueuedInv, StreamsInv, HeldInv, [Next]_vars PROVE TypeOK'
  OBVIOUS
<1> USE DEF TypeOK, sinkVars, queueVars, clientVars, handlerVars, terminateVars, sendVars,
     readyVars, streamVars
<1>0. /\ "configure" \in Handles /\ "unless" \in Handles /\ "first" \in Handles
      /\ "terminate" \in Handles /\ "send" \in Handles /\ "ready" \in Handles
  BY DEF Handles
<1>1. ASSUME NEW b \in Builders, ConfigureBuild(b) PROVE TypeOK'
  <2>1. queue' \in [Handles -> Seq(Commands)]
    BY <1>1, <1>0, BuilderTake, TakeQueue
  <2> QED
    BY <1>1, <2>1 DEF ConfigureBuild, Clients
<1>2. ASSUME ConfigureSend PROVE TypeOK'
  <2>1. building \in Clients
    BY <1>2 DEF ConfigureSend, HandsInv
  <2>2. /\ clients' \in Seq(Clients) /\ built' \in Seq(Clients)
        /\ Len(clients') = Len(clients) + 1 /\ Len(clients) \in Nat
    BY <1>2, <2>1, AppendProperties DEF ConfigureSend
  <2>3. Len(clients') <= CLIENT_BUFFER_LEN
    BY <1>2, <2>2, BufferAssumption DEF ConfigureSend
  <2> QED
    BY <1>2, <2>2, <2>3 DEF ConfigureSend
<1>3. ASSUME DefaultSend PROVE TypeOK'
  <2>1. Default \in Clients
    BY DEF Clients
  <2>2. /\ clients' \in Seq(Clients) /\ built' \in Seq(Clients)
        /\ Len(clients') = Len(clients) + 1 /\ Len(clients) \in Nat
    BY <1>3, <2>1, AppendProperties DEF DefaultSend
  <2>3. Len(clients) < CLIENT_BUFFER_LEN /\ CLIENT_BUFFER_LEN \in Nat
    BY <1>3, BufferAssumption DEF DefaultSend
  <2>4. Len(clients') <= CLIENT_BUFFER_LEN
    BY <2>2, <2>3
  <2>5. queue' \in [Handles -> Seq(Commands)] /\ defaulting' \in BOOLEAN
    BY <1>3, DefaultQueues DEF DefaultSend
  <2> QED
    BY <1>3, <2>2, <2>4, <2>5 DEF DefaultSend
<1>4. ASSUME DefaultOff PROVE TypeOK'
  <2>1. queue' \in [Handles -> Seq(Commands)] /\ defaulting' \in BOOLEAN
    BY <1>4, DefaultQueues DEF DefaultOff
  <2> QED
    BY <1>4, <2>1 DEF DefaultOff
<1>5. ASSUME ClientUnreceived PROVE TypeOK'
  <2>1. UNCHANGED <<sinkVars, asks, clientVars, handlerVars, readyVars, sessions, streamVars,
                    read>>
    BY <1>5 DEF ClientUnreceived
  <2>2. outcome' \in Outcomes /\ queue' \in [Handles -> Seq(Commands)]
    BY <1>5, Fails DEF ClientUnreceived, Outcomes
  <2> QED
    BY <2>1, <2>2
<1>6. ASSUME ConfigureEnd PROVE TypeOK'
  <2>1. queue' \in [Handles -> Seq(Commands)] /\ defaulting' \in BOOLEAN
    BY <1>6, DefaultQueues DEF ConfigureEnd
  <2> QED
    BY <1>6, <2>1 DEF ConfigureEnd
<1>7. ASSUME NEW s \in Sessions, TerminateTake(s) PROVE TypeOK'
  <2>1. queue["terminate"] \in Seq(Commands) /\ queue["terminate"] # <<>>
    BY <1>7, <1>0 DEF TerminateTake
  <2>2. Tail(queue["terminate"]) \in Seq(Commands)
    BY <2>1, HeadTailProperties
  <2>3. /\ queue' \in [Handles -> Seq(Commands)] /\ outcome' \in Outcomes
        /\ locking' \in Sessions \cup {NoSession} /\ terminating' \in {"next", "lock", "over"}
    <3>1. CASE Known(s)
      <4>1. queue' = [queue EXCEPT !["terminate"] = Tail(@)]
        BY <1>7, <3>1 DEF TerminateTake
      <4>2. queue' \in [Handles -> Seq(Commands)]
        BY <2>2, <4>1
      <4> QED
        BY <1>7, <3>1, <4>2 DEF TerminateTake
    <3>2. CASE ~Known(s)
      <4>1. Fail("invalid session") /\ "invalid session" \in Outcomes
        BY <1>7, <3>2 DEF TerminateTake, Outcomes
      <4> QED
        BY <1>7, <3>2, <4>1, Fails DEF TerminateTake
    <3> QED
      BY <3>1, <3>2
  <2>4. UNCHANGED <<sinkVars, asks, clientVars, sendVars, readyVars, sessions,
                    streamVars, read>>
    BY <1>7 DEF TerminateTake
  <2> QED
    BY <2>3, <2>4
<1>8. ASSUME TerminateClose PROVE TypeOK'
  <2>1. sessions' = [sessions EXCEPT ![locking] = FALSE]
    BY <1>8 DEF TerminateClose
  <2>2. sessions' \in Seq(BOOLEAN) /\ Len(sessions') = Len(sessions)
    BY <2>1, ClosesSession
  <2> QED
    BY <1>8, <2>2 DEF TerminateClose
<1>9. ASSUME TerminateEnd PROVE TypeOK'
  BY <1>9 DEF TerminateEnd
<1>10. ASSUME SendWrite \/ Credit PROVE TypeOK'
  <2>1. PICK w \in Writes, rest \in Seq(Commands) : Written(w, rest)
    BY <1>10, WrittenFacts
  <2>2. w.command.finished \in BOOLEAN
    BY SendFacts DEF Writes
  <2>3. written' \in Seq(Writes)
    BY <2>1, AppendProperties DEF Written
  <2>4. <<>> \in Seq(Commands) /\ sending' \in {"next", "over"} /\ writing' = <<>>
    BY <2>1, <2>2 DEF Written
  <2>5. queue' \in [Handles -> Seq(Commands)]
    <3>1. queue' = [queue EXCEPT !["send"] = <<>>] \/ queue' = [queue EXCEPT !["send"] = rest]
      BY <2>1, <2>2 DEF Written
    <3> QED
      BY <2>4, <3>1
  <2>6. UNCHANGED <<sinkVars, asks, clientVars, terminateVars, readyVars, sessions,
                    streamVars, read, outcome>>
    BY <2>1 DEF Written
  <2> QED
    BY <2>3, <2>4, <2>5, <2>6
<1>11. ASSUME SendInvalid PROVE TypeOK'
  <2>1. UNCHANGED <<sinkVars, asks, clientVars, handlerVars, readyVars, sessions, streamVars,
                    read>>
    BY <1>11 DEF SendInvalid
  <2>2. outcome' \in Outcomes /\ queue' \in [Handles -> Seq(Commands)]
    BY <1>11, Fails DEF SendInvalid, Outcomes
  <2> QED
    BY <2>1, <2>2
<1>12. ASSUME SendFail PROVE TypeOK'
  <2>1. UNCHANGED <<sinkVars, asks, clientVars, handlerVars, readyVars, sessions, streamVars,
                    read>>
    BY <1>12 DEF SendFail
  <2>2. outcome' \in Outcomes /\ queue' \in [Handles -> Seq(Commands)]
    BY <1>12, Fails DEF SendFail, Outcomes
  <2> QED
    BY <2>1, <2>2
<1>13. ASSUME SendEnd PROVE TypeOK'
  BY <1>13 DEF SendEnd
<1>14. ASSUME ReadyClient PROVE TypeOK'
  <2>1. /\ Head(clients) \in Clients /\ Tail(clients) \in Seq(Clients)
        /\ Len(Tail(clients)) = Len(clients) - 1
    BY <1>14, HeadTailProperties DEF ReadyClient
  <2>2. Len(clients) \in Nat /\ CLIENT_BUFFER_LEN \in Nat
    BY BufferAssumption
  <2>3. Len(clients') <= CLIENT_BUFFER_LEN
    BY <1>14, <2>1, <2>2 DEF ReadyClient
  <2> QED
    BY <1>14, <2>1, <2>3 DEF ReadyClient
<1>15. ASSUME ReadySession PROVE TypeOK'
  <2>1. queue' \in [Handles -> Seq(Commands)]
    BY <1>15, <1>0, TakeQueue DEF ReadySession, Connect
  <2>2. used' \in Seq(Clients)
    BY <1>15, AppendProperties DEF ReadySession, Connect
  <2>3. /\ sessions' \in Seq(BOOLEAN) /\ Len(sessions') = Len(sessions) + 1
        /\ Len(sessions) \in Nat /\ Len(sessions) < MaxSessions
    BY <1>15, AppendProperties DEF ReadySession
  <2>4. Len(sessions') <= MaxSessions
    BY <2>3, BoundsAssumption
  <2> QED
    BY <1>15, <2>1, <2>2, <2>3, <2>4 DEF ReadySession, Connect
<1>16. ASSUME ReadyError PROVE TypeOK'
  <2>1. queue' \in [Handles -> Seq(Commands)]
    BY <1>16, <1>0, TakeQueue DEF ReadyError, Connect
  <2>2. used' \in Seq(Clients)
    BY <1>16, AppendProperties DEF ReadyError, Connect
  <2>3. slot' = NoClient /\ UNCHANGED <<sinkVars, asks, clientVars, handlerVars, ready, sessions,
                                         streamVars, read, outcome>>
    BY <1>16 DEF ReadyError, Connect
  <2> QED
    BY <2>1, <2>2, <2>3
<1>17. ASSUME ReadyEnd PROVE TypeOK'
  <2>1. <<>> \in Seq(Commands)
    OBVIOUS
  <2>2. queue' \in [Handles -> Seq(Commands)]
    BY <1>17, <2>1 DEF ReadyEnd
  <2> QED
    BY <1>17, <2>2 DEF ReadyEnd
<1>18. ASSUME NEW p \in Polled, StreamLock(p) PROVE TypeOK'
  BY <1>18 DEF StreamLock
<1>19. ASSUME NEW p \in Polled, StreamCreated(p) PROVE TypeOK'
  <2>1. asks' \in [Polled -> Nat]
    <3>1. \A q \in Polled : asks[q] \in Nat
      OBVIOUS
    <3>2. Outgoing(p) => asks[p] > 0 /\ asks[p] - 1 \in Nat
      BY <1>19, <3>1 DEF StreamCreated, StreamYield, HandsInv
    <3> QED
      BY <1>19, <3>2 DEF StreamCreated, StreamYield
  <2>2. NextId(p[1], p[2]) \in StreamIds /\ p[1] \in Sessions
    BY <1>19, PolledFacts, NextIdFacts DEF StreamCreated, Insert
  <2>3. /\ opened' \subseteq [session : Sessions, stream_id : StreamIds]
        /\ streams' \in [StreamIds -> Sessions \cup {NoSession}]
    BY <1>19, <2>2 DEF StreamCreated, Insert
  <2> QED
    BY <1>19, <2>1, <2>3 DEF StreamCreated, StreamYield
<1>20. ASSUME NEW p \in Polled, StreamReceived(p) PROVE TypeOK'
  <2>1. asks' \in [Polled -> Nat]
    <3>1. \A q \in Polled : asks[q] \in Nat
      OBVIOUS
    <3>2. Outgoing(p) => asks[p] > 0 /\ asks[p] - 1 \in Nat
      BY <1>20, <3>1 DEF StreamReceived, StreamYield, HandsInv
    <3> QED
      BY <1>20, <3>2 DEF StreamReceived, StreamYield
  <2>2. NextId(p[1], p[2]) \in StreamIds /\ p[1] \in Sessions
    BY <1>20, PolledFacts, NextIdFacts DEF StreamReceived, Insert
  <2>3. /\ opened' \subseteq [session : Sessions, stream_id : StreamIds]
        /\ streams' \in [StreamIds -> Sessions \cup {NoSession}]
    BY <1>20, <2>2 DEF StreamReceived, Insert
  <2> QED
    BY <1>20, <2>1, <2>3 DEF StreamReceived, StreamYield
<1>21. ASSUME NEW p \in Polled, StreamError(p) PROVE TypeOK'
  <2>1. asks' \in [Polled -> Nat]
    <3>1. \A q \in Polled : asks[q] \in Nat
      OBVIOUS
    <3>2. Outgoing(p) => asks[p] > 0 /\ asks[p] - 1 \in Nat
      BY <1>21, <3>1 DEF StreamError, StreamYield, HandsInv
    <3> QED
      BY <1>21, <3>2 DEF StreamError, StreamYield
  <2> QED
    BY <1>21, <2>1 DEF StreamError, StreamYield
<1>22. ASSUME NEW s \in Sessions, NEW id \in StreamIds, BytesLock(s, id) PROVE TypeOK'
  <2>1. read' \in [stream_id : StreamIds, session : Sessions, from : Sessions]
    BY <1>22 DEF BytesLock
  <2> QED
    BY <1>22, <2>1 DEF BytesLock
<1>23. ASSUME BytesYield PROVE TypeOK'
  BY <1>23 DEF BytesYield
<1>24. ASSUME NEW b \in Builders, BuildFail(b) PROVE TypeOK'
  <2>1. UNCHANGED <<sinkVars, asks, configuring, building, defaulting, clients, built,
                    handlerVars, readyVars, sessions, streamVars, read>>
    BY <1>24 DEF BuildFail
  <2>2. outcome' \in Outcomes /\ queue' \in [Handles -> Seq(Commands)]
    BY <1>24, Fails DEF BuildFail, Outcomes
  <2>3. taken' \subseteq Builders
    BY <1>24 DEF BuildFail
  <2> QED
    BY <2>1, <2>2, <2>3
<1>25. ASSUME NEW s \in Sessions, Lost(s) PROVE TypeOK'
  <2>1. sessions' = [sessions EXCEPT ![s] = FALSE]
    BY <1>25 DEF Lost
  <2>2. sessions' \in Seq(BOOLEAN) /\ Len(sessions') = Len(sessions)
    BY <2>1, ClosesSession
  <2> QED
    BY <1>25, <2>2 DEF Lost
<1>26. ASSUME NEW c \in Commands, SendCommand(c) PROVE TypeOK'
  <2>0. Publish(c) /\ sent < MaxSent
    BY <1>26 DEF SendCommand
  <2>1. sent' \in 0..MaxSent
    BY <2>0, BoundsAssumption DEF Publish
  <2>2. builders' \in Seq(Builders) /\ sends' \in Seq(Sends)
    BY <2>0, CommandKinds DEF Publish
  <2>3. queue' \in [Handles -> Seq(Commands)]
    BY <2>0 DEF Publish
  <2>4. asks' \in [Polled -> Nat]
    <3>1. asks' = [p \in Polled |-> asks[p] + IF c = CreateStream(p) THEN 1 ELSE 0]
      BY <2>0 DEF Publish
    <3>2. \A p \in Polled : asks[p] \in Nat /\ asks[p] + 1 \in Nat /\ asks[p] + 0 \in Nat
      OBVIOUS
    <3> HIDE DEF TypeOK
    <3> QED
      BY <3>1, <3>2
  <2>5. UNCHANGED <<closed, clientVars, handlerVars, readyVars, sessions, streamVars, read,
                    outcome>>
    BY <2>0 DEF Publish
  <2> QED
    BY <2>1, <2>2, <2>3, <2>4, <2>5
<1>27. ASSUME CloseSink PROVE TypeOK'
  BY <1>27 DEF CloseSink
<1>28. ASSUME DropSource PROVE TypeOK'
  <2>1. <<>> \in Seq(Commands)
    OBVIOUS
  <2>2. queue' \in [Handles -> Seq(Commands)]
    BY <1>28, <2>1 DEF DropSource
  <2> QED
    BY <1>28, <2>2 DEF DropSource
<1>29. CASE UNCHANGED vars
  BY <1>29 DEF vars
<1>30. ASSUME SendWait PROVE TypeOK'
  <2>1. NextWrite \in Writes /\ queue["send"] # <<>>
    BY <1>30, NextWriteFacts DEF SendWait
  <2>2. Tail(queue["send"]) \in Seq(Commands)
    BY <1>0, <2>1, HeadTailProperties
  <2>3. queue' \in [Handles -> Seq(Commands)] /\ writing' \in Writes
    BY <1>30, <2>1, <2>2 DEF SendWait
  <2> QED
    BY <1>30, <2>3 DEF SendWait
<1>31. ASSUME Stop PROVE TypeOK'
  BY <1>31 DEF Stop
<1>32. ASSUME NEW b \in Builders, ConfigurePanic(b) PROVE TypeOK'
  <2>1. UNCHANGED <<sinkVars, asks, clientVars, handlerVars, readyVars, sessions, streamVars,
                    read>>
    BY <1>32 DEF ConfigurePanic
  <2>2. outcome' \in Outcomes /\ queue' \in [Handles -> Seq(Commands)]
    BY <1>32, Fails DEF ConfigurePanic, Outcomes
  <2> QED
    BY <2>1, <2>2
<1>33. ASSUME DefaultFail PROVE TypeOK'
  <2>1. UNCHANGED <<sinkVars, asks, clientVars, handlerVars, readyVars, sessions, streamVars,
                    read>>
    BY <1>33 DEF DefaultFail
  <2>2. outcome' \in Outcomes /\ queue' \in [Handles -> Seq(Commands)]
    BY <1>33, Fails DEF DefaultFail, Outcomes
  <2> QED
    BY <2>1, <2>2
<1> HIDE DEF TypeOK, sinkVars, queueVars, clientVars, handlerVars, terminateVars, sendVars,
     readyVars, streamVars
<1> QED
  BY <1>1, <1>2, <1>3, <1>4, <1>5, <1>6, <1>7, <1>8, <1>9, <1>10, <1>11, <1>12, <1>13,
     <1>14, <1>15, <1>16, <1>17, <1>18, <1>19, <1>20, <1>21, <1>22, <1>23, <1>24, <1>25,
     <1>26, <1>27, <1>28, <1>29, <1>30, <1>31, <1>32, <1>33
  DEF Next, DriverStep, ReadyStep, SourceStep, Network, Environment

-----------------------------------------------------------------------------
(* What the handlers and the streams have in hand.                         *)

\* Every step keeps a client in the hand of the configure handler, and a
\* CreateStream for a read lock.
LEMMA HandsStep == TypeOK /\ HandsInv /\ [Next]_vars => HandsInv'
<1> SUFFICES ASSUME TypeOK, HandsInv, [Next]_vars PROVE HandsInv'
  OBVIOUS
<1> USE DEF HandsInv, sinkVars, queueVars, clientVars, handlerVars, terminateVars, sendVars,
     readyVars, streamVars
<1>1. ASSUME NEW b \in Builders, ConfigureBuild(b) PROVE HandsInv'
  <2>1. /\ building' = b /\ configuring' = "reserve" /\ taken' = taken \cup {b}
        /\ configuring = "next" /\ outcome = "running" /\ UNCHANGED <<built, asks, streamer, outcome>>
    BY <1>1 DEF ConfigureBuild, NextBuilder, Polls, Live, Running
  <2>2. b # NoClient /\ NoClient \notin taken
    BY ClientsAssumption DEF TypeOK
  <2>3. \A x \in taken : x \in ToSet(built)
    BY <2>1, <2>2
  <2> QED
    BY <2>1, <2>2, <2>3
<1>2. ASSUME ConfigureSend PROVE HandsInv'
  <2>1. /\ building' = NoClient /\ configuring' = "next" /\ built' = Append(built, building)
        /\ configuring = "reserve" /\ outcome = "running"
        /\ UNCHANGED <<taken, asks, streamer, outcome>>
    BY <1>2 DEF ConfigureSend, Running
  <2>2. built \in Seq(Clients) /\ building \in Clients
    BY <2>1 DEF TypeOK
  <2>3. ToSet(Append(built, building)) = ToSet(built) \cup {building}
    BY <2>2, ToSetAppend
  <2> QED
    BY <2>1, <2>3
<1>3. ASSUME DefaultSend PROVE HandsInv'
  <2>1. /\ built' = Append(built, Default)
        /\ UNCHANGED <<configuring, building, taken, asks, streamer, outcome>>
    BY <1>3 DEF DefaultSend
  <2>2. built \in Seq(Clients) /\ Default \in Clients
    BY DEF TypeOK, Clients
  <2>3. ToSet(Append(built, Default)) = ToSet(built) \cup {Default}
    BY <2>2, ToSetAppend
  <2> QED
    BY <2>1, <2>3
<1>4. ASSUME DefaultOff PROVE HandsInv'
  BY <1>4 DEF DefaultOff, Polls
<1>5. ASSUME ClientUnreceived PROVE HandsInv'
  BY <1>5 DEF ClientUnreceived, Fail
<1>6. ASSUME ConfigureEnd PROVE HandsInv'
  BY <1>6 DEF ConfigureEnd, Polls
<1>7. ASSUME NEW s \in Sessions, TerminateTake(s) PROVE HandsInv'
  <2>1. UNCHANGED <<configuring, building, taken, built, asks, streamer>>
    BY <1>7 DEF TerminateTake
  <2>2. UNCHANGED outcome \/ outcome' # "running"
    BY <1>7 DEF TerminateTake, Fail
  <2> QED
    BY <2>1, <2>2
<1>8. ASSUME TerminateClose PROVE HandsInv'
  BY <1>8 DEF TerminateClose
<1>9. ASSUME TerminateEnd PROVE HandsInv'
  BY <1>9 DEF TerminateEnd
<1>10. ASSUME SendWrite \/ Credit PROVE HandsInv'
  BY <1>10 DEF SendWrite, Credit, Written
<1>11. ASSUME SendInvalid PROVE HandsInv'
  BY <1>11 DEF SendInvalid, Fail
<1>12. ASSUME SendFail PROVE HandsInv'
  BY <1>12 DEF SendFail, Fail
<1>13. ASSUME SendEnd PROVE HandsInv'
  BY <1>13 DEF SendEnd
<1>14. ASSUME ReadyClient PROVE HandsInv'
  BY <1>14 DEF ReadyClient
<1>15. ASSUME ReadySession PROVE HandsInv'
  BY <1>15 DEF ReadySession, Connect
<1>16. ASSUME ReadyError PROVE HandsInv'
  BY <1>16 DEF ReadyError, Connect
<1>17. ASSUME ReadyEnd PROVE HandsInv'
  BY <1>17 DEF ReadyEnd
<1>18. ASSUME NEW p \in Polled, StreamLock(p) PROVE HandsInv'
  BY <1>18 DEF StreamLock, TypeOK
<1>19. ASSUME NEW p \in Polled, StreamCreated(p) PROVE HandsInv'
  <2>1. ASSUME NEW q \in Polled, Outgoing(q), streamer'[q] = "locked" PROVE asks'[q] > 0
    <3>1. q # p /\ streamer[q] = "locked"
      BY <1>19, <2>1 DEF StreamCreated, StreamYield, TypeOK
    <3>2. asks'[q] = asks[q]
      BY <1>19, <3>1 DEF StreamCreated, StreamYield, TypeOK
    <3> QED
      BY <2>1, <3>1, <3>2
  <2> QED
    BY <1>19, <2>1 DEF StreamCreated, StreamYield
<1>20. ASSUME NEW p \in Polled, StreamReceived(p) PROVE HandsInv'
  <2>1. ASSUME NEW q \in Polled, Outgoing(q), streamer'[q] = "locked" PROVE asks'[q] > 0
    <3>1. q # p /\ streamer[q] = "locked"
      BY <1>20, <2>1 DEF StreamReceived, StreamYield, TypeOK
    <3>2. asks'[q] = asks[q]
      BY <1>20, <3>1 DEF StreamReceived, StreamYield, TypeOK
    <3> QED
      BY <2>1, <3>1, <3>2
  <2> QED
    BY <1>20, <2>1 DEF StreamReceived, StreamYield
<1>21. ASSUME NEW p \in Polled, StreamError(p) PROVE HandsInv'
  <2>1. ASSUME NEW q \in Polled, Outgoing(q), streamer'[q] = "locked" PROVE asks'[q] > 0
    <3>1. q # p /\ streamer[q] = "locked"
      BY <1>21, <2>1 DEF StreamError, StreamYield, TypeOK
    <3>2. asks'[q] = asks[q]
      BY <1>21, <3>1 DEF StreamError, StreamYield, TypeOK
    <3> QED
      BY <2>1, <3>1, <3>2
  <2> QED
    BY <1>21, <2>1 DEF StreamError, StreamYield
<1>22. ASSUME NEW s \in Sessions, NEW id \in StreamIds, BytesLock(s, id) PROVE HandsInv'
  BY <1>22 DEF BytesLock
<1>23. ASSUME BytesYield PROVE HandsInv'
  BY <1>23 DEF BytesYield
<1>24. ASSUME NEW b \in Builders, BuildFail(b) PROVE HandsInv'
  BY <1>24 DEF BuildFail, Fail
<1>25. ASSUME NEW s \in Sessions, Lost(s) PROVE HandsInv'
  BY <1>25 DEF Lost
<1>26. ASSUME NEW c \in Commands, SendCommand(c) PROVE HandsInv'
  <2>1. Publish(c)
    BY <1>26 DEF SendCommand
  <2>2. asks' = [p \in Polled |-> asks[p] + IF c = CreateStream(p) THEN 1 ELSE 0]
    BY <2>1 DEF Publish
  <2>3. UNCHANGED <<configuring, building, taken, built, streamer, outcome>>
    BY <2>1 DEF Publish
  <2>4. ASSUME NEW p \in Polled, asks[p] > 0 PROVE asks'[p] > 0
    <3>1. asks[p] \in Nat
      BY DEF TypeOK
    <3>2. asks'[p] = asks[p] + IF c = CreateStream(p) THEN 1 ELSE 0
      BY <2>2
    <3> HIDE DEF HandsInv
    <3> QED
      BY <2>4, <3>1, <3>2
  <2> QED
    BY <2>3, <2>4
<1>27. ASSUME CloseSink PROVE HandsInv'
  BY <1>27 DEF CloseSink
<1>28. ASSUME DropSource PROVE HandsInv'
  BY <1>28 DEF DropSource
<1>29. CASE UNCHANGED vars
  BY <1>29 DEF vars
<1>30. ASSUME SendWait PROVE HandsInv'
  BY <1>30 DEF SendWait
<1>31. ASSUME Stop PROVE HandsInv'
  BY <1>31 DEF Stop
<1>32. ASSUME NEW b \in Builders, ConfigurePanic(b) PROVE HandsInv'
  BY <1>32 DEF ConfigurePanic, Fail
<1>33. ASSUME DefaultFail PROVE HandsInv'
  BY <1>33 DEF DefaultFail, Fail
<1> HIDE DEF HandsInv, sinkVars, queueVars, clientVars, handlerVars, terminateVars, sendVars,
     readyVars, streamVars
<1> QED
  BY <1>1, <1>2, <1>3, <1>4, <1>5, <1>6, <1>7, <1>8, <1>9, <1>10, <1>11, <1>12, <1>13,
     <1>14, <1>15, <1>16, <1>17, <1>18, <1>19, <1>20, <1>21, <1>22, <1>23, <1>24, <1>25,
     <1>26, <1>27, <1>28, <1>29, <1>30, <1>31, <1>32, <1>33
  DEF Next, DriverStep, ReadyStep, SourceStep, Network, Environment

-----------------------------------------------------------------------------
(* The commands.                                                           *)

\* Sessions and streams stay known.
LEMMA KnownStays ==
  ASSUME TypeOK, [Next]_vars
  PROVE  /\ Len(sessions) \in Nat /\ Len(sessions') \in Nat /\ Len(sessions') >= Len(sessions)
         /\ opened \subseteq opened'
<1> USE DEF sinkVars, queueVars, clientVars, handlerVars, terminateVars, sendVars,
     readyVars, streamVars
<1> DEFINE Grown == /\ sessions' \in Seq(BOOLEAN) /\ Len(sessions') >= Len(sessions)
                    /\ opened \subseteq opened'
<1>0. sessions \in Seq(BOOLEAN) /\ Len(sessions) \in Nat
  BY DEF TypeOK
<1>1. ASSUME sessions' = sessions, opened \subseteq opened' PROVE Grown
  BY <1>0, <1>1
<1>2. ASSUME sessions' = Append(sessions, TRUE), opened' = opened PROVE Grown
  BY <1>0, <1>2, AppendProperties
<1>3. ASSUME NEW s, sessions' = [sessions EXCEPT ![s] = FALSE], opened' = opened PROVE Grown
  <2>1. sessions' \in Seq(BOOLEAN) /\ Len(sessions') = Len(sessions)
    BY <1>0, <1>3, ClosesSession
  <2>2. Len(sessions') >= Len(sessions)
    BY <1>0, <2>1
  <2> QED
    BY <1>3, <2>1, <2>2
<1> HIDE DEF Grown
<1>4. ASSUME NEW p \in Polled, StreamCreated(p) \/ StreamReceived(p) \/ StreamError(p) PROVE Grown
  BY <1>1, <1>4 DEF StreamCreated, StreamReceived, StreamError, StreamYield, Insert
<1>5. ASSUME ReadySession PROVE Grown
  BY <1>2, <1>5 DEF ReadySession, Connect
<1>6. ASSUME TerminateClose \/ \E s \in Sessions : Lost(s) PROVE Grown
  BY <1>3, <1>6 DEF TerminateClose, Lost
<1>7. ASSUME DriverStep, ~TerminateClose PROVE Grown
  BY <1>1, <1>7 DEF DriverStep, ConfigureBuild, ConfigureSend, DefaultSend, DefaultOff,
     ConfigurePanic, ClientUnreceived, ConfigureEnd, TerminateTake, TerminateEnd, SendWrite,
     SendWait, Written, SendInvalid, SendFail, SendEnd
<1>8. ASSUME ReadyClient \/ ReadyError \/ ReadyEnd PROVE Grown
  BY <1>1, <1>8 DEF ReadyClient, ReadyError, ReadyEnd, Connect
<1>9. ASSUME \/ \E p \in Polled : StreamLock(p)
             \/ \E s \in Sessions, id \in StreamIds : BytesLock(s, id)
             \/ \E b \in Builders : BuildFail(b)
             \/ BytesYield \/ DefaultFail \/ Credit \/ Stop \/ CloseSink \/ DropSource
      PROVE  Grown
  BY <1>1, <1>9 DEF StreamLock, BytesLock, BytesYield, BuildFail, DefaultFail, Credit, Written,
     Stop, CloseSink, DropSource
<1>10. ASSUME NEW c \in Commands, SendCommand(c) PROVE Grown
  BY <1>1, <1>10 DEF SendCommand, Publish
<1>11. ASSUME UNCHANGED vars PROVE Grown
  BY <1>1, <1>11 DEF vars
<1>12. Grown
  BY <1>4, <1>5, <1>6, <1>7, <1>8, <1>9, <1>10, <1>11
     DEF Next, ReadyStep, SourceStep, Network, Environment
<1> QED
  BY <1>0, <1>12 DEF Grown

\* What is taken from a queue leaves the other commands in it.
LEMMA TakeSet ==
  ASSUME queue \in [Handles -> Seq(Commands)], NEW h \in Handles, NEW c, Take(h, c)
  PROVE  \A g \in Handles : ToSet(queue'[g]) \subseteq ToSet(queue[g])
<1>1. /\ queue[h] \in Seq(Commands) /\ queue[h] # <<>> /\ queue'[h] = Tail(queue[h])
      /\ \A g \in Handles : g # h => queue'[g] = queue[g]
  BY TakeQueue
<1>2. ToSet(queue'[h]) \subseteq ToSet(queue[h])
  BY <1>1, ToSetTail
<1> QED
  BY <1>1, <1>2

\* Commands that come from the queues are about what they were about.
LEMMA QueuedFewer ==
  ASSUME TypeOK, QueuedInv, [Next]_vars, UNCHANGED sends,
         ToSet(queue'["send"]) \subseteq ToSet(queue["send"]),
         ToSet(queue'["terminate"]) \subseteq ToSet(queue["terminate"])
  PROVE  QueuedInv'
<1>1. /\ \A c \in ToSet(queue'["terminate"]) : c.op = "TerminateSession" /\ Known(c.session)
      /\ ToSet(queue'["send"]) \subseteq ToSet(sends')
  BY DEF QueuedInv
<1>2. ASSUME NEW c \in ToSet(queue'["terminate"]) PROVE Known(c.session)'
  <2>1. c.session \in Int
    <3>1. queue["terminate"] \in Seq(Commands)
      BY DEF TypeOK, Handles
    <3>2. c \in Commands /\ c.op = "TerminateSession"
      BY <1>1, <3>1, ElementsTyped
    <3> QED
      BY <3>2, CommandKinds DEF Sessions
  <2> QED
    BY <1>1, <2>1, KnownStays DEF Known
<1>3. \A c \in ToSet(sends') : Opened(c.session, c.stream_id)'
  BY KnownStays DEF QueuedInv, Opened
<1> QED
  BY <1>1, <1>2, <1>3 DEF QueuedInv

\* Every step keeps the commands about what the source has yielded.
LEMMA QueuedStep == TypeOK /\ QueuedInv /\ StreamsInv /\ HeldInv /\ [Next]_vars => QueuedInv'
<1> SUFFICES ASSUME TypeOK, QueuedInv, StreamsInv, HeldInv, [Next]_vars PROVE QueuedInv'
  OBVIOUS
<1> USE DEF sinkVars, queueVars, clientVars, handlerVars, terminateVars, sendVars,
     readyVars, streamVars
<1>0. /\ queue \in [Handles -> Seq(Commands)] /\ sends \in Seq(Sends)
      /\ "configure" \in Handles /\ "unless" \in Handles /\ "first" \in Handles
      /\ "terminate" \in Handles /\ "send" \in Handles /\ "ready" \in Handles
      /\ queue["send"] \in Seq(Commands) /\ queue["terminate"] \in Seq(Commands)
  BY DEF TypeOK, Handles
<1>1. ASSUME NEW b \in Builders, ConfigureBuild(b) PROVE QueuedInv'
  <2>1. UNCHANGED sends
    BY <1>1 DEF ConfigureBuild
  <2>2. \A h \in Handles : ToSet(queue'[h]) \subseteq ToSet(queue[h])
    BY <1>1, <1>0, BuilderTake, TakeSet DEF ConfigureBuild
  <2> QED
    BY <1>0, <2>1, <2>2, QueuedFewer
<1>2. ASSUME ConfigureSend PROVE QueuedInv'
  <2>1. UNCHANGED <<sends, queue["send"], queue["terminate"]>>
    BY <1>2, <1>0 DEF ConfigureSend
  <2> QED
    BY <2>1, QueuedFewer
<1>3. ASSUME DefaultSend PROVE QueuedInv'
  <2>1. UNCHANGED <<sends, queue["send"], queue["terminate"]>>
    BY <1>3, <1>0, DefaultQueues DEF DefaultSend
  <2> QED
    BY <2>1, QueuedFewer
<1>4. ASSUME DefaultOff PROVE QueuedInv'
  <2>1. UNCHANGED <<sends, queue["send"], queue["terminate"]>>
    BY <1>4, <1>0, DefaultQueues DEF DefaultOff
  <2> QED
    BY <2>1, QueuedFewer
<1>5. ASSUME ClientUnreceived PROVE QueuedInv'
  <2>1. ToSet(queue'["send"]) = {} /\ ToSet(queue'["terminate"]) = {} /\ UNCHANGED sends
    BY <1>5, <1>0, EmptySet, Fails DEF ClientUnreceived, Outcomes
  <2> QED
    BY <2>1, QueuedFewer
<1>6. ASSUME ConfigureEnd PROVE QueuedInv'
  <2>1. UNCHANGED <<sends, queue["send"], queue["terminate"]>>
    BY <1>6, <1>0, DefaultQueues DEF ConfigureEnd
  <2> QED
    BY <2>1, QueuedFewer
<1>7. ASSUME NEW s \in Sessions, TerminateTake(s) PROVE QueuedInv'
  <2>1. UNCHANGED sends /\ queue["terminate"] # <<>>
    BY <1>7 DEF TerminateTake
  <2>2. ToSet(Tail(queue["terminate"])) \subseteq ToSet(queue["terminate"])
    BY <1>0, <2>1, ToSetTail
  <2>3. CASE Known(s)
    <3>1. queue'["send"] = queue["send"] /\ queue'["terminate"] = Tail(queue["terminate"])
      BY <1>7, <1>0, <2>3 DEF TerminateTake
    <3> QED
      BY <2>1, <2>2, <3>1, QueuedFewer
  <2>4. CASE ~Known(s)
    <3>1. ToSet(queue'["send"]) = {} /\ ToSet(queue'["terminate"]) = {}
      BY <1>7, <1>0, <2>4, EmptySet, Fails DEF TerminateTake, Outcomes
    <3> QED
      BY <2>1, <3>1, QueuedFewer
  <2> QED
    BY <2>3, <2>4
<1>8. ASSUME TerminateClose PROVE QueuedInv'
  <2>1. UNCHANGED <<sends, queue["send"], queue["terminate"]>>
    BY <1>8, <1>0 DEF TerminateClose
  <2> QED
    BY <2>1, QueuedFewer
<1>9. ASSUME TerminateEnd PROVE QueuedInv'
  <2>1. UNCHANGED <<sends, queue["send"], queue["terminate"]>>
    BY <1>9, <1>0 DEF TerminateEnd
  <2> QED
    BY <2>1, QueuedFewer
<1>10. ASSUME SendWrite \/ Credit PROVE QueuedInv'
  <2>1. PICK w \in Writes, rest \in Seq(Commands) :
          Written(w, rest) /\ ToSet(rest) \subseteq ToSet(queue["send"])
    BY <1>10, WrittenFacts
  <2>2. /\ queue'["terminate"] = queue["terminate"] /\ UNCHANGED sends
        /\ queue'["send"] = <<>> \/ queue'["send"] = rest
    BY <1>0, <2>1 DEF Written
  <2> QED
    BY <2>1, <2>2, EmptySet, QueuedFewer
<1>11. ASSUME SendInvalid PROVE QueuedInv'
  <2>1. ToSet(queue'["send"]) = {} /\ ToSet(queue'["terminate"]) = {} /\ UNCHANGED sends
    BY <1>11, <1>0, EmptySet, Fails DEF SendInvalid, Outcomes
  <2> QED
    BY <2>1, QueuedFewer
<1>12. ASSUME SendFail PROVE QueuedInv'
  <2>1. ToSet(queue'["send"]) = {} /\ ToSet(queue'["terminate"]) = {} /\ UNCHANGED sends
    BY <1>12, <1>0, EmptySet, Fails DEF SendFail, Outcomes
  <2> QED
    BY <2>1, QueuedFewer
<1>13. ASSUME SendEnd PROVE QueuedInv'
  <2>1. UNCHANGED <<sends, queue["send"], queue["terminate"]>>
    BY <1>13, <1>0 DEF SendEnd
  <2> QED
    BY <2>1, QueuedFewer
<1>14. ASSUME ReadyClient PROVE QueuedInv'
  <2>1. UNCHANGED <<sends, queue["send"], queue["terminate"]>>
    BY <1>14, <1>0 DEF ReadyClient
  <2> QED
    BY <2>1, QueuedFewer
<1>15. ASSUME ReadySession PROVE QueuedInv'
  <2>1. UNCHANGED sends
    BY <1>15 DEF ReadySession, Connect
  <2>2. \A h \in Handles : ToSet(queue'[h]) \subseteq ToSet(queue[h])
    BY <1>15, <1>0, TakeSet DEF ReadySession, Connect
  <2> QED
    BY <1>0, <2>1, <2>2, QueuedFewer
<1>16. ASSUME ReadyError PROVE QueuedInv'
  <2>1. UNCHANGED sends
    BY <1>16 DEF ReadyError, Connect
  <2>2. \A h \in Handles : ToSet(queue'[h]) \subseteq ToSet(queue[h])
    BY <1>16, <1>0, TakeSet DEF ReadyError, Connect
  <2> QED
    BY <1>0, <2>1, <2>2, QueuedFewer
<1>17. ASSUME ReadyEnd PROVE QueuedInv'
  <2>1. UNCHANGED <<sends, queue["send"], queue["terminate"]>>
    BY <1>17, <1>0 DEF ReadyEnd, TypeOK
  <2> QED
    BY <2>1, QueuedFewer
<1>18. ASSUME NEW p \in Polled, StreamLock(p) PROVE QueuedInv'
  <2>1. UNCHANGED <<sends, queue["send"], queue["terminate"]>>
    BY <1>18, <1>0 DEF StreamLock
  <2> QED
    BY <2>1, QueuedFewer
<1>19. ASSUME NEW p \in Polled, StreamCreated(p) PROVE QueuedInv'
  <2>1. UNCHANGED <<sends, queue["send"], queue["terminate"]>>
    BY <1>19, <1>0 DEF StreamCreated, StreamYield
  <2> QED
    BY <2>1, QueuedFewer
<1>20. ASSUME NEW p \in Polled, StreamReceived(p) PROVE QueuedInv'
  <2>1. UNCHANGED <<sends, queue["send"], queue["terminate"]>>
    BY <1>20, <1>0 DEF StreamReceived, StreamYield
  <2> QED
    BY <2>1, QueuedFewer
<1>21. ASSUME NEW p \in Polled, StreamError(p) PROVE QueuedInv'
  <2>1. UNCHANGED <<sends, queue["send"], queue["terminate"]>>
    BY <1>21, <1>0 DEF StreamError, StreamYield
  <2> QED
    BY <2>1, QueuedFewer
<1>22. ASSUME NEW s \in Sessions, NEW id \in StreamIds, BytesLock(s, id) PROVE QueuedInv'
  <2>1. UNCHANGED <<sends, queue["send"], queue["terminate"]>>
    BY <1>22, <1>0 DEF BytesLock
  <2> QED
    BY <2>1, QueuedFewer
<1>23. ASSUME BytesYield PROVE QueuedInv'
  <2>1. UNCHANGED <<sends, queue["send"], queue["terminate"]>>
    BY <1>23, <1>0 DEF BytesYield
  <2> QED
    BY <2>1, QueuedFewer
<1>24. ASSUME NEW b \in Builders, BuildFail(b) PROVE QueuedInv'
  <2>1. ToSet(queue'["send"]) = {} /\ ToSet(queue'["terminate"]) = {} /\ UNCHANGED sends
    BY <1>24, <1>0, EmptySet, Fails DEF BuildFail, Outcomes
  <2> QED
    BY <2>1, QueuedFewer
<1>25. ASSUME NEW s \in Sessions, Lost(s) PROVE QueuedInv'
  <2>1. UNCHANGED <<sends, queue["send"], queue["terminate"]>>
    BY <1>25, <1>0 DEF Lost
  <2> QED
    BY <2>1, QueuedFewer
<1>26. ASSUME NEW c \in Commands, SendCommand(c) PROVE QueuedInv'
  <2>0. Publish(c)
    BY <1>26 DEF SendCommand
  <2>1. ASSUME NEW h \in Handles
        PROVE  \/ queue'[h] = queue[h]
               \/ Accepts(h, c) /\ ToSet(queue'[h]) = ToSet(queue[h]) \cup {c}
    <3>1. queue[h] \in Seq(Commands) /\ ToSet(Append(queue[h], c)) = ToSet(queue[h]) \cup {c}
      BY <1>0, ToSetAppend
    <3>2. queue'[h] = queue[h] \/ (Accepts(h, c) /\ queue'[h] = Append(queue[h], c))
      BY <2>0 DEF Publish
    <3> QED
      BY <3>1, <3>2
  <2>2. CASE c.op = "SendBytes"
    <3>1. sends' = Append(sends, c) /\ UNCHANGED <<sessions, opened>>
      BY <2>0, <2>2 DEF Publish
    <3>2. ToSet(sends') = ToSet(sends) \cup {c}
      BY <1>0, <2>2, <3>1, CommandKinds, ToSetAppend
    <3>3. Opened(c.session, c.stream_id)
      BY <1>26, <2>2 DEF SendCommand
    <3>4. queue'["terminate"] = queue["terminate"]
      BY <1>0, <2>1, <2>2 DEF Accepts
    <3>5. ToSet(queue'["send"]) \subseteq ToSet(queue["send"]) \cup {c}
      BY <1>0, <2>1
    <3> QED
      BY <3>1, <3>2, <3>3, <3>4, <3>5 DEF QueuedInv, Opened, Known
  <2>3. CASE c.op = "TerminateSession"
    <3>1. UNCHANGED <<sends, sessions, opened>>
      BY <2>0, <2>3 DEF Publish
    <3>2. Known(c.session)
      BY <1>26, <2>3 DEF SendCommand
    <3>3. queue'["send"] = queue["send"]
      BY <1>0, <2>1, <2>3 DEF Accepts
    <3>4. ToSet(queue'["terminate"]) \subseteq ToSet(queue["terminate"]) \cup {c}
      BY <1>0, <2>1
    <3> QED
      BY <2>3, <3>1, <3>2, <3>3, <3>4 DEF QueuedInv, Opened, Known
  <2>4. CASE c.op \notin {"SendBytes", "TerminateSession"}
    <3>1. UNCHANGED <<sends, sessions, opened>>
      BY <2>0, <2>4 DEF Publish
    <3>2. queue'["send"] = queue["send"] /\ queue'["terminate"] = queue["terminate"]
      BY <1>0, <2>1, <2>4 DEF Accepts
    <3> QED
      BY <3>1, <3>2, QueuedFewer
  <2> QED
    BY <2>2, <2>3, <2>4
<1>27. ASSUME CloseSink PROVE QueuedInv'
  <2>1. UNCHANGED <<sends, queue["send"], queue["terminate"]>>
    BY <1>27, <1>0 DEF CloseSink
  <2> QED
    BY <2>1, QueuedFewer
<1>28. ASSUME DropSource PROVE QueuedInv'
  <2>1. UNCHANGED <<sends, queue["send"], queue["terminate"]>>
    BY <1>28, <1>0 DEF DropSource, TypeOK
  <2> QED
    BY <2>1, QueuedFewer
<1>29. CASE UNCHANGED vars
  <2>1. UNCHANGED <<sends, queue["send"], queue["terminate"]>>
    BY <1>29 DEF vars
  <2> QED
    BY <2>1, QueuedFewer
<1>30. ASSUME SendWait PROVE QueuedInv'
  <2>1. UNCHANGED sends /\ queue["send"] # <<>>
    BY <1>30 DEF SendWait, Writable
  <2>2. ToSet(Tail(queue["send"])) \subseteq ToSet(queue["send"])
    BY <1>0, <2>1, ToSetTail
  <2>3. queue'["terminate"] = queue["terminate"] /\ queue'["send"] = Tail(queue["send"])
    BY <1>30, <1>0 DEF SendWait
  <2> QED
    BY <2>1, <2>2, <2>3, QueuedFewer
<1>31. ASSUME Stop PROVE QueuedInv'
  <2>1. UNCHANGED <<sends, queue["send"], queue["terminate"]>>
    BY <1>31, <1>0 DEF Stop
  <2> QED
    BY <2>1, QueuedFewer
<1>32. ASSUME NEW b \in Builders, ConfigurePanic(b) PROVE QueuedInv'
  <2>1. ToSet(queue'["send"]) = {} /\ ToSet(queue'["terminate"]) = {} /\ UNCHANGED sends
    BY <1>32, <1>0, EmptySet, Fails DEF ConfigurePanic, Outcomes
  <2> QED
    BY <2>1, QueuedFewer
<1>33. ASSUME DefaultFail PROVE QueuedInv'
  <2>1. ToSet(queue'["send"]) = {} /\ ToSet(queue'["terminate"]) = {} /\ UNCHANGED sends
    BY <1>33, <1>0, EmptySet, Fails DEF DefaultFail, Outcomes
  <2> QED
    BY <2>1, QueuedFewer
<1> HIDE DEF sinkVars, queueVars, clientVars, handlerVars, terminateVars, sendVars,
     readyVars, streamVars
<1> QED
  BY <1>1, <1>2, <1>3, <1>4, <1>5, <1>6, <1>7, <1>8, <1>9, <1>10, <1>11, <1>12, <1>13,
     <1>14, <1>15, <1>16, <1>17, <1>18, <1>19, <1>20, <1>21, <1>22, <1>23, <1>24, <1>25,
     <1>26, <1>27, <1>28, <1>29, <1>30, <1>31, <1>32, <1>33, <1>0
  DEF Next, DriverStep, ReadyStep, SourceStep, Network, Environment

-----------------------------------------------------------------------------
(* The map of streams.                                                     *)

\* A new stream is in the map.
LEMMA InsertFacts ==
  ASSUME TypeOK, StreamsInv, NEW s \in Sessions, NEW id \in StreamIds, Insert(s, id)
  PROVE  StreamsInv'
<1>1. /\ IsFiniteSet(opened) /\ opened' = opened \cup {[session |-> s, stream_id |-> id]}
      /\ streams' = [streams EXCEPT ![id] = s] /\ streams \in [StreamIds -> Sessions \cup {NoSession}]
      /\ opened \subseteq [session : Sessions, stream_id : StreamIds]
  BY DEF StreamsInv, Insert, TypeOK
<1>2. IsFiniteSet(opened')
  BY <1>1, FS_AddElement
<1>3. s # NoSession
  BY BoundsAssumption DEF Sessions, NoSession
<1>4. ASSUME NEW o \in opened' PROVE streams'[o.stream_id] # NoSession
  <2>1. CASE o \in opened
    BY <1>1, <1>3, <2>1 DEF StreamsInv
  <2>2. CASE o = [session |-> s, stream_id |-> id]
    BY <1>1, <1>3, <2>2
  <2> QED
    BY <1>1, <2>1, <2>2
<1>5. ASSUME NEW i \in StreamIds, streams'[i] # NoSession
      PROVE  [session |-> streams'[i], stream_id |-> i] \in opened'
  <2>1. CASE i = id
    <3>1. streams'[i] = s
      BY <1>1, <2>1
    <3> QED
      BY <1>1, <2>1, <3>1
  <2>2. CASE i # id
    <3>1. streams'[i] = streams[i]
      BY <1>1, <2>2
    <3> QED
      BY <1>1, <1>5, <3>1 DEF Opened, StreamsInv
  <2> QED
    BY <2>1, <2>2
<1> QED
  BY <1>2, <1>4, <1>5 DEF StreamsInv, Opened

\* Every step keeps the map of streams complete.
LEMMA StreamsStep == TypeOK /\ StreamsInv /\ [Next]_vars => StreamsInv'
<1> SUFFICES ASSUME TypeOK, StreamsInv, [Next]_vars PROVE StreamsInv'
  OBVIOUS
<1> USE DEF sinkVars, queueVars, clientVars, handlerVars, terminateVars, sendVars,
     readyVars, streamVars
<1>1. ASSUME NEW b \in Builders, ConfigureBuild(b) PROVE StreamsInv'
  BY <1>1 DEF ConfigureBuild, StreamsInv, Opened
<1>2. ASSUME ConfigureSend PROVE StreamsInv'
  BY <1>2 DEF ConfigureSend, StreamsInv, Opened
<1>3. ASSUME DefaultSend PROVE StreamsInv'
  BY <1>3 DEF DefaultSend, StreamsInv, Opened
<1>4. ASSUME DefaultOff PROVE StreamsInv'
  BY <1>4 DEF DefaultOff, StreamsInv, Opened
<1>5. ASSUME ClientUnreceived PROVE StreamsInv'
  BY <1>5 DEF ClientUnreceived, StreamsInv, Opened
<1>6. ASSUME ConfigureEnd PROVE StreamsInv'
  BY <1>6 DEF ConfigureEnd, StreamsInv, Opened
<1>7. ASSUME NEW s \in Sessions, TerminateTake(s) PROVE StreamsInv'
  BY <1>7 DEF TerminateTake, StreamsInv, Opened
<1>8. ASSUME TerminateClose PROVE StreamsInv'
  BY <1>8 DEF TerminateClose, StreamsInv, Opened
<1>9. ASSUME TerminateEnd PROVE StreamsInv'
  BY <1>9 DEF TerminateEnd, StreamsInv, Opened
<1>10. ASSUME SendWrite \/ Credit PROVE StreamsInv'
  BY <1>10 DEF SendWrite, Credit, Written, StreamsInv, Opened
<1>11. ASSUME SendInvalid PROVE StreamsInv'
  BY <1>11 DEF SendInvalid, StreamsInv, Opened
<1>12. ASSUME SendFail PROVE StreamsInv'
  BY <1>12 DEF SendFail, StreamsInv, Opened
<1>13. ASSUME SendEnd PROVE StreamsInv'
  BY <1>13 DEF SendEnd, StreamsInv, Opened
<1>14. ASSUME ReadyClient PROVE StreamsInv'
  BY <1>14 DEF ReadyClient, StreamsInv, Opened
<1>15. ASSUME ReadySession PROVE StreamsInv'
  BY <1>15 DEF ReadySession, Connect, StreamsInv, Opened
<1>16. ASSUME ReadyError PROVE StreamsInv'
  BY <1>16 DEF ReadyError, Connect, StreamsInv, Opened
<1>17. ASSUME ReadyEnd PROVE StreamsInv'
  BY <1>17 DEF ReadyEnd, StreamsInv, Opened
<1>18. ASSUME NEW p \in Polled, StreamLock(p) PROVE StreamsInv'
  BY <1>18 DEF StreamLock, StreamsInv, Opened
<1>19. ASSUME NEW p \in Polled, StreamCreated(p) PROVE StreamsInv'
  <2>1. Insert(p[1], NextId(p[1], p[2])) /\ Cardinality(opened) < MaxStreams
    BY <1>19 DEF StreamCreated, Insert
  <2>2. p[1] \in Sessions /\ NextId(p[1], p[2]) \in StreamIds
    BY <2>1, PolledFacts, NextIdFacts
  <2> QED
    BY <2>1, <2>2, InsertFacts
<1>20. ASSUME NEW p \in Polled, StreamReceived(p) PROVE StreamsInv'
  <2>1. Insert(p[1], NextId(p[1], p[2])) /\ Cardinality(opened) < MaxStreams
    BY <1>20 DEF StreamReceived, Insert
  <2>2. p[1] \in Sessions /\ NextId(p[1], p[2]) \in StreamIds
    BY <2>1, PolledFacts, NextIdFacts
  <2> QED
    BY <2>1, <2>2, InsertFacts
<1>21. ASSUME NEW p \in Polled, StreamError(p) PROVE StreamsInv'
  BY <1>21 DEF StreamError, StreamsInv, Opened
<1>22. ASSUME NEW s \in Sessions, NEW id \in StreamIds, BytesLock(s, id) PROVE StreamsInv'
  BY <1>22 DEF BytesLock, StreamsInv, Opened
<1>23. ASSUME BytesYield PROVE StreamsInv'
  BY <1>23 DEF BytesYield, StreamsInv, Opened
<1>24. ASSUME NEW b \in Builders, BuildFail(b) PROVE StreamsInv'
  BY <1>24 DEF BuildFail, StreamsInv, Opened
<1>25. ASSUME NEW s \in Sessions, Lost(s) PROVE StreamsInv'
  BY <1>25 DEF Lost, StreamsInv, Opened
<1>26. ASSUME NEW c \in Commands, SendCommand(c) PROVE StreamsInv'
  BY <1>26 DEF SendCommand, Publish, StreamsInv, Opened
<1>27. ASSUME CloseSink PROVE StreamsInv'
  BY <1>27 DEF CloseSink, StreamsInv, Opened
<1>28. ASSUME DropSource PROVE StreamsInv'
  BY <1>28 DEF DropSource, StreamsInv, Opened
<1>29. CASE UNCHANGED vars
  BY <1>29 DEF vars, StreamsInv, Opened
<1>30. ASSUME SendWait PROVE StreamsInv'
  BY <1>30 DEF SendWait, StreamsInv, Opened
<1>31. ASSUME Stop PROVE StreamsInv'
  BY <1>31 DEF Stop, StreamsInv, Opened
<1>32. ASSUME NEW b \in Builders, ConfigurePanic(b) PROVE StreamsInv'
  BY <1>32 DEF ConfigurePanic, StreamsInv, Opened
<1>33. ASSUME DefaultFail PROVE StreamsInv'
  BY <1>33 DEF DefaultFail, StreamsInv, Opened
<1> HIDE DEF sinkVars, queueVars, clientVars, handlerVars, terminateVars, sendVars,
     readyVars, streamVars
<1> QED
  BY <1>1, <1>2, <1>3, <1>4, <1>5, <1>6, <1>7, <1>8, <1>9, <1>10, <1>11, <1>12, <1>13,
     <1>14, <1>15, <1>16, <1>17, <1>18, <1>19, <1>20, <1>21, <1>22, <1>23, <1>24, <1>25,
     <1>26, <1>27, <1>28, <1>29, <1>30, <1>31, <1>32, <1>33
  DEF Next, DriverStep, ReadyStep, SourceStep, Network, Environment

\* What the send handler waits with is still for a stream that has been yielded.
LEMMA HeldKept ==
  ASSUME HeldInv, UNCHANGED <<sending, writing>>, ToSet(sends) \subseteq ToSet(sends'),
         opened \subseteq opened'
  PROVE  HeldInv'
BY DEF HeldInv, Held, Opened

\* Every step keeps it so.
LEMMA HeldStep == TypeOK /\ QueuedInv /\ StreamsInv /\ HeldInv /\ [Next]_vars => HeldInv'
<1> SUFFICES ASSUME TypeOK, QueuedInv, StreamsInv, HeldInv, [Next]_vars PROVE HeldInv'
  OBVIOUS
<1> USE DEF sinkVars, queueVars, clientVars, handlerVars, terminateVars, sendVars,
     readyVars, streamVars
<1>0. opened \subseteq opened'
  BY KnownStays
<1>1. ASSUME UNCHANGED <<sending, writing, sends>> PROVE HeldInv'
  BY <1>0, <1>1, HeldKept
<1>2. ASSUME SendWrite \/ Credit \/ SendEnd PROVE HeldInv'
  <2>1. sending' \in {"next", "over"}
    BY <1>2 DEF SendWrite, Credit, Written, SendEnd
  <2> QED
    BY <2>1 DEF HeldInv
<1>3. ASSUME SendWait PROVE HeldInv'
  <2>1. writing' = NextWrite /\ UNCHANGED <<sends, opened>>
    BY <1>3 DEF SendWait
  <2>2. NextWrite \in Writes /\ Held(NextWrite)
    BY <1>3, NextWriteFacts DEF SendWait
  <2>3. writing' \in Writes /\ Held(writing)'
    BY <2>1, <2>2 DEF Held, Opened
  <2> QED
    BY <2>3 DEF HeldInv
<1>4. ASSUME Stop PROVE HeldInv'
  <2>1. sending = "write" /\ UNCHANGED <<writing, sends, opened>>
    BY <1>4 DEF Stop
  <2> QED
    BY <2>1 DEF HeldInv, Held, Opened
<1>5. ASSUME NEW c \in Commands, SendCommand(c) PROVE HeldInv'
  <2>1. UNCHANGED <<sending, writing>>
    BY <1>5 DEF SendCommand, Publish
  <2>2. ToSet(sends) \subseteq ToSet(sends')
    <3>1. c.op = "SendBytes" => c \in Sends
      BY CommandKinds
    <3>2. sends' = sends \/ (sends' = Append(sends, c) /\ c \in Sends)
      BY <1>5, <3>1 DEF SendCommand, Publish
    <3>3. c \in Sends => ToSet(Append(sends, c)) = ToSet(sends) \cup {c}
      BY ToSetAppend DEF TypeOK
    <3> QED
      BY <3>2, <3>3
  <2> QED
    BY <1>0, <2>1, <2>2, HeldKept
<1>6. ASSUME DriverStep, ~SendWrite, ~SendWait, ~SendEnd PROVE HeldInv'
  BY <1>1, <1>6 DEF DriverStep, ConfigureBuild, ConfigurePanic, ConfigureSend, DefaultSend,
     DefaultOff, ClientUnreceived, ConfigureEnd, TerminateTake, TerminateClose, TerminateEnd,
     SendInvalid, SendFail
<1>7. ASSUME ReadyStep PROVE HeldInv'
  BY <1>1, <1>7 DEF ReadyStep, ReadyClient, ReadySession, ReadyError, ReadyEnd, Connect
<1>8. ASSUME SourceStep PROVE HeldInv'
  BY <1>1, <1>8 DEF SourceStep, StreamLock, StreamCreated, StreamReceived, StreamError,
     StreamYield, BytesLock, BytesYield
<1>9. ASSUME \/ \E b \in Builders : BuildFail(b)
             \/ \E s \in Sessions : Lost(s)
             \/ DefaultFail \/ CloseSink \/ DropSource
      PROVE  HeldInv'
  BY <1>1, <1>9 DEF BuildFail, DefaultFail, Lost, CloseSink, DropSource
<1>10. ASSUME UNCHANGED vars PROVE HeldInv'
  BY <1>1, <1>10 DEF vars
<1> HIDE DEF sinkVars, queueVars, clientVars, handlerVars, terminateVars, sendVars,
     readyVars, streamVars
<1> QED
  BY <1>2, <1>3, <1>4, <1>5, <1>6, <1>7, <1>8, <1>9, <1>10 DEF Next, Network, Environment

-----------------------------------------------------------------------------
(* The stream that bytes are sent to or received from.                     *)

\* Two of the streams have the ID.
Meets(os, id) == \E o1, o2 \in os : o1.stream_id = id /\ o2.stream_id = id /\ o1 # o2

\* IDs that two streams have are still those of two when there are more.
LEMMA MeetsStays ==
  ASSUME NEW os, NEW ot, os \subseteq ot, NEW id, Meets(os, id)
  PROVE  Meets(ot, id)
BY DEF Meets

\* Two sessions with a stream of the same ID.
LEMMA Colliding ==
  ASSUME NEW s, NEW t, NEW id, Opened(s, id), Opened(t, id)
  PROVE  s = t \/ Meets(opened, id)
<1> DEFINE o1 == [session |-> s, stream_id |-> id]
<1> DEFINE o2 == [session |-> t, stream_id |-> id]
<1>1. o1 \in opened /\ o2 \in opened /\ o1.stream_id = id /\ o2.stream_id = id
  BY DEF Opened
<1>2. o1 = o2 => s = t
  <2>1. o1.session = s /\ o2.session = t
    OBVIOUS
  <2> QED
    BY <2>1
<1> HIDE DEF o1, o2
<1> QED
  BY <1>1, <1>2 DEF Meets

\* Whether what w says has been written has gone to the right stream.
Right(w, os) == w.to = w.command.session \/ Meets(os, w.command.stream_id)

\* Whether what r says is read comes from the right stream.
RightRead(r, os) == r.from = r.session \/ Meets(os, r.stream_id)

\* RightStream, before and after a step, in terms of what is opened.
LEMMA RightParts ==
  /\ RightStream <=> /\ \A i \in DOMAIN written : Right(written[i], opened)
                     /\ read # <<>> => RightRead(read, opened)
  /\ RightStream' <=> /\ \A i \in DOMAIN written' : Right(written'[i], opened')
                      /\ read' # <<>> => RightRead(read', opened')
BY DEF RightStream, Right, RightRead, Collides, Meets

\* What has been written has gone to the right stream, and still has.
LEMMA WrittenRight ==
  ASSUME RightStream, opened \subseteq opened', UNCHANGED written
  PROVE  \A i \in DOMAIN written' : Right(written'[i], opened')
BY MeetsStays, RightParts DEF Right

\* What is neither read nor written leaves them right.
LEMMA RightKept ==
  ASSUME RightStream, opened \subseteq opened', UNCHANGED <<written, read>>
  PROVE  RightStream'
<1>1. read' # <<>> => RightRead(read', opened')
  BY MeetsStays, RightParts DEF RightRead
<1> QED
  BY <1>1, WrittenRight, RightParts

\* Every step sends to and receives from the right stream.
LEMMA RightStep ==
  TypeOK /\ QueuedInv /\ StreamsInv /\ HeldInv /\ RightStream /\ [Next]_vars => RightStream'
<1> SUFFICES ASSUME TypeOK, QueuedInv, StreamsInv, HeldInv, RightStream, [Next]_vars
             PROVE RightStream'
  OBVIOUS
<1> USE DEF sinkVars, queueVars, clientVars, handlerVars, terminateVars, sendVars,
     readyVars, streamVars
<1>0. opened \subseteq opened'
  BY KnownStays
<1>1. ASSUME NEW b \in Builders, ConfigureBuild(b) PROVE RightStream'
  <2>1. UNCHANGED <<written, read>>
    BY <1>1 DEF ConfigureBuild
  <2> QED
    BY <1>0, <2>1, RightKept
<1>2. ASSUME ConfigureSend PROVE RightStream'
  <2>1. UNCHANGED <<written, read>>
    BY <1>2 DEF ConfigureSend
  <2> QED
    BY <1>0, <2>1, RightKept
<1>3. ASSUME DefaultSend PROVE RightStream'
  <2>1. UNCHANGED <<written, read>>
    BY <1>3 DEF DefaultSend
  <2> QED
    BY <1>0, <2>1, RightKept
<1>4. ASSUME DefaultOff PROVE RightStream'
  <2>1. UNCHANGED <<written, read>>
    BY <1>4 DEF DefaultOff
  <2> QED
    BY <1>0, <2>1, RightKept
<1>5. ASSUME ClientUnreceived PROVE RightStream'
  <2>1. UNCHANGED <<written, read>>
    BY <1>5 DEF ClientUnreceived
  <2> QED
    BY <1>0, <2>1, RightKept
<1>6. ASSUME ConfigureEnd PROVE RightStream'
  <2>1. UNCHANGED <<written, read>>
    BY <1>6 DEF ConfigureEnd
  <2> QED
    BY <1>0, <2>1, RightKept
<1>7. ASSUME NEW s \in Sessions, TerminateTake(s) PROVE RightStream'
  <2>1. UNCHANGED <<written, read>>
    BY <1>7 DEF TerminateTake
  <2> QED
    BY <1>0, <2>1, RightKept
<1>8. ASSUME TerminateClose PROVE RightStream'
  <2>1. UNCHANGED <<written, read>>
    BY <1>8 DEF TerminateClose
  <2> QED
    BY <1>0, <2>1, RightKept
<1>9. ASSUME TerminateEnd PROVE RightStream'
  <2>1. UNCHANGED <<written, read>>
    BY <1>9 DEF TerminateEnd
  <2> QED
    BY <1>0, <2>1, RightKept
<1>10. ASSUME SendWrite \/ Credit PROVE RightStream'
  <2>1. PICK w \in Writes, rest \in Seq(Commands) : Written(w, rest) /\ Held(w)
    BY <1>10, WrittenFacts
  <2>2. written' = Append(written, w) /\ UNCHANGED <<read, opened>>
    BY <2>1 DEF Written
  <2>3. /\ Opened(w.command.session, w.command.stream_id)
        /\ Opened(w.to, w.command.stream_id)
    BY <2>1 DEF QueuedInv, Held
  <2>4. Right(w, opened)
    BY <2>3, Colliding DEF Right
  <2>5. w \in Writes /\ written \in Seq(Writes)
    BY DEF TypeOK
  <2>6. ASSUME NEW i \in DOMAIN written' PROVE Right(written'[i], opened)
    <3>1. DOMAIN written = 1..Len(written) /\ Len(written) \in Nat
      BY <2>5
    <3>2. i \in 1..(Len(written) + 1)
      BY <2>2, <2>5, AppendProperties, LenProperties
    <3>3. CASE i \in DOMAIN written
      <4>1. written'[i] = written[i]
        BY <2>2, <2>5, <3>1, <3>3, AppendProperties
      <4> QED
        BY <3>3, <4>1, RightParts
    <3>4. CASE i = Len(written) + 1
      <4>1. written'[i] = w
        BY <2>2, <2>5, <3>4, AppendProperties
      <4> QED
        BY <2>4, <4>1
    <3> QED
      BY <3>1, <3>2, <3>3, <3>4, LastOrBefore
  <2>7. read' # <<>> => RightRead(read', opened')
    BY <2>2, RightParts
  <2> QED
    BY <2>2, <2>6, <2>7, RightParts
<1>11. ASSUME SendInvalid PROVE RightStream'
  <2>1. UNCHANGED <<written, read>>
    BY <1>11 DEF SendInvalid
  <2> QED
    BY <1>0, <2>1, RightKept
<1>12. ASSUME SendFail PROVE RightStream'
  <2>1. UNCHANGED <<written, read>>
    BY <1>12 DEF SendFail
  <2> QED
    BY <1>0, <2>1, RightKept
<1>13. ASSUME SendEnd PROVE RightStream'
  <2>1. UNCHANGED <<written, read>>
    BY <1>13 DEF SendEnd
  <2> QED
    BY <1>0, <2>1, RightKept
<1>14. ASSUME ReadyClient PROVE RightStream'
  <2>1. UNCHANGED <<written, read>>
    BY <1>14 DEF ReadyClient
  <2> QED
    BY <1>0, <2>1, RightKept
<1>15. ASSUME ReadySession PROVE RightStream'
  <2>1. UNCHANGED <<written, read>>
    BY <1>15 DEF ReadySession, Connect
  <2> QED
    BY <1>0, <2>1, RightKept
<1>16. ASSUME ReadyError PROVE RightStream'
  <2>1. UNCHANGED <<written, read>>
    BY <1>16 DEF ReadyError, Connect
  <2> QED
    BY <1>0, <2>1, RightKept
<1>17. ASSUME ReadyEnd PROVE RightStream'
  <2>1. UNCHANGED <<written, read>>
    BY <1>17 DEF ReadyEnd
  <2> QED
    BY <1>0, <2>1, RightKept
<1>18. ASSUME NEW p \in Polled, StreamLock(p) PROVE RightStream'
  <2>1. UNCHANGED <<written, read>>
    BY <1>18 DEF StreamLock
  <2> QED
    BY <1>0, <2>1, RightKept
<1>19. ASSUME NEW p \in Polled, StreamCreated(p) PROVE RightStream'
  <2>1. UNCHANGED <<written, read>>
    BY <1>19 DEF StreamCreated, StreamYield
  <2> QED
    BY <1>0, <2>1, RightKept
<1>20. ASSUME NEW p \in Polled, StreamReceived(p) PROVE RightStream'
  <2>1. UNCHANGED <<written, read>>
    BY <1>20 DEF StreamReceived, StreamYield
  <2> QED
    BY <1>0, <2>1, RightKept
<1>21. ASSUME NEW p \in Polled, StreamError(p) PROVE RightStream'
  <2>1. UNCHANGED <<written, read>>
    BY <1>21 DEF StreamError, StreamYield
  <2> QED
    BY <1>0, <2>1, RightKept
<1>22. ASSUME NEW s \in Sessions, NEW id \in StreamIds, BytesLock(s, id) PROVE RightStream'
  <2>1. /\ read' = [stream_id |-> id, session |-> s, from |-> streams[id]]
        /\ UNCHANGED <<written, opened>> /\ Opened(s, id) /\ streams[id] # NoSession
    BY <1>22 DEF BytesLock
  <2>2. Opened(streams[id], id)
    BY <2>1 DEF StreamsInv
  <2>3. streams[id] = s \/ Meets(opened, id)
    BY <2>1, <2>2, Colliding
  <2>4. RightRead(read', opened')
    BY <2>1, <2>3 DEF RightRead
  <2> QED
    BY <1>0, <2>1, <2>4, WrittenRight, RightParts
<1>23. ASSUME BytesYield PROVE RightStream'
  <2>1. UNCHANGED written /\ read' = <<>>
    BY <1>23 DEF BytesYield
  <2> QED
    BY <1>0, <2>1, WrittenRight, RightParts
<1>24. ASSUME NEW b \in Builders, BuildFail(b) PROVE RightStream'
  <2>1. UNCHANGED <<written, read>>
    BY <1>24 DEF BuildFail
  <2> QED
    BY <1>0, <2>1, RightKept
<1>25. ASSUME NEW s \in Sessions, Lost(s) PROVE RightStream'
  <2>1. UNCHANGED <<written, read>>
    BY <1>25 DEF Lost
  <2> QED
    BY <1>0, <2>1, RightKept
<1>26. ASSUME NEW c \in Commands, SendCommand(c) PROVE RightStream'
  <2>1. UNCHANGED <<written, read>>
    BY <1>26 DEF SendCommand, Publish
  <2> QED
    BY <1>0, <2>1, RightKept
<1>27. ASSUME CloseSink PROVE RightStream'
  <2>1. UNCHANGED <<written, read>>
    BY <1>27 DEF CloseSink
  <2> QED
    BY <1>0, <2>1, RightKept
<1>28. ASSUME DropSource PROVE RightStream'
  <2>1. UNCHANGED <<written, read>>
    BY <1>28 DEF DropSource
  <2> QED
    BY <1>0, <2>1, RightKept
<1>29. CASE UNCHANGED vars
  BY <1>0, <1>29, RightKept DEF vars
<1>30. ASSUME SendWait PROVE RightStream'
  <2>1. UNCHANGED <<written, read>>
    BY <1>30 DEF SendWait
  <2> QED
    BY <1>0, <2>1, RightKept
<1>31. ASSUME Stop PROVE RightStream'
  <2>1. UNCHANGED <<written, read>>
    BY <1>31 DEF Stop
  <2> QED
    BY <1>0, <2>1, RightKept
<1>32. ASSUME NEW b \in Builders, ConfigurePanic(b) PROVE RightStream'
  <2>1. UNCHANGED <<written, read>>
    BY <1>32 DEF ConfigurePanic
  <2> QED
    BY <1>0, <2>1, RightKept
<1>33. ASSUME DefaultFail PROVE RightStream'
  <2>1. UNCHANGED <<written, read>>
    BY <1>33 DEF DefaultFail
  <2> QED
    BY <1>0, <2>1, RightKept
<1> HIDE DEF sinkVars, queueVars, clientVars, handlerVars, terminateVars, sendVars,
     readyVars, streamVars
<1> QED
  BY <1>1, <1>2, <1>3, <1>4, <1>5, <1>6, <1>7, <1>8, <1>9, <1>10, <1>11, <1>12, <1>13,
     <1>14, <1>15, <1>16, <1>17, <1>18, <1>19, <1>20, <1>21, <1>22, <1>23, <1>24, <1>25,
     <1>26, <1>27, <1>28, <1>29, <1>30, <1>31, <1>32, <1>33
  DEF Next, DriverStep, ReadyStep, SourceStep, Network, Environment

-----------------------------------------------------------------------------
(* The send handler has the rest of the SendBytes ahead of it.             *)

\* What concerns other handlers keeps it.
LEMMA WritingKept ==
  ASSUME WritingInv, UNCHANGED <<sends, written, sending, writing, outcome, queue["send"]>>
  PROVE  WritingInv'
BY DEF WritingInv, Doing

\* A driver that is over has nothing ahead of it.
LEMMA WritingOver ==
  ASSUME WritingInv, UNCHANGED <<sends, written, sending>>, outcome' # "running"
  PROVE  WritingInv'
BY DEF WritingInv

\* Every step keeps the send handler in the order of the sink.
LEMMA WritingStep ==
  TypeOK /\ QueuedInv /\ StreamsInv /\ HeldInv /\ WritingInv /\ [Next]_vars => WritingInv'
<1> SUFFICES ASSUME TypeOK, QueuedInv, StreamsInv, HeldInv, WritingInv, [Next]_vars
             PROVE WritingInv'
  OBVIOUS
<1> USE DEF sinkVars, queueVars, clientVars, handlerVars, terminateVars, sendVars,
     readyVars, streamVars
<1>0. /\ queue \in [Handles -> Seq(Commands)] /\ sends \in Seq(Sends) /\ sends \in Seq(Commands)
      /\ "configure" \in Handles /\ "unless" \in Handles /\ "first" \in Handles
      /\ "terminate" \in Handles /\ "send" \in Handles /\ "ready" \in Handles
      /\ queue["send"] \in Seq(Commands) /\ <<>> \in Seq(Commands)
  <2>1. sends \in Seq(Sends) /\ Sends \subseteq Commands
    BY DEF TypeOK, Commands
  <2>2. sends \in Seq(Commands)
    BY <2>1, SeqMonotonic
  <2> QED
    BY <2>1, <2>2 DEF TypeOK, Handles
<1>1. ASSUME NEW b \in Builders, ConfigureBuild(b) PROVE WritingInv'
  <2>1. UNCHANGED <<sends, written, sending, writing, outcome>>
    BY <1>1 DEF ConfigureBuild
  <2>2. UNCHANGED queue["send"]
    BY <1>1, <1>0, BuilderTake, TakeQueue DEF ConfigureBuild
  <2> QED
    BY <2>1, <2>2, WritingKept
<1>2. ASSUME ConfigureSend PROVE WritingInv'
  <2>1. UNCHANGED <<sends, written, sending, writing, outcome, queue["send"]>>
    BY <1>2, <1>0 DEF ConfigureSend
  <2> QED
    BY <2>1, WritingKept
<1>3. ASSUME DefaultSend PROVE WritingInv'
  <2>1. UNCHANGED <<sends, written, sending, writing, outcome, queue["send"]>>
    BY <1>3, <1>0, DefaultQueues DEF DefaultSend
  <2> QED
    BY <2>1, WritingKept
<1>4. ASSUME DefaultOff PROVE WritingInv'
  <2>1. UNCHANGED <<sends, written, sending, writing, outcome, queue["send"]>>
    BY <1>4, <1>0, DefaultQueues DEF DefaultOff
  <2> QED
    BY <2>1, WritingKept
<1>5. ASSUME ClientUnreceived PROVE WritingInv'
  <2>1. UNCHANGED <<sends, written, sending>> /\ outcome' # "running"
    BY <1>5 DEF ClientUnreceived, Fail
  <2> QED
    BY <2>1, WritingOver
<1>6. ASSUME ConfigureEnd PROVE WritingInv'
  <2>1. UNCHANGED <<sends, written, sending, writing, outcome, queue["send"]>>
    BY <1>6, <1>0, DefaultQueues DEF ConfigureEnd
  <2> QED
    BY <2>1, WritingKept
<1>7. ASSUME NEW s \in Sessions, TerminateTake(s) PROVE WritingInv'
  <2>1. UNCHANGED <<sends, written, sending, writing>>
    BY <1>7 DEF TerminateTake
  <2>2. CASE Known(s)
    <3>1. UNCHANGED <<outcome, queue["send"]>>
      BY <1>7, <1>0, <2>2 DEF TerminateTake
    <3> QED
      BY <2>1, <3>1, WritingKept
  <2>3. CASE ~Known(s)
    <3>1. outcome' # "running"
      BY <1>7, <2>3 DEF TerminateTake, Fail
    <3> QED
      BY <2>1, <3>1, WritingOver
  <2> QED
    BY <2>2, <2>3
<1>8. ASSUME TerminateClose PROVE WritingInv'
  <2>1. UNCHANGED <<sends, written, sending, writing, outcome, queue["send"]>>
    BY <1>8, <1>0 DEF TerminateClose
  <2> QED
    BY <2>1, WritingKept
<1>9. ASSUME TerminateEnd PROVE WritingInv'
  <2>1. UNCHANGED <<sends, written, sending, writing, outcome, queue["send"]>>
    BY <1>9, <1>0 DEF TerminateEnd
  <2> QED
    BY <2>1, WritingKept
<1>10. ASSUME SendWrite \/ Credit PROVE WritingInv'
  <2> DEFINE q == queue["send"]
  <2>1. PICK w \in Writes, rest \in Seq(Commands) :
          /\ Written(w, rest) /\ outcome = "running" /\ sending # "over"
          /\ \/ Doing = <<>> /\ q # <<>> /\ w.command = Head(q) /\ rest = Tail(q)
             \/ Doing = <<w.command>> /\ rest = q
    BY <1>10, WrittenFacts
  <2>2. /\ written' = Append(written, w) /\ UNCHANGED <<sends, outcome>>
        /\ sending' = (IF w.command.finished THEN "over" ELSE "next")
        /\ sending' # "over" => queue'["send"] = rest
    BY <1>0, <2>1 DEF Written
  <2>3. w.command \in Commands /\ written \in Seq(Writes) /\ rest \in Seq(Commands)
    BY SendFacts DEF Writes, TypeOK
  <2>4. Rest(sends, Doing, q) /\ Before(sends, Doing, q) = Len(written)
    BY <2>1 DEF WritingInv
  <2>5. Rest(sends, <<w.command>>, rest) /\ Before(sends, <<w.command>>, rest) = Len(written)
    <3>1. CASE Doing = <<>> /\ q # <<>> /\ w.command = Head(q) /\ rest = Tail(q)
      <4>1. Append(<<>>, Head(q)) = <<w.command>>
        BY <3>1
      <4>2. Rest(sends, <<>>, q) /\ Before(sends, <<>>, q) = Len(written)
        BY <2>4, <3>1
      <4>3. /\ Rest(sends, Append(<<>>, Head(q)), Tail(q))
            /\ Before(sends, Append(<<>>, Head(q)), Tail(q)) = Before(sends, <<>>, q)
        BY <1>0, <3>1, <4>2, RestPull
      <4> QED
        BY <3>1, <4>1, <4>2, <4>3
    <3>2. CASE Doing = <<w.command>> /\ rest = q
      BY <2>4, <3>2
    <3> QED
      BY <2>1, <3>1, <3>2
  <2>6. /\ Rest(sends, <<>>, rest) /\ Before(sends, <<>>, rest) = Len(written) + 1
        /\ Len(written) + 1 \in 1..Len(sends) /\ sends[Len(written) + 1] = w.command
    <3> DEFINE one == <<w.command>>
    <3>1. one \in Seq(Commands) /\ one # <<>> /\ Head(one) = w.command /\ Tail(one) = <<>>
      BY <2>3
    <3>2. Rest(sends, one, rest) /\ Before(sends, one, rest) = Len(written)
      BY <2>5
    <3> HIDE DEF one
    <3>3. /\ Rest(sends, Tail(one), rest) /\ Before(sends, Tail(one), rest) = Before(sends, one, rest) + 1
          /\ Before(sends, one, rest) + 1 \in 1..Len(sends)
          /\ sends[Before(sends, one, rest) + 1] = Head(one)
      BY <1>0, <2>3, <3>1, <3>2, RestTake
    <3> QED
      BY <3>1, <3>2, <3>3
  <2> HIDE DEF q
  <2>8. /\ Len(written) \in Nat /\ Len(written') = Len(written) + 1
        /\ \A i \in 1..Len(written) : written'[i] = written[i]
        /\ written'[Len(written) + 1] = w
    BY <2>2, <2>3, AppendProperties
  <2>9. ASSUME NEW i \in 1..Len(written')
        PROVE  /\ written'[i].command = sends'[i]
               /\ written'[i].command.finished => i = Len(written') /\ sending' = "over"
    <3>1. i \in 1..Len(written) \/ i = Len(written) + 1
      BY <2>8, LastOrBefore
    <3>2. CASE i \in 1..Len(written)
      <4>1. written'[i].command = sends[i] /\ ~written[i].command.finished
        BY <2>1, <2>8, <3>2 DEF WritingInv
      <4> QED
        BY <2>2, <2>8, <3>2, <4>1
    <3>3. CASE i = Len(written) + 1
      BY <2>2, <2>6, <2>8, <3>3
    <3> QED
      BY <3>1, <3>2, <3>3
  <2>10. Len(written') <= Len(sends')
    <3>1. Len(sends) \in Nat
      BY <1>0
    <3> QED
      BY <2>2, <2>6, <2>8, <3>1
  <2>11. sending' # "over" => /\ Rest(sends', Doing', queue'["send"])
                             /\ Before(sends', Doing', queue'["send"]) = Len(written')
    <3>1. sending' # "over" => Doing' = <<>>
      BY <2>2 DEF Doing
    <3> QED
      BY <2>2, <2>6, <2>8, <3>1
  <2> QED
    BY <2>9, <2>10, <2>11 DEF WritingInv
<1>11. ASSUME SendInvalid PROVE WritingInv'
  <2>1. UNCHANGED <<sends, written, sending>> /\ outcome' # "running"
    BY <1>11 DEF SendInvalid, Fail
  <2> QED
    BY <2>1, WritingOver
<1>12. ASSUME SendFail PROVE WritingInv'
  <2>1. UNCHANGED <<sends, written, sending>> /\ outcome' # "running"
    BY <1>12 DEF SendFail, Fail
  <2> QED
    BY <2>1, WritingOver
<1>13. ASSUME SendEnd PROVE WritingInv'
  <2>1. UNCHANGED <<sends, written>> /\ sending' = "over"
    BY <1>13 DEF SendEnd
  <2> QED
    BY <2>1 DEF WritingInv
<1>14. ASSUME ReadyClient PROVE WritingInv'
  <2>1. UNCHANGED <<sends, written, sending, writing, outcome, queue["send"]>>
    BY <1>14, <1>0 DEF ReadyClient
  <2> QED
    BY <2>1, WritingKept
<1>15. ASSUME ReadySession PROVE WritingInv'
  <2>1. UNCHANGED <<sends, written, sending, writing, outcome>>
    BY <1>15 DEF ReadySession, Connect
  <2>2. UNCHANGED queue["send"]
    BY <1>15, <1>0, TakeQueue DEF ReadySession, Connect
  <2> QED
    BY <2>1, <2>2, WritingKept
<1>16. ASSUME ReadyError PROVE WritingInv'
  <2>1. UNCHANGED <<sends, written, sending, writing, outcome>>
    BY <1>16 DEF ReadyError, Connect
  <2>2. UNCHANGED queue["send"]
    BY <1>16, <1>0, TakeQueue DEF ReadyError, Connect
  <2> QED
    BY <2>1, <2>2, WritingKept
<1>17. ASSUME ReadyEnd PROVE WritingInv'
  <2>1. UNCHANGED <<sends, written, sending, writing, outcome, queue["send"]>>
    BY <1>17, <1>0 DEF ReadyEnd
  <2> QED
    BY <2>1, WritingKept
<1>18. ASSUME NEW p \in Polled, StreamLock(p) PROVE WritingInv'
  <2>1. UNCHANGED <<sends, written, sending, writing, outcome, queue["send"]>>
    BY <1>18, <1>0 DEF StreamLock
  <2> QED
    BY <2>1, WritingKept
<1>19. ASSUME NEW p \in Polled, StreamCreated(p) PROVE WritingInv'
  <2>1. UNCHANGED <<sends, written, sending, writing, outcome, queue["send"]>>
    BY <1>19, <1>0 DEF StreamCreated, StreamYield
  <2> QED
    BY <2>1, WritingKept
<1>20. ASSUME NEW p \in Polled, StreamReceived(p) PROVE WritingInv'
  <2>1. UNCHANGED <<sends, written, sending, writing, outcome, queue["send"]>>
    BY <1>20, <1>0 DEF StreamReceived, StreamYield
  <2> QED
    BY <2>1, WritingKept
<1>21. ASSUME NEW p \in Polled, StreamError(p) PROVE WritingInv'
  <2>1. UNCHANGED <<sends, written, sending, writing, outcome, queue["send"]>>
    BY <1>21, <1>0 DEF StreamError, StreamYield
  <2> QED
    BY <2>1, WritingKept
<1>22. ASSUME NEW s \in Sessions, NEW id \in StreamIds, BytesLock(s, id) PROVE WritingInv'
  <2>1. UNCHANGED <<sends, written, sending, writing, outcome, queue["send"]>>
    BY <1>22, <1>0 DEF BytesLock
  <2> QED
    BY <2>1, WritingKept
<1>23. ASSUME BytesYield PROVE WritingInv'
  <2>1. UNCHANGED <<sends, written, sending, writing, outcome, queue["send"]>>
    BY <1>23, <1>0 DEF BytesYield
  <2> QED
    BY <2>1, WritingKept
<1>24. ASSUME NEW b \in Builders, BuildFail(b) PROVE WritingInv'
  <2>1. UNCHANGED <<sends, written, sending>> /\ outcome' # "running"
    BY <1>24 DEF BuildFail, Fail
  <2> QED
    BY <2>1, WritingOver
<1>25. ASSUME NEW s \in Sessions, Lost(s) PROVE WritingInv'
  <2>1. UNCHANGED <<sends, written, sending, writing, outcome, queue["send"]>>
    BY <1>25, <1>0 DEF Lost
  <2> QED
    BY <2>1, WritingKept
<1>26. ASSUME NEW c \in Commands, SendCommand(c) PROVE WritingInv'
  <2>0. Publish(c) /\ UNCHANGED <<written, sending, writing, outcome>>
    BY <1>26 DEF SendCommand, Publish
  <2>1. CASE c.op = "SendBytes"
    <3>1. sends' = Append(sends, c) /\ c \in Commands /\ c \in Sends
      BY <2>0, <2>1, CommandKinds DEF Publish
    <3>2. /\ Len(sends') = Len(sends) + 1 /\ Len(sends) \in Nat
          /\ \A i \in 1..Len(sends) : sends'[i] = sends[i]
      BY <1>0, <3>1, AppendProperties
    <3>3. Len(written) <= Len(sends') /\ \A i \in 1..Len(written) : i \in 1..Len(sends)
      <4>1. Len(written) \in Nat /\ Len(written) <= Len(sends)
        BY DEF TypeOK, WritingInv
      <4> QED
        BY <3>2, <4>1
    <3>4. ASSUME outcome = "running", sending # "over"
          PROVE  /\ Rest(sends', Doing, queue'["send"])
                 /\ Before(sends', Doing, queue'["send"]) = Len(written)
      <4>1. Live("send")
        BY <3>4 DEF Live, Running, HandlersOver
      <4>2. Accepts("send", c)
        BY <2>1 DEF Accepts
      <4>3. queue'["send"] = Append(queue["send"], c)
        BY <1>0, <2>0, <4>1, <4>2 DEF Publish
      <4>4. Rest(sends, Doing, queue["send"]) /\ Before(sends, Doing, queue["send"]) = Len(written)
        BY <3>4 DEF WritingInv
      <4>5. Doing \in Seq(Commands)
        BY SendFacts DEF Doing, HeldInv, Writes
      <4> QED
        BY <1>0, <3>1, <4>3, <4>4, <4>5, RestSend
    <3>5. Doing' = Doing
      BY <2>0 DEF Doing
    <3> QED
      BY <2>0, <3>2, <3>3, <3>4, <3>5 DEF WritingInv
  <2>2. CASE c.op # "SendBytes"
    <3>1. UNCHANGED sends
      BY <2>0, <2>2 DEF Publish
    <3>2. UNCHANGED queue["send"]
      BY <1>0, <2>0, <2>2 DEF Publish, Accepts
    <3> QED
      BY <2>0, <3>1, <3>2, WritingKept
  <2> QED
    BY <2>1, <2>2
<1>27. ASSUME CloseSink PROVE WritingInv'
  <2>1. UNCHANGED <<sends, written, sending, writing, outcome, queue["send"]>>
    BY <1>27, <1>0 DEF CloseSink
  <2> QED
    BY <2>1, WritingKept
<1>28. ASSUME DropSource PROVE WritingInv'
  <2>1. UNCHANGED <<sends, written, sending, writing, outcome, queue["send"]>>
    BY <1>28, <1>0 DEF DropSource
  <2> QED
    BY <2>1, WritingKept
<1>29. CASE UNCHANGED vars
  <2>1. UNCHANGED <<sends, written, sending, writing, outcome, queue["send"]>>
    BY <1>29 DEF vars
  <2> QED
    BY <2>1, WritingKept
<1>30. ASSUME SendWait PROVE WritingInv'
  <2> DEFINE q == queue["send"]
  <2>1. /\ q # <<>> /\ outcome = "running" /\ sending = "next" /\ NextWrite.command = Head(q)
        /\ writing' = NextWrite /\ sending' = "write" /\ queue'["send"] = Tail(q)
        /\ UNCHANGED <<sends, written, outcome>>
    BY <1>30, <1>0, NextWriteFacts DEF SendWait
  <2>2. Doing = <<>> /\ Doing' = Append(<<>>, Head(q))
    BY <2>1 DEF Doing
  <2>3. Rest(sends, <<>>, q) /\ Before(sends, <<>>, q) = Len(written)
    BY <2>1, <2>2 DEF WritingInv
  <2>4. /\ Rest(sends, Append(<<>>, Head(q)), Tail(q))
        /\ Before(sends, Append(<<>>, Head(q)), Tail(q)) = Before(sends, <<>>, q)
    BY <1>0, <2>1, <2>3, RestPull
  <2>5. \A i \in 1..Len(written) : ~written[i].command.finished
    BY <2>1 DEF WritingInv
  <2> QED
    BY <2>1, <2>2, <2>3, <2>4, <2>5 DEF WritingInv
<1>31. ASSUME Stop PROVE WritingInv'
  <2>1. /\ sending = "write" /\ sending' = "stopped"
        /\ UNCHANGED <<sends, written, writing, outcome, queue["send"]>>
    BY <1>31 DEF Stop
  <2>2. Doing' = Doing
    BY <2>1 DEF Doing
  <2> QED
    BY <2>1, <2>2 DEF WritingInv
<1>32. ASSUME NEW b \in Builders, ConfigurePanic(b) PROVE WritingInv'
  <2>1. UNCHANGED <<sends, written, sending>> /\ outcome' # "running"
    BY <1>32 DEF ConfigurePanic, Fail
  <2> QED
    BY <2>1, WritingOver
<1>33. ASSUME DefaultFail PROVE WritingInv'
  <2>1. UNCHANGED <<sends, written, sending>> /\ outcome' # "running"
    BY <1>33 DEF DefaultFail, Fail
  <2> QED
    BY <2>1, WritingOver
<1> HIDE DEF sinkVars, queueVars, clientVars, handlerVars, terminateVars, sendVars,
     readyVars, streamVars
<1> QED
  BY <1>1, <1>2, <1>3, <1>4, <1>5, <1>6, <1>7, <1>8, <1>9, <1>10, <1>11, <1>12, <1>13,
     <1>14, <1>15, <1>16, <1>17, <1>18, <1>19, <1>20, <1>21, <1>22, <1>23, <1>24, <1>25,
     <1>26, <1>27, <1>28, <1>29, <1>30, <1>31, <1>32, <1>33, <1>0
  DEF Next, DriverStep, ReadyStep, SourceStep, Network, Environment

-----------------------------------------------------------------------------
(* The clients.                                                            *)

\* The builders of commands, as commands are added and taken.
LEMMA BuildersFacts ==
  ASSUME NEW q \in Seq(Commands), \A k \in 1..Len(q) : q[k].op = "ConfigureClient"
  PROVE  /\ BuildersOf(q) \in Seq(Builders) /\ BuildersOf(q) \in Seq(Clients)
         /\ Len(BuildersOf(q)) = Len(q) /\ Len(q) \in Nat
         /\ \A k \in 1..Len(q) : BuildersOf(q)[k] = q[k].builder
<1>1. Len(q) \in Nat /\ \A k \in 1..Len(q) : q[k].builder \in Builders
  BY ElementOfSeq, CommandKinds
<1>2. BuildersOf(q) \in Seq(Builders) /\ Builders \subseteq Clients
  BY <1>1 DEF BuildersOf, Clients
<1>3. BuildersOf(q) \in Seq(Clients)
  BY <1>2, SeqMonotonic
<1> QED
  BY <1>1, <1>2, <1>3 DEF BuildersOf

\* One more command has one more builder.
LEMMA BuildersAppend ==
  ASSUME NEW q \in Seq(Commands), \A k \in 1..Len(q) : q[k].op = "ConfigureClient",
         NEW c \in Commands, c.op = "ConfigureClient"
  PROVE  /\ BuildersOf(Append(q, c)) = Append(BuildersOf(q), c.builder)
         /\ \A k \in 1..Len(Append(q, c)) : Append(q, c)[k].op = "ConfigureClient"
<1>1. /\ Append(q, c) \in Seq(Commands) /\ Len(Append(q, c)) = Len(q) + 1 /\ Len(q) \in Nat
      /\ \A k \in 1..Len(q) : Append(q, c)[k] = q[k]
      /\ Append(q, c)[Len(q) + 1] = c
  BY AppendProperties
<1>2. ASSUME NEW k \in 1..(Len(q) + 1)
      PROVE  /\ Append(q, c)[k].op = "ConfigureClient"
             /\ k \in 1..Len(q) => Append(q, c)[k].builder = q[k].builder
  <2>1. k \in 1..Len(q) \/ k = Len(q) + 1
    BY <1>1, LastOrBefore
  <2> QED
    BY <1>1, <2>1
<1>3. /\ BuildersOf(q) \in Seq(Builders) /\ Len(BuildersOf(q)) = Len(q)
      /\ \A k \in 1..Len(q) : BuildersOf(q)[k] = q[k].builder
  BY BuildersFacts
<1>4. /\ BuildersOf(Append(q, c)) \in Seq(Builders) /\ Len(BuildersOf(Append(q, c))) = Len(q) + 1
      /\ \A k \in 1..(Len(q) + 1) : BuildersOf(Append(q, c))[k] = Append(q, c)[k].builder
  BY <1>1, <1>2, BuildersFacts
<1>5. /\ Append(BuildersOf(q), c.builder) \in Seq(Builders)
      /\ Len(Append(BuildersOf(q), c.builder)) = Len(q) + 1
      /\ \A k \in 1..Len(q) : Append(BuildersOf(q), c.builder)[k] = BuildersOf(q)[k]
      /\ Append(BuildersOf(q), c.builder)[Len(q) + 1] = c.builder
  BY <1>3, CommandKinds, AppendProperties
<1>6. ASSUME NEW k \in 1..(Len(q) + 1)
      PROVE  BuildersOf(Append(q, c))[k] = Append(BuildersOf(q), c.builder)[k]
  <2>1. CASE k \in 1..Len(q)
    BY <1>2, <1>3, <1>4, <1>5, <2>1
  <2>2. CASE k = Len(q) + 1
    BY <1>1, <1>4, <1>5, <2>2
  <2> QED
    BY <1>1, <2>1, <2>2, LastOrBefore
<1> QED
  BY <1>1, <1>2, <1>4, <1>5, <1>6, SeqEqual

\* What is taken leaves the builders of the other commands.
LEMMA BuildersTail ==
  ASSUME NEW q \in Seq(Commands), \A k \in 1..Len(q) : q[k].op = "ConfigureClient", q # <<>>
  PROVE  /\ BuildersOf(q) # <<>> /\ Head(BuildersOf(q)) = Head(q).builder
         /\ BuildersOf(Tail(q)) = Tail(BuildersOf(q))
         /\ \A k \in 1..Len(Tail(q)) : Tail(q)[k].op = "ConfigureClient"
<1>1. /\ Tail(q) \in Seq(Commands) /\ Len(Tail(q)) = Len(q) - 1 /\ Len(q) \in Nat /\ Len(q) >= 1
      /\ \A k \in 1..Len(Tail(q)) : Tail(q)[k] = q[k + 1]
      /\ Head(q) = q[1]
  BY HeadTailProperties
<1>2. \A k \in 1..Len(Tail(q)) : k + 1 \in 1..Len(q) /\ k \in 1..(Len(q) - 1)
  BY <1>1
<1>3. /\ BuildersOf(q) \in Seq(Builders) /\ Len(BuildersOf(q)) = Len(q)
      /\ \A k \in 1..Len(q) : BuildersOf(q)[k] = q[k].builder
  BY BuildersFacts
<1>4. BuildersOf(q) # <<>> /\ Head(BuildersOf(q)) = q[1].builder
  <2>1. 1 \in 1..Len(q)
    BY <1>1
  <2>2. BuildersOf(q) # <<>>
    BY <1>1, <1>3, EmptySeq
  <2> QED
    BY <1>3, <2>1, <2>2
<1>5. /\ Tail(BuildersOf(q)) \in Seq(Builders) /\ Len(Tail(BuildersOf(q))) = Len(q) - 1
      /\ \A k \in 1..(Len(q) - 1) : Tail(BuildersOf(q))[k] = BuildersOf(q)[k + 1]
  BY <1>3, <1>4, HeadTailProperties
<1>6. \A k \in 1..Len(Tail(q)) : Tail(q)[k].op = "ConfigureClient"
  BY <1>1, <1>2
<1>7. /\ BuildersOf(Tail(q)) \in Seq(Builders) /\ Len(BuildersOf(Tail(q))) = Len(q) - 1
      /\ \A k \in 1..Len(Tail(q)) : BuildersOf(Tail(q))[k] = Tail(q)[k].builder
  BY <1>1, <1>6, BuildersFacts
<1>8. ASSUME NEW k \in 1..Len(Tail(q)) PROVE BuildersOf(Tail(q))[k] = Tail(BuildersOf(q))[k]
  BY <1>1, <1>2, <1>3, <1>5, <1>7
<1>9. BuildersOf(Tail(q)) = Tail(BuildersOf(q))
  BY <1>1, <1>5, <1>7, <1>8, SeqEqual
<1> QED
  BY <1>1, <1>4, <1>6, <1>9

\* A chain that nothing is added to.
LEMMA ChainKept ==
  ASSUME NEW chain, NEW bs, NEW def \in BOOLEAN, NEW blt, NEW on \in BOOLEAN, NEW hand,
         NEW ahead, Chained(chain, bs, def, blt, on, hand, ahead),
         NEW def2 \in BOOLEAN, NEW on2 \in BOOLEAN, NEW hand2, NEW ahead2,
         def2 => def, on2 => on /\ hand2 = hand /\ ahead2 = ahead
  PROVE  Chained(chain, bs, def2, blt, on2, hand2, ahead2)
BY DEF Chained

\* The next client is taken in hand.
LEMMA ChainTake ==
  ASSUME NEW chain \in Seq(Clients), NEW bs, NEW def, NEW blt, NEW on,
         NEW ahead \in Seq(Clients), ahead # <<>>, Chained(chain, bs, def, blt, on, <<>>, ahead)
  PROVE  Chained(chain, bs, def, blt, on, <<Head(ahead)>>, Tail(ahead))
<1>1. <<>> \in Seq(Clients) /\ Head(ahead) \in Clients /\ Append(<<>>, Head(ahead)) = <<Head(ahead)>>
  BY HeadTailProperties
<1>2. ASSUME on
      PROVE  /\ Rest(chain, <<Head(ahead)>>, Tail(ahead))
             /\ Before(chain, <<Head(ahead)>>, Tail(ahead)) = Len(blt)
  <2>1. Rest(chain, <<>>, ahead) /\ Before(chain, <<>>, ahead) = Len(blt)
    BY <1>2 DEF Chained
  <2>2. /\ Rest(chain, Append(<<>>, Head(ahead)), Tail(ahead))
        /\ Before(chain, Append(<<>>, Head(ahead)), Tail(ahead)) = Before(chain, <<>>, ahead)
    <3>1. <<>> \in Seq(Clients)
      OBVIOUS
    <3> QED
      BY <2>1, <3>1, RestPull
  <2> QED
    BY <1>1, <2>1, <2>2
<1> QED
  BY <1>2 DEF Chained

\* The client in hand is built.
LEMMA ChainBuilt ==
  ASSUME NEW chain \in Seq(Clients), NEW bs, NEW def, NEW blt \in Seq(Clients), NEW x \in Clients,
         NEW ahead \in Seq(Clients), Chained(chain, bs, def, blt, TRUE, <<x>>, ahead)
  PROVE  Chained(chain, bs, def, Append(blt, x), TRUE, <<>>, ahead)
<1>1. Rest(chain, <<x>>, ahead) /\ Before(chain, <<x>>, ahead) = Len(blt)
  BY DEF Chained
<1>2. <<x>> \in Seq(Clients) /\ <<x>> # <<>> /\ Head(<<x>>) = x /\ Tail(<<x>>) = <<>>
  OBVIOUS
<1>3. /\ Rest(chain, Tail(<<x>>), ahead)
      /\ Before(chain, Tail(<<x>>), ahead) = Before(chain, <<x>>, ahead) + 1
      /\ Before(chain, <<x>>, ahead) + 1 \in 1..Len(chain)
      /\ chain[Before(chain, <<x>>, ahead) + 1] = Head(<<x>>)
  BY <1>1, <1>2, RestTake
<1>4. /\ Rest(chain, <<>>, ahead) /\ Before(chain, <<>>, ahead) = Len(blt) + 1
      /\ Len(blt) + 1 \in 1..Len(chain) /\ chain[Len(blt) + 1] = x
  BY <1>1, <1>2, <1>3
<1>5. /\ Len(Append(blt, x)) = Len(blt) + 1 /\ Len(blt) \in Nat /\ Len(chain) \in Nat
      /\ \A i \in 1..Len(blt) : Append(blt, x)[i] = blt[i]
      /\ Append(blt, x)[Len(blt) + 1] = x
  BY AppendProperties
<1>6. ASSUME NEW i \in 1..(Len(blt) + 1) PROVE Append(blt, x)[i] = chain[i]
  <2>1. CASE i \in 1..Len(blt)
    BY <1>5, <2>1 DEF Chained
  <2>2. CASE i = Len(blt) + 1
    BY <1>4, <1>5, <2>2
  <2> QED
    BY <1>5, <2>1, <2>2, LastOrBefore
<1>7. Len(blt) + 1 <= Len(chain)
  BY <1>4, <1>5
<1> QED
  BY <1>4, <1>5, <1>6, <1>7 DEF Chained

\* A builder comes last in the chain, and in what is ahead.
LEMMA ChainSend ==
  ASSUME NEW chain \in Seq(Clients), NEW bs, NEW def, NEW blt \in Seq(Clients), NEW on,
         NEW hand \in Seq(Clients), NEW ahead \in Seq(Clients), NEW b \in Clients, NEW ahead2,
         Chained(chain, bs, def, blt, on, hand, ahead), on => ahead2 = Append(ahead, b)
  PROVE  Chained(Append(chain, b), Append(bs, b), def, blt, on, hand, ahead2)
<1>1. /\ Len(Append(chain, b)) = Len(chain) + 1 /\ Len(chain) \in Nat /\ Len(blt) \in Nat
      /\ \A i \in 1..Len(chain) : Append(chain, b)[i] = chain[i]
  BY AppendProperties
<1>2. Len(blt) <= Len(chain)
  BY DEF Chained
<1>3. Len(blt) <= Len(Append(chain, b)) /\ \A i \in 1..Len(blt) : i \in 1..Len(chain)
  BY <1>1, <1>2
<1>4. ASSUME on PROVE /\ Rest(Append(chain, b), hand, ahead2)
                      /\ Before(Append(chain, b), hand, ahead2) = Len(blt)
  <2>1. Rest(chain, hand, ahead) /\ Before(chain, hand, ahead) = Len(blt)
    BY <1>4 DEF Chained
  <2>2. /\ Rest(Append(chain, b), hand, Append(ahead, b))
        /\ Before(Append(chain, b), hand, Append(ahead, b)) = Before(chain, hand, ahead)
    BY <2>1, RestSend
  <2>3. ahead2 = Append(ahead, b)
    BY <1>4
  <2> QED
    BY <2>1, <2>2, <2>3
<1> QED
  BY <1>1, <1>3, <1>4 DEF Chained

\* What is in hand.
LEMMA HandFacts ==
  /\ Hand(NoClient) = <<>>
  /\ \A x \in Clients : Hand(x) = <<x>>
  /\ \A x \in Clients \cup {NoClient} : Hand(x) \in Seq(Clients)
<1>1. NoClient \notin Clients
  BY ClientsAssumption DEF Clients
<1>2. Hand(NoClient) = <<>> /\ \A x \in Clients : Hand(x) = <<x>>
  BY <1>1 DEF Hand
<1>3. <<>> \in Seq(Clients) /\ \A x \in Clients : <<x>> \in Seq(Clients)
  OBVIOUS
<1> QED
  BY <1>2, <1>3

\* The chains.
LEMMA Chains ==
  ASSUME TypeOK
  PROVE  /\ builders \in Seq(Clients) /\ <<Default>> \o builders \in Seq(Clients)
         /\ Len(<<Default>> \o builders) = Len(builders) + 1 /\ Len(builders) \in Nat
         /\ <<Default>> \o builders # builders
         /\ \A b : <<Default>> \o Append(builders, b) = Append(<<Default>> \o builders, b)
<1>1. builders \in Seq(Builders) /\ Builders \subseteq Clients /\ <<Default>> \in Seq(Clients)
  BY DEF TypeOK, Clients
<1>2. builders \in Seq(Clients)
  BY <1>1, SeqMonotonic
<1> QED
  BY <1>1, <1>2

\* What keeps the builders, and the clients that have been built and are in hand.
LEMMA BuiltKept ==
  ASSUME TypeOK, TypeOK', BuiltInv, UNCHANGED <<builders, built, building>>,
         defaulting' => defaulting, Building' => Building /\ UNCHANGED queue["configure"],
         queue'["configure"] = queue["configure"] \/ queue'["configure"] = <<>>
  PROVE  BuiltInv'
<1>1. defaulting \in BOOLEAN /\ defaulting' \in BOOLEAN /\ Building \in BOOLEAN /\ Building' \in BOOLEAN
  BY DEF TypeOK, Building
<1>2. Follows(builders) => Follows(builders)'
  BY <1>1, ChainKept DEF Follows
<1>3. Follows(<<Default>> \o builders) => Follows(<<Default>> \o builders)'
  BY <1>1, ChainKept DEF Follows
<1>4. \A k \in 1..Len(queue'["configure"]) : queue'["configure"][k].op = "ConfigureClient"
  BY DEF BuiltInv
<1> QED
  BY <1>2, <1>3, <1>4 DEF BuiltInv

\* Every step keeps the clients in their chain.
LEMMA BuiltStep ==
  TypeOK /\ HandsInv /\ QueuedInv /\ StreamsInv /\ HeldInv /\ UnlessInv /\ BuiltInv
    /\ [Next]_vars => BuiltInv'
<1> SUFFICES ASSUME TypeOK, HandsInv, QueuedInv, StreamsInv, HeldInv, UnlessInv, BuiltInv,
                    [Next]_vars
             PROVE BuiltInv'
  OBVIOUS
<1> USE DEF sinkVars, queueVars, clientVars, handlerVars, terminateVars, sendVars,
     readyVars, streamVars
<1>0. /\ queue \in [Handles -> Seq(Commands)] /\ TypeOK'
      /\ "configure" \in Handles /\ "unless" \in Handles /\ "first" \in Handles
      /\ "terminate" \in Handles /\ "send" \in Handles /\ "ready" \in Handles
      /\ queue["configure"] \in Seq(Commands)
  BY TypingStep DEF TypeOK, Handles
<1>1. ASSUME NEW b \in Builders, ConfigureBuild(b) PROVE BuiltInv'
  <2> DEFINE q == queue["configure"]
  <2>1. /\ q # <<>> /\ Head(q) = ConfigureClient(b) /\ queue'["configure"] = Tail(q)
    BY <1>1, <1>0, BuilderTake, TakeQueue DEF ConfigureBuild
  <2>2. /\ UNCHANGED <<builders, built, defaulting, outcome>> /\ building' = b
        /\ configuring = "next" /\ configuring' = "reserve" /\ outcome = "running"
    BY <1>1 DEF ConfigureBuild, NextBuilder, Polls, Live, Running
  <2>3. /\ BuildersOf(q) \in Seq(Clients) /\ BuildersOf(q) # <<>> /\ Head(BuildersOf(q)) = b
        /\ BuildersOf(Tail(q)) = Tail(BuildersOf(q))
        /\ \A k \in 1..Len(Tail(q)) : Tail(q)[k].op = "ConfigureClient"
    BY <1>0, <2>1, BuildersFacts, BuildersTail DEF BuiltInv, ConfigureClient
  <2>4. building = NoClient
    BY <2>2 DEF HandsInv
  <2>5. b \in Clients /\ Hand(building) = <<>> /\ Hand(building') = <<Head(BuildersOf(q))>>
    BY <2>2, <2>3, <2>4, HandFacts DEF Clients
  <2>6. Building = Building'
    BY <2>2 DEF Building
  <2>7. Follows(builders) => Follows(builders)'
    BY <2>1, <2>2, <2>3, <2>5, <2>6, Chains, ChainTake DEF Follows
  <2>8. Follows(<<Default>> \o builders) => Follows(<<Default>> \o builders)'
    BY <2>1, <2>2, <2>3, <2>5, <2>6, Chains, ChainTake DEF Follows
  <2> QED
    BY <2>1, <2>3, <2>7, <2>8 DEF BuiltInv
<1>2. ASSUME ConfigureSend PROVE BuiltInv'
  <2> DEFINE q == queue["configure"]
  <2>1. /\ UNCHANGED <<builders, defaulting, outcome, queue>> /\ building' = NoClient
        /\ built' = Append(built, building)
        /\ configuring = "reserve" /\ configuring' = "next" /\ outcome = "running"
    BY <1>2 DEF ConfigureSend, Running
  <2>2. building \in Clients /\ built \in Seq(Clients)
    BY <2>1 DEF HandsInv, TypeOK
  <2>3. Hand(building) = <<building>> /\ Hand(building') = <<>>
    BY <2>1, <2>2, HandFacts
  <2>4. BuildersOf(q) \in Seq(Clients)
    BY <1>0, BuildersFacts DEF BuiltInv
  <2>5. Building = TRUE /\ Building' = TRUE
    BY <2>1 DEF Building
  <2>6. Follows(builders) => Follows(builders)'
    BY <2>1, <2>2, <2>3, <2>4, <2>5, Chains, ChainBuilt DEF Follows
  <2>7. Follows(<<Default>> \o builders) => Follows(<<Default>> \o builders)'
    BY <2>1, <2>2, <2>3, <2>4, <2>5, Chains, ChainBuilt DEF Follows
  <2> QED
    BY <2>1, <2>6, <2>7 DEF BuiltInv
<1>3. ASSUME DefaultSend PROVE BuiltInv'
  <2> DEFINE q == queue["configure"]
  <2>1. /\ defaulting /\ queue["unless"] = <<>> /\ outcome = "running"
        /\ configuring # "over" /\ UNCHANGED <<builders, building, configuring, outcome>>
        /\ built' = Append(built, Default) /\ defaulting' = FALSE /\ UNCHANGED queue["configure"]
    BY <1>3, <1>0, DefaultQueues DEF DefaultSend, DefaultPolled, Running
  <2>2. builders = <<>>
    BY <2>1 DEF UnlessInv
  <2>3. Follows(builders)
    <3>1. ASSUME Follows(<<Default>> \o builders) PROVE FALSE
      BY <2>1, <3>1, Chains DEF Follows, Chained
    <3> QED
      BY <3>1 DEF BuiltInv
  <2>4. built \in Seq(Clients) /\ building \in Clients \cup {NoClient}
    BY DEF TypeOK
  <2>5. /\ Hand(building) \in Seq(Clients) /\ BuildersOf(q) \in Seq(Clients)
        /\ Len(Hand(building)) \in Nat /\ Len(BuildersOf(q)) \in Nat /\ Len(built) \in Nat
    <3>1. Hand(building) \in Seq(Clients)
      BY <2>4, HandFacts
    <3>2. BuildersOf(q) \in Seq(Clients)
      BY <1>0, BuildersFacts DEF BuiltInv
    <3> QED
      BY <2>4, <3>1, <3>2, LenProperties
  <2>6. /\ Len(built) <= Len(builders) /\ Len(builders) = 0
        /\ Before(builders, Hand(building), BuildersOf(q)) \in Nat
    BY <2>1, <2>2, <2>3 DEF Follows, Chained, Building, Rest
  <2>7. Len(built) = 0 /\ Len(Hand(building)) = 0 /\ Len(BuildersOf(q)) = 0
    BY <2>5, <2>6 DEF Before
  <2>8. built = <<>> /\ Hand(building) = <<>> /\ BuildersOf(q) = <<>>
    BY <2>4, <2>5, <2>7, EmptySeq
  <2>9. built' = <<Default>> /\ <<Default>> \o builders = <<Default>>
    BY <2>1, <2>2, <2>8
  <2>10. Follows(<<Default>> \o builders)'
    <3>1. /\ Len(<<Default>>) = 1 /\ Before(<<Default>>, <<>>, <<>>) = 1
          /\ Rest(<<Default>>, <<>>, <<>>)
      BY DEF Before, Rest
    <3>2. Chained(<<Default>>, builders, FALSE, <<Default>>, TRUE, <<>>, <<>>)
      BY <3>1 DEF Chained
    <3>3. Building' = TRUE
      BY <2>1 DEF Building
    <3> QED
      BY <2>1, <2>8, <2>9, <3>2, <3>3 DEF Follows
  <2> QED
    BY <2>1, <2>10 DEF BuiltInv
<1>4. ASSUME DefaultOff PROVE BuiltInv'
  <2>1. /\ UNCHANGED <<builders, built, building, outcome, configuring, queue["configure"]>>
        /\ defaulting' = FALSE
    BY <1>4, <1>0, DefaultQueues DEF DefaultOff
  <2> QED
    BY <1>0, <2>1, BuiltKept DEF Building
<1>5. ASSUME ClientUnreceived PROVE BuiltInv'
  <2>1. UNCHANGED <<builders, built, building, defaulting>> /\ outcome' # "running"
    BY <1>5 DEF ClientUnreceived, Fail
  <2>2. queue'["configure"] = <<>>
    BY <1>5, <1>0, Fails DEF ClientUnreceived, Outcomes
  <2> QED
    BY <1>0, <2>1, <2>2, BuiltKept DEF Building
<1>6. ASSUME ConfigureEnd PROVE BuiltInv'
  <2>1. /\ UNCHANGED <<builders, built, building, outcome, queue["configure"]>>
        /\ defaulting' = FALSE /\ configuring' = "over"
    BY <1>6, <1>0, DefaultQueues DEF ConfigureEnd
  <2> QED
    BY <1>0, <2>1, BuiltKept DEF Building
<1>7. ASSUME NEW s \in Sessions, TerminateTake(s) PROVE BuiltInv'
  <2>1. UNCHANGED <<builders, built, building, defaulting, configuring>>
    BY <1>7 DEF TerminateTake
  <2>2. CASE Known(s)
    <3>1. UNCHANGED <<outcome, queue["configure"]>>
      BY <1>7, <1>0, <2>2 DEF TerminateTake
    <3> QED
      BY <1>0, <2>1, <3>1, BuiltKept DEF Building
  <2>3. CASE ~Known(s)
    <3>1. outcome' # "running" /\ queue'["configure"] = <<>>
      BY <1>7, <1>0, <2>3 DEF TerminateTake, Fail
    <3> QED
      BY <1>0, <2>1, <3>1, BuiltKept DEF Building
  <2> QED
    BY <2>2, <2>3
<1>8. ASSUME TerminateClose PROVE BuiltInv'
  <2>1. UNCHANGED <<builders, built, building, defaulting, outcome, configuring,
                    queue["configure"]>>
    BY <1>8, <1>0 DEF TerminateClose
  <2> QED
    BY <1>0, <2>1, BuiltKept DEF Building
<1>9. ASSUME TerminateEnd PROVE BuiltInv'
  <2>1. UNCHANGED <<builders, built, building, defaulting, outcome, configuring,
                    queue["configure"]>>
    BY <1>9, <1>0 DEF TerminateEnd
  <2> QED
    BY <1>0, <2>1, BuiltKept DEF Building
<1>10. ASSUME SendWrite \/ Credit PROVE BuiltInv'
  <2>1. UNCHANGED <<builders, built, building, defaulting, outcome, configuring,
                    queue["configure"]>>
    BY <1>10, <1>0 DEF SendWrite, Credit, Written
  <2> QED
    BY <1>0, <2>1, BuiltKept DEF Building
<1>11. ASSUME SendInvalid PROVE BuiltInv'
  <2>1. UNCHANGED <<builders, built, building, defaulting>> /\ outcome' # "running"
    BY <1>11 DEF SendInvalid, Fail
  <2>2. queue'["configure"] = <<>>
    BY <1>11, <1>0, Fails DEF SendInvalid, Outcomes
  <2> QED
    BY <1>0, <2>1, <2>2, BuiltKept DEF Building
<1>12. ASSUME SendFail PROVE BuiltInv'
  <2>1. UNCHANGED <<builders, built, building, defaulting>> /\ outcome' # "running"
    BY <1>12 DEF SendFail, Fail
  <2>2. queue'["configure"] = <<>>
    BY <1>12, <1>0, Fails DEF SendFail, Outcomes
  <2> QED
    BY <1>0, <2>1, <2>2, BuiltKept DEF Building
<1>13. ASSUME SendEnd PROVE BuiltInv'
  <2>1. UNCHANGED <<builders, built, building, defaulting, outcome, configuring,
                    queue["configure"]>>
    BY <1>13, <1>0 DEF SendEnd
  <2> QED
    BY <1>0, <2>1, BuiltKept DEF Building
<1>14. ASSUME ReadyClient PROVE BuiltInv'
  <2>1. UNCHANGED <<builders, built, building, defaulting, outcome, configuring,
                    queue["configure"]>>
    BY <1>14, <1>0 DEF ReadyClient
  <2> QED
    BY <1>0, <2>1, BuiltKept DEF Building
<1>15. ASSUME ReadySession PROVE BuiltInv'
  <2>1. UNCHANGED <<builders, built, building, defaulting, outcome, configuring>>
    BY <1>15 DEF ReadySession, Connect
  <2>2. UNCHANGED queue["configure"]
    BY <1>15, <1>0, TakeQueue DEF ReadySession, Connect
  <2> QED
    BY <1>0, <2>1, <2>2, BuiltKept DEF Building
<1>16. ASSUME ReadyError PROVE BuiltInv'
  <2>1. UNCHANGED <<builders, built, building, defaulting, outcome, configuring>>
    BY <1>16 DEF ReadyError, Connect
  <2>2. UNCHANGED queue["configure"]
    BY <1>16, <1>0, TakeQueue DEF ReadyError, Connect
  <2> QED
    BY <1>0, <2>1, <2>2, BuiltKept DEF Building
<1>17. ASSUME ReadyEnd PROVE BuiltInv'
  <2>1. UNCHANGED <<builders, built, building, defaulting, outcome, configuring,
                    queue["configure"]>>
    BY <1>17, <1>0 DEF ReadyEnd
  <2> QED
    BY <1>0, <2>1, BuiltKept DEF Building
<1>18. ASSUME NEW p \in Polled, StreamLock(p) PROVE BuiltInv'
  <2>1. UNCHANGED <<builders, built, building, defaulting, outcome, configuring,
                    queue["configure"]>>
    BY <1>18, <1>0 DEF StreamLock
  <2> QED
    BY <1>0, <2>1, BuiltKept DEF Building
<1>19. ASSUME NEW p \in Polled, StreamCreated(p) PROVE BuiltInv'
  <2>1. UNCHANGED <<builders, built, building, defaulting, outcome, configuring,
                    queue["configure"]>>
    BY <1>19, <1>0 DEF StreamCreated, StreamYield
  <2> QED
    BY <1>0, <2>1, BuiltKept DEF Building
<1>20. ASSUME NEW p \in Polled, StreamReceived(p) PROVE BuiltInv'
  <2>1. UNCHANGED <<builders, built, building, defaulting, outcome, configuring,
                    queue["configure"]>>
    BY <1>20, <1>0 DEF StreamReceived, StreamYield
  <2> QED
    BY <1>0, <2>1, BuiltKept DEF Building
<1>21. ASSUME NEW p \in Polled, StreamError(p) PROVE BuiltInv'
  <2>1. UNCHANGED <<builders, built, building, defaulting, outcome, configuring,
                    queue["configure"]>>
    BY <1>21, <1>0 DEF StreamError, StreamYield
  <2> QED
    BY <1>0, <2>1, BuiltKept DEF Building
<1>22. ASSUME NEW s \in Sessions, NEW id \in StreamIds, BytesLock(s, id) PROVE BuiltInv'
  <2>1. UNCHANGED <<builders, built, building, defaulting, outcome, configuring,
                    queue["configure"]>>
    BY <1>22, <1>0 DEF BytesLock
  <2> QED
    BY <1>0, <2>1, BuiltKept DEF Building
<1>23. ASSUME BytesYield PROVE BuiltInv'
  <2>1. UNCHANGED <<builders, built, building, defaulting, outcome, configuring,
                    queue["configure"]>>
    BY <1>23, <1>0 DEF BytesYield
  <2> QED
    BY <1>0, <2>1, BuiltKept DEF Building
<1>24. ASSUME NEW b \in Builders, BuildFail(b) PROVE BuiltInv'
  <2>1. UNCHANGED <<builders, built, building, defaulting>> /\ outcome' # "running"
    BY <1>24 DEF BuildFail, Fail
  <2>2. queue'["configure"] = <<>>
    BY <1>24, <1>0, Fails DEF BuildFail, Outcomes
  <2> QED
    BY <1>0, <2>1, <2>2, BuiltKept DEF Building
<1>25. ASSUME NEW s \in Sessions, Lost(s) PROVE BuiltInv'
  <2>1. UNCHANGED <<builders, built, building, defaulting, outcome, configuring,
                    queue["configure"]>>
    BY <1>25, <1>0 DEF Lost
  <2> QED
    BY <1>0, <2>1, BuiltKept DEF Building
<1>26. ASSUME NEW c \in Commands, SendCommand(c) PROVE BuiltInv'
  <2> DEFINE q == queue["configure"]
  <2>0. /\ Publish(c) /\ outcome = "running"
        /\ UNCHANGED <<built, building, defaulting, outcome, configuring>>
    BY <1>26 DEF SendCommand, Publish, Running
  <2>1. CASE c.op = "ConfigureClient"
    <3>1. builders' = Append(builders, c.builder) /\ c.builder \in Builders /\ c.builder \in Clients
      BY <2>0, <2>1, CommandKinds DEF Publish, Clients
    <3>2. Building' = Building
      BY <2>0 DEF Building
    <3>3. queue'["configure"] = IF Building THEN Append(q, c) ELSE q
      <4>1. Live("configure") <=> Building
        BY <2>0 DEF Live, Building, Publish
      <4>2. Accepts("configure", c)
        BY <2>1 DEF Accepts
      <4> QED
        BY <1>0, <2>0, <4>1, <4>2 DEF Publish
    <3>4. /\ BuildersOf(q) \in Seq(Clients) /\ Hand(building) \in Seq(Clients)
          /\ built \in Seq(Clients)
      BY <1>0, BuildersFacts, HandFacts DEF BuiltInv, TypeOK
    <3>5. /\ BuildersOf(Append(q, c)) = Append(BuildersOf(q), c.builder)
          /\ \A k \in 1..Len(Append(q, c)) : Append(q, c)[k].op = "ConfigureClient"
      BY <1>0, <2>1, BuildersAppend DEF BuiltInv
    <3>6. Building => BuildersOf(queue'["configure"]) = Append(BuildersOf(q), c.builder)
      BY <3>3, <3>5
    <3>7. Follows(builders) => Follows(builders)'
      BY <2>0, <3>1, <3>2, <3>4, <3>6, Chains, ChainSend DEF Follows
    <3>8. Follows(<<Default>> \o builders) => Follows(<<Default>> \o builders)'
      <4>1. /\ <<Default>> \o builders \in Seq(Clients)
            /\ <<Default>> \o builders' = Append(<<Default>> \o builders, c.builder)
        BY <3>1, Chains
      <4> QED
        BY <2>0, <3>1, <3>2, <3>4, <3>6, <4>1, ChainSend DEF Follows
    <3>9. \A k \in 1..Len(queue'["configure"]) : queue'["configure"][k].op = "ConfigureClient"
      BY <3>3, <3>5 DEF BuiltInv
    <3> QED
      BY <3>7, <3>8, <3>9 DEF BuiltInv
  <2>2. CASE c.op # "ConfigureClient"
    <3>1. UNCHANGED <<builders, queue["configure"]>>
      BY <1>0, <2>0, <2>2 DEF Publish, Accepts
    <3> QED
      BY <1>0, <2>0, <3>1, BuiltKept DEF Building
  <2> QED
    BY <2>1, <2>2
<1>27. ASSUME CloseSink PROVE BuiltInv'
  <2>1. UNCHANGED <<builders, built, building, defaulting, outcome, configuring,
                    queue["configure"]>>
    BY <1>27, <1>0 DEF CloseSink
  <2> QED
    BY <1>0, <2>1, BuiltKept DEF Building
<1>28. ASSUME DropSource PROVE BuiltInv'
  <2>1. UNCHANGED <<builders, built, building, defaulting, outcome, configuring,
                    queue["configure"]>>
    BY <1>28, <1>0 DEF DropSource
  <2> QED
    BY <1>0, <2>1, BuiltKept DEF Building
<1>29. CASE UNCHANGED vars
  <2>1. UNCHANGED <<builders, built, building, defaulting, outcome, configuring,
                    queue["configure"]>>
    BY <1>29 DEF vars
  <2> QED
    BY <1>0, <2>1, BuiltKept DEF Building
<1>30. ASSUME SendWait PROVE BuiltInv'
  <2>1. UNCHANGED <<builders, built, building, defaulting, outcome, configuring,
                    queue["configure"]>>
    BY <1>30, <1>0 DEF SendWait
  <2> QED
    BY <1>0, <2>1, BuiltKept DEF Building
<1>31. ASSUME Stop PROVE BuiltInv'
  <2>1. UNCHANGED <<builders, built, building, defaulting, outcome, configuring,
                    queue["configure"]>>
    BY <1>31, <1>0 DEF Stop
  <2> QED
    BY <1>0, <2>1, BuiltKept DEF Building
<1>32. ASSUME NEW b \in Builders, ConfigurePanic(b) PROVE BuiltInv'
  <2>1. UNCHANGED <<builders, built, building, defaulting>> /\ outcome' # "running"
    BY <1>32 DEF ConfigurePanic, Fail
  <2>2. queue'["configure"] = <<>>
    BY <1>32, <1>0, Fails DEF ConfigurePanic, Outcomes
  <2> QED
    BY <1>0, <2>1, <2>2, BuiltKept DEF Building
<1>33. ASSUME DefaultFail PROVE BuiltInv'
  <2>1. UNCHANGED <<builders, built, building, defaulting>> /\ outcome' # "running"
    BY <1>33 DEF DefaultFail, Fail
  <2>2. queue'["configure"] = <<>>
    BY <1>33, <1>0, Fails DEF DefaultFail, Outcomes
  <2> QED
    BY <1>0, <2>1, <2>2, BuiltKept DEF Building
<1> HIDE DEF sinkVars, queueVars, clientVars, handlerVars, terminateVars, sendVars,
     readyVars, streamVars
<1> QED
  BY <1>1, <1>2, <1>3, <1>4, <1>5, <1>6, <1>7, <1>8, <1>9, <1>10, <1>11, <1>12, <1>13,
     <1>14, <1>15, <1>16, <1>17, <1>18, <1>19, <1>20, <1>21, <1>22, <1>23, <1>24, <1>25,
     <1>26, <1>27, <1>28, <1>29, <1>30, <1>31, <1>32, <1>33, <1>0
  DEF Next, DriverStep, ReadyStep, SourceStep, Network, Environment

\* Every step keeps the default client from coming after another.
LEMMA UnlessStep == TypeOK /\ UnlessInv /\ [Next]_vars => UnlessInv'
<1> SUFFICES ASSUME TypeOK, UnlessInv, [Next]_vars PROVE UnlessInv'
  OBVIOUS
<1> USE DEF sinkVars, queueVars, clientVars, handlerVars, terminateVars, sendVars,
     readyVars, streamVars
<1>0. /\ queue \in [Handles -> Seq(Commands)]
      /\ "configure" \in Handles /\ "unless" \in Handles /\ "first" \in Handles
      /\ "terminate" \in Handles /\ "send" \in Handles /\ "ready" \in Handles
      /\ queue["unless"] \in Seq(Commands)
  BY DEF TypeOK, Handles
<1>1. ASSUME NEW b \in Builders, ConfigureBuild(b) PROVE UnlessInv'
  <2>1. UNCHANGED <<builders, defaulting, outcome>>
    BY <1>1 DEF ConfigureBuild
  <2>2. UNCHANGED queue["unless"]
    BY <1>1, <1>0, BuilderTake, TakeQueue DEF ConfigureBuild
  <2> QED
    BY <2>1, <2>2 DEF UnlessInv
<1>2. ASSUME ConfigureSend PROVE UnlessInv'
  <2>1. UNCHANGED <<builders, defaulting, outcome, queue["unless"]>>
    BY <1>2, <1>0 DEF ConfigureSend
  <2> QED
    BY <2>1 DEF UnlessInv
<1>3. ASSUME DefaultSend PROVE UnlessInv'
  <2>1. defaulting' = FALSE
    BY <1>3 DEF DefaultSend, DefaultOver
  <2> QED
    BY <2>1 DEF UnlessInv
<1>4. ASSUME DefaultOff PROVE UnlessInv'
  <2>1. defaulting' = FALSE
    BY <1>4 DEF DefaultOff, DefaultOver
  <2> QED
    BY <2>1 DEF UnlessInv
<1>5. ASSUME ClientUnreceived PROVE UnlessInv'
  <2>1. outcome' # "running"
    BY <1>5 DEF ClientUnreceived, Fail
  <2> QED
    BY <2>1 DEF UnlessInv
<1>6. ASSUME ConfigureEnd PROVE UnlessInv'
  <2>1. defaulting' = FALSE
    BY <1>6 DEF ConfigureEnd, DefaultOver
  <2> QED
    BY <2>1 DEF UnlessInv
<1>7. ASSUME NEW s \in Sessions, TerminateTake(s) PROVE UnlessInv'
  <2>1. UNCHANGED <<builders, defaulting>>
    BY <1>7 DEF TerminateTake
  <2>2. outcome' # "running" \/ UNCHANGED <<outcome, queue["unless"]>>
    BY <1>7, <1>0 DEF TerminateTake, Fail
  <2> QED
    BY <2>1, <2>2 DEF UnlessInv
<1>8. ASSUME TerminateClose PROVE UnlessInv'
  <2>1. UNCHANGED <<builders, defaulting, outcome, queue["unless"]>>
    BY <1>8, <1>0 DEF TerminateClose
  <2> QED
    BY <2>1 DEF UnlessInv
<1>9. ASSUME TerminateEnd PROVE UnlessInv'
  <2>1. UNCHANGED <<builders, defaulting, outcome, queue["unless"]>>
    BY <1>9, <1>0 DEF TerminateEnd
  <2> QED
    BY <2>1 DEF UnlessInv
<1>10. ASSUME SendWrite \/ Credit PROVE UnlessInv'
  <2>1. UNCHANGED <<builders, defaulting, outcome, queue["unless"]>>
    BY <1>10, <1>0 DEF SendWrite, Credit, Written
  <2> QED
    BY <2>1 DEF UnlessInv
<1>11. ASSUME SendInvalid PROVE UnlessInv'
  <2>1. outcome' # "running"
    BY <1>11 DEF SendInvalid, Fail
  <2> QED
    BY <2>1 DEF UnlessInv
<1>12. ASSUME SendFail PROVE UnlessInv'
  <2>1. outcome' # "running"
    BY <1>12 DEF SendFail, Fail
  <2> QED
    BY <2>1 DEF UnlessInv
<1>13. ASSUME SendEnd PROVE UnlessInv'
  <2>1. UNCHANGED <<builders, defaulting, outcome, queue["unless"]>>
    BY <1>13, <1>0 DEF SendEnd
  <2> QED
    BY <2>1 DEF UnlessInv
<1>14. ASSUME ReadyClient PROVE UnlessInv'
  <2>1. UNCHANGED <<builders, defaulting, outcome, queue["unless"]>>
    BY <1>14, <1>0 DEF ReadyClient
  <2> QED
    BY <2>1 DEF UnlessInv
<1>15. ASSUME ReadySession PROVE UnlessInv'
  <2>1. UNCHANGED <<builders, defaulting, outcome>>
    BY <1>15 DEF ReadySession, Connect
  <2>2. UNCHANGED queue["unless"]
    BY <1>15, <1>0, TakeQueue DEF ReadySession, Connect
  <2> QED
    BY <2>1, <2>2 DEF UnlessInv
<1>16. ASSUME ReadyError PROVE UnlessInv'
  <2>1. UNCHANGED <<builders, defaulting, outcome>>
    BY <1>16 DEF ReadyError, Connect
  <2>2. UNCHANGED queue["unless"]
    BY <1>16, <1>0, TakeQueue DEF ReadyError, Connect
  <2> QED
    BY <2>1, <2>2 DEF UnlessInv
<1>17. ASSUME ReadyEnd PROVE UnlessInv'
  <2>1. UNCHANGED <<builders, defaulting, outcome, queue["unless"]>>
    BY <1>17, <1>0 DEF ReadyEnd
  <2> QED
    BY <2>1 DEF UnlessInv
<1>18. ASSUME NEW p \in Polled, StreamLock(p) PROVE UnlessInv'
  <2>1. UNCHANGED <<builders, defaulting, outcome, queue["unless"]>>
    BY <1>18, <1>0 DEF StreamLock
  <2> QED
    BY <2>1 DEF UnlessInv
<1>19. ASSUME NEW p \in Polled, StreamCreated(p) PROVE UnlessInv'
  <2>1. UNCHANGED <<builders, defaulting, outcome, queue["unless"]>>
    BY <1>19, <1>0 DEF StreamCreated, StreamYield
  <2> QED
    BY <2>1 DEF UnlessInv
<1>20. ASSUME NEW p \in Polled, StreamReceived(p) PROVE UnlessInv'
  <2>1. UNCHANGED <<builders, defaulting, outcome, queue["unless"]>>
    BY <1>20, <1>0 DEF StreamReceived, StreamYield
  <2> QED
    BY <2>1 DEF UnlessInv
<1>21. ASSUME NEW p \in Polled, StreamError(p) PROVE UnlessInv'
  <2>1. UNCHANGED <<builders, defaulting, outcome, queue["unless"]>>
    BY <1>21, <1>0 DEF StreamError, StreamYield
  <2> QED
    BY <2>1 DEF UnlessInv
<1>22. ASSUME NEW s \in Sessions, NEW id \in StreamIds, BytesLock(s, id) PROVE UnlessInv'
  <2>1. UNCHANGED <<builders, defaulting, outcome, queue["unless"]>>
    BY <1>22, <1>0 DEF BytesLock
  <2> QED
    BY <2>1 DEF UnlessInv
<1>23. ASSUME BytesYield PROVE UnlessInv'
  <2>1. UNCHANGED <<builders, defaulting, outcome, queue["unless"]>>
    BY <1>23, <1>0 DEF BytesYield
  <2> QED
    BY <2>1 DEF UnlessInv
<1>24. ASSUME NEW b \in Builders, BuildFail(b) PROVE UnlessInv'
  <2>1. outcome' # "running"
    BY <1>24 DEF BuildFail, Fail
  <2> QED
    BY <2>1 DEF UnlessInv
<1>25. ASSUME NEW s \in Sessions, Lost(s) PROVE UnlessInv'
  <2>1. UNCHANGED <<builders, defaulting, outcome, queue["unless"]>>
    BY <1>25, <1>0 DEF Lost
  <2> QED
    BY <2>1 DEF UnlessInv
<1>26. ASSUME NEW c \in Commands, SendCommand(c) PROVE UnlessInv'
  <2>0. Publish(c) /\ UNCHANGED <<defaulting, outcome>>
    BY <1>26 DEF SendCommand, Publish
  <2>1. CASE c.op = "ConfigureClient"
    <3>0. Append(queue["unless"], c) # <<>>
      <4> DEFINE q == queue["unless"]
      <4>1. q \in Seq(Commands)
        BY <1>0
      <4> HIDE DEF q
      <4>2. Append(q, c) # <<>>
        BY <4>1, AppendNonempty
      <4> QED
        BY <4>2 DEF q
    <3>1. ASSUME defaulting, queue["unless"] = <<>> PROVE queue'["unless"] # <<>>
      <4>1. Live("unless") /\ Accepts("unless", c)
        BY <2>0, <2>1, <3>1 DEF Live, Accepts, Publish
      <4>2. queue'["unless"] = Append(queue["unless"], c)
        BY <1>0, <2>0, <4>1 DEF Publish
      <4> QED
        BY <3>0, <4>2
    <3>2. queue["unless"] # <<>> => queue'["unless"] # <<>>
      <4>1. queue'["unless"] = queue["unless"] \/ queue'["unless"] = Append(queue["unless"], c)
        BY <1>0, <2>0 DEF Publish
      <4> QED
        BY <3>0, <4>1
    <3> QED
      BY <2>0, <3>1, <3>2 DEF UnlessInv
  <2>2. CASE c.op # "ConfigureClient"
    <3>1. UNCHANGED <<builders, queue["unless"]>>
      BY <1>0, <2>0, <2>2 DEF Publish, Accepts
    <3> QED
      BY <2>0, <3>1 DEF UnlessInv
  <2> QED
    BY <2>1, <2>2
<1>27. ASSUME CloseSink PROVE UnlessInv'
  <2>1. UNCHANGED <<builders, defaulting, outcome, queue["unless"]>>
    BY <1>27, <1>0 DEF CloseSink
  <2> QED
    BY <2>1 DEF UnlessInv
<1>28. ASSUME DropSource PROVE UnlessInv'
  <2>1. UNCHANGED <<builders, defaulting, outcome, queue["unless"]>>
    BY <1>28, <1>0 DEF DropSource
  <2> QED
    BY <2>1 DEF UnlessInv
<1>29. CASE UNCHANGED vars
  <2>1. UNCHANGED <<builders, defaulting, outcome, queue["unless"]>>
    BY <1>29 DEF vars
  <2> QED
    BY <2>1 DEF UnlessInv
<1>30. ASSUME SendWait PROVE UnlessInv'
  <2>1. UNCHANGED <<builders, defaulting, outcome, queue["unless"]>>
    BY <1>30, <1>0 DEF SendWait
  <2> QED
    BY <2>1 DEF UnlessInv
<1>31. ASSUME Stop PROVE UnlessInv'
  <2>1. UNCHANGED <<builders, defaulting, outcome, queue["unless"]>>
    BY <1>31, <1>0 DEF Stop
  <2> QED
    BY <2>1 DEF UnlessInv
<1>32. ASSUME NEW b \in Builders, ConfigurePanic(b) PROVE UnlessInv'
  <2>1. outcome' # "running"
    BY <1>32 DEF ConfigurePanic, Fail
  <2> QED
    BY <2>1 DEF UnlessInv
<1>33. ASSUME DefaultFail PROVE UnlessInv'
  <2>1. outcome' # "running"
    BY <1>33 DEF DefaultFail, Fail
  <2> QED
    BY <2>1 DEF UnlessInv
<1> HIDE DEF sinkVars, queueVars, clientVars, handlerVars, terminateVars, sendVars,
     readyVars, streamVars
<1> QED
  BY <1>1, <1>2, <1>3, <1>4, <1>5, <1>6, <1>7, <1>8, <1>9, <1>10, <1>11, <1>12, <1>13,
     <1>14, <1>15, <1>16, <1>17, <1>18, <1>19, <1>20, <1>21, <1>22, <1>23, <1>24, <1>25,
     <1>26, <1>27, <1>28, <1>29, <1>30, <1>31, <1>32, <1>33, <1>0
  DEF Next, DriverStep, ReadyStep, SourceStep, Network, Environment

\* What is sent to the client channel comes last.
LEMMA UsedSend ==
  ASSUME TypeOK, UsedInv, NEW x \in Clients, UNCHANGED <<used, slot>>,
         built' = Append(built, x), clients' = Append(clients, x)
  PROVE  UsedInv'
<1>1. /\ built \in Seq(Clients) /\ clients \in Seq(Clients) /\ used \in Seq(Clients)
      /\ Hand(slot) \in Seq(Clients)
  BY HandFacts DEF TypeOK
<1>2. Rest(built, Hand(slot), clients) /\ Before(built, Hand(slot), clients) = Len(used)
  BY DEF UsedInv
<1>3. /\ Rest(Append(built, x), Hand(slot), Append(clients, x))
      /\ Before(Append(built, x), Hand(slot), Append(clients, x)) = Len(used)
  BY <1>1, <1>2, RestSend
<1>4. \A i \in 1..Len(used) : i \in 1..Len(built)
  BY <1>1, <1>2, BeforeWithin
<1>5. \A i \in 1..Len(built) : Append(built, x)[i] = built[i]
  BY <1>1, AppendProperties
<1> QED
  BY <1>3, <1>4, <1>5 DEF UsedInv

\* The client that is kept is the next to be used.
LEMMA UsedConnect ==
  ASSUME TypeOK, UsedInv, slot # NoClient, used' = Append(used, slot), slot' = NoClient,
         UNCHANGED <<built, clients>>
  PROVE  UsedInv'
<1>1. /\ built \in Seq(Clients) /\ clients \in Seq(Clients) /\ used \in Seq(Clients)
      /\ slot \in Clients
  BY DEF TypeOK
<1>2. Hand(slot) = <<slot>> /\ Hand(slot') = <<>>
  BY <1>1, HandFacts
<1>3. Rest(built, <<slot>>, clients) /\ Before(built, <<slot>>, clients) = Len(used)
  BY <1>2 DEF UsedInv
<1>4. <<slot>> \in Seq(Clients) /\ <<slot>> # <<>> /\ Head(<<slot>>) = slot /\ Tail(<<slot>>) = <<>>
  BY <1>1
<1>5. /\ Rest(built, Tail(<<slot>>), clients)
      /\ Before(built, Tail(<<slot>>), clients) = Before(built, <<slot>>, clients) + 1
      /\ built[Before(built, <<slot>>, clients) + 1] = Head(<<slot>>)
  BY <1>1, <1>3, <1>4, RestTake
<1>6. /\ Rest(built, <<>>, clients) /\ Before(built, <<>>, clients) = Len(used) + 1
      /\ built[Len(used) + 1] = slot
  BY <1>3, <1>4, <1>5
<1>7. /\ Len(Append(used, slot)) = Len(used) + 1 /\ Len(used) \in Nat
      /\ \A i \in 1..Len(used) : Append(used, slot)[i] = used[i]
      /\ Append(used, slot)[Len(used) + 1] = slot
  BY <1>1, AppendProperties
<1>8. ASSUME NEW i \in 1..(Len(used) + 1) PROVE Append(used, slot)[i] = built[i]
  <2>1. CASE i \in 1..Len(used)
    BY <1>7, <2>1 DEF UsedInv
  <2>2. CASE i = Len(used) + 1
    BY <1>6, <1>7, <2>2
  <2> QED
    BY <1>7, <2>1, <2>2, LastOrBefore
<1> QED
  BY <1>2, <1>6, <1>7, <1>8 DEF UsedInv

\* Every step keeps the clients that are used in their chain.
LEMMA UsedStep == TypeOK /\ HandsInv /\ UsedInv /\ [Next]_vars => UsedInv'
<1> SUFFICES ASSUME TypeOK, HandsInv, UsedInv, [Next]_vars PROVE UsedInv'
  OBVIOUS
<1> USE DEF sinkVars, queueVars, clientVars, handlerVars, terminateVars, sendVars,
     readyVars, streamVars
<1>1. ASSUME NEW b \in Builders, ConfigureBuild(b) PROVE UsedInv'
  <2>1. UNCHANGED <<used, built, slot, clients>>
    BY <1>1 DEF ConfigureBuild
  <2> QED
    BY <2>1 DEF UsedInv
<1>2. ASSUME ConfigureSend PROVE UsedInv'
  <2>1. /\ building \in Clients /\ UNCHANGED <<used, slot>>
        /\ built' = Append(built, building) /\ clients' = Append(clients, building)
    BY <1>2 DEF ConfigureSend, HandsInv, TypeOK
  <2> QED
    BY <2>1, UsedSend
<1>3. ASSUME DefaultSend PROVE UsedInv'
  <2>1. /\ Default \in Clients /\ UNCHANGED <<used, slot>>
        /\ built' = Append(built, Default) /\ clients' = Append(clients, Default)
    BY <1>3 DEF DefaultSend, Clients
  <2> QED
    BY <2>1, UsedSend
<1>4. ASSUME DefaultOff PROVE UsedInv'
  <2>1. UNCHANGED <<used, built, slot, clients>>
    BY <1>4 DEF DefaultOff
  <2> QED
    BY <2>1 DEF UsedInv
<1>5. ASSUME ClientUnreceived PROVE UsedInv'
  <2>1. UNCHANGED <<used, built, slot, clients>>
    BY <1>5 DEF ClientUnreceived
  <2> QED
    BY <2>1 DEF UsedInv
<1>6. ASSUME ConfigureEnd PROVE UsedInv'
  <2>1. UNCHANGED <<used, built, slot, clients>>
    BY <1>6 DEF ConfigureEnd
  <2> QED
    BY <2>1 DEF UsedInv
<1>7. ASSUME NEW s \in Sessions, TerminateTake(s) PROVE UsedInv'
  <2>1. UNCHANGED <<used, built, slot, clients>>
    BY <1>7 DEF TerminateTake
  <2> QED
    BY <2>1 DEF UsedInv
<1>8. ASSUME TerminateClose PROVE UsedInv'
  <2>1. UNCHANGED <<used, built, slot, clients>>
    BY <1>8 DEF TerminateClose
  <2> QED
    BY <2>1 DEF UsedInv
<1>9. ASSUME TerminateEnd PROVE UsedInv'
  <2>1. UNCHANGED <<used, built, slot, clients>>
    BY <1>9 DEF TerminateEnd
  <2> QED
    BY <2>1 DEF UsedInv
<1>10. ASSUME SendWrite \/ Credit PROVE UsedInv'
  <2>1. UNCHANGED <<used, built, slot, clients>>
    BY <1>10 DEF SendWrite, Credit, Written
  <2> QED
    BY <2>1 DEF UsedInv
<1>11. ASSUME SendInvalid PROVE UsedInv'
  <2>1. UNCHANGED <<used, built, slot, clients>>
    BY <1>11 DEF SendInvalid
  <2> QED
    BY <2>1 DEF UsedInv
<1>12. ASSUME SendFail PROVE UsedInv'
  <2>1. UNCHANGED <<used, built, slot, clients>>
    BY <1>12 DEF SendFail
  <2> QED
    BY <2>1 DEF UsedInv
<1>13. ASSUME SendEnd PROVE UsedInv'
  <2>1. UNCHANGED <<used, built, slot, clients>>
    BY <1>13 DEF SendEnd
  <2> QED
    BY <2>1 DEF UsedInv
<1>14. ASSUME ReadyClient PROVE UsedInv'
  <2>1. /\ slot = NoClient /\ clients # <<>> /\ slot' = Head(clients) /\ clients' = Tail(clients)
        /\ UNCHANGED <<used, built>>
    BY <1>14 DEF ReadyClient
  <2>2. /\ built \in Seq(Clients) /\ clients \in Seq(Clients) /\ <<>> \in Seq(Clients)
        /\ Head(clients) \in Clients
    BY <2>1, HeadTailProperties DEF TypeOK
  <2>3. Hand(slot) = <<>> /\ Hand(slot') = <<Head(clients)>>
    BY <2>1, <2>2, HandFacts
  <2>4. Rest(built, <<>>, clients) /\ Before(built, <<>>, clients) = Len(used)
    BY <2>3 DEF UsedInv
  <2>5. /\ Rest(built, Append(<<>>, Head(clients)), Tail(clients))
        /\ Before(built, Append(<<>>, Head(clients)), Tail(clients)) = Len(used)
    BY <2>1, <2>2, <2>4, RestPull
  <2>6. Append(<<>>, Head(clients)) = <<Head(clients)>>
    OBVIOUS
  <2> QED
    BY <2>1, <2>3, <2>5, <2>6 DEF UsedInv
<1>15. ASSUME ReadySession PROVE UsedInv'
  BY <1>15, UsedConnect DEF ReadySession, Connect
<1>16. ASSUME ReadyError PROVE UsedInv'
  BY <1>16, UsedConnect DEF ReadyError, Connect
<1>17. ASSUME ReadyEnd PROVE UsedInv'
  <2>1. UNCHANGED <<used, built, slot, clients>>
    BY <1>17 DEF ReadyEnd
  <2> QED
    BY <2>1 DEF UsedInv
<1>18. ASSUME NEW p \in Polled, StreamLock(p) PROVE UsedInv'
  <2>1. UNCHANGED <<used, built, slot, clients>>
    BY <1>18 DEF StreamLock
  <2> QED
    BY <2>1 DEF UsedInv
<1>19. ASSUME NEW p \in Polled, StreamCreated(p) PROVE UsedInv'
  <2>1. UNCHANGED <<used, built, slot, clients>>
    BY <1>19 DEF StreamCreated, StreamYield
  <2> QED
    BY <2>1 DEF UsedInv
<1>20. ASSUME NEW p \in Polled, StreamReceived(p) PROVE UsedInv'
  <2>1. UNCHANGED <<used, built, slot, clients>>
    BY <1>20 DEF StreamReceived, StreamYield
  <2> QED
    BY <2>1 DEF UsedInv
<1>21. ASSUME NEW p \in Polled, StreamError(p) PROVE UsedInv'
  <2>1. UNCHANGED <<used, built, slot, clients>>
    BY <1>21 DEF StreamError, StreamYield
  <2> QED
    BY <2>1 DEF UsedInv
<1>22. ASSUME NEW s \in Sessions, NEW id \in StreamIds, BytesLock(s, id) PROVE UsedInv'
  <2>1. UNCHANGED <<used, built, slot, clients>>
    BY <1>22 DEF BytesLock
  <2> QED
    BY <2>1 DEF UsedInv
<1>23. ASSUME BytesYield PROVE UsedInv'
  <2>1. UNCHANGED <<used, built, slot, clients>>
    BY <1>23 DEF BytesYield
  <2> QED
    BY <2>1 DEF UsedInv
<1>24. ASSUME NEW b \in Builders, BuildFail(b) PROVE UsedInv'
  <2>1. UNCHANGED <<used, built, slot, clients>>
    BY <1>24 DEF BuildFail
  <2> QED
    BY <2>1 DEF UsedInv
<1>25. ASSUME NEW s \in Sessions, Lost(s) PROVE UsedInv'
  <2>1. UNCHANGED <<used, built, slot, clients>>
    BY <1>25 DEF Lost
  <2> QED
    BY <2>1 DEF UsedInv
<1>26. ASSUME NEW c \in Commands, SendCommand(c) PROVE UsedInv'
  <2>1. UNCHANGED <<used, built, slot, clients>>
    BY <1>26 DEF SendCommand, Publish
  <2> QED
    BY <2>1 DEF UsedInv
<1>27. ASSUME CloseSink PROVE UsedInv'
  <2>1. UNCHANGED <<used, built, slot, clients>>
    BY <1>27 DEF CloseSink
  <2> QED
    BY <2>1 DEF UsedInv
<1>28. ASSUME DropSource PROVE UsedInv'
  <2>1. UNCHANGED <<used, built, slot, clients>>
    BY <1>28 DEF DropSource
  <2> QED
    BY <2>1 DEF UsedInv
<1>29. CASE UNCHANGED vars
  BY <1>29 DEF vars, UsedInv
<1>30. ASSUME SendWait PROVE UsedInv'
  <2>1. UNCHANGED <<used, built, slot, clients>>
    BY <1>30 DEF SendWait
  <2> QED
    BY <2>1 DEF UsedInv
<1>31. ASSUME Stop PROVE UsedInv'
  <2>1. UNCHANGED <<used, built, slot, clients>>
    BY <1>31 DEF Stop
  <2> QED
    BY <2>1 DEF UsedInv
<1>32. ASSUME NEW b \in Builders, ConfigurePanic(b) PROVE UsedInv'
  <2>1. UNCHANGED <<used, built, slot, clients>>
    BY <1>32 DEF ConfigurePanic
  <2> QED
    BY <2>1 DEF UsedInv
<1>33. ASSUME DefaultFail PROVE UsedInv'
  <2>1. UNCHANGED <<used, built, slot, clients>>
    BY <1>33 DEF DefaultFail
  <2> QED
    BY <2>1 DEF UsedInv
<1> HIDE DEF sinkVars, queueVars, clientVars, handlerVars, terminateVars, sendVars,
     readyVars, streamVars
<1> QED
  BY <1>1, <1>2, <1>3, <1>4, <1>5, <1>6, <1>7, <1>8, <1>9, <1>10, <1>11, <1>12, <1>13,
     <1>14, <1>15, <1>16, <1>17, <1>18, <1>19, <1>20, <1>21, <1>22, <1>23, <1>24, <1>25,
     <1>26, <1>27, <1>28, <1>29, <1>30, <1>31, <1>32, <1>33
  DEF Next, DriverStep, ReadyStep, SourceStep, Network, Environment

-----------------------------------------------------------------------------
(* Why the driver fails.                                                   *)

\* An element of a sequence has an index.
LEMMA Indexed ==
  ASSUME NEW s, NEW x \in ToSet(s)
  PROVE  \E i \in DOMAIN s : s[i] = x
BY DEF ToSet

\* A client of the chain that has been built comes before the next one.
LEMMA BuiltBefore ==
  ASSUME NEW chain \in Seq(Clients), NEW blt \in Seq(Clients), NEW ahead \in Seq(Clients),
         ahead # <<>>, Rest(chain, <<>>, ahead), Before(chain, <<>>, ahead) = Len(blt),
         NEW i \in 1..Len(blt), chain[i] = blt[i]
  PROVE  \E j \in 1..Len(chain) :
           i < j /\ i \in 1..Len(chain) /\ chain[i] = blt[i] /\ chain[j] = Head(ahead)
<1>1. Rest(chain, <<>>, ahead) /\ Before(chain, <<>>, ahead) = Len(blt) /\ chain[i] = blt[i]
  OBVIOUS
<1>2. /\ Len(<<>>) = 0 /\ Len(ahead) \in Nat /\ Len(ahead) >= 1 /\ Head(ahead) = ahead[1]
      /\ Len(blt) \in Nat /\ Len(chain) \in Nat
  BY HeadTailProperties
<1>3. ahead[1] = chain[Len(blt) + 0 + 1] /\ Len(chain) - 0 - Len(ahead) = Len(blt)
  BY <1>1, <1>2 DEF Rest, Before
<1>4. Len(blt) + 1 \in 1..Len(chain) /\ i < Len(blt) + 1 /\ i \in 1..Len(chain)
  BY <1>2, <1>3
<1>5. chain[Len(blt) + 1] = Head(ahead)
  BY <1>2, <1>3
<1> QED
  BY <1>1, <1>4, <1>5

\* What comes after the default client.
LEMMA AfterDefault ==
  ASSUME TypeOK, NEW i \in 1..(Len(builders) + 1), (<<Default>> \o builders)[i] \in Builders
  PROVE  i - 1 \in 1..Len(builders) /\ (<<Default>> \o builders)[i] = builders[i - 1]
<1>1. builders \in Seq(Builders) /\ Len(builders) \in Nat /\ Default \notin Builders
  BY ClientsAssumption DEF TypeOK
<1>2. (<<Default>> \o builders)[1] = Default
  BY <1>1
<1>3. i # 1
  BY <1>1, <1>2
<1> QED
  BY <1>1, <1>3

\* Every step of a driver that runs, and fails, has a reason.
LEMMA FailuresStep ==
  TypeOK /\ HandsInv /\ QueuedInv /\ StreamsInv /\ HeldInv /\ BuiltInv /\ FailuresExplained
    /\ [Next]_vars => FailuresExplained'
<1> SUFFICES ASSUME TypeOK, HandsInv, QueuedInv, StreamsInv, HeldInv, BuiltInv, FailuresExplained,
                    [Next]_vars
             PROVE FailuresExplained'
  OBVIOUS
<1> USE DEF sinkVars, queueVars, clientVars, handlerVars, terminateVars, sendVars,
     readyVars, streamVars
<1>1. ASSUME NEW b \in Builders, ConfigureBuild(b) PROVE FailuresExplained'
  <2>1. outcome = "running" /\ UNCHANGED outcome
    BY <1>1 DEF ConfigureBuild, NextBuilder, Polls, Live, Running
  <2> QED
    BY <2>1 DEF FailuresExplained
<1>2. ASSUME ConfigureSend PROVE FailuresExplained'
  <2>1. outcome = "running" /\ UNCHANGED outcome
    BY <1>2 DEF ConfigureSend, Running
  <2> QED
    BY <2>1 DEF FailuresExplained
<1>3. ASSUME DefaultSend PROVE FailuresExplained'
  <2>1. outcome = "running" /\ UNCHANGED outcome
    BY <1>3 DEF DefaultSend, DefaultPolled, Running
  <2> QED
    BY <2>1 DEF FailuresExplained
<1>4. ASSUME DefaultOff PROVE FailuresExplained'
  <2>1. outcome = "running" /\ UNCHANGED outcome
    BY <1>4 DEF DefaultOff, Running
  <2> QED
    BY <2>1 DEF FailuresExplained
<1>5. ASSUME ClientUnreceived PROVE FailuresExplained'
  <2>1. outcome' = "no receiver" /\ ready' = "dropped"
    BY <1>5 DEF ClientUnreceived, Fail
  <2> QED
    BY <2>1 DEF FailuresExplained
<1>6. ASSUME ConfigureEnd PROVE FailuresExplained'
  <2>1. outcome = "running" /\ UNCHANGED outcome
    BY <1>6 DEF ConfigureEnd, Polls, Live, Running
  <2> QED
    BY <2>1 DEF FailuresExplained
<1>7. ASSUME NEW s \in Sessions, TerminateTake(s) PROVE FailuresExplained'
  <2>1. /\ queue["terminate"] # <<>> /\ Head(queue["terminate"]) = TerminateSession(s)
        /\ outcome = "running"
    BY <1>7 DEF TerminateTake, Polls, Live, Running
  <2>2. queue["terminate"] \in Seq(Commands)
    BY DEF TypeOK, Handles
  <2>3. TerminateSession(s) \in ToSet(queue["terminate"])
    BY <2>1, <2>2, ToSetTail
  <2>4. Known(s)
    BY <2>3 DEF QueuedInv, TerminateSession
  <2>5. UNCHANGED outcome
    BY <1>7, <2>4 DEF TerminateTake
  <2> QED
    BY <2>1, <2>5 DEF FailuresExplained
<1>8. ASSUME TerminateClose PROVE FailuresExplained'
  <2>1. outcome = "running" /\ UNCHANGED outcome
    BY <1>8 DEF TerminateClose, Running
  <2> QED
    BY <2>1 DEF FailuresExplained
<1>9. ASSUME TerminateEnd PROVE FailuresExplained'
  <2>1. outcome = "running" /\ UNCHANGED outcome
    BY <1>9 DEF TerminateEnd, Polls, Live, Running
  <2> QED
    BY <2>1 DEF FailuresExplained
<1>10. ASSUME SendWrite \/ Credit PROVE FailuresExplained'
  <2>1. outcome = "running" /\ UNCHANGED outcome
    BY <1>10 DEF SendWrite, Credit, Written, Writable, Polls, Live, Running
  <2> QED
    BY <2>1 DEF FailuresExplained
<1>11. ASSUME SendInvalid PROVE FailuresExplained'
  <2>1. queue["send"] # <<>> /\ UNCHANGED <<sends, sessions, opened>>
    BY <1>11 DEF SendInvalid
  <2>2. NextSend \in ToSet(sends) /\ NextSend.stream_id \in StreamIds
    BY <2>1, NextSendFacts
  <2>3. PICK i \in DOMAIN sends : sends[i] = NextSend
    BY <2>2, Indexed
  <2>4. streams[NextSend.stream_id] # NoSession
    <3>1. Opened(NextSend.session, NextSend.stream_id)
      BY <2>2 DEF QueuedInv
    <3> QED
      BY <3>1 DEF Opened, StreamsInv
  <2>5. outcome' = "not writable" /\ NextSend.stream_id.kind = "IncomingUni"
    BY <1>11, <2>4 DEF SendInvalid, Fail
  <2> QED
    BY <2>1, <2>3, <2>5 DEF FailuresExplained
<1>12. ASSUME SendFail PROVE FailuresExplained'
  <2>1. outcome' = "not written" /\ UNCHANGED <<sends, sending, sessions, opened>>
    BY <1>12 DEF SendFail, Fail
  <2>2. PICK w \in Writes : Held(w) /\ (sending # "stopped" => ~sessions[w.to])
    <3>1. CASE Writable /\ ~sessions[NextWrite.to]
      BY <3>1, NextWriteFacts
    <3>2. CASE sending \in {"write", "stopped"} /\ (sending = "write" => ~sessions[writing.to])
      BY <3>2 DEF HeldInv
    <3> QED
      BY <1>12, <3>1, <3>2 DEF SendFail
  <2>3. PICK i \in DOMAIN sends : sends[i] = w.command
    BY <2>2, Indexed DEF Held
  <2> DEFINE o == [session |-> w.to, stream_id |-> w.command.stream_id]
  <2>4. o \in opened /\ o.stream_id = w.command.stream_id /\ o.session = w.to
    BY <2>2 DEF Held, Opened
  <2> HIDE DEF o
  <2>5. \E j \in DOMAIN sends' : \E x \in opened' :
          x.stream_id = sends'[j].stream_id /\ (sending' # "stopped" => ~sessions'[x.session])
    BY <2>1, <2>2, <2>3, <2>4
  <2> QED
    BY <2>1, <2>5 DEF FailuresExplained
<1>13. ASSUME SendEnd PROVE FailuresExplained'
  <2>1. outcome = "running" /\ UNCHANGED outcome
    BY <1>13 DEF SendEnd, Polls, Live, Running
  <2> QED
    BY <2>1 DEF FailuresExplained
<1>14. ASSUME ReadyClient PROVE FailuresExplained'
  <2>1. outcome = "running" /\ UNCHANGED outcome
    BY <1>14 DEF ReadyClient, ReadyPolled, Running
  <2> QED
    BY <2>1 DEF FailuresExplained
<1>15. ASSUME ReadySession PROVE FailuresExplained'
  <2>1. outcome = "running" /\ UNCHANGED outcome
    BY <1>15 DEF ReadySession, Connect, Take, Polls, Live, Running
  <2> QED
    BY <2>1 DEF FailuresExplained
<1>16. ASSUME ReadyError PROVE FailuresExplained'
  <2>1. outcome = "running" /\ UNCHANGED outcome
    BY <1>16 DEF ReadyError, Connect, Take, Polls, Live, Running
  <2> QED
    BY <2>1 DEF FailuresExplained
<1>17. ASSUME ReadyEnd PROVE FailuresExplained'
  <2>1. outcome = "running" /\ UNCHANGED outcome
    BY <1>17 DEF ReadyEnd, ReadyPolled, Running
  <2> QED
    BY <2>1 DEF FailuresExplained
<1>18. ASSUME NEW p \in Polled, StreamLock(p) PROVE FailuresExplained'
  <2>1. outcome = "running" /\ UNCHANGED outcome
    BY <1>18 DEF StreamLock, Running
  <2> QED
    BY <2>1 DEF FailuresExplained
<1>19. ASSUME NEW p \in Polled, StreamCreated(p) PROVE FailuresExplained'
  <2>1. outcome = "running" /\ UNCHANGED outcome
    BY <1>19 DEF StreamCreated, StreamYield, Running
  <2> QED
    BY <2>1 DEF FailuresExplained
<1>20. ASSUME NEW p \in Polled, StreamReceived(p) PROVE FailuresExplained'
  <2>1. outcome = "running" /\ UNCHANGED outcome
    BY <1>20 DEF StreamReceived, StreamYield, Running
  <2> QED
    BY <2>1 DEF FailuresExplained
<1>21. ASSUME NEW p \in Polled, StreamError(p) PROVE FailuresExplained'
  <2>1. outcome = "running" /\ UNCHANGED outcome
    BY <1>21 DEF StreamError, StreamYield, Running
  <2> QED
    BY <2>1 DEF FailuresExplained
<1>22. ASSUME NEW s \in Sessions, NEW id \in StreamIds, BytesLock(s, id) PROVE FailuresExplained'
  <2>1. outcome = "running" /\ UNCHANGED outcome
    BY <1>22 DEF BytesLock, Running
  <2> QED
    BY <2>1 DEF FailuresExplained
<1>23. ASSUME BytesYield PROVE FailuresExplained'
  <2>1. outcome = "running" /\ UNCHANGED outcome
    BY <1>23 DEF BytesYield, Running
  <2> QED
    BY <2>1 DEF FailuresExplained
<1>24. ASSUME NEW b \in Builders, BuildFail(b) PROVE FailuresExplained'
  <2>1. outcome' = "no client"
    BY <1>24 DEF BuildFail, Fail
  <2> QED
    BY <2>1 DEF FailuresExplained
<1>25. ASSUME NEW s \in Sessions, Lost(s) PROVE FailuresExplained'
  <2>1. outcome = "running" /\ UNCHANGED outcome
    BY <1>25 DEF Lost, Running
  <2> QED
    BY <2>1 DEF FailuresExplained
<1>26. ASSUME NEW c \in Commands, SendCommand(c) PROVE FailuresExplained'
  <2>1. outcome = "running" /\ UNCHANGED outcome
    BY <1>26 DEF SendCommand, Publish, Running
  <2> QED
    BY <2>1 DEF FailuresExplained
<1>27. ASSUME CloseSink PROVE FailuresExplained'
  <2>1. outcome = "running" /\ UNCHANGED outcome
    BY <1>27 DEF CloseSink, Running
  <2> QED
    BY <2>1 DEF FailuresExplained
<1>28. ASSUME DropSource PROVE FailuresExplained'
  <2>1. outcome = "running" /\ UNCHANGED outcome
    BY <1>28 DEF DropSource, Running
  <2> QED
    BY <2>1 DEF FailuresExplained
<1>29. CASE UNCHANGED vars
  BY <1>29 DEF vars, FailuresExplained
<1>30. ASSUME SendWait PROVE FailuresExplained'
  <2>1. outcome = "running" /\ UNCHANGED outcome
    BY <1>30 DEF SendWait, Writable, Polls, Live, Running
  <2> QED
    BY <2>1 DEF FailuresExplained
<1>31. ASSUME Stop PROVE FailuresExplained'
  <2>1. outcome = "running" /\ UNCHANGED outcome
    BY <1>31 DEF Stop, Polls, Live, Running
  <2> QED
    BY <2>1 DEF FailuresExplained
<1>32. ASSUME NEW b \in Builders, ConfigurePanic(b) PROVE FailuresExplained'
  <2> DEFINE q == queue["configure"]
  <2>1. /\ q # <<>> /\ Head(q) = ConfigureClient(b) /\ b \in taken /\ configuring = "next"
        /\ outcome = "running" /\ outcome' = "no builder" /\ UNCHANGED builders
    BY <1>32 DEF ConfigurePanic, NextBuilder, Polls, Live, Running, Fail
  <2>2. /\ q \in Seq(Commands) /\ built \in Seq(Clients) /\ builders \in Seq(Builders)
        /\ DOMAIN built = 1..Len(built) /\ DOMAIN builders = 1..Len(builders)
        /\ Len(builders) \in Nat
    BY DEF TypeOK, Handles
  <2>3. building = NoClient /\ b # NoClient
    BY <2>1, ClientsAssumption DEF HandsInv
  <2>4. PICK i \in 1..Len(built) : built[i] = b
    BY <2>1, <2>2, <2>3, Indexed DEF HandsInv
  <2>5. /\ BuildersOf(q) \in Seq(Clients) /\ BuildersOf(q) # <<>> /\ Head(BuildersOf(q)) = b
        /\ Hand(building) = <<>> /\ Building = TRUE
    <3>1. BuildersOf(q) \in Seq(Clients) /\ BuildersOf(q) # <<>> /\ Head(BuildersOf(q)) = b
      <4>1. q \in Seq(Commands) /\ \A k \in 1..Len(q) : q[k].op = "ConfigureClient"
        BY <2>2 DEF BuiltInv
      <4>2. q # <<>> /\ Head(q) = ConfigureClient(b)
        BY <2>1
      <4> HIDE DEF q
      <4>3. Head(q).builder = b
        BY <4>2 DEF ConfigureClient
      <4> QED
        BY <4>1, <4>2, <4>3, BuildersFacts, BuildersTail
    <3> QED
      BY <2>1, <2>3, <3>1, HandFacts DEF Building
  <2> HIDE DEF q
  <2>6. ASSUME NEW chain \in Seq(Clients), Follows(chain)
        PROVE  \E j, k \in 1..Len(chain) : j < k /\ chain[j] = b /\ chain[k] = b
    <3>1. /\ Rest(chain, <<>>, BuildersOf(q)) /\ Before(chain, <<>>, BuildersOf(q)) = Len(built)
          /\ chain[i] = built[i]
      BY <2>5, <2>6 DEF Follows, Chained, q
    <3>2. PICK j \in 1..Len(chain) :
            i < j /\ i \in 1..Len(chain) /\ chain[i] = built[i] /\ chain[j] = Head(BuildersOf(q))
      BY <2>2, <2>5, <3>1, BuiltBefore
    <3> QED
      BY <2>4, <2>5, <3>2
  <2>7. \E j, k \in DOMAIN builders : j < k /\ builders[j] = builders[k]
    <3>1. CASE Follows(builders)
      BY <2>2, <2>6, <3>1, Chains
    <3>2. CASE Follows(<<Default>> \o builders)
      <4> DEFINE chain == <<Default>> \o builders
      <4>1. chain \in Seq(Clients) /\ Len(chain) = Len(builders) + 1
        BY Chains
      <4>2. PICK j \in 1..Len(chain), k \in 1..Len(chain) : j < k /\ chain[j] = b /\ chain[k] = b
        BY <2>6, <3>2, <4>1
      <4>3. j - 1 \in 1..Len(builders) /\ builders[j - 1] = b
        BY <4>1, <4>2, AfterDefault
      <4>4. k - 1 \in 1..Len(builders) /\ builders[k - 1] = b
        BY <4>1, <4>2, AfterDefault
      <4>5. j - 1 < k - 1
        BY <2>2, <4>1, <4>2
      <4> QED
        BY <2>2, <4>3, <4>4, <4>5
    <3> QED
      BY <3>1, <3>2 DEF BuiltInv
  <2> QED
    BY <2>1, <2>7 DEF FailuresExplained
<1>33. ASSUME DefaultFail PROVE FailuresExplained'
  <2>1. outcome' = "no client"
    BY <1>33 DEF DefaultFail, Fail
  <2> QED
    BY <2>1 DEF FailuresExplained
<1> HIDE DEF sinkVars, queueVars, clientVars, handlerVars, terminateVars, sendVars,
     readyVars, streamVars
<1> QED
  BY <1>1, <1>2, <1>3, <1>4, <1>5, <1>6, <1>7, <1>8, <1>9, <1>10, <1>11, <1>12, <1>13,
     <1>14, <1>15, <1>16, <1>17, <1>18, <1>19, <1>20, <1>21, <1>22, <1>23, <1>24, <1>25,
     <1>26, <1>27, <1>28, <1>29, <1>30, <1>31, <1>32, <1>33
  DEF Next, DriverStep, ReadyStep, SourceStep, Network, Environment

-----------------------------------------------------------------------------
(* The theorems.                                                           *)

\* The invariant holds to begin with.
LEMMA Initial == Init => IInv
<1> SUFFICES ASSUME Init PROVE IInv
  OBVIOUS
<1>1. TypeOK
  <2>1. /\ <<>> \in Seq(Builders) /\ <<>> \in Seq(Sends) /\ <<>> \in Seq(Commands)
        /\ <<>> \in Seq(Clients) /\ <<>> \in Seq(Writes)
        /\ <<>> \in Seq(BOOLEAN) /\ Len(<<>>) = 0
    OBVIOUS
  <2>2. sent \in 0..MaxSent /\ Len(clients) <= CLIENT_BUFFER_LEN /\ Len(sessions) <= MaxSessions
    BY BoundsAssumption, BufferAssumption DEF Init
  <2>3. /\ queue \in [Handles -> Seq(Commands)] /\ asks \in [Polled -> Nat]
        /\ streamer \in [Polled -> {"idle", "locked"}]
        /\ streams \in [StreamIds -> Sessions \cup {NoSession}]
    BY <2>1 DEF Init
  <2> QED
    BY <2>1, <2>2, <2>3 DEF Init, TypeOK, Outcomes
<1>2. HandsInv
  BY DEF Init, HandsInv
<1>3. QueuedInv
  BY EmptySet DEF Init, QueuedInv, Handles
<1>4. StreamsInv
  BY FS_EmptySet DEF Init, StreamsInv
<1>5. WritingInv
  BY RestEmpty DEF Init, WritingInv, Handles, Doing
<1>6. RightStream
  BY DEF Init, RightStream
<1>7. FailuresExplained
  BY DEF Init, FailuresExplained
<1>8. UnlessInv
  BY DEF Init, UnlessInv
<1>9. BuiltInv
  <2>1. Rest(<<>>, <<>>, <<>>) /\ Before(<<>>, <<>>, <<>>) = 0 /\ Len(<<>>) = 0
    BY RestEmpty
  <2>2. /\ builders = <<>> /\ built = <<>> /\ queue["configure"] = <<>> /\ building = NoClient
    BY DEF Init, Handles
  <2>3. Hand(building) = <<>> /\ BuildersOf(queue["configure"]) = <<>>
    BY <2>1, <2>2 DEF Hand, BuildersOf
  <2>4. Follows(builders)
    BY <2>1, <2>2, <2>3 DEF Follows, Chained
  <2>5. \A k \in 1..Len(queue["configure"]) : queue["configure"][k].op = "ConfigureClient"
    BY <2>1, <2>2
  <2> QED
    BY <2>4, <2>5 DEF BuiltInv
<1>10. UsedInv
  <2>1. used = <<>> /\ built = <<>> /\ clients = <<>> /\ Hand(slot) = <<>>
    BY HandFacts DEF Init
  <2>2. Len(<<>>) = 0 /\ 1..0 = {}
    OBVIOUS
  <2> QED
    BY <2>1, <2>2, RestEmpty DEF UsedInv
<1>11. HeldInv
  BY DEF Init, HeldInv
<1> QED
  BY <1>1, <1>2, <1>3, <1>4, <1>5, <1>6, <1>7, <1>8, <1>9, <1>10, <1>11 DEF IInv

\* The invariant that the theorems rest on.
THEOREM Invariance == Spec => []IInv
<1>1. IInv /\ [Next]_vars => IInv'
  BY TypingStep, HandsStep, QueuedStep, StreamsStep, HeldStep, WritingStep, UnlessStep, BuiltStep,
     UsedStep, RightStep, FailuresStep DEF IInv
<1> QED
  BY Initial, <1>1, PTL DEF Spec

\* Every variable keeps its type: the client channel never has more than it is
\* made for, and the ID of a new stream is one that QUIC may give it
\* (driver.rs, source.rs).
THEOREM Typing == Spec => []TypeOK
<1>1. IInv => TypeOK
  BY DEF IInv
<1> QED
  BY Invariance, <1>1, PTL

\* Bytes go to and come from the session that has yielded the stream, unless
\* a stream of another session has the same ID (source.rs, the map of streams).
THEOREM RightUnlessCollision == Spec => []RightStream
<1>1. IInv => RightStream
  BY DEF IInv
<1> QED
  BY Invariance, <1>1, PTL

\* A driver that fails does so for a reason that main can know (driver.rs).
THEOREM FailuresHaveReasons == Spec => []FailuresExplained
<1>1. IInv => FailuresExplained
  BY DEF IInv
<1> QED
  BY Invariance, <1>1, PTL

\* Bytes are written for the SendBytes in the order of the sink, up to the first
\* with a FIN (driver.rs, the unfold of send_bytes).
THEOREM WritesInOrder == Spec => []WrittenInOrder
<1>1. TypeOK /\ WritingInv => WrittenInOrder
  <2> SUFFICES ASSUME TypeOK, WritingInv PROVE WrittenInOrder
    OBVIOUS
  <2> DEFINE commands == [i \in DOMAIN written |-> written[i].command]
  <2>1. /\ written \in Seq(Writes) /\ sends \in Seq(Sends)
        /\ Len(written) \in Nat /\ Len(sends) \in Nat /\ DOMAIN written = 1..Len(written)
    BY DEF TypeOK
  <2>2. \A i \in 1..Len(written) : written[i] \in Writes
    BY <2>1, ElementOfSeq
  <2>3. commands \in Seq(Sends) /\ Len(commands) = Len(written)
    <3>1. commands = [i \in 1..Len(written) |-> written[i].command]
      BY <2>1
    <3>2. \A i \in 1..Len(written) : written[i].command \in Sends
      BY <2>2 DEF Writes
    <3> QED
      BY <2>1, <3>1, <3>2
  <2>4. ASSUME NEW i \in 1..Len(written) PROVE commands[i] = sends[i]
    BY <2>1 DEF WritingInv
  <2> HIDE DEF commands
  <2>5. Len(written) <= Len(sends)
    BY DEF WritingInv
  <2>6. SubSeq(commands, 1, Len(written)) = SubSeq(sends, 1, Len(written))
    <3>1. \A i \in 1..Len(written) : commands[i] \in Sends /\ sends[i] \in Sends
      BY <2>1, <2>3, <2>4, <2>5, ElementOfSeq
    <3> QED
      BY <2>1, <2>4, <3>1
  <2>7. IsPrefix(commands, sends)
    BY <2>3, <2>5, <2>6 DEF IsPrefix
  <2>8. \A i \in 1..(Len(written) - 1) : ~written[i].command.finished
    <3>1. \A i \in 1..(Len(written) - 1) : i \in 1..Len(written) /\ i # Len(written)
      BY <2>1, BeforeLast
    <3> QED
      BY <3>1 DEF WritingInv
  <2> QED
    BY <2>7, <2>8 DEF WrittenInOrder, commands
<1>2. IInv => WrittenInOrder
  BY <1>1 DEF IInv
<1> QED
  BY Invariance, <1>2, PTL

\* Sessions are established with the clients of the sink, each once and in order,
\* after at most one default client (driver.rs, configure_client).
THEOREM UsesClientsInOrder == Spec => []ClientsInOrder
<1>1. IInv => ClientsInOrder
  <2> SUFFICES ASSUME TypeOK, BuiltInv, UsedInv PROVE ClientsInOrder
    BY DEF IInv
  <2>1. /\ used \in Seq(Clients) /\ built \in Seq(Clients) /\ Len(used) \in Nat /\ Len(built) \in Nat
    BY DEF TypeOK
  <2>2. Len(used) <= Len(built)
    <3>1. clients \in Seq(Clients) /\ Hand(slot) \in Seq(Clients)
      BY HandFacts DEF TypeOK
    <3>2. Len(clients) \in Nat /\ Len(Hand(slot)) \in Nat
      BY <3>1
    <3>3. Len(built) - Len(Hand(slot)) - Len(clients) = Len(used)
      BY DEF UsedInv, Before
    <3> QED
      BY <2>1, <3>2, <3>3
  <2>3. ASSUME NEW chain \in Seq(Clients), Follows(chain) PROVE IsPrefix(used, chain)
    <3>1. Len(built) <= Len(chain) /\ \A i \in 1..Len(built) : built[i] = chain[i]
      BY <2>3 DEF Follows, Chained
    <3>2. Len(chain) \in Nat
      OBVIOUS
    <3>3. Len(used) <= Len(chain) /\ \A i \in 1..Len(used) : i \in 1..Len(built) /\ i \in 1..Len(chain)
      BY <2>1, <2>2, <3>1, <3>2
    <3>4. \A i \in 1..Len(used) : used[i] = chain[i] /\ used[i] \in Clients
      BY <2>1, <3>1, <3>3, ElementOfSeq DEF UsedInv
    <3>5. SubSeq(used, 1, Len(used)) = SubSeq(chain, 1, Len(used))
      BY <2>1, <3>3, <3>4
    <3> QED
      BY <3>3, <3>5 DEF IsPrefix
  <2> QED
    BY <2>3, Chains DEF BuiltInv, ClientsInOrder
<1> QED
  BY Invariance, <1>1, PTL

-----------------------------------------------------------------------------
(* The terminate handler.                                                  *)

\* The handler has in hand a session that the source has yielded, and only while
\* it waits for the lock.
LockInv == /\ terminating # "lock" => locking = NoSession
           /\ terminating = "lock" => locking \in Sessions /\ Known(locking)

\* What other steps leave the handler, as long as the driver goes on.
LEMMA TerminateLeft ==
  ASSUME TypeOK, [Next]_vars, ~TerminateClose, \A s \in Sessions : ~TerminateTake(s)
  PROVE  /\ locking' = locking
         /\ terminating' = terminating \/ (terminating' = "over" /\ terminating = "next")
         /\ outcome' = "running" =>
              ToSet(queue["terminate"]) \subseteq ToSet(queue'["terminate"])
<1> USE DEF sinkVars, queueVars, clientVars, handlerVars, terminateVars, sendVars,
     readyVars, streamVars
<1> DEFINE Left == /\ locking' = locking
                   /\ terminating' = terminating \/ (terminating' = "over" /\ terminating = "next")
                   /\ outcome' = "running" =>
                        ToSet(queue["terminate"]) \subseteq ToSet(queue'["terminate"])
<1>0. /\ queue \in [Handles -> Seq(Commands)] /\ "terminate" \in Handles
      /\ queue["terminate"] \in Seq(Commands)
  BY DEF TypeOK, Handles
<1>1. ASSUME UNCHANGED <<locking, terminating, queue["terminate"]>> PROVE Left
  BY <1>1
<1>2. ASSUME UNCHANGED <<locking, terminating>>, outcome' # "running" PROVE Left
  BY <1>2
<1>3. ASSUME NEW h \in Handles, h # "terminate", NEW c, Take(h, c) PROVE UNCHANGED queue["terminate"]
  BY <1>0, <1>3, TakeQueue
<1>4. ASSUME \/ \E b \in Builders : ConfigureBuild(b)
             \/ ConfigureSend \/ DefaultSend \/ DefaultOff \/ ConfigureEnd
      PROVE  Left
  <2>1. ASSUME NEW b \in Builders, ConfigureBuild(b) PROVE Left
    BY <1>1, <1>3, <2>1, BuilderTake DEF ConfigureBuild, Handles
  <2>2. ASSUME ConfigureSend PROVE Left
    BY <1>1, <2>2 DEF ConfigureSend
  <2>3. ASSUME DefaultSend \/ DefaultOff \/ ConfigureEnd PROVE Left
    BY <1>0, <1>1, <2>3, DefaultQueues DEF DefaultSend, DefaultOff, ConfigureEnd
  <2> QED
    BY <1>4, <2>1, <2>2, <2>3
<1>5. ASSUME \/ \E b \in Builders : ConfigurePanic(b) \/ BuildFail(b)
             \/ ClientUnreceived \/ SendInvalid \/ SendFail \/ DefaultFail
      PROVE  Left
  BY <1>2, <1>5 DEF ConfigurePanic, BuildFail, ClientUnreceived, SendInvalid, SendFail,
     DefaultFail, Fail
<1>6. ASSUME TerminateEnd PROVE Left
  BY <1>6 DEF TerminateEnd, Polls
<1>7. ASSUME SendWrite \/ SendWait \/ Credit \/ Stop \/ SendEnd PROVE Left
  BY <1>0, <1>1, <1>7 DEF SendWrite, SendWait, Credit, Written, Stop, SendEnd
<1>8. ASSUME ReadyStep PROVE Left
  <2>1. ASSUME ReadySession \/ ReadyError PROVE Left
    BY <1>1, <1>3, <2>1 DEF ReadySession, ReadyError, Connect, Handles
  <2>2. ASSUME ReadyClient \/ ReadyEnd PROVE Left
    BY <1>0, <1>1, <2>2 DEF ReadyClient, ReadyEnd
  <2> QED
    BY <1>8, <2>1, <2>2 DEF ReadyStep
<1>9. ASSUME SourceStep PROVE Left
  BY <1>1, <1>9 DEF SourceStep, StreamLock, StreamCreated, StreamReceived, StreamError,
     StreamYield, BytesLock, BytesYield
<1>10. ASSUME \/ \E s \in Sessions : Lost(s)
              \/ CloseSink \/ DropSource
       PROVE  Left
  BY <1>0, <1>1, <1>10 DEF Lost, CloseSink, DropSource
<1>11. ASSUME NEW c \in Commands, SendCommand(c) PROVE Left
  <2>1. UNCHANGED <<locking, terminating>>
    BY <1>11 DEF SendCommand, Publish
  <2>2. queue'["terminate"] \in {queue["terminate"], Append(queue["terminate"], c)}
    BY <1>0, <1>11 DEF SendCommand, Publish
  <2>3. ToSet(Append(queue["terminate"], c)) = ToSet(queue["terminate"]) \cup {c}
    BY <1>0, ToSetAppend
  <2> QED
    BY <2>1, <2>2, <2>3
<1>12. ASSUME UNCHANGED vars PROVE Left
  BY <1>1, <1>12 DEF vars
<1> HIDE DEF sinkVars, queueVars, clientVars, handlerVars, terminateVars, sendVars,
     readyVars, streamVars, Left
<1>13. ASSUME DriverStep PROVE Left
  BY <1>4, <1>5, <1>6, <1>7, <1>13 DEF DriverStep
<1>14. ASSUME Network \/ Environment PROVE Left
  BY <1>5, <1>7, <1>10, <1>11, <1>14 DEF Network, Environment
<1>15. Left
  BY <1>8, <1>9, <1>12, <1>13, <1>14 DEF Next
<1> QED
  BY <1>15 DEF Left

\* What the handler does itself.
LEMMA TerminateTakes ==
  ASSUME TypeOK, NEW s \in Sessions, TerminateTake(s), outcome' = "running"
  PROVE  /\ terminating = "next" /\ Known(s) /\ locking' = s /\ terminating' = "lock"
         /\ UNCHANGED sessions
         /\ ToSet(queue["terminate"]) = ToSet(queue'["terminate"]) \cup {TerminateSession(s)}
<1>0. /\ queue \in [Handles -> Seq(Commands)] /\ "terminate" \in Handles
      /\ queue["terminate"] \in Seq(Commands)
  BY DEF TypeOK, Handles
<1>1. /\ terminating = "next" /\ queue["terminate"] # <<>> /\ UNCHANGED sessions
      /\ Head(queue["terminate"]) = TerminateSession(s)
  BY DEF TerminateTake, Polls
<1>2. /\ Known(s) /\ locking' = s /\ terminating' = "lock"
      /\ queue'["terminate"] = Tail(queue["terminate"])
  BY <1>0 DEF TerminateTake, Fail
<1> QED
  BY <1>0, <1>1, <1>2, ToSetTail

\* Every step keeps what the handler has in hand.
LEMMA LockStep == TypeOK /\ LockInv /\ [Next]_vars => LockInv'
<1> SUFFICES ASSUME TypeOK, LockInv, [Next]_vars PROVE LockInv'
  OBVIOUS
<1>1. ASSUME NEW s \in Sessions, TerminateTake(s) PROVE LockInv'
  <2>1. /\ UNCHANGED sessions /\ terminating = "next"
        /\ \/ Known(s) /\ locking' = s /\ terminating' = "lock"
           \/ UNCHANGED <<locking, terminating>>
    BY <1>1 DEF TerminateTake, Polls
  <2> QED
    BY <2>1 DEF LockInv, Known
<1>2. ASSUME TerminateClose PROVE LockInv'
  BY <1>2 DEF TerminateClose, LockInv
<1>3. ASSUME ~TerminateClose, \A s \in Sessions : ~TerminateTake(s) PROVE LockInv'
  <2>1. /\ locking' = locking
        /\ terminating' = terminating \/ (terminating' = "over" /\ terminating = "next")
    BY <1>3, TerminateLeft
  <2>2. ASSUME terminating' = "lock" PROVE locking' \in Sessions /\ Known(locking)'
    <3>1. locking \in Sessions /\ Known(locking) /\ locking \in Int
      BY <2>1, <2>2 DEF LockInv, Sessions
    <3> QED
      BY <2>1, <3>1, KnownStays DEF Known
  <2> QED
    BY <2>1, <2>2 DEF LockInv
<1> QED
  BY <1>1, <1>2, <1>3

\* A step that leaves the handler without a session to terminate closes it.
LEMMA TerminationStep ==
  ASSUME TypeOK, LockInv, [Next]_vars, NEW s \in Sessions,
         ToTerminate(s), ~ToTerminate(s)', Running'
  PROVE  ~sessions'[s]
<1>0. /\ locking' # s /\ TerminateSession(s) \notin ToSet(queue'["terminate"])
      /\ outcome' = "running" /\ sessions \in Seq(BOOLEAN)
  BY DEF ToTerminate, Running, TypeOK
<1>1. ASSUME NEW x \in Sessions, TerminateTake(x) PROVE FALSE
  <2>1. /\ terminating = "next" /\ locking' = x
        /\ ToSet(queue["terminate"]) = ToSet(queue'["terminate"]) \cup {TerminateSession(x)}
    BY <1>0, <1>1, TerminateTakes
  <2>2. locking # s
    BY <2>1 DEF LockInv, Sessions, NoSession
  <2>3. TerminateSession(s) = TerminateSession(x)
    BY <1>0, <2>1, <2>2 DEF ToTerminate
  <2>4. s = x
    BY <2>3 DEF TerminateSession
  <2> QED
    BY <1>0, <2>1, <2>4
<1>2. ASSUME TerminateClose PROVE ~sessions'[s]
  <2>1. /\ terminating = "lock" /\ UNCHANGED queue
        /\ sessions' = [sessions EXCEPT ![locking] = FALSE]
    BY <1>2 DEF TerminateClose, queueVars
  <2>2. locking = s
    BY <1>0, <2>1 DEF ToTerminate
  <2>3. s \in 1..Len(sessions)
    BY <2>1, <2>2 DEF LockInv, Known, Sessions
  <2> QED
    BY <1>0, <2>1, <2>2, <2>3
<1>3. ASSUME ~TerminateClose, \A x \in Sessions : ~TerminateTake(x) PROVE FALSE
  BY <1>0, <1>3, TerminateLeft DEF ToTerminate
<1> QED
  BY <1>1, <1>2, <1>3

\* A TerminateSession is only done with when its session is closed, or with the
\* driver, however long the lock is waited for (driver.rs, terminate_session).
THEOREM KeepsTerminations == Spec => TerminationsKept
<1>1. Init => LockInv
  BY DEF Init, LockInv
<1>2. LockInv /\ TypeOK /\ [Next]_vars => LockInv'
  BY LockStep
<1>3. Spec => []LockInv
  BY Typing, <1>1, <1>2, PTL DEF Spec
<1>4. TypeOK /\ LockInv /\ [Next]_vars =>
        [\A s \in Sessions : ToTerminate(s) /\ ~ToTerminate(s)' /\ Running' => ~sessions'[s]]_vars
  BY TerminationStep
<1> QED
  BY Typing, <1>3, <1>4, PTL DEF Spec, TerminationsKept
=============================================================================
