----------------------------- MODULE HttpProofs -----------------------------
(***************************************************************************)
(* Proofs about Http, for any requests, any builders and any capacities of *)
(* its channels.                                                           *)
(*                                                                         *)
(* IInv is inductive.  Beyond the properties it says what the run loop has *)
(* to hand over (BuildingInv), which client the source pairs requests with *)
(* before and after one has been chosen (PairingInv), which part of the    *)
(* sink the run loop has taken (TakenInv), and where each request of it    *)
(* is (HandledInv, ZippingInv).                                            *)
(***************************************************************************)
EXTENDS Http, SequenceLemmas, FiniteSetTheorems, SequenceTheorems, TLAPS

\* The run loop has a client while it awaits a permit.
BuildingInv == loop = "reserve" => building \in Clients

\* The client that zip keeps, and that a request was paired with, is the one
\* that is chosen, or the default client that will be.
Common(c) == c = chosen \/ (chosen = NoClient /\ defaulted /\ c = Default)
PairingInv == /\ slot # NoClient => Common(slot)
              /\ \A r \in Requests : used[r] # NoClient => Common(used[r])

\* How many commands the run loop has taken.
Done == Len(sent) - Len(queue["configure"]) - Len(inbox)

\* What is in its queue and in the channel is the rest of the sink, and the
\* builders that it has taken out of commands come from before that.
TakenInv ==
  LoopRuns =>
    /\ Done >= 0
    /\ \A i \in 1..Len(queue["configure"]) : queue["configure"][i] = sent[Done + i]
    /\ \A i \in 1..Len(inbox) : inbox[i] = sent[Done + Len(queue["configure"]) + i]
    /\ \A b \in taken : \E i \in 1..Done : sent[i] = ConfigureClient(b)

\* Requests on their way through the source, and those that have left it.
Handled == sending \cup executed \cup ToSet(responses) \cup ToSet(received)

\* A request is in one of these places, once.
HandledInv == /\ IsInjective(responses) /\ IsInjective(received)
              /\ sending \cap executed = {}
              /\ (sending \cup executed) \cap (ToSet(responses) \cup ToSet(received)) = {}
              /\ ToSet(responses) \cap ToSet(received) = {}
              /\ Handled \subseteq RequestsOf(sent)
              /\ requesting = "over" => sending = {} /\ executed = {}
              /\ source = "over" => requesting = "over" /\ responses = <<>>

Distinct(s) == \A i, j \in DOMAIN s : s[i] = s[j] /\ s[i].op = "SendRequest" => i = j

\* While zip goes on, the requests of the sink have been handled, or are in its
\* queue, or in the channel; and as long as there is no default client none has
\* been taken from the queue of the first request.
ZippingInv == /\ Len(inbox) <= 1
              /\ Zipping =>
                   /\ Distinct(queue["request"])
                   /\ RequestsOf(sent) = Handled \cup RequestsOf(queue["request"])
                                                 \cup RequestsOf(inbox)
                   /\ Handled \cap RequestsOf(queue["request"]) = {}
                   /\ Handled \cap RequestsOf(inbox) = {}
                   /\ RequestsOf(queue["request"]) \cap RequestsOf(inbox) = {}
                   /\ \/ defaulted
                      \/ RequestsOf(sent) \subseteq RequestsOf(queue["first"])
                                                      \cup RequestsOf(inbox)
              /\ source # "dropped" /\ requesting # "zip" =>
                   closed /\ RequestsOf(sent) = Handled

IInv == /\ TypeOK
        /\ BuildingInv
        /\ DefaultIsChosen
        /\ PairingInv
        /\ TakenInv
        /\ PanicExplained
        /\ HandledInv
        /\ ZippingInv

-----------------------------------------------------------------------------
(* Typing.                                                                 *)

\* What a handle takes is a command, and what is left are commands.
LEMMA TakeQueue ==
  ASSUME queue \in [Handles -> Seq(Commands)], NEW h \in Handles, NEW c, Take(h, c)
  PROVE  c \in Commands /\ queue' \in [Handles -> Seq(Commands)]
<1>1. queue[h] \in Seq(Commands) /\ queue[h] # <<>>
  BY DEF Take
<1>2. Head(queue[h]) \in Commands /\ Tail(queue[h]) \in Seq(Commands)
  BY <1>1, HeadTailProperties
<1> QED
  BY <1>2 DEF Take

\* Every step keeps the types.
LEMMA TypingStep == TypeOK /\ BuildingInv /\ [Next]_vars => TypeOK'
<1> SUFFICES ASSUME TypeOK, BuildingInv, [Next]_vars PROVE TypeOK'
  OBVIOUS
<1> USE DEF TypeOK, sinkVars, loopVars, clientVars, requestVars, responseVars
<1>0. /\ "configure" \in Handles /\ "request" \in Handles /\ "first" \in Handles
      /\ \A b \in Builders : b \in Clients
      /\ Default \in Clients
  BY DEF Handles, Clients
<1>1. ASSUME NEW h \in Handles, Pull(h) PROVE TypeOK'
  <2>1. Head(inbox) \in Commands /\ Tail(inbox) \in Seq(Commands)
    BY <1>1, HeadTailProperties DEF Pull
  <2> QED
    BY <1>1, <2>1 DEF Pull
<1>2. ASSUME NEW h \in Handles, Skip(h) PROVE TypeOK'
  BY <1>2, TakeQueue DEF Skip
<1>3. ASSUME NEW b \in Builders, LoopConfigure(b) PROVE TypeOK'
  <2>1. queue' \in [Handles -> Seq(Commands)]
    BY <1>3, <1>0, TakeQueue DEF LoopConfigure
  <2> QED
    BY <1>3, <1>0, <2>1 DEF LoopConfigure
<1>4. ASSUME NEW b \in Builders, LoopFail(b) PROVE TypeOK'
  <2>1. queue' \in [Handles -> Seq(Commands)]
    BY <1>4, <1>0, TakeQueue DEF LoopFail
  <2> QED
    BY <1>4, <1>0, <2>1 DEF LoopFail
<1>5. ASSUME LoopSendClient PROVE TypeOK'
  <2>1. building \in Clients
    BY <1>5 DEF LoopSendClient, BuildingInv
  <2> QED
    BY <1>5, <2>1, BuffersAssumption DEF LoopSendClient
<1>6. ASSUME LoopDisconnected PROVE TypeOK'
  BY <1>6 DEF LoopDisconnected
<1>7. ASSUME LoopEnd PROVE TypeOK'
  BY <1>7 DEF LoopEnd
<1>8. ASSUME ZipClient PROVE TypeOK'
  <2>1. clients # <<>> => /\ Head(clients) \in Clients /\ Tail(clients) \in Seq(Clients)
                          /\ Len(Tail(clients)) = Len(clients) - 1
    BY HeadTailProperties
  <2>2. /\ clients' \in Seq(Clients) /\ Len(clients') <= CLIENT_BUFFER_LEN
        /\ chosen' \in Clients \cup {NoClient}
    <3>1. CASE chosen # NoClient
      <4>1. UNCHANGED <<clients, chosen>>
        <5> HIDE DEF TypeOK
        <5> QED
          BY <1>8, <3>1 DEF ZipClient
      <4>2. clients \in Seq(Clients) /\ Len(clients) <= CLIENT_BUFFER_LEN
        OBVIOUS
      <4>3. chosen \in Clients \cup {NoClient}
        OBVIOUS
      <4> QED
        BY <4>1, <4>2, <4>3
    <3>2. CASE chosen = NoClient
      <4>1. clients # <<>> /\ chosen' = Head(clients) /\ clients' = Tail(clients)
        <5> HIDE DEF TypeOK
        <5> QED
          BY <1>8, <3>2 DEF ZipClient
      <4>2. Len(clients) \in Nat /\ Len(clients) <= CLIENT_BUFFER_LEN
        OBVIOUS
      <4> QED
        BY <4>1, <4>2, <2>1, BuffersAssumption
    <3> QED
      BY <3>1, <3>2
  <2> QED
    BY <1>8, <2>2 DEF ZipClient
<1>9. ASSUME NEW r \in Requests, ZipDefault(r) PROVE TypeOK'
  <2>1. Append(clients, Default) \in Seq(Clients) /\ Len(Append(clients, Default)) = 1
    BY <1>9, <1>0, AppendProperties DEF ZipDefault
  <2> QED
    BY <1>9, <1>0, <2>1, TakeQueue, BuffersAssumption DEF ZipDefault
<1>10. ASSUME NEW r \in Requests, ZipRequest(r) PROVE TypeOK'
  BY <1>10, <1>0, TakeQueue DEF ZipRequest
<1>11. ASSUME ZipEnd PROVE TypeOK'
  BY <1>11 DEF ZipEnd
<1>12. ASSUME NEW r \in Requests, Execute(r) PROVE TypeOK'
  BY <1>12 DEF Execute
<1>13. ASSUME NEW r \in Requests, Respond(r) PROVE TypeOK'
  BY <1>13, BuffersAssumption DEF Respond
<1>14. ASSUME RequestsEnd PROVE TypeOK'
  BY <1>14 DEF RequestsEnd
<1>15. ASSUME Receive PROVE TypeOK'
  <2>1. /\ Head(responses) \in Requests /\ Tail(responses) \in Seq(Requests)
        /\ Len(Tail(responses)) = Len(responses) - 1
    BY <1>15, HeadTailProperties DEF Receive
  <2> QED
    BY <1>15, <2>1, BuffersAssumption DEF Receive
<1>16. ASSUME ResponsesEnd PROVE TypeOK'
  BY <1>16 DEF ResponsesEnd
<1>17. ASSUME NEW c \in Commands, SendCommand(c) PROVE TypeOK'
  BY <1>17 DEF SendCommand
<1>18. ASSUME CloseSink PROVE TypeOK'
  BY <1>18 DEF CloseSink
<1>19. ASSUME DropSource PROVE TypeOK'
  BY <1>19 DEF DropSource
<1>21. ASSUME NEW r \in Requests, RequestPanic(r) PROVE TypeOK'
  BY <1>21 DEF RequestPanic
<1>20. CASE UNCHANGED vars
  BY <1>20 DEF vars
<1> HIDE DEF TypeOK, sinkVars, loopVars, clientVars, requestVars, responseVars
<1> QED
  BY <1>1, <1>2, <1>3, <1>4, <1>5, <1>6, <1>7, <1>8, <1>9, <1>10, <1>11, <1>12, <1>13, <1>14,
     <1>15, <1>16, <1>17, <1>18, <1>19, <1>20, <1>21
  DEF Next, LoopStep, ResponsesStep, Server, Environment, Handles

-----------------------------------------------------------------------------
(* The clients.                                                            *)

\* What the run loop awaits a permit for is what it has built.
LEMMA BuildingStep == BuildingInv /\ [Next]_vars => BuildingInv'
<1> SUFFICES ASSUME BuildingInv, [Next]_vars PROVE BuildingInv'
  OBVIOUS
<1> USE DEF BuildingInv, sinkVars, loopVars, clientVars, requestVars, responseVars
<1>0. \A b \in Builders : b \in Clients
  BY DEF Clients
<1>1. ASSUME NEW h \in Handles, Pull(h) PROVE BuildingInv'
  BY <1>1 DEF Pull
<1>2. ASSUME NEW h \in Handles, Skip(h) PROVE BuildingInv'
  BY <1>2 DEF Skip
<1>3. ASSUME NEW b \in Builders, LoopConfigure(b) PROVE BuildingInv'
  BY <1>3, <1>0 DEF LoopConfigure
<1>4. ASSUME NEW b \in Builders, LoopFail(b) PROVE BuildingInv'
  BY <1>4 DEF LoopFail
<1>5. ASSUME LoopSendClient PROVE BuildingInv'
  BY <1>5 DEF LoopSendClient
<1>6. ASSUME LoopDisconnected PROVE BuildingInv'
  BY <1>6 DEF LoopDisconnected
<1>7. ASSUME LoopEnd PROVE BuildingInv'
  BY <1>7 DEF LoopEnd
<1>8. ASSUME ZipClient PROVE BuildingInv'
  BY <1>8 DEF ZipClient
<1>9. ASSUME NEW r \in Requests, ZipDefault(r) PROVE BuildingInv'
  BY <1>9 DEF ZipDefault
<1>10. ASSUME NEW r \in Requests, ZipRequest(r) PROVE BuildingInv'
  BY <1>10 DEF ZipRequest
<1>11. ASSUME ZipEnd PROVE BuildingInv'
  BY <1>11 DEF ZipEnd
<1>12. ASSUME NEW r \in Requests, Execute(r) PROVE BuildingInv'
  BY <1>12 DEF Execute
<1>13. ASSUME NEW r \in Requests, Respond(r) PROVE BuildingInv'
  BY <1>13 DEF Respond
<1>14. ASSUME RequestsEnd PROVE BuildingInv'
  BY <1>14 DEF RequestsEnd
<1>15. ASSUME Receive PROVE BuildingInv'
  BY <1>15 DEF Receive
<1>16. ASSUME ResponsesEnd PROVE BuildingInv'
  BY <1>16 DEF ResponsesEnd
<1>17. ASSUME NEW c \in Commands, SendCommand(c) PROVE BuildingInv'
  BY <1>17 DEF SendCommand
<1>18. ASSUME CloseSink PROVE BuildingInv'
  BY <1>18 DEF CloseSink
<1>19. ASSUME DropSource PROVE BuildingInv'
  BY <1>19 DEF DropSource
<1>21. ASSUME NEW r \in Requests, RequestPanic(r) PROVE BuildingInv'
  BY <1>21 DEF RequestPanic
<1>20. CASE UNCHANGED vars
  BY <1>20 DEF vars
<1> HIDE DEF BuildingInv, sinkVars, loopVars, clientVars, requestVars, responseVars
<1> QED
  BY <1>1, <1>2, <1>3, <1>4, <1>5, <1>6, <1>7, <1>8, <1>9, <1>10, <1>11, <1>12, <1>13, <1>14,
     <1>15, <1>16, <1>17, <1>18, <1>19, <1>20, <1>21
  DEF Next, LoopStep, ResponsesStep, Server, Environment, Handles

\* An element that is appended leaves the head as it is.
LEMMA AppendHead ==
  ASSUME NEW S, NEW s \in Seq(S), NEW x, s # <<>>
  PROVE  Append(s, x) # <<>> /\ Head(Append(s, x)) = Head(s)
OBVIOUS

\* The default client stays at the head of the channel until it is chosen, for
\* the channel is empty when it is sent.
LEMMA ChosenStep == TypeOK /\ DefaultIsChosen /\ [Next]_vars => DefaultIsChosen'
<1> SUFFICES ASSUME TypeOK, DefaultIsChosen, [Next]_vars PROVE DefaultIsChosen'
  OBVIOUS
<1> USE DEF DefaultIsChosen, sinkVars, loopVars, clientVars, requestVars, responseVars
<1>1. ASSUME NEW h \in Handles, Pull(h) PROVE DefaultIsChosen'
  BY <1>1 DEF Pull
<1>2. ASSUME NEW h \in Handles, Skip(h) PROVE DefaultIsChosen'
  BY <1>2 DEF Skip
<1>3. ASSUME NEW b \in Builders, LoopConfigure(b) PROVE DefaultIsChosen'
  BY <1>3 DEF LoopConfigure
<1>4. ASSUME NEW b \in Builders, LoopFail(b) PROVE DefaultIsChosen'
  BY <1>4 DEF LoopFail
<1>5. ASSUME LoopSendClient PROVE DefaultIsChosen'
  <2>1. clients \in Seq(Clients)
    BY DEF TypeOK
  <2>2. clients # <<>> => clients' # <<>> /\ Head(clients') = Head(clients)
    BY <1>5, <2>1, AppendHead DEF LoopSendClient
  <2> QED
    BY <1>5, <2>2 DEF LoopSendClient
<1>6. ASSUME LoopDisconnected PROVE DefaultIsChosen'
  BY <1>6 DEF LoopDisconnected
<1>7. ASSUME LoopEnd PROVE DefaultIsChosen'
  BY <1>7 DEF LoopEnd
<1>8. ASSUME ZipClient PROVE DefaultIsChosen'
  BY <1>8, ClientsAssumption DEF ZipClient
<1>9. ASSUME NEW r \in Requests, ZipDefault(r) PROVE DefaultIsChosen'
  <2>1. clients' = <<Default>>
    BY <1>9 DEF ZipDefault
  <2> QED
    BY <1>9, <2>1 DEF ZipDefault
<1>10. ASSUME NEW r \in Requests, ZipRequest(r) PROVE DefaultIsChosen'
  BY <1>10 DEF ZipRequest
<1>11. ASSUME ZipEnd PROVE DefaultIsChosen'
  BY <1>11 DEF ZipEnd
<1>12. ASSUME NEW r \in Requests, Execute(r) PROVE DefaultIsChosen'
  BY <1>12 DEF Execute
<1>13. ASSUME NEW r \in Requests, Respond(r) PROVE DefaultIsChosen'
  BY <1>13 DEF Respond
<1>14. ASSUME RequestsEnd PROVE DefaultIsChosen'
  BY <1>14 DEF RequestsEnd
<1>15. ASSUME Receive PROVE DefaultIsChosen'
  BY <1>15 DEF Receive
<1>16. ASSUME ResponsesEnd PROVE DefaultIsChosen'
  BY <1>16 DEF ResponsesEnd
<1>17. ASSUME NEW c \in Commands, SendCommand(c) PROVE DefaultIsChosen'
  BY <1>17 DEF SendCommand
<1>18. ASSUME CloseSink PROVE DefaultIsChosen'
  BY <1>18 DEF CloseSink
<1>19. ASSUME DropSource PROVE DefaultIsChosen'
  BY <1>19 DEF DropSource
<1>21. ASSUME NEW r \in Requests, RequestPanic(r) PROVE DefaultIsChosen'
  BY <1>21 DEF RequestPanic
<1>20. CASE UNCHANGED vars
  BY <1>20 DEF vars
<1> HIDE DEF DefaultIsChosen, sinkVars, loopVars, clientVars, requestVars, responseVars
<1> QED
  BY <1>1, <1>2, <1>3, <1>4, <1>5, <1>6, <1>7, <1>8, <1>9, <1>10, <1>11, <1>12, <1>13, <1>14,
     <1>15, <1>16, <1>17, <1>18, <1>19, <1>20, <1>21
  DEF Next, LoopStep, ResponsesStep, Server, Environment, Handles

\* Requests are paired with one client, also across the moment when it is chosen.
LEMMA PairingStep == TypeOK /\ DefaultIsChosen /\ PairingInv /\ [Next]_vars => PairingInv'
<1> SUFFICES ASSUME TypeOK, DefaultIsChosen, PairingInv, [Next]_vars PROVE PairingInv'
  OBVIOUS
<1> USE DEF PairingInv, Common, sinkVars, loopVars, clientVars, requestVars, responseVars
<1>1. ASSUME NEW h \in Handles, Pull(h) PROVE PairingInv'
  BY <1>1 DEF Pull
<1>2. ASSUME NEW h \in Handles, Skip(h) PROVE PairingInv'
  BY <1>2 DEF Skip
<1>3. ASSUME NEW b \in Builders, LoopConfigure(b) PROVE PairingInv'
  BY <1>3 DEF LoopConfigure
<1>4. ASSUME NEW b \in Builders, LoopFail(b) PROVE PairingInv'
  BY <1>4 DEF LoopFail
<1>5. ASSUME LoopSendClient PROVE PairingInv'
  BY <1>5 DEF LoopSendClient
<1>6. ASSUME LoopDisconnected PROVE PairingInv'
  BY <1>6 DEF LoopDisconnected
<1>7. ASSUME LoopEnd PROVE PairingInv'
  BY <1>7 DEF LoopEnd
<1>8. ASSUME ZipClient PROVE PairingInv'
  <2>1. CASE chosen # NoClient
    BY <1>8, <2>1 DEF ZipClient
  <2>2. CASE chosen = NoClient
    <3>1. defaulted => Head(clients) = Default
      BY <2>2, ClientsAssumption DEF DefaultIsChosen, Clients
    <3> QED
      BY <1>8, <2>2, <3>1 DEF ZipClient
  <2> QED
    BY <2>1, <2>2
<1>9. ASSUME NEW r \in Requests, ZipDefault(r) PROVE PairingInv'
  BY <1>9 DEF ZipDefault
<1>10. ASSUME NEW r \in Requests, ZipRequest(r) PROVE PairingInv'
  <2>1. used \in [Requests -> Clients \cup {NoClient}]
    BY DEF TypeOK
  <2> QED
    BY <1>10, <2>1 DEF ZipRequest
<1>11. ASSUME ZipEnd PROVE PairingInv'
  BY <1>11 DEF ZipEnd
<1>12. ASSUME NEW r \in Requests, Execute(r) PROVE PairingInv'
  BY <1>12 DEF Execute
<1>13. ASSUME NEW r \in Requests, Respond(r) PROVE PairingInv'
  BY <1>13 DEF Respond
<1>14. ASSUME RequestsEnd PROVE PairingInv'
  BY <1>14 DEF RequestsEnd
<1>15. ASSUME Receive PROVE PairingInv'
  BY <1>15 DEF Receive
<1>16. ASSUME ResponsesEnd PROVE PairingInv'
  BY <1>16 DEF ResponsesEnd
<1>17. ASSUME NEW c \in Commands, SendCommand(c) PROVE PairingInv'
  BY <1>17 DEF SendCommand
<1>18. ASSUME CloseSink PROVE PairingInv'
  BY <1>18 DEF CloseSink
<1>19. ASSUME DropSource PROVE PairingInv'
  BY <1>19 DEF DropSource
<1>21. ASSUME NEW r \in Requests, RequestPanic(r) PROVE PairingInv'
  BY <1>21 DEF RequestPanic
<1>20. CASE UNCHANGED vars
  BY <1>20 DEF vars
<1> HIDE DEF PairingInv, Common, sinkVars, loopVars, clientVars, requestVars, responseVars
<1> QED
  BY <1>1, <1>2, <1>3, <1>4, <1>5, <1>6, <1>7, <1>8, <1>9, <1>10, <1>11, <1>12, <1>13, <1>14,
     <1>15, <1>16, <1>17, <1>18, <1>19, <1>20, <1>21
  DEF Next, LoopStep, ResponsesStep, Server, Environment, Handles

-----------------------------------------------------------------------------
(* What the run loop has taken.                                            *)

\* Counting.
LEMMA DoneNext ==
  ASSUME Len(sent) \in Nat, Len(inbox) \in Nat, Len(queue["configure"]) \in Nat,
         Len(sent') = Len(sent), Len(inbox') = Len(inbox),
         Len(queue'["configure"]) = Len(queue["configure"]) - 1
  PROVE  Done' = Done + 1 /\ Done \in Int
BY DEF Done

\* A command that is sent is not done yet.
LEMMA DoneSent ==
  ASSUME Len(sent) \in Nat, Len(queue["configure"]) \in Nat, Len(inbox) = 0,
         Len(sent') = Len(sent) + 1, Len(inbox') = 1,
         queue'["configure"] = queue["configure"]
  PROVE  /\ Done' = Done /\ Done \in Int
         /\ Done + Len(queue["configure"]) = Len(sent)
BY DEF Done

\* The run loop takes the next command, and perhaps a builder out of it.
LEMMA TakenNext ==
  ASSUME sent \in Seq(Commands), inbox \in Seq(Commands), queue["configure"] \in Seq(Commands),
         TakenInv, LoopRuns,
         queue["configure"] # <<>>, queue'["configure"] = Tail(queue["configure"]),
         UNCHANGED <<sent, inbox>>,
         LoopRuns' => \/ UNCHANGED taken
                      \/ \E b \in Builders : /\ Head(queue["configure"]) = ConfigureClient(b)
                                             /\ taken' = taken \cup {b}
  PROVE  TakenInv'
<1>1. /\ Len(queue'["configure"]) = Len(queue["configure"]) - 1
      /\ \A i \in 1..Len(queue'["configure"]) : queue'["configure"][i] = queue["configure"][i + 1]
      /\ Len(queue["configure"]) >= 1
      /\ Head(queue["configure"]) = queue["configure"][1]
  BY HeadTailProperties
<1>2. Done' = Done + 1 /\ Done \in Int
  <2>1. /\ Len(sent) \in Nat /\ Len(inbox) \in Nat /\ Len(queue["configure"]) \in Nat
        /\ Len(sent') = Len(sent) /\ Len(inbox') = Len(inbox)
    OBVIOUS
  <2> QED
    BY <1>1, <2>1, DoneNext
<1>3. Done >= 0 /\ sent[Done + 1] = Head(queue["configure"])
  BY <1>1, <1>2 DEF TakenInv
<1>4. ASSUME LoopRuns' PROVE \A b \in taken' : \E i \in 1..Done' : sent'[i] = ConfigureClient(b)
  <2>1. \A b \in taken : \E i \in 1..Done : sent[i] = ConfigureClient(b)
    BY DEF TakenInv
  <2> QED
    BY <1>2, <1>3, <1>4, <2>1
<1>5. \A i \in 1..Len(queue'["configure"]) : queue'["configure"][i] = sent'[Done' + i]
  <2>1. \A i \in 1..Len(queue["configure"]) : queue["configure"][i] = sent[Done + i]
    BY DEF TakenInv
  <2> QED
    BY <1>1, <1>2, <2>1
<1>6. \A i \in 1..Len(inbox') : inbox'[i] = sent'[Done' + Len(queue'["configure"]) + i]
  <2>1. \A i \in 1..Len(inbox) : inbox[i] = sent[Done + Len(queue["configure"]) + i]
    BY DEF TakenInv
  <2> QED
    BY <1>1, <1>2, <2>1
<1>7. Done' >= 0
  BY <1>2, <1>3
<1> QED
  BY <1>4, <1>5, <1>6, <1>7 DEF TakenInv

\* A command goes from the sink into the channel, from there into the queue, and
\* the run loop takes it from there.
LEMMA TakenStep == TypeOK /\ TakenInv /\ [Next]_vars => TakenInv'
<1> SUFFICES ASSUME TypeOK, TakenInv, [Next]_vars PROVE TakenInv'
  OBVIOUS
<1> USE DEF TakenInv, Done, LoopRuns, sinkVars, loopVars, clientVars, requestVars, responseVars
<1>0. /\ sent \in Seq(Commands) /\ inbox \in Seq(Commands)
      /\ queue \in [Handles -> Seq(Commands)] /\ queue["configure"] \in Seq(Commands)
      /\ "configure" \in Handles
  BY DEF TypeOK, Handles
<1>1. ASSUME NEW h \in Handles, Pull(h) PROVE TakenInv'
  <2> SUFFICES ASSUME LoopRuns PROVE TakenInv'
    BY <1>1 DEF Pull
  <2>1. /\ inbox # <<>> /\ inbox' = Tail(inbox)
        /\ queue'["configure"] = Append(queue["configure"], Head(inbox))
    BY <1>1, <1>0 DEF Pull, Live
  <2>2. /\ Len(inbox') = Len(inbox) - 1
        /\ \A i \in 1..Len(inbox') : inbox'[i] = inbox[i + 1]
    BY <1>0, <2>1, HeadTailProperties
  <2>3. /\ Len(queue'["configure"]) = Len(queue["configure"]) + 1
        /\ \A i \in 1..Len(queue["configure"]) : queue'["configure"][i] = queue["configure"][i]
        /\ queue'["configure"][Len(queue["configure"]) + 1] = inbox[1]
    <3>1. Head(inbox) \in Commands /\ Head(inbox) = inbox[1]
      BY <1>0, <2>1, HeadTailProperties
    <3> QED
      BY <1>0, <2>1, <3>1, AppendProperties
  <2>4. UNCHANGED <<sent, taken, loop>>
    BY <1>1 DEF Pull
  <2> DEFINE q == queue["configure"]
             n == Len(sent) - Len(q) - Len(inbox)
  <2>5. /\ Len(sent) \in Nat /\ Len(q) \in Nat /\ Len(inbox) \in Nat
        /\ n \in Nat /\ Done' = n
    BY <1>0, <2>2, <2>3, <2>4
  <2>6. /\ \A i \in 1..Len(q) : q[i] = sent[n + i]
        /\ \A i \in 1..Len(inbox) : inbox[i] = sent[n + Len(q) + i]
        /\ \A b \in taken : \E i \in 1..n : sent[i] = ConfigureClient(b)
    OBVIOUS
  <2> HIDE DEF n, TakenInv, Done
  <2>7. ASSUME NEW i \in 1..Len(q') PROVE q'[i] = sent[n + i]
    <3>1. CASE i <= Len(q)
      BY <3>1, <2>3, <2>5, <2>6
    <3>2. CASE i = Len(q) + 1
      <4>1. inbox # <<>> /\ 1 \in 1..Len(inbox)
        BY <1>0, <2>1, <2>2, <2>5
      <4>2. n + Len(q) + 1 = n + i
        BY <3>2, <2>5
      <4> QED
        BY <4>1, <4>2, <3>2, <2>3, <2>6
    <3> QED
      BY <3>1, <3>2, <2>3, <2>5
  <2>8. ASSUME NEW i \in 1..Len(inbox') PROVE inbox'[i] = sent[n + Len(q') + i]
    <3>1. Len(inbox') = Len(inbox) - 1 /\ Len(q') = Len(q) + 1
      BY <2>2, <2>3
    <3>2. i + 1 \in 1..Len(inbox) /\ i \in Nat
      BY <3>1, <2>5
    <3>3. n + Len(q) + (i + 1) = n + Len(q') + i
      <4> DEFINE l == Len(q)
      <4>1. n \in Nat /\ l \in Nat /\ i \in Nat /\ Len(q') = l + 1
        BY <3>1, <3>2, <2>5
      <4> HIDE DEF l
      <4>2. n + l + (i + 1) = n + (l + 1) + i
        BY <4>1
      <4> QED
        BY <4>1, <4>2 DEF l
    <3> QED
      BY <3>2, <3>3, <2>2, <2>6
  <2>9. \A b \in taken : \E i \in 1..n : sent[i] = ConfigureClient(b)
    BY <2>6
  <2> QED
    BY <2>4, <2>5, <2>7, <2>8, <2>9 DEF TakenInv
<1>2. ASSUME NEW h \in Handles, Skip(h) PROVE TakenInv'
  <2>1. CASE h = "configure"
    <3> SUFFICES ASSUME LoopRuns PROVE TakenInv'
      BY <1>2 DEF Skip
    <3>1. /\ queue["configure"] # <<>> /\ queue'["configure"] = Tail(queue["configure"])
          /\ UNCHANGED <<sent, inbox, taken>>
      BY <1>2, <2>1, <1>0 DEF Skip, Take
    <3> QED
      BY <3>1, <1>0, TakenNext
  <2>2. CASE h # "configure"
    BY <1>2, <2>2, <1>0 DEF Skip, Take
  <2> QED
    BY <2>1, <2>2
<1>3. ASSUME NEW b \in Builders, LoopConfigure(b) PROVE TakenInv'
  <2>1. /\ queue["configure"] # <<>> /\ queue'["configure"] = Tail(queue["configure"])
        /\ Head(queue["configure"]) = ConfigureClient(b) /\ LoopRuns
        /\ UNCHANGED <<sent, inbox>>
    BY <1>3, <1>0 DEF LoopConfigure, Take
  <2>2. loop' # "panicked" => taken' = taken \cup {b}
    BY <1>3 DEF LoopConfigure
  <2> QED
    BY <1>0, <2>1, <2>2, TakenNext
<1>4. ASSUME NEW b \in Builders, LoopFail(b) PROVE TakenInv'
  BY <1>4 DEF LoopFail
<1>5. ASSUME LoopSendClient PROVE TakenInv'
  BY <1>5 DEF LoopSendClient
<1>6. ASSUME LoopDisconnected PROVE TakenInv'
  BY <1>6 DEF LoopDisconnected
<1>7. ASSUME LoopEnd PROVE TakenInv'
  BY <1>7 DEF LoopEnd
<1>8. ASSUME ZipClient PROVE TakenInv'
  BY <1>8 DEF ZipClient
<1>9. ASSUME NEW r \in Requests, ZipDefault(r) PROVE TakenInv'
  <2>1. queue'["configure"] = queue["configure"]
    BY <1>9, <1>0 DEF ZipDefault, Take
  <2> QED
    BY <1>9, <2>1 DEF ZipDefault
<1>10. ASSUME NEW r \in Requests, ZipRequest(r) PROVE TakenInv'
  <2>1. queue'["configure"] = queue["configure"]
    BY <1>10, <1>0 DEF ZipRequest, Take
  <2> QED
    BY <1>10, <2>1 DEF ZipRequest
<1>11. ASSUME ZipEnd PROVE TakenInv'
  BY <1>11 DEF ZipEnd
<1>12. ASSUME NEW r \in Requests, Execute(r) PROVE TakenInv'
  BY <1>12 DEF Execute
<1>13. ASSUME NEW r \in Requests, Respond(r) PROVE TakenInv'
  BY <1>13 DEF Respond
<1>14. ASSUME RequestsEnd PROVE TakenInv'
  BY <1>14 DEF RequestsEnd
<1>15. ASSUME Receive PROVE TakenInv'
  BY <1>15 DEF Receive
<1>16. ASSUME ResponsesEnd PROVE TakenInv'
  BY <1>16 DEF ResponsesEnd
<1>17. ASSUME NEW c \in Commands, SendCommand(c) PROVE TakenInv'
  <2> SUFFICES ASSUME LoopRuns PROVE TakenInv'
    BY <1>17 DEF SendCommand
  <2>1. /\ inbox = <<>> /\ sent' = Append(sent, c) /\ inbox' = Append(inbox, c)
        /\ UNCHANGED <<queue, taken>>
    BY <1>17 DEF SendCommand
  <2>2. /\ Len(sent') = Len(sent) + 1
        /\ \A i \in 1..Len(sent) : sent'[i] = sent[i]
        /\ sent'[Len(sent) + 1] = c
    BY <1>0, <2>1, AppendProperties
  <2>3. Len(inbox) = 0 /\ Len(inbox') = 1 /\ inbox'[1] = c
    BY <2>1
  <2> HIDE DEF TakenInv, Done
  <2>4. /\ Done' = Done /\ Done \in Int
        /\ Done + Len(queue["configure"]) = Len(sent)
    <3>1. /\ Len(sent) \in Nat /\ Len(queue["configure"]) \in Nat
          /\ queue'["configure"] = queue["configure"]
      BY <1>0, <2>1
    <3> QED
      BY <2>2, <2>3, <3>1, DoneSent
  <2>5. Done + Len(queue["configure"]) = Len(sent) /\ Done >= 0
    <3>1. Done >= 0
      BY DEF TakenInv
    <3> QED
      BY <2>4, <3>1
  <2>6. \A i \in 1..Len(queue["configure"]) : queue["configure"][i] = sent'[Done + i]
    <3> TAKE i \in 1..Len(queue["configure"])
    <3>1. queue["configure"][i] = sent[Done + i]
      BY DEF TakenInv
    <3>2. Len(sent) \in Nat /\ Len(queue["configure"]) \in Nat
      BY <1>0
    <3>3. Done + i \in 1..Len(sent)
      BY <2>4, <2>5, <3>2
    <3> QED
      BY <2>2, <3>1, <3>3
  <2>7. \A b \in taken : \E i \in 1..Done : sent'[i] = ConfigureClient(b)
    <3>1. \A b \in taken : \E i \in 1..Done : sent[i] = ConfigureClient(b)
      BY DEF TakenInv
    <3>2. \A i \in 1..Done : i \in 1..Len(sent)
      <4>1. Len(sent) \in Nat /\ Len(queue["configure"]) \in Nat
        BY <1>0
      <4> QED
        BY <2>4, <2>5, <4>1
    <3> QED
      BY <2>2, <3>1, <3>2
  <2>8. \A i \in 1..Len(inbox') : inbox'[i] = sent'[Done + Len(queue["configure"]) + i]
    BY <2>2, <2>3, <2>5
  <2> QED
    BY <2>1, <2>4, <2>5, <2>6, <2>7, <2>8 DEF TakenInv
<1>18. ASSUME CloseSink PROVE TakenInv'
  BY <1>18 DEF CloseSink
<1>19. ASSUME DropSource PROVE TakenInv'
  BY <1>19 DEF DropSource
<1>21. ASSUME NEW r \in Requests, RequestPanic(r) PROVE TakenInv'
  BY <1>21 DEF RequestPanic
<1>20. CASE UNCHANGED vars
  BY <1>20 DEF vars
<1> HIDE DEF TakenInv, Done, LoopRuns, sinkVars, loopVars, clientVars, requestVars, responseVars
<1> QED
  BY <1>1, <1>2, <1>3, <1>4, <1>5, <1>6, <1>7, <1>8, <1>9, <1>10, <1>11, <1>12, <1>13, <1>14,
     <1>15, <1>16, <1>17, <1>18, <1>19, <1>20, <1>21
  DEF Next, LoopStep, ResponsesStep, Server, Environment, Handles

\* A builder that is missing was in a command before the one that is taken; and a
\* request that is being sent was among the commands, and is not answered yet.
LEMMA PanicStep ==
  TypeOK /\ TakenInv /\ HandledInv /\ PanicExplained /\ [Next]_vars => PanicExplained'
<1> SUFFICES ASSUME TypeOK, TakenInv, HandledInv, PanicExplained, [Next]_vars
             PROVE  PanicExplained'
  OBVIOUS
<1> USE DEF PanicExplained, sinkVars, loopVars, clientVars, requestVars, responseVars
<1>1. ASSUME NEW h \in Handles, Pull(h) PROVE PanicExplained'
  BY <1>1 DEF Pull
<1>2. ASSUME NEW h \in Handles, Skip(h) PROVE PanicExplained'
  BY <1>2 DEF Skip
<1>3. ASSUME NEW b \in Builders, LoopConfigure(b) PROVE PanicExplained'
  <2> SUFFICES ASSUME b \in taken
               PROVE  \E i, j \in DOMAIN sent : i < j /\ sent[i] = sent[j]
    BY <1>3 DEF LoopConfigure
  <2>1. /\ sent \in Seq(Commands) /\ inbox \in Seq(Commands)
        /\ queue["configure"] \in Seq(Commands) /\ queue["configure"] # <<>>
        /\ queue["configure"][1] = ConfigureClient(b) /\ LoopRuns
    BY <1>3 DEF TypeOK, Handles, LoopConfigure, Take, LoopRuns
  <2>2. /\ Done \in Int /\ Done + Len(queue["configure"]) <= Len(sent)
        /\ Len(queue["configure"]) >= 1 /\ Len(sent) \in Nat
    BY <2>1 DEF Done
  <2>4. Done >= 0 /\ sent[Done + 1] = ConfigureClient(b)
    BY <2>1, <2>2 DEF TakenInv
  <2>3. PICK i \in 1..Done : sent[i] = ConfigureClient(b)
    BY <2>1 DEF TakenInv
  <2> QED
    BY <2>1, <2>2, <2>3, <2>4
<1>4. ASSUME NEW b \in Builders, LoopFail(b) PROVE PanicExplained'
  BY <1>4 DEF LoopFail
<1>5. ASSUME LoopSendClient PROVE PanicExplained'
  BY <1>5 DEF LoopSendClient
<1>6. ASSUME LoopDisconnected PROVE PanicExplained'
  BY <1>6 DEF LoopDisconnected
<1>7. ASSUME LoopEnd PROVE PanicExplained'
  BY <1>7 DEF LoopEnd
<1>8. ASSUME ZipClient PROVE PanicExplained'
  BY <1>8 DEF ZipClient
<1>9. ASSUME NEW r \in Requests, ZipDefault(r) PROVE PanicExplained'
  BY <1>9 DEF ZipDefault
<1>10. ASSUME NEW r \in Requests, ZipRequest(r) PROVE PanicExplained'
  BY <1>10 DEF ZipRequest
<1>11. ASSUME ZipEnd PROVE PanicExplained'
  BY <1>11 DEF ZipEnd
<1>12. ASSUME NEW r \in Requests, Execute(r) PROVE PanicExplained'
  BY <1>12 DEF Execute
<1>13. ASSUME NEW r \in Requests, Respond(r) PROVE PanicExplained'
  BY <1>13 DEF Respond
<1>14. ASSUME RequestsEnd PROVE PanicExplained'
  BY <1>14 DEF RequestsEnd
<1>15. ASSUME Receive PROVE PanicExplained'
  BY <1>15 DEF Receive
<1>16. ASSUME ResponsesEnd PROVE PanicExplained'
  BY <1>16 DEF ResponsesEnd
<1>17. ASSUME ~Panicked, NEW c \in Commands, SendCommand(c) PROVE PanicExplained'
  <2>1. /\ Len(sent') = Len(sent) + 1
        /\ \A i \in 1..Len(sent) : sent'[i] = sent[i]
        /\ sent \in Seq(Commands) /\ sent' \in Seq(Commands)
    BY <1>17, AppendProperties DEF TypeOK, SendCommand
  <2>2. \A i \in DOMAIN sent : i \in DOMAIN sent' /\ sent'[i] = sent[i]
    BY <2>1
  <2> QED
    BY <1>17, <2>2 DEF SendCommand, Panicked
<1>18. ASSUME CloseSink PROVE PanicExplained'
  BY <1>18 DEF CloseSink
<1>19. ASSUME DropSource PROVE PanicExplained'
  BY <1>19 DEF DropSource
<1>21. ASSUME NEW r \in Requests, RequestPanic(r) PROVE PanicExplained'
  <2>1. /\ r \in sending \cap Invalid
        /\ UNCHANGED <<sent, loop, received>>
    BY <1>21 DEF RequestPanic
  <2>2. r \in RequestsOf(sent) /\ r \notin ToSet(received)
    BY <2>1 DEF HandledInv, Handled
  <2> QED
    BY <2>1, <2>2
<1>20. CASE UNCHANGED vars
  BY <1>20 DEF vars
<1> HIDE DEF PanicExplained, sinkVars, loopVars, clientVars, requestVars, responseVars
<1> QED
  BY <1>1, <1>2, <1>3, <1>4, <1>5, <1>6, <1>7, <1>8, <1>9, <1>10, <1>11, <1>12, <1>13, <1>14,
     <1>15, <1>16, <1>17, <1>18, <1>19, <1>20, <1>21
  DEF Next, LoopStep, ResponsesStep, Server, Environment, Handles

-----------------------------------------------------------------------------
(* Where the requests are.                                                 *)

\* What a command asks for.
Ask(c) == {r \in Requests : c = SendRequest(r)}

\* The request that a command asks for, if any.
LEMMA AskFacts ==
  /\ \A c \in Commands : Ask(c) = {} <=> c.op # "SendRequest"
  /\ \A r \in Requests : Ask(SendRequest(r)) = {r}
  /\ \A c \in Commands : \A r \in Ask(c) : c = SendRequest(r)
<1>1. \A r \in Requests : SendRequest(r).op = "SendRequest" /\ SendRequest(r).request = r
  BY DEF SendRequest
<1>2. \A b \in Builders : ConfigureClient(b).op # "SendRequest"
  BY DEF ConfigureClient
<1> QED
  BY <1>1, <1>2 DEF Ask, Commands

\* The requests of commands are what each of them asks for.
LEMMA RequestsAsked ==
  ASSUME NEW s \in Seq(Commands)
  PROVE  /\ \A r : r \in RequestsOf(s) <=> \E i \in DOMAIN s : r \in Ask(s[i])
         /\ RequestsOf(s) \subseteq Requests
<1>1. \A i \in DOMAIN s : s[i] \in Commands
  BY ElementOfSeq
<1>2. \A c \in Commands : \A r : r \in Ask(c) <=> c.op = "SendRequest" /\ c.request = r
  BY DEF Ask, Commands, SendRequest, ConfigureClient
<1>3. \A c : c \in ToSet(s) <=> \E i \in DOMAIN s : s[i] = c
  BY DEF ToSet
<1>4. \A r : r \in RequestsOf(s) <=> \E i \in DOMAIN s : r \in Ask(s[i])
  <2>1. \A r : r \in RequestsOf(s) <=> \E c \in ToSet(s) : c.op = "SendRequest" /\ c.request = r
    BY DEF RequestsOf
  <2> QED
    BY <1>1, <1>2, <1>3, <2>1
<1> QED
  BY <1>4 DEF Ask

\* No commands ask for no request.
LEMMA RequestsEmpty == RequestsOf(<<>>) = {}
BY DEF RequestsOf, ToSet

\* One more command asks for one more request, if it is to be sent.
LEMMA RequestsAppend ==
  ASSUME NEW s \in Seq(Commands), NEW c \in Commands
  PROVE  /\ RequestsOf(Append(s, c)) = RequestsOf(s) \cup Ask(c)
         /\ Distinct(s) /\ RequestsOf(s) \cap Ask(c) = {} => Distinct(Append(s, c))
<1>1. /\ Append(s, c) \in Seq(Commands) /\ Len(Append(s, c)) = Len(s) + 1
      /\ \A i \in 1..Len(s) : Append(s, c)[i] = s[i]
      /\ Append(s, c)[Len(s) + 1] = c
  BY AppendProperties
<1>2. DOMAIN s = 1..Len(s) /\ DOMAIN Append(s, c) = 1..(Len(s) + 1) /\ Len(s) \in Nat
  BY <1>1
<1>3. DOMAIN Append(s, c) = DOMAIN s \cup {Len(s) + 1}
  BY <1>2
<1>4. \A i \in DOMAIN s : Append(s, c)[i] = s[i]
  BY <1>1, <1>2
<1>5. RequestsOf(Append(s, c)) = RequestsOf(s) \cup Ask(c)
  BY <1>1, <1>3, <1>4, RequestsAsked
<1>6. ASSUME Distinct(s), RequestsOf(s) \cap Ask(c) = {} PROVE Distinct(Append(s, c))
  <2>1. ASSUME NEW i \in DOMAIN s, s[i] = c PROVE c.op # "SendRequest"
    BY <1>6, <2>1, RequestsAsked, AskFacts
  <2> QED
    BY <1>1, <1>3, <1>4, <1>6, <2>1 DEF Distinct
<1> QED
  BY <1>5, <1>6

\* What is taken leaves the requests of the other commands.
LEMMA RequestsTail ==
  ASSUME NEW s \in Seq(Commands), s # <<>>
  PROVE  /\ Head(s) \in Commands /\ Tail(s) \in Seq(Commands)
         /\ RequestsOf(s) = RequestsOf(Tail(s)) \cup Ask(Head(s))
         /\ Distinct(s) => Distinct(Tail(s)) /\ RequestsOf(Tail(s)) \cap Ask(Head(s)) = {}
<1>1. /\ Tail(s) \in Seq(Commands) /\ Len(Tail(s)) = Len(s) - 1 /\ Head(s) \in Commands
      /\ \A i \in 1..Len(Tail(s)) : Tail(s)[i] = s[i + 1]
  BY HeadTailProperties
<1>2. /\ DOMAIN s = 1..Len(s) /\ DOMAIN Tail(s) = 1..(Len(s) - 1)
      /\ Len(s) \in Nat /\ Len(s) >= 1 /\ Head(s) = s[1]
  BY <1>1
<1>3. \A i \in DOMAIN s : i = 1 \/ (i - 1 \in DOMAIN Tail(s) /\ Tail(s)[i - 1] = s[i])
  BY <1>1, <1>2
<1>4. \A i \in DOMAIN Tail(s) : i + 1 \in DOMAIN s /\ Tail(s)[i] = s[i + 1] /\ i + 1 # 1
  BY <1>1, <1>2
<1>5. 1 \in DOMAIN s
  BY <1>2
<1>6. RequestsOf(s) = RequestsOf(Tail(s)) \cup Ask(Head(s))
  <2>1. ASSUME NEW r \in RequestsOf(s) PROVE r \in RequestsOf(Tail(s)) \/ r \in Ask(Head(s))
    <3>1. PICK i \in DOMAIN s : r \in Ask(s[i])
      BY <2>1, RequestsAsked
    <3> QED
      BY <1>1, <1>2, <1>3, <3>1, RequestsAsked
  <2>2. ASSUME NEW r \in RequestsOf(Tail(s)) PROVE r \in RequestsOf(s)
    <3>1. PICK i \in DOMAIN Tail(s) : r \in Ask(Tail(s)[i])
      BY <1>1, <2>2, RequestsAsked
    <3> QED
      BY <1>4, <3>1, RequestsAsked
  <2>3. ASSUME NEW r \in Ask(Head(s)) PROVE r \in RequestsOf(s)
    BY <1>2, <1>5, <2>3, RequestsAsked
  <2> QED
    BY <2>1, <2>2, <2>3
<1>7. ASSUME Distinct(s)
      PROVE  Distinct(Tail(s)) /\ RequestsOf(Tail(s)) \cap Ask(Head(s)) = {}
  <2>1. \A i, j \in DOMAIN Tail(s) : i + 1 = j + 1 => i = j
    BY <1>2
  <2>2. Distinct(Tail(s))
    BY <1>4, <1>7, <2>1 DEF Distinct
  <2>3. ASSUME NEW r \in RequestsOf(Tail(s)), r \in Ask(Head(s)) PROVE FALSE
    <3>1. PICK i \in DOMAIN Tail(s) : r \in Ask(Tail(s)[i])
      BY <1>1, RequestsAsked
    <3>2. i + 1 \in DOMAIN s /\ i + 1 # 1 /\ s[i + 1] = SendRequest(r) /\ s[1] = SendRequest(r)
      BY <1>2, <1>4, <2>3, <3>1 DEF Ask
    <3> QED
      BY <1>5, <1>7, <3>2 DEF Distinct, SendRequest
  <2> QED
    BY <2>2, <2>3
<1> QED
  BY <1>1, <1>6, <1>7

\* A request that is handled moves from one place to the next.
LEMMA HandledStep == TypeOK /\ HandledInv /\ ZippingInv /\ [Next]_vars => HandledInv'
<1> SUFFICES ASSUME TypeOK, HandledInv, ZippingInv, [Next]_vars PROVE HandledInv'
  OBVIOUS
<1> USE DEF HandledInv, Handled, sinkVars, loopVars, clientVars, requestVars, responseVars
<1>0. /\ sent \in Seq(Commands) /\ queue["request"] \in Seq(Commands)
      /\ responses \in Seq(Requests) /\ received \in Seq(Requests)
  BY DEF TypeOK, Handles
<1>1. ASSUME NEW h \in Handles, Pull(h) PROVE HandledInv'
  BY <1>1 DEF Pull
<1>2. ASSUME NEW h \in Handles, Skip(h) PROVE HandledInv'
  BY <1>2 DEF Skip
<1>3. ASSUME NEW b \in Builders, LoopConfigure(b) PROVE HandledInv'
  BY <1>3 DEF LoopConfigure
<1>4. ASSUME NEW b \in Builders, LoopFail(b) PROVE HandledInv'
  BY <1>4 DEF LoopFail
<1>5. ASSUME LoopSendClient PROVE HandledInv'
  BY <1>5 DEF LoopSendClient
<1>6. ASSUME LoopDisconnected PROVE HandledInv'
  BY <1>6 DEF LoopDisconnected
<1>7. ASSUME LoopEnd PROVE HandledInv'
  BY <1>7 DEF LoopEnd
<1>8. ASSUME ZipClient PROVE HandledInv'
  BY <1>8 DEF ZipClient
<1>9. ASSUME NEW r \in Requests, ZipDefault(r) PROVE HandledInv'
  BY <1>9 DEF ZipDefault
<1>10. ASSUME NEW r \in Requests, ZipRequest(r) PROVE HandledInv'
  <2>1. /\ queue["request"] # <<>> /\ Head(queue["request"]) = SendRequest(r) /\ Zipping
        /\ sending' = sending \cup {r}
        /\ UNCHANGED <<sent, executed, responses, received, requesting, source>>
    BY <1>10 DEF ZipRequest, Take
  <2>2. r \in RequestsOf(queue["request"])
    BY <1>0, <2>1, RequestsTail, AskFacts
  <2>3. r \in RequestsOf(sent) /\ r \notin Handled
    BY <2>1, <2>2 DEF ZippingInv
  <2>4. requesting' = "zip" /\ source' = "held"
    BY <2>1 DEF Zipping
  <2>5. /\ sending' \cap executed' = {}
        /\ (sending' \cup executed') \cap (ToSet(responses') \cup ToSet(received')) = {}
        /\ Handled' \subseteq RequestsOf(sent')
    BY <2>1, <2>3
  <2>6. /\ IsInjective(responses') /\ IsInjective(received')
        /\ ToSet(responses') \cap ToSet(received') = {}
    BY <2>1
  <2> HIDE DEF Handled
  <2> QED
    BY <2>4, <2>5, <2>6
<1>11. ASSUME ZipEnd PROVE HandledInv'
  BY <1>11 DEF ZipEnd, Zipping
<1>12. ASSUME NEW r \in Requests, Execute(r) PROVE HandledInv'
  BY <1>12 DEF Execute
<1>13. ASSUME NEW r \in Requests, Respond(r) PROVE HandledInv'
  <2>1. /\ source = "held" /\ r \in executed /\ executed' = executed \ {r}
        /\ responses' = Append(responses, r)
        /\ UNCHANGED <<sent, sending, received, requesting, source>>
    BY <1>13 DEF Respond
  <2>2. /\ ToSet(responses') = ToSet(responses) \cup {r}
        /\ r \notin ToSet(responses) => IsInjective(responses')
    BY <1>0, <2>1, ToSetAppend
  <2> QED
    BY <2>1, <2>2
<1>14. ASSUME RequestsEnd PROVE HandledInv'
  BY <1>14 DEF RequestsEnd
<1>15. ASSUME Receive PROVE HandledInv'
  <2>1. /\ source = "held" /\ responses # <<>> /\ responses' = Tail(responses)
        /\ received' = Append(received, Head(responses))
        /\ UNCHANGED <<sent, sending, executed, requesting, source>>
    BY <1>15 DEF Receive
  <2>2. /\ ToSet(responses) = ToSet(responses') \cup {Head(responses)}
        /\ IsInjective(responses') /\ Head(responses) \notin ToSet(responses')
    BY <1>0, <2>1, ToSetTail
  <2>3. Head(responses) \in Requests
    BY <1>0, <2>1, HeadTailProperties
  <2>4. /\ ToSet(received') = ToSet(received) \cup {Head(responses)}
        /\ Head(responses) \notin ToSet(received) => IsInjective(received')
    BY <1>0, <2>1, <2>3, ToSetAppend
  <2> QED
    BY <2>1, <2>2, <2>4
<1>16. ASSUME ResponsesEnd PROVE HandledInv'
  BY <1>16 DEF ResponsesEnd
<1>17. ASSUME NEW c \in Commands, SendCommand(c) PROVE HandledInv'
  <2>1. /\ sent' = Append(sent, c)
        /\ UNCHANGED <<sending, executed, responses, received, requesting, source>>
    BY <1>17 DEF SendCommand
  <2>2. RequestsOf(sent) \subseteq RequestsOf(sent')
    BY <1>0, <2>1, RequestsAppend
  <2> QED
    BY <2>1, <2>2
<1>18. ASSUME CloseSink PROVE HandledInv'
  BY <1>18 DEF CloseSink
<1>19. ASSUME DropSource PROVE HandledInv'
  BY <1>19 DEF DropSource
<1>21. ASSUME NEW r \in Requests, RequestPanic(r) PROVE HandledInv'
  BY <1>21 DEF RequestPanic
<1>20. CASE UNCHANGED vars
  BY <1>20 DEF vars
<1> HIDE DEF HandledInv, Handled, sinkVars, loopVars, clientVars, requestVars, responseVars
<1> QED
  BY <1>1, <1>2, <1>3, <1>4, <1>5, <1>6, <1>7, <1>8, <1>9, <1>10, <1>11, <1>12, <1>13, <1>14,
     <1>15, <1>16, <1>17, <1>18, <1>19, <1>20, <1>21
  DEF Next, LoopStep, ResponsesStep, Server, Environment, Handles

\* No request gets lost before it is handled.
LEMMA ZippingStep ==
  TypeOK /\ DefaultIsChosen /\ HandledInv /\ ZippingInv /\ [Next]_vars => ZippingInv'
<1> SUFFICES ASSUME TypeOK, DefaultIsChosen, HandledInv, ZippingInv, [Next]_vars PROVE ZippingInv'
  OBVIOUS
<1> USE DEF ZippingInv, sinkVars, loopVars, clientVars, requestVars, responseVars
<1>0. /\ sent \in Seq(Commands) /\ inbox \in Seq(Commands)
      /\ queue \in [Handles -> Seq(Commands)]
      /\ {"configure", "request", "first"} \subseteq Handles
      /\ queue["request"] \in Seq(Commands) /\ queue["first"] \in Seq(Commands)
      /\ responses \in Seq(Requests) /\ received \in Seq(Requests)
  BY DEF TypeOK, Handles
<1>1. ASSUME NEW h \in Handles, Pull(h) PROVE ZippingInv'
  <2>1. /\ inbox # <<>> /\ inbox' = Tail(inbox)
        /\ UNCHANGED <<sent, closed, sending, executed, responses, received, requesting,
                       source, defaulted>>
    BY <1>1 DEF Pull
  <2>2. /\ Head(inbox) \in Commands /\ Tail(inbox) \in Seq(Commands)
        /\ Len(Tail(inbox)) = Len(inbox) - 1
    BY <1>0, <2>1, HeadTailProperties
  <2>3. inbox' = <<>> /\ Len(inbox') = 0
    BY <1>0, <2>1, <2>2
  <2>4. RequestsOf(inbox) = Ask(Head(inbox)) /\ RequestsOf(inbox') = {}
    <3>1. RequestsOf(inbox) = RequestsOf(Tail(inbox)) \cup Ask(Head(inbox))
      BY <1>0, <2>1, RequestsTail
    <3> QED
      BY <2>1, <2>3, <3>1, RequestsEmpty
  <2>5. Zipping => queue'["request"] = Append(queue["request"], Head(inbox))
    BY <1>1, <1>0 DEF Pull, Live, Zipping
  <2>6. Zipping /\ ~defaulted => queue'["first"] = Append(queue["first"], Head(inbox))
    BY <1>1, <1>0 DEF Pull, Live, Zipping
  <2>7. Zipping => /\ RequestsOf(queue'["request"]) = RequestsOf(queue["request"]) \cup RequestsOf(inbox)
                   /\ Distinct(queue'["request"])
    <3> SUFFICES ASSUME Zipping
                 PROVE  /\ RequestsOf(queue'["request"]) = RequestsOf(queue["request"]) \cup RequestsOf(inbox)
                        /\ Distinct(queue'["request"])
      OBVIOUS
    <3>1. /\ RequestsOf(Append(queue["request"], Head(inbox)))
                = RequestsOf(queue["request"]) \cup Ask(Head(inbox))
          /\ Distinct(queue["request"]) /\ RequestsOf(queue["request"]) \cap Ask(Head(inbox)) = {}
               => Distinct(Append(queue["request"], Head(inbox)))
      BY <1>0, <2>2, RequestsAppend
    <3> QED
      BY <2>4, <2>5, <3>1
  <2>8. Zipping /\ ~defaulted =>
          RequestsOf(queue'["first"]) = RequestsOf(queue["first"]) \cup RequestsOf(inbox)
    <3>1. RequestsOf(Append(queue["first"], Head(inbox)))
            = RequestsOf(queue["first"]) \cup Ask(Head(inbox))
      BY <1>0, <2>2, RequestsAppend
    <3> QED
      BY <2>4, <2>6, <3>1
  <2>9. Zipping' = Zipping /\ Handled' = Handled
    BY <2>1 DEF Zipping, Handled
  <2>10. Len(inbox') <= 1
    BY <2>3
  <2> HIDE DEF Handled
  <2> QED
    BY <2>1, <2>4, <2>7, <2>8, <2>9, <2>10
<1>2. ASSUME NEW h \in Handles, Skip(h) PROVE ZippingInv'
  <2>1. /\ queue[h] # <<>> /\ queue' = [queue EXCEPT ![h] = Tail(@)]
        /\ h # "configure" => Head(queue[h]).op # "SendRequest"
        /\ UNCHANGED <<inbox, sent, closed, sending, executed, responses, received, requesting,
                       source, defaulted>>
    BY <1>2 DEF Skip, Take
  <2>2. ASSUME h # "configure"
        PROVE  /\ RequestsOf(queue'[h]) = RequestsOf(queue[h])
               /\ Distinct(queue[h]) => Distinct(queue'[h])
    <3>1. queue'[h] = Tail(queue[h]) /\ queue[h] \in Seq(Commands)
      BY <1>0, <2>1
    <3>2. Ask(Head(queue[h])) = {}
      BY <2>1, <2>2, <3>1, RequestsTail, AskFacts
    <3>3. /\ RequestsOf(queue[h]) = RequestsOf(Tail(queue[h])) \cup Ask(Head(queue[h]))
          /\ Distinct(queue[h]) => Distinct(Tail(queue[h]))
      BY <2>1, <3>1, RequestsTail
    <3> QED
      BY <3>1, <3>2, <3>3
  <2>3. \A g \in Handles : g # h => queue'[g] = queue[g]
    BY <1>0, <2>1
  <2>4. /\ RequestsOf(queue'["request"]) = RequestsOf(queue["request"])
        /\ Distinct(queue["request"]) => Distinct(queue'["request"])
        /\ RequestsOf(queue'["first"]) = RequestsOf(queue["first"])
    BY <1>0, <2>2, <2>3
  <2>5. Zipping' = Zipping /\ Handled' = Handled
    BY <2>1 DEF Zipping, Handled
  <2> HIDE DEF Handled
  <2> QED
    BY <2>1, <2>4, <2>5
<1>3. ASSUME NEW b \in Builders, LoopConfigure(b) PROVE ZippingInv'
  <2>1. /\ queue'["request"] = queue["request"] /\ queue'["first"] = queue["first"]
        /\ UNCHANGED <<inbox, sent, closed, sending, executed, responses, received, requesting,
                       source, defaulted>>
    BY <1>3, <1>0 DEF LoopConfigure, Take
  <2> QED
    BY <2>1 DEF Zipping, Handled
<1>4. ASSUME NEW b \in Builders, LoopFail(b) PROVE ZippingInv'
  <2>1. /\ queue'["request"] = queue["request"] /\ queue'["first"] = queue["first"]
        /\ UNCHANGED <<inbox, sent, closed, sending, executed, responses, received, requesting,
                       source, defaulted>>
    BY <1>4, <1>0 DEF LoopFail, Take
  <2> QED
    BY <2>1 DEF Zipping, Handled
<1>5. ASSUME LoopSendClient PROVE ZippingInv'
  BY <1>5 DEF LoopSendClient, Zipping, Handled
<1>6. ASSUME LoopDisconnected PROVE ZippingInv'
  BY <1>6 DEF LoopDisconnected, Zipping, Handled
<1>7. ASSUME LoopEnd PROVE ZippingInv'
  BY <1>7 DEF LoopEnd, Zipping, Handled
<1>8. ASSUME ZipClient PROVE ZippingInv'
  BY <1>8 DEF ZipClient, Zipping, Handled
<1>9. ASSUME NEW r \in Requests, ZipDefault(r) PROVE ZippingInv'
  <2>1. /\ queue'["request"] = queue["request"] /\ defaulted'
        /\ UNCHANGED <<inbox, sent, closed, sending, executed, responses, received, requesting,
                       source>>
    BY <1>9, <1>0 DEF ZipDefault, Take
  <2> QED
    BY <2>1 DEF Zipping, Handled
<1>10. ASSUME NEW r \in Requests, ZipRequest(r) PROVE ZippingInv'
  <2>1. /\ queue["request"] # <<>> /\ Head(queue["request"]) = SendRequest(r)
        /\ queue'["request"] = Tail(queue["request"]) /\ queue'["first"] = queue["first"]
        /\ Zipping /\ sending' = sending \cup {r}
        /\ UNCHANGED <<inbox, sent, closed, executed, responses, received, requesting,
                       source, defaulted>>
    BY <1>10, <1>0 DEF ZipRequest, Take
  <2>2. /\ RequestsOf(queue["request"]) = RequestsOf(queue'["request"]) \cup {r}
        /\ r \notin RequestsOf(queue'["request"]) /\ Distinct(queue'["request"])
    BY <1>0, <2>1, RequestsTail, AskFacts DEF ZippingInv
  <2>3. Handled' = Handled \cup {r}
    BY <2>1 DEF Handled
  <2>4. Zipping' = Zipping /\ requesting = "zip"
    BY <2>1 DEF Zipping
  <2> HIDE DEF Handled
  <2> QED
    BY <2>1, <2>2, <2>3, <2>4
<1>11. ASSUME ZipEnd PROVE ZippingInv'
  <2>1. /\ Zipping /\ requesting' = "drain"
        /\ UNCHANGED <<queue, inbox, sent, closed, sending, executed, responses, received, source>>
    BY <1>11 DEF ZipEnd
  <2>2. \/ Finished("request")
        \/ ~defaulted /\ Finished("first")
    BY <1>11, ClientsAssumption DEF ZipEnd, DefaultIsChosen
  <2>3. closed /\ RequestsOf(inbox) = {}
    BY <2>2, RequestsEmpty DEF Finished
  <2>4. RequestsOf(sent) = Handled
    <3>1. CASE Finished("request")
      BY <2>1, <2>3, <3>1, RequestsEmpty DEF Finished
    <3>2. CASE ~defaulted /\ Finished("first")
      BY <2>1, <2>3, <3>2, RequestsEmpty DEF Finished
    <3> QED
      BY <2>2, <3>1, <3>2
  <2>5. Handled' = Handled /\ ~Zipping'
    BY <2>1 DEF Handled, Zipping
  <2> QED
    BY <2>1, <2>3, <2>4, <2>5
<1>12. ASSUME NEW r \in Requests, Execute(r) PROVE ZippingInv'
  <2>1. Handled' = Handled
    BY <1>12 DEF Execute, Handled
  <2> QED
    BY <1>12, <2>1 DEF Execute, Zipping
<1>13. ASSUME NEW r \in Requests, Respond(r) PROVE ZippingInv'
  <2>1. /\ r \in executed /\ executed' = executed \ {r}
        /\ responses' = Append(responses, r)
        /\ UNCHANGED <<queue, inbox, sent, closed, sending, received, requesting, source,
                       defaulted>>
    BY <1>13 DEF Respond
  <2>2. ToSet(responses') = ToSet(responses) \cup {r}
    BY <1>0, <2>1, ToSetAppend
  <2>3. Handled' = Handled
    BY <2>1, <2>2 DEF Handled
  <2> QED
    BY <2>1, <2>3 DEF Zipping
<1>14. ASSUME RequestsEnd PROVE ZippingInv'
  <2>1. Handled' = Handled
    BY <1>14 DEF RequestsEnd, Handled
  <2> QED
    BY <1>14, <2>1 DEF RequestsEnd, Zipping
<1>15. ASSUME Receive PROVE ZippingInv'
  <2>1. /\ responses # <<>> /\ responses' = Tail(responses)
        /\ received' = Append(received, Head(responses))
        /\ UNCHANGED <<queue, inbox, sent, closed, sending, executed, requesting, source,
                       defaulted>>
    BY <1>15 DEF Receive
  <2>2. ToSet(responses) = ToSet(responses') \cup {Head(responses)}
    BY <1>0, <2>1, ToSetTail
  <2>3. Head(responses) \in Requests
    BY <1>0, <2>1, HeadTailProperties
  <2>4. ToSet(received') = ToSet(received) \cup {Head(responses)}
    BY <1>0, <2>1, <2>3, ToSetAppend
  <2>5. Handled' = Handled
    BY <2>1, <2>2, <2>4 DEF Handled
  <2> QED
    BY <2>1, <2>5 DEF Zipping
<1>16. ASSUME ResponsesEnd PROVE ZippingInv'
  <2>1. Handled' = Handled
    BY <1>16 DEF ResponsesEnd, Handled
  <2> QED
    BY <1>16, <2>1 DEF ResponsesEnd, Zipping
<1>17. ASSUME NEW c \in Commands, SendCommand(c) PROVE ZippingInv'
  <2>1. /\ ~closed /\ inbox = <<>> /\ inbox' = Append(inbox, c) /\ sent' = Append(sent, c)
        /\ c \in ToSet(sent) => c.op = "ConfigureClient"
        /\ UNCHANGED <<queue, closed, sending, executed, responses, received, requesting,
                       source, defaulted>>
    BY <1>17 DEF SendCommand
  <2>2. Len(inbox') = 1 /\ RequestsOf(inbox) = {} /\ RequestsOf(inbox') = Ask(c)
    <3>1. RequestsOf(Append(<<>>, c)) = RequestsOf(<<>>) \cup Ask(c)
      <4>1. <<>> \in Seq(Commands)
        OBVIOUS
      <4> QED
        BY <4>1, RequestsAppend
    <3>3. RequestsOf(inbox) = {}
      BY <2>1, RequestsEmpty
    <3>4. RequestsOf(inbox') = Ask(c)
      BY <2>1, <3>1, RequestsEmpty
    <3>2. Len(inbox) = 0 /\ Len(inbox') = Len(inbox) + 1
      BY <1>0, <2>1, AppendProperties
    <3> QED
      BY <3>2, <3>3, <3>4
  <2>3. RequestsOf(sent') = RequestsOf(sent) \cup Ask(c)
    BY <1>0, <2>1, RequestsAppend
  <2>4. RequestsOf(sent) \cap Ask(c) = {}
    <3>1. ASSUME NEW r \in RequestsOf(sent), r \in Ask(c) PROVE c \in ToSet(sent)
      BY <1>0, <3>1, RequestsAsked DEF Ask, ToSet
    <3>2. ASSUME NEW r \in Ask(c) PROVE c.op = "SendRequest"
      BY <3>2, AskFacts
    <3> QED
      BY <2>1, <3>1, <3>2
  <2>5. Zipping' = Zipping /\ Handled' = Handled
    BY <2>1 DEF Zipping, Handled
  <2>6. Len(inbox') <= 1 /\ ~closed
    BY <2>1, <2>2
  <2> HIDE DEF Handled
  <2> QED
    BY <2>1, <2>2, <2>3, <2>4, <2>5, <2>6
<1>18. ASSUME CloseSink PROVE ZippingInv'
  BY <1>18 DEF CloseSink, Zipping, Handled
<1>19. ASSUME DropSource PROVE ZippingInv'
  BY <1>19 DEF DropSource, Zipping, Handled
<1>21. ASSUME NEW r \in Requests, RequestPanic(r) PROVE ZippingInv'
  BY <1>21 DEF RequestPanic, Zipping, Handled
<1>20. CASE UNCHANGED vars
  BY <1>20 DEF vars, Zipping, Handled
<1> HIDE DEF ZippingInv, sinkVars, loopVars, clientVars, requestVars, responseVars
<1> QED
  BY <1>1, <1>2, <1>3, <1>4, <1>5, <1>6, <1>7, <1>8, <1>9, <1>10, <1>11, <1>12, <1>13, <1>14,
     <1>15, <1>16, <1>17, <1>18, <1>19, <1>20, <1>21
  DEF Next, LoopStep, ResponsesStep, Server, Environment, Handles

-----------------------------------------------------------------------------
(* Theorems.                                                               *)

\* The invariant holds to begin with.
LEMMA Initial == Init => IInv
<1> SUFFICES ASSUME Init PROVE IInv
  OBVIOUS
<1> USE DEF Init
<1>1. TypeOK
  <2>1. /\ \A S : <<>> \in Seq(S)
        /\ Len(<<>>) = 0
        /\ 0 <= CLIENT_BUFFER_LEN /\ 0 <= RESPONSE_BUFFER_LEN
    BY BuffersAssumption
  <2> QED
    BY <2>1 DEF TypeOK
<1>2. BuildingInv /\ DefaultIsChosen /\ PairingInv /\ PanicExplained
  BY DEF BuildingInv, DefaultIsChosen, PairingInv, PanicExplained
<1>3. TakenInv
  BY DEF TakenInv, Done, Handles
<1>4. HandledInv /\ ZippingInv
  BY DEF HandledInv, ZippingInv, Handled, Distinct, Handles, ToSet, IsInjective, RequestsOf
<1> QED
  BY <1>1, <1>2, <1>3, <1>4 DEF IInv

\* The strengthened invariant holds in every state.
THEOREM Invariance == Spec => []IInv
<1>1. IInv /\ [Next]_vars => IInv'
  BY TypingStep, BuildingStep, ChosenStep, PairingStep, TakenStep, PanicStep,
     HandledStep, ZippingStep DEF IInv
<1> QED
  BY <1>1, Initial, PTL DEF Spec

\* The variables of the driver, its source and its channels keep their types;
\* neither channel ever holds more than its capacity.
THEOREM Typing == Spec => []TypeOK
<1>1. IInv => TypeOK
  BY DEF IInv
<1> QED
  BY <1>1, Invariance, PTL

\* All requests are sent by one client, and by the default client if it is made,
\* however configuring a client races with the first request.
THEOREM OneClientSends == Spec => []OneClient
<1>1. IInv => OneClient
  <2> SUFFICES ASSUME IInv PROVE OneClient
    OBVIOUS
  <2> DEFINE x == IF chosen # NoClient THEN chosen ELSE Default
  <2>1. ClientsUsed \subseteq {x}
    BY DEF IInv, PairingInv, Common, ClientsUsed
  <2>2. Cardinality(ClientsUsed) <= 1
    <3> HIDE DEF x
    <3>1. IsFiniteSet({x}) /\ Cardinality({x}) = 1
      BY FS_Singleton
    <3> QED
      BY <2>1, <3>1, FS_Subset
  <2> QED
    BY <2>2 DEF OneClient, IInv
<1> QED
  BY <1>1, Invariance, PTL

\* The run loop panics over a missing builder only when a command and its clone
\* have both been sent, and `responses` only over a request of the sink that it
\* cannot convert.
THEOREM PanicsExplained == Spec => []PanicExplained
<1>1. IInv => PanicExplained
  BY DEF IInv
<1> QED
  BY <1>1, Invariance, PTL

\* A response is yielded once, for a request of the sink, and none is missing
\* when the responses end.
THEOREM AnswersOnce == Spec => []AnsweredOnce
<1>1. IInv => AnsweredOnce
  <2> SUFFICES ASSUME IInv PROVE AnsweredOnce
    OBVIOUS
  <2>1. IsInjective(received) /\ ToSet(received) \subseteq RequestsOf(sent)
    BY DEF IInv, HandledInv, Handled
  <2>2. ASSUME source = "over" PROVE ToSet(received) = RequestsOf(sent)
    <3>1. requesting = "over" /\ responses = <<>> /\ sending = {} /\ executed = {}
      BY <2>2 DEF IInv, HandledInv
    <3>2. RequestsOf(sent) = Handled
      BY <2>2, <3>1 DEF IInv, ZippingInv
    <3> QED
      BY <3>1, <3>2 DEF Handled, ToSet
  <2> QED
    BY <2>1, <2>2 DEF AnsweredOnce
<1> QED
  BY <1>1, Invariance, PTL
=============================================================================
