-------------------------------- MODULE Http --------------------------------
(***************************************************************************)
(* The HTTP driver (crates/cyclers-http/src/driver.rs): a run loop that    *)
(* builds the clients it is told to configure and hands them to its source *)
(* through a channel of one, and a `responses` stream of the source that   *)
(* pairs each request with a client, sends it, and yields the responses as *)
(* they complete.                                                          *)
(*                                                                         *)
(* The driver's sink is shared by three handles: the filter of the run     *)
(* loop ("configure"), the requests to be sent ("request") and, to create  *)
(* a default client, the first of them ("first").  A step of `responses`   *)
(* is only taken while somebody polls that stream.                         *)
(***************************************************************************)
EXTENDS Integers, Sequences, FiniteSets, SequencesExt

CONSTANTS
  Requests,             \* the requests that the sink may send, each once
  Invalid,              \* those that reqwest cannot convert into its own
  Builders,             \* the client builders that it may send, clones of the
                        \* commands included
  Default,              \* the client that `Client::new` creates
  NoClient,             \* stands for no client
  CLIENT_BUFFER_LEN,    \* 1 in the code
  RESPONSE_BUFFER_LEN,  \* 1 in the code
  MaxSent               \* bound of the model: commands sent

ASSUME BuffersAssumption == /\ CLIENT_BUFFER_LEN \in Nat \ {0}
                            /\ RESPONSE_BUFFER_LEN \in Nat \ {0}
ASSUME InvalidAssumption == Invalid \subseteq Requests
ASSUME ClientsAssumption == /\ Default \notin Builders
                            /\ NoClient \notin Builders \cup {Default}

ConfigureClient(b) == [op |-> "ConfigureClient", builder |-> b]
SendRequest(r) == [op |-> "SendRequest", request |-> r]
Commands == {ConfigureClient(b) : b \in Builders}
              \cup {SendRequest(r) : r \in Requests}

Handles == {"configure", "request", "first"}
Clients == Builders \cup {Default}

VARIABLES
  sent,       \* history of the commands sent to the driver
  inbox,      \* the receiving end of its proxy channel
  closed,     \* whether the sending end is gone
  queue,      \* queue[h]: what has been published to handle h and not taken
  taken,      \* the builders that have been taken out of their command
  loop,       \* the run loop: "next", "reserve"; or how it is over
  building,   \* the client that it awaits a permit for, if any
  clients,    \* the client channel
  chosen,     \* the client that the source repeats, NoClient before it has one
  defaulted,  \* whether the default client has been created
  slot,       \* the client that zip keeps for the next request, or NoClient
  sending,    \* the client of each request that is being executed
  executed,   \* requests whose result awaits room in the response channel
  used,       \* history: the client that each request was paired with
  responses,  \* the response channel
  received,   \* history of the requests whose response has been yielded
  requesting, \* the request loop: "zip", "drain" once zip has ended, "over"
  source      \* "held", "over" once responses has ended, "dropped"; "panicked"

sinkVars == <<sent, inbox, closed>>
loopVars == <<taken, loop, building>>
clientVars == <<clients, chosen, defaulted, slot>>
requestVars == <<sending, executed, used, requesting>>
responseVars == <<responses, received, source>>
vars == <<sinkVars, queue, loopVars, clientVars, requestVars, responseVars>>

TypeOK == /\ sent \in Seq(Commands)
          /\ inbox \in Seq(Commands)
          /\ closed \in BOOLEAN
          /\ queue \in [Handles -> Seq(Commands)]
          /\ taken \subseteq Builders
          /\ loop \in {"next", "reserve", "ended", "failed", "panicked"}
          /\ building \in Clients \cup {NoClient}
          /\ clients \in Seq(Clients) /\ Len(clients) <= CLIENT_BUFFER_LEN
          /\ {chosen, slot} \subseteq Clients \cup {NoClient}
          /\ defaulted \in BOOLEAN
          /\ {sending, executed} \subseteq SUBSET Requests
          /\ used \in [Requests -> Clients \cup {NoClient}]
          /\ requesting \in {"zip", "drain", "over"}
          /\ responses \in Seq(Requests) /\ Len(responses) <= RESPONSE_BUFFER_LEN
          /\ received \in Seq(Requests)
          /\ source \in {"held", "over", "dropped", "panicked"}

Init == /\ sent = <<>>
        /\ inbox = <<>>
        /\ closed = FALSE
        /\ queue = [h \in Handles |-> <<>>]
        /\ taken = {}
        /\ loop = "next"
        /\ building = NoClient
        /\ clients = <<>>
        /\ chosen = NoClient
        /\ defaulted = FALSE
        /\ slot = NoClient
        /\ sending = {}
        /\ executed = {}
        /\ used = [r \in Requests |-> NoClient]
        /\ responses = <<>>
        /\ received = <<>>
        /\ requesting = "zip"
        /\ source = "held"

-----------------------------------------------------------------------------
(* The shared sink.                                                        *)

LoopRuns == loop \in {"next", "reserve"}

\* Nothing reads what is published to "first" after its first request.
Live(h) == CASE h = "configure" -> LoopRuns
             [] h = "request" -> source = "held" /\ requesting = "zip"
             [] h = "first" -> source = "held" /\ requesting = "zip" /\ ~defaulted

Finished(h) == closed /\ inbox = <<>> /\ queue[h] = <<>>

\* Handle h polls the channel for all handles.
Pull(h) == /\ Live(h)
           /\ inbox # <<>>
           /\ inbox' = Tail(inbox)
           /\ queue' = [g \in Handles |-> IF Live(g)
                                          THEN Append(queue[g], Head(inbox))
                                          ELSE queue[g]]
           /\ UNCHANGED <<sent, closed, loopVars, clientVars, requestVars,
                          responseVars>>

\* Handle h takes the next command published to it.
Take(h, c) == /\ queue[h] # <<>>
              /\ c = Head(queue[h])
              /\ queue' = [queue EXCEPT ![h] = Tail(@)]

\* The filters of the handles skip what the other side is to handle.
Skip(h) == /\ Live(h)
           /\ \E c \in Commands :
                /\ Take(h, c)
                /\ (c.op = "SendRequest") = (h = "configure")
           /\ UNCHANGED <<sinkVars, loopVars, clientVars, requestVars,
                          responseVars>>

-----------------------------------------------------------------------------
(* The run loop.                                                           *)

\* Mutant: the command stays at the head of the queue while its client is built.
LoopConfigurePeek(b) ==
  /\ loop = "next"
  /\ queue["configure"] # <<>> /\ Head(queue["configure"]) = ConfigureClient(b)
  /\ IF b \in taken THEN /\ loop' = "panicked"
                         /\ UNCHANGED <<taken, building>>
                    ELSE /\ taken' = taken \cup {b}
                         /\ building' = b
                         /\ loop' = "reserve"
  /\ UNCHANGED <<sinkVars, queue, clientVars, requestVars, responseVars>>

\* The next builder is taken out of its command, and its client is built; a
\* builder that was taken before is `expect`ed to be there.
LoopConfigure(b) ==
  /\ loop = "next"
  /\ Take("configure", ConfigureClient(b))
  /\ IF b \in taken THEN /\ loop' = "panicked"
                         /\ UNCHANGED <<taken, building>>
                    ELSE /\ taken' = taken \cup {b}
                         /\ building' = b
                         /\ loop' = "reserve"
  /\ UNCHANGED <<sinkVars, clientVars, requestVars, responseVars>>

\* The builder fails, and with it the run loop.
LoopFail(b) ==
  /\ loop = "next"
  /\ b \notin taken
  /\ Take("configure", ConfigureClient(b))
  /\ taken' = taken \cup {b}
  /\ loop' = "failed"
  /\ UNCHANGED <<sinkVars, building, clientVars, requestVars, responseVars>>

\* Mutant: the client channel is unbounded.
LoopSendUnbounded ==
  /\ loop = "reserve"
  /\ source # "dropped"
  /\ clients' = Append(clients, building)
  /\ building' = NoClient
  /\ loop' = "next"
  /\ UNCHANGED <<sinkVars, queue, taken, chosen, defaulted, slot, requestVars,
                 responseVars>>

\* Mutant: a client is only handed over while none has been chosen.
LoopSendUnchosen ==
  /\ loop = "reserve"
  /\ source # "dropped"
  /\ Len(clients) < CLIENT_BUFFER_LEN /\ chosen = NoClient
  /\ clients' = Append(clients, building)
  /\ building' = NoClient
  /\ loop' = "next"
  /\ UNCHANGED <<sinkVars, queue, taken, chosen, defaulted, slot, requestVars,
                 responseVars>>

\* A permit of the client channel is there.
LoopSendClient ==
  /\ loop = "reserve"
  /\ source # "dropped"
  /\ Len(clients) < CLIENT_BUFFER_LEN
  /\ clients' = Append(clients, building)
  /\ building' = NoClient
  /\ loop' = "next"
  /\ UNCHANGED <<sinkVars, queue, taken, chosen, defaulted, slot, requestVars,
                 responseVars>>

\* The client channel is closed with the source and its streams.
LoopDisconnected ==
  /\ loop = "reserve"
  /\ source = "dropped"
  /\ building' = NoClient
  /\ loop' = "ended"
  /\ UNCHANGED <<sinkVars, queue, taken, clientVars, requestVars, responseVars>>

LoopEnd == /\ loop = "next"
           /\ Finished("configure")
           /\ loop' = "ended"
           /\ UNCHANGED <<sinkVars, queue, taken, building, clientVars,
                          requestVars, responseVars>>

-----------------------------------------------------------------------------
(* The request loop, polled from within `responses`.                       *)

Zipping == source = "held" /\ requesting = "zip"

\* The client side of zip polls the source's client: the first that comes out
\* of the channel is repeated for ever.
ZipClient ==
  /\ Zipping /\ slot = NoClient
  /\ \/ /\ chosen # NoClient
        /\ UNCHANGED <<clients, chosen>>
     \/ /\ chosen = NoClient /\ clients # <<>>
        /\ chosen' = Head(clients)
        /\ clients' = Tail(clients)
  /\ slot' = chosen'
  /\ UNCHANGED <<sinkVars, queue, loopVars, defaulted, requestVars, responseVars>>

\* Mutant: the default client is yielded but not sent to the channel.
ZipDefaultUnsent(r) ==
  /\ Zipping /\ slot = NoClient
  /\ chosen = NoClient /\ clients = <<>>
  /\ ~defaulted
  /\ Take("first", SendRequest(r))
  /\ defaulted' = TRUE
  /\ slot' = Default
  /\ UNCHANGED <<sinkVars, loopVars, clients, chosen, requestVars, responseVars>>

\* That is pending: `or` polls the default client, which the first request
\* brings about.  It is yielded, and sent to the channel so as to be chosen.
ZipDefault(r) ==
  /\ Zipping /\ slot = NoClient
  /\ chosen = NoClient /\ clients = <<>>
  /\ ~defaulted
  /\ Take("first", SendRequest(r))
  /\ defaulted' = TRUE
  /\ clients' = Append(clients, Default)
  /\ slot' = Default
  /\ UNCHANGED <<sinkVars, loopVars, chosen, requestVars, responseVars>>

\* A request is paired with the client, and its future joins the others, which
\* have yet to convert it and to send it.
ZipRequest(r) ==
  /\ Zipping /\ slot # NoClient
  /\ Take("request", SendRequest(r))
  /\ sending' = sending \cup {r}
  /\ used' = [used EXCEPT ![r] = slot]
  /\ slot' = NoClient
  /\ UNCHANGED <<sinkVars, loopVars, clients, chosen, defaulted, executed,
                 requesting, responseVars>>

\* zip polls the clients first.  They end when none can be chosen and none is
\* to be had by default any more; otherwise zip ends with the requests.
ZipEnd ==
  /\ Zipping
  /\ \/ slot # NoClient /\ Finished("request")
     \/ /\ slot = NoClient /\ chosen = NoClient /\ clients = <<>>
        /\ defaulted \/ Finished("first") \/ Finished("request")
  /\ requesting' = "drain"
  /\ UNCHANGED <<sinkVars, queue, loopVars, clientVars, sending, executed, used,
                 responseVars>>

\* The conversion that the future of r begins with is `expect`ed to succeed.
RequestPanic(r) == /\ source = "held"
                   /\ r \in sending \cap Invalid
                   /\ source' = "panicked"
                   /\ UNCHANGED <<sinkVars, queue, loopVars, clientVars, requestVars,
                                  responses, received>>

\* The exchange with the server is over, with a response or with an error.
Execute(r) == /\ source = "held"
              /\ r \in sending \ Invalid
              /\ sending' = sending \ {r}
              /\ executed' = executed \cup {r}
              /\ UNCHANGED <<sinkVars, queue, loopVars, clientVars, used,
                             requesting, responseVars>>

\* Mutant: a result that finds no room is dropped.
RespondTry(r) == /\ source = "held"
                 /\ r \in executed
                 /\ executed' = executed \ {r}
                 /\ responses' = IF Len(responses) < RESPONSE_BUFFER_LEN
                                 THEN Append(responses, r) ELSE responses
                 /\ UNCHANGED <<sinkVars, queue, loopVars, clientVars, sending, used,
                                requesting, received, source>>

\* There is room for the result in the response channel.
Respond(r) == /\ source = "held"
              /\ r \in executed
              /\ Len(responses) < RESPONSE_BUFFER_LEN
              /\ executed' = executed \ {r}
              /\ responses' = Append(responses, r)
              /\ UNCHANGED <<sinkVars, queue, loopVars, clientVars, sending, used,
                             requesting, received, source>>

\* Mutant: for_each does not wait for the futures that are still running.
RequestsEndEarly == /\ source = "held"
                    /\ requesting = "drain"
                    /\ requesting' = "over"
                    /\ UNCHANGED <<sinkVars, queue, loopVars, clientVars, sending,
                                   executed, used, responseVars>>

\* for_each ends when zip has and every future is done.
RequestsEnd == /\ source = "held"
               /\ requesting = "drain"
               /\ sending = {} /\ executed = {}
               /\ requesting' = "over"
               /\ UNCHANGED <<sinkVars, queue, loopVars, clientVars, sending,
                              executed, used, responseVars>>

\* `responses` yields what is in the channel before it polls the loop, and
\* ends when the loop has and the channel is empty.
Receive == /\ source = "held"
           /\ responses # <<>>
           /\ received' = Append(received, Head(responses))
           /\ responses' = Tail(responses)
           /\ UNCHANGED <<sinkVars, queue, loopVars, clientVars, requestVars,
                          source>>

ResponsesEnd == /\ source = "held"
                /\ requesting = "over" /\ responses = <<>>
                /\ source' = "over"
                /\ UNCHANGED <<sinkVars, queue, loopVars, clientVars, requestVars,
                               responses, received>>

-----------------------------------------------------------------------------
(* The environment: the proxy of the sink, and who holds the source.       *)

SendCommand(c) ==
  /\ ~closed /\ inbox = <<>>
  /\ Len(sent) < MaxSent
  /\ c \in ToSet(sent) => c.op = "ConfigureClient"
  /\ sent' = Append(sent, c)
  /\ inbox' = Append(inbox, c)
  /\ UNCHANGED <<closed, queue, loopVars, clientVars, requestVars, responseVars>>

CloseSink == /\ ~closed
             /\ closed' = TRUE
             /\ UNCHANGED <<sent, inbox, queue, loopVars, clientVars, requestVars,
                            responseVars>>

\* The source and its streams are dropped.
DropSource == /\ source # "dropped"
              /\ source' = "dropped"
              /\ UNCHANGED <<sinkVars, queue, loopVars, clientVars, requestVars,
                             responses, received>>

-----------------------------------------------------------------------------
LoopStep == \/ Pull("configure")
            \/ Skip("configure")
            \/ \E b \in Builders : LoopConfigure(b) \/ LoopFail(b)
            \/ LoopSendClient
            \/ LoopDisconnected
            \/ LoopEnd

ResponsesStep == \/ \E h \in {"request", "first"} : Pull(h) \/ Skip(h)
                 \/ ZipClient
                 \/ \E r \in Requests : \/ ZipDefault(r) \/ ZipRequest(r)
                                        \/ RequestPanic(r) \/ Respond(r)
                 \/ ZipEnd
                 \/ RequestsEnd
                 \/ Receive
                 \/ ResponsesEnd

Server == \E r \in Requests : Execute(r)

Environment == (\E c \in Commands : SendCommand(c)) \/ CloseSink \/ DropSource

\* One future polls it all, and a panic unwinds that.
Panicked == "panicked" \in {loop, source}

Next == ~Panicked /\ (LoopStep \/ ResponsesStep \/ Server \/ Environment)

Spec == Init /\ [][Next]_vars

\* The run loop is polled whenever it has been woken, and so is `responses`, by
\* a main that awaits them; and each exchange with the server ends.
PolledSpec == /\ Spec
              /\ WF_vars(~Panicked /\ LoopStep)
              /\ WF_vars(~Panicked /\ ResponsesStep)
              /\ \A r \in Requests : WF_vars(~Panicked /\ Execute(r))

-----------------------------------------------------------------------------
(* Safety.                                                                 *)

ClientsUsed == {used[r] : r \in Requests} \ {NoClient}

\* The default client never waits for room in the client channel: it would
\* wait for ever, since `or` stops polling it once a client can be chosen.  It
\* is only created when the channel is empty, and then stays for `chosen`.
DefaultIsChosen ==
  defaulted => \/ chosen = Default
               \/ chosen = NoClient /\ clients # <<>> /\ Head(clients) = Default

\* One client sends all requests, whichever way configuring a client races
\* with the default client of the first request, and that is the default client
\* if there is one (driver.rs:221-240, 257-290).
OneClient == Cardinality(ClientsUsed) <= 1 /\ DefaultIsChosen

RequestsOf(commands) == {c.request : c \in {d \in ToSet(commands) : d.op = "SendRequest"}}

\* A response is yielded once, for a request that was sent; and when the
\* stream ends, every request of the sink has been answered
\* (driver.rs:292-430, 442-448).
AnsweredOnce == /\ IsInjective(received)
                /\ ToSet(received) \subseteq RequestsOf(sent)
                /\ source = "over" => ToSet(received) = RequestsOf(sent)

\* "`client_builder` should not be `None`" (driver.rs:157-162), "`request` should
\* be valid" (driver.rs:317-318): a builder is missing only when a command and
\* its clone have both been sent, and the conversion only fails a request that
\* was sent and has not been answered.
PanicExplained ==
  /\ loop = "panicked" => \E i, j \in DOMAIN sent : i < j /\ sent[i] = sent[j]
  /\ source = "panicked" => \E r \in RequestsOf(sent) \cap Invalid : r \notin ToSet(received)

-----------------------------------------------------------------------------
(* Liveness.                                                               *)

\* While `responses` is polled, every request is answered, whatever the run
\* loop of the driver is waiting for, and `responses` ends after the sink; but
\* nothing is after a panic, which one request that cannot be converted brings
\* about, whatever else is being answered (driver.rs:309-319).
EveryRequestAnswered ==
  /\ \A r \in Requests :
       r \in RequestsOf(sent) ~> r \in ToSet(received) \/ source = "dropped" \/ Panicked
  /\ closed ~> source # "held" \/ Panicked

\* The run loop has a client to hand over and no room, and nobody reads the
\* channel any more: a client has been chosen, or `responses` is over.
Blocked == /\ loop = "reserve"
           /\ Len(clients) = CLIENT_BUFFER_LEN
           /\ chosen # NoClient \/ source = "over"

\* The run loop ends once the sink does, unless it is blocked in that way and
\* no other, or `responses` has panicked (driver.rs:148-204).
ExitsOrBlocked == <>[](closed => ~LoopRuns \/ Blocked \/ Panicked)

\* "it_exits_when_the_sink_stream_has_finished" (tests/driver.rs:28): the run
\* loop ends once the sink does.
ExitsWithSink == closed ~> ~LoopRuns
=============================================================================
