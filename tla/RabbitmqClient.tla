--------------------------- MODULE RabbitmqClient ---------------------------
(***************************************************************************)
(* rabbitmq_client as the consumer of the service: announcements of new    *)
(* and of obsolete sources arrive in two named queues, frames in a queue   *)
(* per registration that is bound to the exchange of the source.  All      *)
(* callbacks run in the event loop of one MessageBusClient.                *)
(*                                                                         *)
(* A source and its exchange have one name here.  The detection service is *)
(* the set of its keys, see DetectionService.tla for the rest of it.       *)
(***************************************************************************)
EXTENDS MessageBusClient

CONSTANTS
  Sources,        \* sources, and the names of their exchanges
  OtherBodies,    \* announcements that are none, see NoSource and BadId
  MaxMessages,    \* bound of the model: announcements, of both kinds together
  MaxFrames       \* bound of the model: frames

Available == "available"      \* exchange and queue of new sources
Obsolete  == "obsolete"       \* exchange and queue of obsolete sources

(* Bodies of announcements that name no source: source_from_json fails     *)
(* because the body is no JSON, or has no id or no exchange; or it goes on *)
(* with an id that could not be converted: id is then not initialized and  *)
(* exchange is empty, the name of the broker's default exchange.           *)
NoSource == "no source"
BadId == "bad id"
DefaultExchange == ""

ASSUME SourcesConstants ==
  /\ OtherBodies \subseteq {NoSource, BadId}
  /\ Exchanges = Sources \cup OtherBodies \cup {Available, Obsolete, DefaultExchange}
  /\ DefaultExchange \in OtherType
  /\ NamedQueues = {Available, Obsolete}
  /\ MaxMessages \in Nat /\ MaxFrames \in Nat

VARIABLES
  registered,     \* keys of the queues of the detection service
  waiting,        \* named queue -> the announcements that wait in it
  unacked,        \* named queue -> those delivered and not acknowledged
  frames,         \* frames in the queues of the broker
  queued,         \* frames handed to the detection service, in order
  announced,      \* how many announcements were published
  filmed          \* how many frames were published

serviceVars == <<registered, queued>>
sourceVars  == <<announced, filmed>>
messageVars == <<waiting, unacked, frames>>
vars == <<clientVars, serviceVars, sourceVars, messageVars>>

Body == Sources \cup OtherBodies

(* What source_from_json may give as id and exchange of a source.          *)
IdsIn(body) == IF body = BadId THEN Sources \cup {BadId} ELSE {body}
ExchangeIn(body) == IF body = BadId THEN DefaultExchange ELSE body

FrameMessage == [queue : QueueNames, src : Sources, num : 1..MaxFrames]

ConsumerTypeOK ==
  /\ TypeOK
  /\ registered \subseteq Sources \cup {BadId}
  /\ waiting \in [NamedQueues -> Seq(Body)]
  /\ unacked \in [NamedQueues -> Seq(Body)]
  /\ frames \subseteq FrameMessage
  /\ queued \in Seq([src : Sources, num : 1..MaxFrames])
  /\ announced \in 0..MaxMessages /\ filmed \in 0..MaxFrames

NoAnnouncements == [q \in NamedQueues |-> << >>]

(* main() has declared both exchanges and listens to both queues before it *)
(* starts the event loop.                                                  *)
SetUp == <<DeclareExchange(Available), DeclareExchange(Obsolete),
           AddListener(Available, Available), AddListener(Obsolete, Obsolete)>>

ConsumerInit ==
  /\ loop = "created" /\ link = "opening"
  /\ isChannelReady = TRUE /\ isChannelInErrorState = FALSE
  /\ actions = SetUp /\ calls = SetUp /\ wire = SetUp
  /\ actions_to_restore = << >> /\ m_binded_queues = << >> /\ replies = << >>
  /\ exchanges = OtherType /\ queues = << >> /\ failures = 0
  /\ registered = {} /\ queued = << >>
  /\ waiting = NoAnnouncements /\ unacked = NoAnnouncements /\ frames = {}
  /\ announced = 0 /\ filmed = 0

-----------------------------------------------------------------------------
(* External: the sources.  A fanout exchange copies a message to every     *)
(* queue bound to it and loses it when there is none.                      *)
Announce(q, s) ==
  /\ announced < MaxMessages
  /\ announced' = announced + 1
  /\ q \in DOMAIN queues /\ q \in queues[q].bound
  /\ waiting' = [waiting EXCEPT ![q] = Append(@, s)]
  /\ UNCHANGED <<clientVars, serviceVars, unacked, frames, filmed>>

Film(s) ==
  /\ filmed < MaxFrames
  /\ filmed' = filmed + 1
  /\ LET bound == {q \in DOMAIN queues : s \in queues[q].bound}
     IN  /\ bound # {}
         /\ frames' = frames \cup {[queue |-> q, src |-> s, num |-> filmed'] : q \in bound}
  /\ UNCHANGED <<clientVars, serviceVars, waiting, unacked, announced>>

(* External: the broker delivers an announcement, and puts back in front   *)
(* what was not acknowledged when the channel goes away.                   *)
Deliver(q) ==
  /\ loop # "created" /\ Usable /\ ~ChannelIsClosed
  /\ q \in DOMAIN queues /\ queues[q].consumed
  /\ waiting[q] # << >>
  /\ LET s == Head(waiting[q])
     IN  /\ replies' = Append(replies, [op |-> "message", exchange |-> s, queue |-> q])
         /\ unacked' = [unacked EXCEPT ![q] = Append(@, s)]
  /\ waiting' = [waiting EXCEPT ![q] = Tail(@)]
  /\ UNCHANGED <<channelVars, storageVars, wire, brokerVars, historyVars, serviceVars, frames,
                 sourceVars>>

Requeue ==
  /\ waiting' = [q \in NamedQueues |-> unacked[q] \o waiting[q]]
  /\ unacked' = NoAnnouncements
  /\ frames' = {}

ChannelClosed == OnChannelClosed /\ Requeue /\ UNCHANGED <<serviceVars, sourceVars>>

LinkLost(restart) ==
  /\ OnConnectionLost(restart)
  /\ IF restart
     THEN waiting' = NoAnnouncements /\ unacked' = NoAnnouncements /\ frames' = {}
     ELSE Requeue
  /\ UNCHANGED <<serviceVars, sourceVars>>

BrokerAcknowledges ==
  /\ loop # "created" /\ Usable /\ ~ChannelIsClosed
  /\ wire # << >> /\ Head(wire).op = "ack"
  /\ LET q     == Head(wire).queue
         acked == CHOOSE i \in 1..Len(unacked[q]) : unacked[q][i] = Head(wire).exchange
     IN  unacked' = [unacked EXCEPT ![q] = SubSeq(@, 1, acked - 1) \o SubSeq(@, acked + 1, Len(@))]
  /\ wire' = Tail(wire)
  /\ UNCHANGED <<channelVars, storageVars, replies, brokerVars, historyVars, serviceVars,
                 sourceVars, waiting, frames>>

BrokerUnbinds ==
  /\ loop # "created" /\ Usable /\ ~ChannelIsClosed
  /\ wire # << >> /\ Head(wire).op = "unbind"
  /\ queues' = [queues EXCEPT ![Head(wire).queue].bound = @ \ {Head(wire).exchange}]
  /\ wire' = Tail(wire)
  /\ UNCHANGED <<channelVars, storageVars, replies, exchanges, historyVars, serviceVars,
                 sourceVars, messageVars>>

-----------------------------------------------------------------------------
(* The callbacks.  The channel hands over what arrives in its order.       *)
Arrives(q, s) ==
  /\ loop = "dispatch" /\ link = "open"
  /\ replies # << >>
  /\ Head(replies) = [op |-> "message", exchange |-> s, queue |-> q]
  /\ replies' = Tail(replies)

AckNew(q, body) ==                            \* slip: a known source only returns
  IF q = Available /\ body \in registered THEN << >> ELSE <<Cmd("ack", body, q)>>
Ack(q, body) == <<Cmd("ack", body, q)>>

(* Both callbacks: a body without a source is acknowledged.                *)
NoAnnouncement(q) ==
  /\ Arrives(q, NoSource)
  /\ MakeCalls(<< >>, Ack(q, NoSource))
  /\ UNCHANGED <<serviceVars, sourceVars, messageVars>>

(* available_src_msg_callback: a new source is registered and listened to, *)
(* a known one only acknowledged.                                          *)
NoListener(exchange) == <<DeclareExchange(exchange)>>       \* slip: no add_listener
Feed(exchange) == <<DeclareExchange(exchange), AddListener(exchange, "")>>

AvailableSource(body) ==
  /\ Arrives(Available, body)
  /\ \E id \in IdsIn(body) :
        /\ registered' = registered \cup {id}
        /\ MakeCalls(IF id \in registered THEN << >> ELSE Feed(ExchangeIn(body)),
                     Ack(Available, body))
  /\ UNCHANGED <<queued, sourceVars, messageVars>>

(* obsolete_src_msg_callback: a known source is unregistered, unbound if   *)
(* its queue is known, and acknowledged; for an unknown one the callback   *)
(* returns without a word.                                                 *)
Unbind(exchange) ==
  IF exchange \in DOMAIN m_binded_queues
  THEN <<Cmd("unbind", exchange, m_binded_queues[exchange])>>
  ELSE << >>

ObsoleteSource(body) ==
  /\ Arrives(Obsolete, body)
  /\ \E id \in IdsIn(body) :
        /\ registered' = registered \ {id}
        /\ MakeCalls(<< >>, IF id \in registered
                            THEN Unbind(ExchangeIn(body)) \o Ack(Obsolete, body)
                            ELSE << >>)
  /\ UNCHANGED <<queued, sourceVars, messageVars>>

(* new_frame_msg_callback: try_add_to_queue takes the frame of a source    *)
(* that is registered unless its queue is full.  A frame that is not       *)
(* acknowledged goes away with its queue, so acknowledgements are left out.*)
FrameArrives(f) ==
  /\ loop = "dispatch" /\ link = "open"
  /\ f \in frames /\ queues[f.queue].consumed
  /\ \A g \in frames : g.queue = f.queue => f.num <= g.num
  /\ frames' = frames \ {f}
  /\ \/ f.src \in registered /\ queued' = Append(queued, [src |-> f.src, num |-> f.num])
     \/ UNCHANGED queued
  /\ UNCHANGED <<clientVars, registered, sourceVars, waiting, unacked>>

-----------------------------------------------------------------------------
Callbacks ==
  \/ \E q \in NamedQueues : NoAnnouncement(q)
  \/ \E body \in Body \ {NoSource} : AvailableSource(body) \/ ObsoleteSource(body)
  \/ \E f \in frames : FrameArrives(f)

Loop ==
  \/ /\ \/ ClientRun \/ OnReady \/ RestoreClear \/ RestoreReplay \/ RestoreDone
        \/ OnQueueDeclared \/ Reconnect
     /\ UNCHANGED <<serviceVars, sourceVars, messageVars>>
  \/ ChannelClosed
  \/ Callbacks

Broker ==
  \/ BrokerExecutes /\ UNCHANGED <<serviceVars, sourceVars, messageVars>>
  \/ BrokerAcknowledges \/ BrokerUnbinds
  \/ \E q \in NamedQueues : Deliver(q)

Outside ==
  \/ \E s \in Sources : Film(s)
  \/ \E q \in NamedQueues, body \in Body : Announce(q, body)
  \/ \E restart \in MayRestart : LinkLost(restart)
  \/ Heartbeat /\ UNCHANGED <<serviceVars, sourceVars, messageVars>>

ConsumerNext == Loop \/ Broker \/ Outside

ConsumerSpec == ConsumerInit /\ [][ConsumerNext]_vars

ConsumerFairSpec == ConsumerSpec /\ WF_vars(Loop) /\ WF_vars(Broker)

-----------------------------------------------------------------------------
(* Every registered source has a queue that its frames come through, also  *)
(* when it was dropped and announced again, or the broker lost everything. *)
RegisteredIsListenedTo == Quiet => \A s \in registered \cap Sources : Listening(s) # {}

(* src/rabbitmq/rabbitmq_client.cpp:99, "acknowledge anyway": when all is  *)
(* handled, no announcement of an available source is left unacknowledged, *)
(* to be delivered again when the connection is lost.                      *)
AvailableIsAcknowledged == Quiet => unacked[Available] = << >>

(* An announcement is acted upon, although the connection may be lost      *)
(* before, between and after its delivery and its acknowledgement; unless  *)
(* the broker loses the queue or closes the channel.                       *)
Waits(q, s) == \E i \in 1..Len(waiting[q]) : waiting[q][i] = s

AnnouncementIsHandled ==
  \A s \in Sources :
     Waits(Available, s) ~> \/ s \in registered
                            \/ Available \notin DOMAIN queues
                            \/ link = "broken"

-----------------------------------------------------------------------------
(* README.md:59, "Send byte data frame to Queue (any image size) -> decode *)
(* (to cv::Mat) -> add to appropriate service's queue": a frame that was   *)
(* sent once is added once.                                                *)
FrameIsQueuedOnce ==
  \A i, j \in 1..Len(queued) : queued[i] = queued[j] => i = j
=============================================================================
