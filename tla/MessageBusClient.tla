-------------------------- MODULE MessageBusClient --------------------------
(***************************************************************************)
(* message_bus_client: one connection to the broker with one channel, the  *)
(* event loop that owns them, and the list of actions with which the       *)
(* client sets up everything again after it has lost the connection.       *)
(*                                                                         *)
(* The channel (AMQP-CPP) and the broker (RabbitMQ) are external.  The     *)
(* channel delivers commands in order, buffers them until the connection   *)
(* is open and drops them when it is not usable.  The broker forgets the   *)
(* queues it named itself with the connection that declared them           *)
(* (exclusive | autodelete), and, when it restarts, everything: the client *)
(* declares nothing durable.                                               *)
(***************************************************************************)
EXTENDS Integers, Sequences, FiniteSets, StdMap, Selection

CONSTANTS
  Exchanges,       \* names of exchanges
  OtherType,       \* those that exist already, with another type
  NamedQueues,     \* names of queues that the client chooses
  GeneratedNames,  \* names that the broker gives to the other queues
  MaxCalls,        \* bound of the model: calls of the users of the client
  MaxFailures,     \* bound of the model: lost connections
  BrokerRestarts   \* may a connection be lost because the broker restarts

ASSUME ClientConstants ==
  /\ OtherType \subseteq Exchanges
  /\ NamedQueues \cap GeneratedNames = {} /\ "" \notin NamedQueues \cup GeneratedNames
  /\ MaxCalls \in Nat /\ MaxFailures \in Nat
  /\ BrokerRestarts \in BOOLEAN

VARIABLES
  loop,                   \* where the event loop thread is in client_run
  link,                   \* m_connection with its channel
  isChannelReady,
  isChannelInErrorState,
  actions,                \* the action storage: commands to send again
  actions_to_restore,     \* local of restore()
  m_binded_queues,        \* exchange -> name of the queue bound last
  wire,                   \* commands on their way to the broker
  replies,                \* answers of the broker on their way back
  exchanges,              \* at the broker: the declared exchanges
  queues,                 \* at the broker: name -> its bindings and consumer
  failures,               \* how many connections were lost
  calls                   \* what the users of the client called, in order

channelVars == <<loop, link, isChannelReady, isChannelInErrorState>>
storageVars == <<actions, actions_to_restore, m_binded_queues>>
brokerVars  == <<exchanges, queues>>
historyVars == <<failures, calls>>
clientVars  == <<channelVars, storageVars, wire, replies, brokerVars, historyVars>>

QueueNames == NamedQueues \cup GeneratedNames
Command ==
  [op : {"declare", "queue", "bind", "unbind", "consume", "publish", "ack"},
   exchange : Exchanges, queue : QueueNames \cup {""}]
Reply ==
  [op : {"queue-ok", "close", "message"}, exchange : Exchanges, queue : QueueNames \cup {""}]

Cmd(op, exchange, queue) == [op |-> op, exchange |-> exchange, queue |-> queue]

TypeOK ==
  /\ loop \in {"created", "dispatch", "clear", "replay"}
  /\ link \in {"opening", "open", "lost", "broken"}
  /\ isChannelReady \in BOOLEAN /\ isChannelInErrorState \in BOOLEAN
  /\ actions \in Seq(Command) /\ actions_to_restore \in Seq(Command)
  /\ IsMap(m_binded_queues, Exchanges, QueueNames)
  /\ wire \in Seq(Command) /\ replies \in Seq(Reply)
  /\ exchanges \subseteq Exchanges
  /\ IsMap(queues, QueueNames, [bound : SUBSET Exchanges, consumed : BOOLEAN])
  /\ failures \in 0..MaxFailures
  /\ calls \in Seq(Command)

(* The constructor: a connection that is being opened, and its channel.    *)
Init ==
  /\ loop = "created" /\ link = "opening"
  /\ isChannelReady = TRUE /\ isChannelInErrorState = FALSE
  /\ actions = << >> /\ actions_to_restore = << >> /\ m_binded_queues = << >>
  /\ wire = << >> /\ replies = << >>
  /\ exchanges = OtherType /\ queues = << >>
  /\ failures = 0 /\ calls = << >>

Usable == link \in {"opening", "open"}
Sent(commands) == IF Usable THEN wire \o commands ELSE wire

-----------------------------------------------------------------------------
(* declare_exchange and add_listener store the call and send its first     *)
(* command.  Callbacks run inside the event loop while the channel is      *)
(* open, main() calls before client_run.                                   *)
DeclareExchange(e) == Cmd("declare", e, "")
AddListener(e, q)  == Cmd("queue", e, q)

StoredCalls ==
  {c \in Command : \/ c = DeclareExchange(c.exchange)
                   \/ c = AddListener(c.exchange, c.queue) /\ c.queue \in NamedQueues \cup {""}}

MayCall == loop = "created" \/ (loop = "dispatch" /\ link = "open")

Store(made) == actions' = actions \o made

(* A user of the client makes calls, and may send commands after them that *)
(* are not stored.                                                         *)
MakeCalls(made, more) ==
  /\ MayCall
  /\ Store(made)
  /\ calls' = calls \o made
  /\ wire' = Sent(made \o more)
  /\ UNCHANGED <<channelVars, actions_to_restore, m_binded_queues, brokerVars, failures>>

ClientRun ==
  /\ loop = "created"
  /\ loop' = "dispatch"
  /\ UNCHANGED <<link, isChannelReady, isChannelInErrorState, storageVars, wire, replies,
                 brokerVars, historyVars>>

(* onReady: the channel is open; after an error restore() starts, which    *)
(* takes a copy of the stored actions.                                     *)
OnReady ==
  /\ loop = "dispatch" /\ link = "opening"
  /\ link' = "open"
  /\ isChannelReady' = TRUE
  /\ IF isChannelInErrorState
     THEN loop' = "clear" /\ actions_to_restore' = actions
     ELSE UNCHANGED <<loop, actions_to_restore>>
  /\ UNCHANGED <<isChannelInErrorState, actions, m_binded_queues, wire, replies, brokerVars,
                 historyVars>>

Keep(storage) == storage         \* slip: no actions.clear()
Cleared(storage) == << >>

KeepNames(binded) == binded      \* slip: no m_binded_queues.clear()
NoNames(binded) == << >>

RestoreClear ==
  /\ loop = "clear"
  /\ actions' = Cleared(actions)
  /\ m_binded_queues' = NoNames(m_binded_queues)
  /\ loop' = "replay"
  /\ UNCHANGED <<link, isChannelReady, isChannelInErrorState, actions_to_restore, wire,
                 replies, brokerVars, historyVars>>

LastStored(storage) == storage[Len(storage)]  \* slip: the last call each time
NextStored(storage) == Head(storage)

(* Each action is the original call: it stores itself again.               *)
RestoreReplay ==
  /\ loop = "replay"
  /\ actions_to_restore # << >>
  /\ Store(<<NextStored(actions_to_restore)>>)
  /\ wire' = Sent(<<NextStored(actions_to_restore)>>)
  /\ actions_to_restore' = Tail(actions_to_restore)
  /\ UNCHANGED <<channelVars, m_binded_queues, replies, brokerVars, historyVars>>

(* The end of restore(), which onReady repeats while the error persists.   *)
RestoreDone ==
  /\ loop = "replay"
  /\ actions_to_restore = << >>
  /\ isChannelInErrorState' = ~(Usable /\ isChannelReady)
  /\ IF isChannelInErrorState'
     THEN loop' = "clear" /\ actions_to_restore' = actions
     ELSE loop' = "dispatch" /\ UNCHANGED actions_to_restore
  /\ UNCHANGED <<link, isChannelReady, actions, m_binded_queues, wire, replies, brokerVars,
                 historyVars>>

(* onSuccess of declareQueue: bind the queue, remember it, consume it.     *)
NoConsumer(e, q) == <<Cmd("bind", e, q)>>          \* slip: no consume
ListenTo(e, q) == <<Cmd("bind", e, q), Cmd("consume", e, q)>>

BoundExchange(r) == r.exchange                     \* slip: the wrong name
BoundQueue(r) == r.queue

OnQueueDeclared ==
  /\ loop = "dispatch" /\ link = "open"
  /\ replies # << >> /\ Head(replies).op = "queue-ok"
  /\ LET r == Head(replies)
     IN  /\ wire' = Sent(ListenTo(r.exchange, r.queue))
         /\ m_binded_queues' =
              [Emplace(m_binded_queues, r.exchange, "") EXCEPT ![r.exchange] = BoundQueue(r)]
  /\ replies' = Tail(replies)
  /\ UNCHANGED <<channelVars, actions, actions_to_restore, brokerVars, historyVars>>

(* What onError of the channel does, for a lost connection as for a        *)
(* channel that the broker has closed.                                     *)
Unmarked(flag) == flag              \* slip: only isChannelReady is set
Marked(flag) == TRUE

MarkError ==
  /\ isChannelInErrorState' = Marked(isChannelInErrorState)
  /\ isChannelReady' = FALSE
  /\ wire' = << >>
  /\ replies' = << >>

(* The queues of a connection whose channel is gone; those the broker      *)
(* named are deleted with it.                                              *)
WithoutConsumers ==
  [q \in DOMAIN queues \cap NamedQueues |-> [queues[q] EXCEPT !.consumed = FALSE]]

OnChannelClosed ==
  /\ loop = "dispatch" /\ link = "open"
  /\ replies # << >> /\ Head(replies).op = "close"
  /\ link' = "broken"
  /\ MarkError
  /\ queues' = WithoutConsumers
  /\ UNCHANGED <<loop, storageVars, exchanges, historyVars>>

(* The connection fails, alone or because the broker stops.                *)
OnConnectionLost(restart) ==
  /\ loop = "dispatch" /\ link # "lost"
  /\ failures < MaxFailures
  /\ failures' = failures + 1
  /\ link' = "lost"
  /\ MarkError
  /\ queues' = IF restart THEN << >> ELSE WithoutConsumers
  /\ exchanges' = IF restart THEN OtherType ELSE exchanges
  /\ UNCHANGED <<loop, storageVars, calls>>

(* Without a connection event_base_dispatch returns, and the loop opens a  *)
(* new connection with a new channel if the channel is in error.           *)
Reconnect ==
  /\ loop = "dispatch" /\ link = "lost"
  /\ isChannelInErrorState
  /\ link' = "opening"
  /\ UNCHANGED <<loop, isChannelReady, isChannelInErrorState, storageVars, wire, replies,
                 brokerVars, historyVars>>

(* A heartbeat changes nothing, but as long as the connection lives there  *)
(* will be another one: event_base_dispatch does not return.               *)
Heartbeat ==
  /\ loop = "dispatch" /\ link # "lost"
  /\ UNCHANGED clientVars

-----------------------------------------------------------------------------
(***************************************************************************)
(* External: the broker executes the commands of the channel one by one.   *)
(* It closes the channel when an exchange is declared with another type or *)
(* is not there.                                                           *)
(***************************************************************************)
ChannelIsClosed == \E i \in 1..Len(replies) : replies[i].op = "close"

Refused(c) ==
  \/ c.op = "declare" /\ c.exchange \in OtherType
  \/ c.op \in {"bind", "publish"} /\ c.exchange \notin exchanges

Answer(op, c, queue) == Append(replies, [op |-> op, exchange |-> c.exchange, queue |-> queue])

Execute(c) ==
  \/ /\ Refused(c)
     /\ replies' = Answer("close", c, "")
     /\ UNCHANGED brokerVars
  \/ /\ c.op = "declare" /\ ~Refused(c)
     /\ exchanges' = exchanges \cup {c.exchange}
     /\ UNCHANGED <<queues, replies>>
  \/ /\ c.op = "queue"
     /\ \E name \in IF c.queue = "" THEN GeneratedNames \ DOMAIN queues ELSE {c.queue} :
           /\ queues' = Emplace(queues, name, [bound |-> {}, consumed |-> FALSE])
           /\ replies' = Answer("queue-ok", c, name)
     /\ UNCHANGED exchanges
  \/ /\ c.op = "bind" /\ ~Refused(c)
     /\ queues' = [queues EXCEPT ![c.queue].bound = @ \cup {c.exchange}]
     /\ UNCHANGED <<exchanges, replies>>
  \/ /\ c.op = "consume"
     /\ queues' = [queues EXCEPT ![c.queue].consumed = TRUE]
     /\ UNCHANGED <<exchanges, replies>>

BrokerExecutes ==
  /\ loop # "created" /\ Usable /\ ~ChannelIsClosed
  /\ wire # << >>
  /\ wire' = Tail(wire)
  /\ Execute(Head(wire))
  /\ UNCHANGED <<channelVars, storageVars, historyVars>>

-----------------------------------------------------------------------------
(* Any user: calls declare_exchange and add_listener, an exchange before   *)
(* the queues that are bound to it.                                        *)
UserCalls ==
  /\ Len(calls) < MaxCalls
  /\ \E e \in Exchanges :
        \/ MakeCalls(<<DeclareExchange(e)>>, << >>)
        \/ /\ \E i \in 1..Len(calls) : calls[i] = DeclareExchange(e)
           /\ \E q \in NamedQueues \cup {""} : MakeCalls(<<AddListener(e, q)>>, << >>)
  /\ UNCHANGED replies

EventLoop ==
  \/ ClientRun \/ OnReady \/ RestoreClear \/ RestoreReplay \/ RestoreDone
  \/ OnQueueDeclared \/ OnChannelClosed \/ Reconnect

MayRestart == {FALSE, BrokerRestarts}
ConnectionLost == \E restart \in MayRestart : OnConnectionLost(restart)

Next == UserCalls \/ EventLoop \/ BrokerExecutes \/ Heartbeat \/ ConnectionLost

Spec == Init /\ [][Next]_clientVars

(* The event loop thread runs and the broker answers; the number of lost   *)
(* connections is bounded, so in the end the connection stays.             *)
Fairness == WF_clientVars(EventLoop) /\ WF_clientVars(BrokerExecutes)

FairSpec == Spec /\ Fairness

-----------------------------------------------------------------------------
(* Nothing is on its way between the client and the broker.                *)
Quiet ==
  /\ loop = "dispatch" /\ link = "open"
  /\ wire = << >> /\ replies = << >>

(* The storage loses no call and doubles none, however often the client    *)
(* has lost its connection and in whatever part of restore() it is.        *)
NothingForgotten ==
  actions \o (IF loop = "replay" THEN actions_to_restore ELSE << >>) = calls

(* When everything has been executed, every exchange a user declared is    *)
(* there and every queue a user listens to is bound and consumed, also     *)
(* after the broker has lost all of them.                                  *)
Listening(e) == {q \in DOMAIN queues : e \in queues[q].bound /\ queues[q].consumed}

CallsAreInEffect ==
  Quiet => \A i \in 1..Len(calls) :
     LET c == calls[i]
     IN  IF c.op = "declare"
         THEN c.exchange \in exchanges
         ELSE /\ c.queue # "" => c.queue \in Listening(c.exchange)
              /\ c.queue = "" => Listening(c.exchange) \cap GeneratedNames # {}

(* Each call of add_listener without a name has one queue: a restoration   *)
(* does not make the messages of an exchange arrive twice.                 *)
OneQueuePerCall ==
  Quiet => \A e \in Exchanges :
     Cardinality(Listening(e) \cap GeneratedNames)
       = Cardinality({i \in 1..Len(calls) : calls[i] = AddListener(e, "")})

(* get_binded_queue names a queue of the present connection, never one     *)
(* that went away with an earlier connection: to unbind a queue that does  *)
(* not exist would close the channel.                                      *)
BindedQueuesExist ==
  loop = "dispatch" /\ link = "open" =>
     \A e \in DOMAIN m_binded_queues : m_binded_queues[e] \in DOMAIN queues

(* What the broker has yet to get of the calls on this connection: those   *)
(* on the wire, and those that restore() has not repeated yet.             *)
ToReplay ==
  IF loop \in {"clear", "replay"} THEN actions_to_restore
  ELSE IF isChannelInErrorState THEN actions ELSE << >>

DueCalls == Selected(wire, StoredCalls) \o ToReplay
Closed == link = "broken" \/ ChannelIsClosed

Abstract == INSTANCE CallsPerConnection WITH
              Calls <- StoredCalls, asked <- calls, due <- DueCalls, closed <- Closed

(* Every connection gets every call, in order and once, although restore() *)
(* lets the calls store themselves again while it goes through the copy of *)
(* the storage.                                                            *)
RestoresCalls == Abstract!Spec

(* A client that has lost its connection sets everything up again, unless  *)
(* the broker refuses what it asks for.                                    *)
Recovers == link = "lost" ~> (Quiet \/ link = "broken")

(* inc/rabbitmq/message_bus_client.hpp:82, "The delay which the client     *)
(* will wait until trying to connect again": a channel in error state is   *)
(* given a new connection.                                                 *)
ErrorIsRestored == isChannelInErrorState ~> ~isChannelInErrorState
=============================================================================
