-------------------------- MODULE ResultsPublisher --------------------------
(***************************************************************************)
(* processing_service and its data_publisher: results that the detection   *)
(* thread pushes are taken out by the processing thread, which publishes   *)
(* each of them in the exchange of its source.                             *)
(*                                                                         *)
(* The publisher uses a client of its own, MessageBusClient, whose event   *)
(* loop runs in another thread: nothing keeps the two apart.  Calls into   *)
(* the client are divided where the other thread can get in between the    *)
(* storage of actions and the channel.                                     *)
(*                                                                         *)
(* A source and its output exchange have one name here.                    *)
(***************************************************************************)
EXTENDS MessageBusClient

CONSTANTS
  WarmUp,                \* of Exchanges: the source of the warm-up frame
  MaxResults             \* bound of the model: results pushed for other sources

ASSUME ResultsAssumption == WarmUp \in Exchanges /\ MaxResults \in Nat

VARIABLES
  results,               \* the queue between the two services
  sync,                  \* is the mutex held by the processing thread
  json_publisher,        \* has main() set the publisher
  consuming,             \* has it started the event loop of the other client
  declared_exchanges,    \* of the publisher: sources it has declared
  procPc,                \* where the processing thread is in run()
  pushed,                \* how many results were pushed
  sent,                  \* results handed to the channel, in order
  delivered              \* results that reached their exchange, in order

serviceVars == <<results, sync, procPc, pushed>>
mainVars == <<json_publisher, consuming>>
publisherVars == <<mainVars, declared_exchanges, sent>>
vars == <<clientVars, serviceVars, publisherVars, delivered>>

Result == [src : Exchanges, num : 0..MaxResults]

PublisherTypeOK ==
  /\ TypeOK
  /\ results \in Seq(Result)
  /\ sync \in BOOLEAN /\ mainVars \in BOOLEAN \X BOOLEAN
  /\ declared_exchanges \subseteq Exchanges
  /\ procPc \in {"look", "declare", "send", "publish", "lock", "pop"}
  /\ pushed \in 0..MaxResults
  /\ sent \in Seq(Result) /\ delivered \in Seq(Result)

(* The processing thread starts when the warm-up is over.  The warm-up     *)
(* frame was detected before its source was unregistered, or never.        *)
PublisherInit ==
  /\ Init
  /\ results \in {<< >>, <<[src |-> WarmUp, num |-> 0]>>}
  /\ sync = FALSE /\ procPc = "look" /\ pushed = 0
  /\ json_publisher = FALSE /\ consuming = FALSE /\ declared_exchanges = {}
  /\ sent = << >> /\ delivered = << >>

-----------------------------------------------------------------------------
(* push_results, called by the detection thread: there are no sources      *)
(* until main() has started the event loop that registers them.            *)
PushResults(s) ==
  /\ consuming /\ s # WarmUp
  /\ pushed < MaxResults
  /\ ~sync
  /\ pushed' = pushed + 1
  /\ results' = Append(results, [src |-> s, num |-> pushed'])
  /\ UNCHANGED <<clientVars, sync, procPc, publisherVars, delivered>>

(* main() has created the client and its publisher; the processing thread  *)
(* runs already.                                                           *)
SetDataPublisher ==
  /\ ~json_publisher
  /\ json_publisher' = TRUE
  /\ UNCHANGED <<clientVars, serviceVars, consuming, declared_exchanges, sent, delivered>>

Early == ~consuming                         \* slip: before the publisher is set
AfterPublisher == json_publisher /\ ~consuming

StartConsuming ==
  /\ AfterPublisher
  /\ consuming' = TRUE
  /\ UNCHANGED <<clientVars, serviceVars, json_publisher, declared_exchanges, sent, delivered>>

-----------------------------------------------------------------------------
(* run().  While there are no results it sleeps and looks again.  Without  *)
(* a publisher a result is only removed.                                   *)
PrefixOnly(s) == "detection-results-"       \* slip: without the id of the source
OutputExchange(s) == s

AlwaysDeclared(s) == TRUE                   \* slip: the test inverted
IsDeclared(s) == s \in declared_exchanges

SeeResult ==
  /\ procPc = "look"
  /\ results # << >>
  /\ procPc' = IF ~json_publisher THEN "lock"
               ELSE IF IsDeclared(results[1].src) THEN "publish" ELSE "declare"
  /\ UNCHANGED <<clientVars, results, sync, pushed, publisherVars, delivered>>

(* declare_exchange of the client, called from this thread: first it       *)
(* stores the call, then it sends the command.                             *)
StoreDeclaration ==
  /\ procPc = "declare"
  /\ Store(<<DeclareExchange(OutputExchange(results[1].src))>>)
  /\ calls' = Append(calls, DeclareExchange(OutputExchange(results[1].src)))
  /\ procPc' = "send"
  /\ UNCHANGED <<channelVars, actions_to_restore, m_binded_queues, wire, replies, brokerVars,
                 failures, results, sync, pushed, publisherVars, delivered>>

SendDeclaration ==
  /\ procPc = "send"
  /\ wire' = Sent(<<DeclareExchange(OutputExchange(results[1].src))>>)
  /\ declared_exchanges' = declared_exchanges \cup {results[1].src}
  /\ procPc' = "publish"
  /\ UNCHANGED <<channelVars, storageVars, replies, brokerVars, historyVars, results, sync,
                 pushed, mainVars, sent, delivered>>

(* Without a usable channel publish() returns false, which nobody looks at.*)
Publish ==
  /\ procPc = "publish"
  /\ wire' = Sent(<<Cmd("publish", OutputExchange(results[1].src), "")>>)
  /\ sent' = IF Usable THEN Append(sent, results[1]) ELSE sent
  /\ procPc' = "lock"
  /\ UNCHANGED <<channelVars, storageVars, replies, brokerVars, historyVars, results, sync,
                 pushed, mainVars, declared_exchanges, delivered>>

LockSync ==
  /\ procPc = "lock"
  /\ sync' = TRUE
  /\ procPc' = "pop"
  /\ UNCHANGED <<clientVars, results, pushed, publisherVars, delivered>>

KeepResult(queue) == queue                  \* slip: no pop()
WithoutFront(queue) == Tail(queue)

PopResult ==
  /\ procPc = "pop"
  /\ results' = WithoutFront(results)
  /\ sync' = FALSE
  /\ procPc' = "look"
  /\ UNCHANGED <<clientVars, pushed, publisherVars, delivered>>

-----------------------------------------------------------------------------
(* External: a message reaches its exchange.  The commands on the wire     *)
(* that publish are the last ones of sent.                                 *)
Messages == {c \in Command : c.op = "publish"}

BrokerPublishes ==
  /\ loop # "created" /\ Usable /\ ~ChannelIsClosed
  /\ wire # << >> /\ Head(wire) \in Messages /\ ~Refused(Head(wire))
  /\ delivered' = Append(delivered, sent[Len(sent) + 1 - Len(Selected(wire, Messages))])
  /\ wire' = Tail(wire)
  /\ UNCHANGED <<channelVars, storageVars, replies, brokerVars, historyVars, serviceVars,
                 publisherVars>>

Processing ==
  \/ SeeResult \/ StoreDeclaration \/ SendDeclaration \/ Publish \/ LockSync \/ PopResult

(* main() starts this event loop last.                                     *)
Loop ==
  /\ \/ ClientRun /\ consuming
     \/ OnReady \/ RestoreClear \/ RestoreReplay \/ RestoreDone
     \/ OnChannelClosed \/ Reconnect
  /\ UNCHANGED <<serviceVars, publisherVars, delivered>>

Broker ==
  \/ BrokerExecutes /\ UNCHANGED <<serviceVars, publisherVars, delivered>>
  \/ BrokerPublishes

PublisherNext ==
  \/ SetDataPublisher \/ StartConsuming
  \/ \E s \in Exchanges : PushResults(s)
  \/ Processing \/ Loop \/ Broker
  \/ (Heartbeat \/ ConnectionLost) /\ UNCHANGED <<serviceVars, publisherVars, delivered>>

PublisherSpec == PublisherInit /\ [][PublisherNext]_vars

(* The threads keep running and the broker answers.                        *)
PublisherFairSpec ==
  PublisherSpec /\ WF_vars(Processing) /\ WF_vars(Loop) /\ WF_vars(Broker)

-----------------------------------------------------------------------------
(* Results reach their exchanges in the order of push_results and none of  *)
(* them twice, although connections are lost and everything declared is    *)
(* sent again.                                                             *)
DeliveredInOrderOnce ==
  \A i, j \in 1..Len(delivered) : i < j => delivered[i].num < delivered[j].num

(* As long as no connection is lost, every result of a source reaches an   *)
(* exchange: main() sets the publisher before there are sources, and the   *)
(* exchange is declared before the first message, on the same channel.     *)
(* Only the result of the warm-up may be dropped instead.                  *)
Awaits(n) == \E i \in 1..Len(results) : results[i].num = n
Reached(n) == \E i \in 1..Len(delivered) : delivered[i].num = n

ResultIsPublished == \A n \in 1..MaxResults : Awaits(n) ~> (Reached(n) \/ failures > 0)

-----------------------------------------------------------------------------
(* README.md:149, "Microservice will create an output exchange for each    *)
(* source": when all is handled, every output exchange that the publisher  *)
(* takes for declared is there.                                            *)
OutputExchangeExists == Quiet => declared_exchanges \subseteq exchanges
=============================================================================
