----------------------- MODULE MessageBusClientProofs -----------------------
(***************************************************************************)
(* Invariants of MessageBusClient, for any names and any number of calls   *)
(* and of lost connections: its storage keeps every call once and in       *)
(* order, the queues that it remembers exist, what was called is in effect *)
(* when nothing is under way, with one queue per call.  And it implements  *)
(* CallsPerConnection.                                                     *)
(***************************************************************************)
EXTENDS MessageBusClient, CollectionProofs

(* The parts of the loop, as far as the storage depends on them: restore() *)
(* runs while a connection is open, and only the first connection is       *)
(* opened without an error.                                                *)
LoopAndLink ==
  /\ loop = "created" => link = "opening"
  /\ loop \in {"clear", "replay"} => link = "open"
  /\ loop = "clear" => actions_to_restore = actions

(* The error flag outlives a lost channel until restore() is over.         *)
ErrorIsKnown ==
  /\ loop = "created" => ~isChannelInErrorState
  /\ link = "open" => isChannelReady /\ (loop = "dispatch" => ~isChannelInErrorState)
  /\ link \in {"lost", "broken"} => isChannelInErrorState

(* The storage and its copy hold calls of the users only.                  *)
OnlyCallsAreStored ==
  /\ calls \in Seq(StoredCalls)
  /\ actions \in Seq(StoredCalls)
  /\ actions_to_restore \in Seq(StoredCalls)

(* On the wire, too, declarations are calls of the users, and what is      *)
(* bound or unbound is a queue of the present connection.                  *)
CommandsFit ==
  \A c \in Command : Has(wire, c) =>
    /\ c.op \in {"declare", "queue"} => c \in StoredCalls
    /\ c.op \in {"bind", "unbind"} => c.queue \in DOMAIN queues

(* An answer names a queue of the present connection.                      *)
AnswersNameQueues ==
  \A r \in Reply : (Has(replies, r) /\ r.op = "queue-ok") => r.queue \in DOMAIN queues

(* No name of a queue is remembered before its connection was open, nor    *)
(* between the end of an old connection and the end of restore().          *)
NoOldNames ==
  (loop = "replay" \/ (link = "opening" /\ ~isChannelInErrorState)) =>
     DOMAIN m_binded_queues = {}

IInv ==
  /\ TypeOK
  /\ NothingForgotten
  /\ BindedQueuesExist
  /\ LoopAndLink
  /\ ErrorIsKnown
  /\ OnlyCallsAreStored
  /\ CommandsFit
  /\ AnswersNameQueues
  /\ NoOldNames

-----------------------------------------------------------------------------
(* The calls are commands with two operations.                             *)
LEMMA CallsOperations ==
  ASSUME NEW c \in StoredCalls
  PROVE  /\ c \in Command /\ c.op \in {"declare", "queue"} /\ c.queue \in NamedQueues \cup {""}
         /\ c.op = "declare" => c = DeclareExchange(c.exchange)
         /\ c.op = "queue" => c = AddListener(c.exchange, c.queue)
<1>1. /\ c \in Command
      /\ \/ c = DeclareExchange(c.exchange)
         \/ c = AddListener(c.exchange, c.queue) /\ c.queue \in NamedQueues \cup {""}
  BY Zenon DEF StoredCalls
<1>2. \A e, q : /\ DeclareExchange(e).op = "declare" /\ DeclareExchange(e).queue = ""
                /\ AddListener(e, q).op = "queue"
  BY DEF DeclareExchange, AddListener, Cmd
<1>. QED  BY <1>1, <1>2

(* The calls are commands.                                                 *)
LEMMA CallsAreCommands == StoredCalls \subseteq Command
BY DEF StoredCalls

(* An exchange can be declared.                                            *)
LEMMA DeclarationCall ==
  ASSUME NEW e \in Exchanges
  PROVE  /\ DeclareExchange(e) \in StoredCalls
         /\ DeclareExchange(e).op = "declare" /\ DeclareExchange(e).exchange = e
BY DEF StoredCalls, DeclareExchange, AddListener, Cmd, Command, QueueNames

(* It can be listened to.                                                  *)
LEMMA ListenerCall ==
  ASSUME NEW e \in Exchanges, NEW q \in NamedQueues \cup {""}
  PROVE  /\ AddListener(e, q) \in StoredCalls
         /\ AddListener(e, q).op = "queue" /\ AddListener(e, q).exchange = e
         /\ AddListener(e, q).queue = q
BY DEF StoredCalls, DeclareExchange, AddListener, Cmd, Command, QueueNames

(* Also without a name for its queue.                                      *)
LEMMA UnnamedCall ==
  ASSUME NEW e \in Exchanges
  PROVE  /\ AddListener(e, "") \in StoredCalls
         /\ AddListener(e, "").op = "queue" /\ AddListener(e, "").exchange = e
         /\ AddListener(e, "").queue = ""
<1>1. "" \in NamedQueues \cup {""}
  OBVIOUS
<1>. QED  BY <1>1, ListenerCall, Zenon

(* Sequences of one command and of two.                                    *)
LEMMA ShortSequences ==
  ASSUME NEW S, NEW c \in S, NEW d \in S
  PROVE  <<c>> \in Seq(S) /\ <<c, d>> \in Seq(S)
  OBVIOUS

(* Sending puts commands at the end of the wire, or drops them.            *)
LEMMA SentCommands ==
  ASSUME NEW commands \in Seq(Command), wire \in Seq(Command)
  PROVE  Sent(commands) \in Seq(Command)
  BY ConcatProperties DEF Sent

(* Without their consumers the queues are still queues, or gone.           *)
LEMMA QueuesWithoutConsumers ==
  ASSUME IsMap(queues, QueueNames, [bound : SUBSET Exchanges, consumed : BOOLEAN])
  PROVE  IsMap(WithoutConsumers, QueueNames, [bound : SUBSET Exchanges, consumed : BOOLEAN])
  BY DEF IsMap, WithoutConsumers

(* To take the first action of the copy and to store it again leaves the   *)
(* whole of both as it is.                                                 *)
LEMMA MoveOne ==
  ASSUME NEW S, NEW stored \in Seq(S), NEW rest \in Seq(S), rest # << >>
  PROVE  (stored \o <<Head(rest)>>) \o Tail(rest) = stored \o rest
<1>1. /\ Head(rest) \in S /\ Tail(rest) \in Seq(S)
      /\ Len(Tail(rest)) = Len(rest) - 1
      /\ \A i \in 1..Len(Tail(rest)) : Tail(rest)[i] = rest[i + 1]
  BY HeadTailProperties
<1>2. <<Head(rest)>> \o Tail(rest) = rest
  <2>1. <<Head(rest)>> \o Tail(rest) \in Seq(S)
    BY <1>1
  <2>2. Len(<<Head(rest)>> \o Tail(rest)) = Len(rest)
    BY <1>1
  <2>3. \A i \in 1..Len(rest) : (<<Head(rest)>> \o Tail(rest))[i] = rest[i]
    BY <1>1
  <2>. QED  BY <2>1, <2>2, <2>3, SeqEqual
<1>. QED  BY <1>1, <1>2, ConcatAssociative

(* The elements of a sequence are in the set that it is a sequence of.     *)
LEMMA HasInSet ==
  ASSUME NEW S, NEW s \in Seq(S), NEW x, Has(s, x)
  PROVE  x \in S
BY DEF Has

(* What is on the wire after sending.                                      *)
LEMMA SentHas ==
  ASSUME NEW commands \in Seq(Command), wire \in Seq(Command), NEW c
  PROVE  Has(Sent(commands), c) <=> (Has(wire, c) \/ (Usable /\ Has(commands, c)))
<1>1. Has(wire \o commands, c) <=> (Has(wire, c) \/ Has(commands, c))
  BY HasConcat
<1>. QED  BY <1>1 DEF Sent

(* The fields of a command, and of an answer.                              *)
LEMMA CommandFields ==
  \A op, e, q : Cmd(op, e, q).op = op /\ Cmd(op, e, q).exchange = e /\ Cmd(op, e, q).queue = q
BY DEF Cmd

(* What the client sends when a queue is there.                            *)
LEMMA ListenToCommands ==
  ASSUME NEW e \in Exchanges, NEW q \in QueueNames
  PROVE  /\ ListenTo(e, q) \in Seq(Command)
         /\ \A c : Has(ListenTo(e, q), c) <=> (c = Cmd("bind", e, q) \/ c = Cmd("consume", e, q))
<1>1. Cmd("bind", e, q) \in Command /\ Cmd("consume", e, q) \in Command
  BY DEF Cmd, Command
<1>. QED  BY <1>1, ShortSequences, HasTwo, Zenon DEF ListenTo

-----------------------------------------------------------------------------
(* Every action keeps the types.                                           *)

(* Calls of users.                                                         *)
LEMMA CallsType ==
  ASSUME TypeOK, NEW made \in Seq(Command), NEW more \in Seq(Command), MakeCalls(made, more),
         replies' \in Seq(Reply)
  PROVE  TypeOK'
<1>1. /\ actions' \in Seq(Command) /\ calls' \in Seq(Command)
      /\ wire' \in Seq(Command)
  BY ConcatProperties, SentCommands DEF TypeOK, MakeCalls, Store
<1>. QED  BY <1>1 DEF TypeOK, MakeCalls, channelVars, brokerVars

(* The loop starts.                                                        *)
LEMMA ClientRunType ==
  ASSUME TypeOK, ClientRun
  PROVE  TypeOK'
BY DEF TypeOK, ClientRun, storageVars, brokerVars, historyVars

(* The connection opens.                                                   *)
LEMMA OnReadyType ==
  ASSUME TypeOK, OnReady
  PROVE  TypeOK'
BY DEF TypeOK, OnReady, brokerVars, historyVars

(* restore() clears the storage.                                           *)
LEMMA RestoreClearType ==
  ASSUME TypeOK, RestoreClear
  PROVE  TypeOK'
<1>1. DOMAIN << >> = {} /\ \A K, V : IsMap(<< >>, K, V)
  BY DEF IsMap
<1>2. actions' = << >> /\ m_binded_queues' = << >>
  BY DEF RestoreClear, Cleared, NoNames
<1>. QED  BY <1>1, <1>2 DEF TypeOK, RestoreClear, brokerVars, historyVars

(* restore() repeats a call.                                               *)
LEMMA RestoreReplayType ==
  ASSUME TypeOK, RestoreReplay
  PROVE  TypeOK'
<1>. DEFINE next == Head(actions_to_restore)
<1>1. next \in Command /\ Tail(actions_to_restore) \in Seq(Command) /\ <<next>> \in Seq(Command)
  BY HeadTailProperties DEF TypeOK, RestoreReplay
<1>2. actions' = actions \o <<next>> /\ wire' = Sent(<<next>>)
  BY DEF RestoreReplay, Store, NextStored
<1>3. actions' \in Seq(Command) /\ wire' \in Seq(Command)
  BY <1>1, <1>2, ConcatProperties, SentCommands DEF TypeOK
<1>. QED  BY <1>1, <1>3 DEF TypeOK, RestoreReplay, channelVars, brokerVars, historyVars

(* restore() ends or starts again.                                         *)
LEMMA RestoreDoneType ==
  ASSUME TypeOK, RestoreDone
  PROVE  TypeOK'
BY DEF TypeOK, RestoreDone, brokerVars, historyVars

(* A queue that the broker has answered, if it is one of its queues.       *)
LEMMA OnQueueDeclaredType ==
  ASSUME TypeOK, OnQueueDeclared, Head(replies).queue \in DOMAIN queues
  PROVE  /\ TypeOK'
         /\ Head(replies).exchange \in Exchanges /\ Head(replies).queue \in QueueNames
<1>. DEFINE r == Head(replies)
<1>1. r \in Reply /\ Tail(replies) \in Seq(Reply)
  BY HeadTailProperties DEF TypeOK, OnQueueDeclared
<1>2. r.exchange \in Exchanges /\ r.queue \in QueueNames
  BY <1>1 DEF Reply, TypeOK, IsMap
<1>3. m_binded_queues' =
        [k \in DOMAIN m_binded_queues \cup {r.exchange} |->
           IF k = r.exchange THEN r.queue ELSE m_binded_queues[k]]
  BY DEF OnQueueDeclared, Emplace, BoundQueue
<1>4. IsMap(m_binded_queues', Exchanges, QueueNames)
  BY <1>2, <1>3 DEF TypeOK, IsMap
<1>5. wire' \in Seq(Command)
  BY <1>2, ListenToCommands, SentCommands DEF TypeOK, OnQueueDeclared
<1>. QED  BY <1>1, <1>2, <1>4, <1>5 DEF TypeOK, OnQueueDeclared, channelVars, brokerVars, historyVars

(* The broker has closed the channel.                                      *)
LEMMA OnChannelClosedType ==
  ASSUME TypeOK, OnChannelClosed
  PROVE  TypeOK'
<1>1. IsMap(queues', QueueNames, [bound : SUBSET Exchanges, consumed : BOOLEAN])
  BY QueuesWithoutConsumers DEF TypeOK, OnChannelClosed
<1>2. wire' \in Seq(Command) /\ replies' \in Seq(Reply)
  BY EmptySeq DEF OnChannelClosed, MarkError
<1>. QED  BY <1>1, <1>2
          DEF TypeOK, OnChannelClosed, MarkError, Marked, storageVars, historyVars

(* The connection is lost.                                                 *)
LEMMA OnConnectionLostType ==
  ASSUME TypeOK, NEW restart, OnConnectionLost(restart)
  PROVE  TypeOK'
<1>1. IsMap(queues', QueueNames, [bound : SUBSET Exchanges, consumed : BOOLEAN])
  <2>1. DOMAIN << >> = {} /\ \A K, V : IsMap(<< >>, K, V)
    BY DEF IsMap
  <2>2. IsMap(WithoutConsumers, QueueNames, [bound : SUBSET Exchanges, consumed : BOOLEAN])
    BY QueuesWithoutConsumers DEF TypeOK
  <2>3. queues' = << >> \/ queues' = WithoutConsumers
    BY Zenon DEF OnConnectionLost
  <2>. QED  BY <2>1, <2>2, <2>3
<1>2. exchanges' \subseteq Exchanges
  <2>1. exchanges' = OtherType \/ exchanges' = exchanges
    BY Zenon DEF OnConnectionLost
  <2>2. OtherType \subseteq Exchanges
    BY ClientConstants, Zenon DEF ClientConstants
  <2>. QED  BY <2>1, <2>2 DEF TypeOK
<1>3. failures' \in 0..MaxFailures
  <2>1. MaxFailures \in Nat
    BY ClientConstants, Zenon DEF ClientConstants
  <2>. QED  BY <2>1 DEF TypeOK, OnConnectionLost
<1>4. wire' \in Seq(Command) /\ replies' \in Seq(Reply)
  BY EmptySeq DEF OnConnectionLost, MarkError
<1>. QED  BY <1>1, <1>2, <1>3, <1>4
          DEF TypeOK, OnConnectionLost, MarkError, Marked, storageVars

(* A new connection.                                                       *)
LEMMA ReconnectType ==
  ASSUME TypeOK, Reconnect
  PROVE  TypeOK'
BY DEF TypeOK, Reconnect, storageVars, brokerVars, historyVars

(* What the broker executes: its queues and exchanges only become more,    *)
(* those that are there keep what they have, and a new answer, if it names *)
(* a queue, names one of them.                                             *)
LEMMA BrokerExecutesChanges ==
  ASSUME TypeOK, BrokerExecutes
  PROVE  /\ Head(wire) \in Command /\ Tail(wire) \in Seq(Command)
         /\ exchanges \subseteq exchanges' /\ exchanges' \subseteq Exchanges
         /\ IsMap(queues', QueueNames, [bound : SUBSET Exchanges, consumed : BOOLEAN])
         /\ DOMAIN queues \subseteq DOMAIN queues'
         /\ \A q \in DOMAIN queues : /\ queues[q].bound \subseteq queues'[q].bound
                                     /\ queues[q].consumed => queues'[q].consumed
         /\ \/ replies' = replies
            \/ \E a \in Reply : /\ replies' = Append(replies, a)
                                /\ a.op \in {"close", "queue-ok"}
                                /\ a.op = "queue-ok" => a.queue \in DOMAIN queues'
<1>. DEFINE c == Head(wire)
            Queue == [bound : SUBSET Exchanges, consumed : BOOLEAN]
<1>1. c \in Command /\ Tail(wire) \in Seq(Command)
  BY HeadTailProperties DEF TypeOK, BrokerExecutes
<1>2. c.exchange \in Exchanges /\ c.queue \in QueueNames \cup {""}
  BY <1>1 DEF Command
<1>3. IsMap(queues, QueueNames, Queue) /\ exchanges \subseteq Exchanges
  BY DEF TypeOK
<1>4. Execute(c)
  BY DEF BrokerExecutes
<1>. HIDE DEF c
<1>5. CASE Refused(c) /\ replies' = Answer("close", c, "") /\ UNCHANGED brokerVars
  <2>1. [op |-> "close", exchange |-> c.exchange, queue |-> ""] \in Reply
    BY <1>2 DEF Reply
  <2>. QED  BY <1>1, <1>3, <1>5, <2>1 DEF brokerVars, Answer, c
<1>6. CASE exchanges' = exchanges \cup {c.exchange} /\ UNCHANGED <<queues, replies>>
  BY <1>1, <1>2, <1>3, <1>6 DEF c
<1>7. CASE /\ queues' = [queues EXCEPT ![c.queue].bound = @ \cup {c.exchange}]
           /\ UNCHANGED <<exchanges, replies>>
  BY <1>1, <1>2, <1>3, <1>7 DEF c, IsMap
<1>8. CASE /\ queues' = [queues EXCEPT ![c.queue].consumed = TRUE]
           /\ UNCHANGED <<exchanges, replies>>
  BY <1>1, <1>2, <1>3, <1>8 DEF c, IsMap
<1>9. CASE c.op = "queue"
  <2>1. PICK name \in IF c.queue = "" THEN GeneratedNames \ DOMAIN queues ELSE {c.queue} :
          /\ queues' = Emplace(queues, name, [bound |-> {}, consumed |-> FALSE])
          /\ replies' = Answer("queue-ok", c, name)
          /\ UNCHANGED exchanges
    BY <1>4, <1>9 DEF Execute, Refused
  <2>2. name \in QueueNames
    BY <1>2 DEF QueueNames
  <2>3. [bound |-> {}, consumed |-> FALSE] \in Queue
    OBVIOUS
  <2>4. IsMap(queues', QueueNames, Queue) /\ DOMAIN queues' = DOMAIN queues \cup {name}
    BY <1>3, <2>1, <2>2, <2>3 DEF IsMap, Emplace
  <2>5. \A q \in DOMAIN queues : queues'[q] = queues[q]
    BY <2>1 DEF Emplace
  <2>6. [op |-> "queue-ok", exchange |-> c.exchange, queue |-> name] \in Reply
    BY <1>2, <2>2 DEF Reply
  <2>. QED  BY <1>1, <1>3, <2>1, <2>4, <2>5, <2>6 DEF Answer, c
<1>10. CASE c.op # "queue"
  BY <1>4, <1>5, <1>6, <1>7, <1>8, <1>10 DEF Execute
<1>. QED  BY <1>9, <1>10

(* The broker executes a command.                                          *)
LEMMA BrokerExecutesType ==
  ASSUME TypeOK, BrokerExecutes
  PROVE  TypeOK'
<1>1. \/ replies' = replies
      \/ \E a \in Reply : replies' = Append(replies, a)
  BY BrokerExecutesChanges, Zenon
<1>2. \A a \in Reply : Append(replies, a) \in Seq(Reply)
  BY AppendProperties DEF TypeOK
<1>3. replies' \in Seq(Reply)
  BY <1>1, <1>2, Zenon DEF TypeOK
<1>. QED  BY <1>3, BrokerExecutesChanges
          DEF TypeOK, BrokerExecutes, channelVars, storageVars, historyVars

-----------------------------------------------------------------------------
(* Initially the invariant holds.                                          *)
LEMMA Initially ==
  ASSUME Init
  PROVE  IInv
<1>1. DOMAIN << >> = {} /\ \A K, V : IsMap(<< >>, K, V)
  BY DEF IsMap
<1>2. TypeOK
  <2>1. MaxFailures \in Nat /\ OtherType \subseteq Exchanges
    BY ClientConstants, Zenon DEF ClientConstants
  <2>2. << >> \in Seq(Command) /\ << >> \in Seq(Reply)
    BY EmptySeq
  <2>3. IsMap(m_binded_queues, Exchanges, QueueNames)
        /\ IsMap(queues, QueueNames, [bound : SUBSET Exchanges, consumed : BOOLEAN])
    BY <1>1 DEF Init
  <2>4. failures \in 0..MaxFailures
    BY <2>1 DEF Init
  <2>. QED  BY <2>1, <2>2, <2>3, <2>4, Zenon DEF Init, TypeOK
<1>3. NothingForgotten
  BY DEF Init, NothingForgotten
<1>4. CommandsFit /\ AnswersNameQueues
  BY HasEmpty DEF Init, CommandsFit, AnswersNameQueues
<1>5. OnlyCallsAreStored
  BY EmptySeq DEF Init, OnlyCallsAreStored
<1>. QED  BY <1>1, <1>2, <1>3, <1>4, <1>5
          DEF Init, IInv, BindedQueuesExist, LoopAndLink, ErrorIsKnown, NoOldNames

-----------------------------------------------------------------------------
(* One lemma per action.                                                   *)

(* Calls are stored and sent while no copy of the storage is in use.       *)
LEMMA CallsInv ==
  ASSUME IInv, NEW made \in Seq(StoredCalls), NEW more \in Seq(Command), MakeCalls(made, more),
         \A c \in Command : Has(more, c) => /\ c.op \notin {"declare", "queue"}
                                            /\ c.op \in {"bind", "unbind"} => c.queue \in DOMAIN queues,
         replies' \in Seq(Reply), \A r \in Reply : Has(replies', r) => Has(replies, r)
  PROVE  IInv'
<1>0. made \in Seq(Command)
  BY CallsAreCommands, SeqMonotonic, Zenon
<1>1. TypeOK'
  BY <1>0, CallsType DEF IInv
<1>2. loop \in {"created", "dispatch"}
  BY DEF MakeCalls, MayCall
<1>3. OnlyCallsAreStored'
  <2>1. actions' \in Seq(StoredCalls) /\ calls' \in Seq(StoredCalls)
    BY ConcatProperties DEF IInv, OnlyCallsAreStored, MakeCalls, Store
  <2>. QED  BY <2>1 DEF IInv, OnlyCallsAreStored, MakeCalls
<1>4. NothingForgotten'
  <2>1. actions = calls
    BY <1>2, ConcatEmptySeq DEF IInv, TypeOK, NothingForgotten
  <2>2. actions' \o << >> = actions'
    BY <1>1, ConcatEmptySeq DEF TypeOK
  <2>. QED  BY <1>2, <2>1, <2>2 DEF MakeCalls, Store, NothingForgotten, channelVars
<1>5. CommandsFit'
  <2>. SUFFICES ASSUME NEW c \in Command, Has(wire', c)
                PROVE  /\ c.op \in {"declare", "queue"} => c \in StoredCalls
                       /\ c.op \in {"bind", "unbind"} => c.queue \in DOMAIN queues
    BY DEF CommandsFit, MakeCalls, brokerVars
  <2>1. made \o more \in Seq(Command) /\ wire \in Seq(Command)
    BY <1>0, ConcatProperties DEF IInv, TypeOK
  <2>2. Has(wire, c) \/ Has(made \o more, c)
    BY <2>1, SentHas DEF MakeCalls
  <2>3. Has(wire, c) \/ Has(made, c) \/ Has(more, c)
    BY <1>0, <2>2, HasConcat
  <2>4. Has(made, c) => c \in StoredCalls /\ c.op \notin {"bind", "unbind"}
    BY HasInSet, CallsOperations
  <2>. QED  BY <2>3, <2>4 DEF IInv, CommandsFit
<1>6. AnswersNameQueues'
  BY DEF IInv, AnswersNameQueues, MakeCalls, brokerVars
<1>. QED  BY <1>1, <1>2, <1>3, <1>4, <1>5, <1>6
          DEF IInv, MakeCalls, channelVars, brokerVars, BindedQueuesExist, LoopAndLink,
              ErrorIsKnown, NoOldNames

(* A call of a user, one command of this client.                           *)
LEMMA UserCallsMade ==
  ASSUME UserCalls
  PROVE  \E c \in StoredCalls : MakeCalls(<<c>>, << >>)
BY DeclarationCall, ListenerCall, Zenon DEF UserCalls

(* A call of a user keeps the invariant.                                   *)
LEMMA UserCallsInv ==
  ASSUME IInv, UserCalls
  PROVE  IInv'
<1>1. PICK c \in StoredCalls : MakeCalls(<<c>>, << >>)
  BY UserCallsMade
<1>2. <<c>> \in Seq(StoredCalls) /\ << >> \in Seq(Command)
  BY ShortSequences, EmptySeq
<1>3. replies' = replies /\ replies \in Seq(Reply)
  BY DEF UserCalls, IInv, TypeOK
<1>. QED  BY <1>1, <1>2, <1>3, HasEmpty, CallsInv

(* The loop starts.                                                        *)
LEMMA ClientRunInv ==
  ASSUME IInv, ClientRun
  PROVE  IInv'
<1>1. TypeOK'
  BY ClientRunType DEF IInv
<1>2. NothingForgotten'
  BY DEF IInv, ClientRun, NothingForgotten, storageVars, historyVars
<1>. QED  BY <1>1, <1>2
          DEF IInv, ClientRun, storageVars, brokerVars, historyVars, BindedQueuesExist, LoopAndLink,
              ErrorIsKnown, OnlyCallsAreStored, CommandsFit, AnswersNameQueues, NoOldNames

(* The connection opens; restore() takes its copy after an error.          *)
LEMMA OnReadyInv ==
  ASSUME IInv, OnReady
  PROVE  IInv'
<1>1. TypeOK'
  BY OnReadyType DEF IInv
<1>2. NothingForgotten'
  BY DEF IInv, OnReady, NothingForgotten, historyVars
<1>3. OnlyCallsAreStored'
  BY DEF IInv, OnReady, OnlyCallsAreStored, historyVars
<1>4. CommandsFit' /\ AnswersNameQueues'
  BY DEF IInv, OnReady, CommandsFit, AnswersNameQueues, brokerVars
<1>. QED  BY <1>1, <1>2, <1>3, <1>4
          DEF IInv, TypeOK, OnReady, brokerVars, historyVars, BindedQueuesExist, LoopAndLink,
              ErrorIsKnown, NoOldNames

(* The copy is complete when the storage is cleared.                       *)
LEMMA RestoreClearInv ==
  ASSUME IInv, RestoreClear
  PROVE  IInv'
<1>1. DOMAIN << >> = {}
  OBVIOUS
<1>2. actions' = << >> /\ m_binded_queues' = << >>
  BY DEF RestoreClear, Cleared, NoNames
<1>3. TypeOK'
  BY RestoreClearType DEF IInv
<1>4. NothingForgotten'
  <2>1. actions_to_restore = calls
    BY ConcatEmptySeq DEF IInv, TypeOK, NothingForgotten, LoopAndLink, RestoreClear
  <2>2. << >> \o actions_to_restore = actions_to_restore
    BY ConcatEmptySeq DEF IInv, TypeOK
  <2>. QED  BY <1>2, <2>1, <2>2 DEF RestoreClear, NothingForgotten, historyVars
<1>5. OnlyCallsAreStored'
  BY <1>2, EmptySeq DEF IInv, RestoreClear, OnlyCallsAreStored, historyVars
<1>6. CommandsFit' /\ AnswersNameQueues'
  BY DEF IInv, RestoreClear, CommandsFit, AnswersNameQueues, brokerVars
<1>. QED  BY <1>1, <1>2, <1>3, <1>4, <1>5, <1>6
          DEF IInv, RestoreClear, brokerVars, historyVars, BindedQueuesExist, LoopAndLink,
              ErrorIsKnown, NoOldNames

(* What a step of restore() takes from the copy and sends.                 *)
LEMMA NextCall ==
  ASSUME IInv, RestoreReplay
  PROVE  /\ Head(actions_to_restore) \in StoredCalls
         /\ Tail(actions_to_restore) \in Seq(StoredCalls)
         /\ <<Head(actions_to_restore)>> \in Seq(StoredCalls)
         /\ <<Head(actions_to_restore)>> \in Seq(Command)
         /\ actions' = actions \o <<Head(actions_to_restore)>>
         /\ wire' = Sent(<<Head(actions_to_restore)>>)
<1>1. /\ Head(actions_to_restore) \in StoredCalls
      /\ Tail(actions_to_restore) \in Seq(StoredCalls)
      /\ <<Head(actions_to_restore)>> \in Seq(StoredCalls)
  BY HeadTailProperties DEF IInv, OnlyCallsAreStored, RestoreReplay
<1>2. <<Head(actions_to_restore)>> \in Seq(Command)
  BY <1>1, CallsAreCommands, SeqMonotonic, Zenon
<1>. QED  BY <1>1, <1>2 DEF RestoreReplay, Store, NextStored

(* A call goes from the copy back into the storage.                        *)
LEMMA RestoreReplayInv ==
  ASSUME IInv, RestoreReplay
  PROVE  IInv'
<1>. DEFINE next == Head(actions_to_restore)
<1>1. TypeOK'
  BY RestoreReplayType DEF IInv
<1>2. NothingForgotten'
  <2>1. (actions \o <<next>>) \o Tail(actions_to_restore) = actions \o actions_to_restore
    BY MoveOne DEF IInv, TypeOK, RestoreReplay
  <2>. QED  BY NextCall, <2>1
            DEF IInv, RestoreReplay, NothingForgotten, channelVars, historyVars
<1>3. OnlyCallsAreStored'
  <2>1. actions' \in Seq(StoredCalls)
    BY NextCall, ConcatProperties DEF IInv, OnlyCallsAreStored
  <2>. QED  BY NextCall, <2>1 DEF IInv, RestoreReplay, OnlyCallsAreStored, historyVars
<1>4. CommandsFit'
  <2>1. \A c : Has(wire', c) => (Has(wire, c) \/ c = next)
    BY NextCall, SentHas, HasOne DEF IInv, TypeOK
  <2>2. next.op \notin {"bind", "unbind"}
    BY NextCall, CallsOperations
  <2>. QED  BY NextCall, <2>1, <2>2 DEF IInv, CommandsFit, RestoreReplay, brokerVars
<1>5. AnswersNameQueues'
  BY DEF IInv, RestoreReplay, AnswersNameQueues, brokerVars
<1>. QED  BY <1>1, <1>2, <1>3, <1>4, <1>5
          DEF IInv, RestoreReplay, channelVars, brokerVars, historyVars, BindedQueuesExist,
              LoopAndLink, ErrorIsKnown, NoOldNames

(* Nothing is left of the copy when restore() ends or starts again.        *)
LEMMA RestoreDoneInv ==
  ASSUME IInv, RestoreDone
  PROVE  IInv'
<1>1. TypeOK'
  BY RestoreDoneType DEF IInv
<1>2. NothingForgotten'
  BY DEF IInv, RestoreDone, NothingForgotten, historyVars
<1>3. OnlyCallsAreStored'
  BY DEF IInv, RestoreDone, OnlyCallsAreStored, historyVars
<1>4. CommandsFit' /\ AnswersNameQueues'
  BY DEF IInv, RestoreDone, CommandsFit, AnswersNameQueues, brokerVars
<1>. QED  BY <1>1, <1>2, <1>3, <1>4
          DEF IInv, TypeOK, RestoreDone, Usable, brokerVars, historyVars, BindedQueuesExist,
              LoopAndLink, ErrorIsKnown, NoOldNames

(* The queue that is remembered is the one that the broker has answered.   *)
LEMMA AnsweredQueue ==
  ASSUME IInv, OnQueueDeclared
  PROVE  /\ Head(replies) \in Reply /\ Tail(replies) \in Seq(Reply)
         /\ \A r : Has(replies, r) <=> (r = Head(replies) \/ Has(Tail(replies), r))
         /\ Head(replies).queue \in DOMAIN queues
         /\ Head(replies).exchange \in Exchanges /\ Head(replies).queue \in QueueNames
<1>1. replies \in Seq(Reply) /\ replies # << >> /\ Head(replies).op = "queue-ok"
  BY DEF IInv, TypeOK, OnQueueDeclared
<1>2. Head(replies) \in Reply /\ Tail(replies) \in Seq(Reply)
  BY <1>1, HeadTailProperties
<1>3. \A r : Has(replies, r) <=> (r = Head(replies) \/ Has(Tail(replies), r))
  BY <1>1, HasTail
<1>4. Head(replies).queue \in DOMAIN queues
  BY <1>1, <1>2, <1>3 DEF IInv, AnswersNameQueues
<1>. QED  BY <1>2, <1>3, <1>4, OnQueueDeclaredType DEF IInv

(* The callback for a declared queue keeps the invariant.                  *)
LEMMA OnQueueDeclaredInv ==
  ASSUME IInv, OnQueueDeclared
  PROVE  IInv'
<1>. DEFINE r == Head(replies)
<1>1. TypeOK'
  BY AnsweredQueue, OnQueueDeclaredType DEF IInv
<1>2. NothingForgotten' /\ OnlyCallsAreStored'
  BY DEF IInv, OnQueueDeclared, NothingForgotten, OnlyCallsAreStored, channelVars, historyVars
<1>3. BindedQueuesExist'
  <2>1. m_binded_queues' =
          [k \in DOMAIN m_binded_queues \cup {r.exchange} |->
             IF k = r.exchange THEN r.queue ELSE m_binded_queues[k]]
    BY DEF OnQueueDeclared, Emplace, BoundQueue
  <2>2. r.queue \in DOMAIN queues
    BY AnsweredQueue
  <2>. QED  BY <2>1, <2>2 DEF IInv, OnQueueDeclared, BindedQueuesExist, channelVars, brokerVars
<1>4. CommandsFit'
  <2>1. \A c : Has(wire', c) => \/ Has(wire, c)
                                \/ c = Cmd("bind", r.exchange, r.queue)
                                \/ c = Cmd("consume", r.exchange, r.queue)
    BY AnsweredQueue, ListenToCommands, SentHas DEF IInv, TypeOK, OnQueueDeclared
  <2>2. r.queue \in DOMAIN queues /\ queues' = queues
    BY AnsweredQueue DEF OnQueueDeclared, brokerVars
  <2>. QED  BY <2>1, <2>2, CommandFields DEF IInv, CommandsFit
<1>5. AnswersNameQueues'
  BY AnsweredQueue DEF IInv, OnQueueDeclared, AnswersNameQueues, brokerVars
<1>. QED  BY <1>1, <1>2, <1>3, <1>4, <1>5
          DEF IInv, OnQueueDeclared, channelVars, LoopAndLink, ErrorIsKnown, NoOldNames

(* onError of a channel that the broker has closed.                        *)
LEMMA OnChannelClosedInv ==
  ASSUME IInv, OnChannelClosed
  PROVE  IInv'
<1>1. TypeOK'
  BY OnChannelClosedType DEF IInv
<1>2. NothingForgotten' /\ OnlyCallsAreStored'
  BY DEF IInv, OnChannelClosed, NothingForgotten, OnlyCallsAreStored, storageVars, historyVars
<1>3. CommandsFit' /\ AnswersNameQueues'
  BY HasEmpty DEF OnChannelClosed, MarkError, CommandsFit, AnswersNameQueues
<1>. QED  BY <1>1, <1>2, <1>3
          DEF IInv, OnChannelClosed, MarkError, Marked, BindedQueuesExist, LoopAndLink,
              ErrorIsKnown, NoOldNames

(* A lost connection takes the answers under way with it.                  *)
LEMMA OnConnectionLostInv ==
  ASSUME IInv, NEW restart, OnConnectionLost(restart)
  PROVE  IInv'
<1>1. TypeOK'
  BY OnConnectionLostType DEF IInv
<1>2. NothingForgotten' /\ OnlyCallsAreStored'
  BY DEF IInv, OnConnectionLost, NothingForgotten, OnlyCallsAreStored, storageVars
<1>3. CommandsFit' /\ AnswersNameQueues'
  BY HasEmpty DEF OnConnectionLost, MarkError, CommandsFit, AnswersNameQueues
<1>. QED  BY <1>1, <1>2, <1>3
          DEF IInv, OnConnectionLost, MarkError, Marked, BindedQueuesExist, LoopAndLink,
              ErrorIsKnown, NoOldNames

(* A new connection is opened with the error still marked.                 *)
LEMMA ReconnectInv ==
  ASSUME IInv, Reconnect
  PROVE  IInv'
<1>1. TypeOK'
  BY ReconnectType DEF IInv
<1>2. NothingForgotten' /\ OnlyCallsAreStored'
  BY DEF IInv, Reconnect, NothingForgotten, OnlyCallsAreStored, storageVars, historyVars
<1>3. CommandsFit' /\ AnswersNameQueues'
  BY DEF IInv, Reconnect, CommandsFit, AnswersNameQueues, brokerVars
<1>. QED  BY <1>1, <1>2, <1>3
          DEF IInv, Reconnect, storageVars, brokerVars, historyVars, BindedQueuesExist, LoopAndLink,
              ErrorIsKnown, NoOldNames

(* What the broker executes leaves the wire, and its queues only become    *)
(* more.                                                                   *)
LEMMA BrokerExecutesInv ==
  ASSUME IInv, BrokerExecutes
  PROVE  IInv'
<1>0. DOMAIN queues \subseteq DOMAIN queues'
  BY BrokerExecutesChanges, Zenon DEF IInv
<1>1. TypeOK'
  BY BrokerExecutesType DEF IInv
<1>2. NothingForgotten' /\ OnlyCallsAreStored'
  BY DEF IInv, NothingForgotten, OnlyCallsAreStored, BrokerExecutes, channelVars, storageVars,
         historyVars
<1>3. BindedQueuesExist'
  BY <1>0 DEF IInv, BindedQueuesExist, BrokerExecutes, channelVars, storageVars
<1>4. CommandsFit'
  <2>1. \A c : Has(wire', c) => Has(wire, c)
    BY HasTail DEF IInv, TypeOK, BrokerExecutes
  <2>. QED  BY <1>0, <2>1 DEF IInv, CommandsFit
<1>5. AnswersNameQueues'
  <2>1. CASE replies' = replies
    BY <1>0, <2>1 DEF IInv, AnswersNameQueues
  <2>2. ASSUME NEW a \in Reply, replies' = Append(replies, a),
               a.op = "queue-ok" => a.queue \in DOMAIN queues'
        PROVE  AnswersNameQueues'
    <3>1. \A r : Has(replies', r) => (Has(replies, r) \/ r = a)
      BY <2>2, HasAppend DEF IInv, TypeOK
    <3>. QED  BY <1>0, <2>2, <3>1 DEF IInv, AnswersNameQueues
  <2>. QED  BY <2>1, <2>2, BrokerExecutesChanges, Zenon DEF IInv
<1>. QED  BY <1>1, <1>2, <1>3, <1>4, <1>5
          DEF IInv, LoopAndLink, ErrorIsKnown, NoOldNames, BrokerExecutes, channelVars, storageVars

(* Nothing that the client or the broker does breaks the invariant.        *)
LEMMA Consecution ==
  ASSUME IInv, [Next]_clientVars
  PROVE  IInv'
<1>1. CASE UNCHANGED clientVars
  BY <1>1 DEF clientVars, channelVars, storageVars, brokerVars, historyVars, IInv, TypeOK,
              NothingForgotten, BindedQueuesExist, LoopAndLink, ErrorIsKnown, OnlyCallsAreStored,
              CommandsFit, AnswersNameQueues, NoOldNames
<1>2. CASE UserCalls
  BY <1>2, UserCallsInv
<1>3. CASE EventLoop
  BY <1>3, ClientRunInv, OnReadyInv, RestoreClearInv, RestoreReplayInv, RestoreDoneInv,
     OnQueueDeclaredInv, OnChannelClosedInv, ReconnectInv DEF EventLoop
<1>4. CASE BrokerExecutes
  BY <1>4, BrokerExecutesInv
<1>5. CASE ConnectionLost
  BY <1>5, OnConnectionLostInv DEF ConnectionLost
<1>6. CASE Heartbeat
  BY <1>1, <1>6 DEF Heartbeat
<1>. QED  BY <1>1, <1>2, <1>3, <1>4, <1>5, <1>6 DEF Next

(* The inductive invariant of the client.                                  *)
THEOREM ClientInvariance == Spec => []IInv
<1>1. Init => IInv
  BY Initially
<1>2. IInv /\ [Next]_clientVars => IInv'
  BY Consecution
<1>. QED  BY <1>1, <1>2, PTL DEF Spec

(* The types of the client, of its channel and of the broker.              *)
THEOREM ClientTypeCorrect == Spec => []TypeOK
BY ClientInvariance, PTL DEF IInv

(* The storage of actions has every call of the users once and in order,   *)
(* in every part of restore() and after any number of lost connections.    *)
THEOREM StorageIsComplete == Spec => []NothingForgotten
BY ClientInvariance, PTL DEF IInv

(* What get_binded_queue returns on an open connection is a queue of the   *)
(* broker.                                                                 *)
THEOREM BindedQueuesAreThere == Spec => []BindedQueuesExist
BY ClientInvariance, PTL DEF IInv

-----------------------------------------------------------------------------
(***************************************************************************)
(* The implementation of CallsPerConnection.                               *)
(***************************************************************************)

(* The calls that are due are calls.                                       *)
LEMMA DueType ==
  ASSUME IInv
  PROVE  /\ Selected(wire, StoredCalls) \in Seq(StoredCalls)
         /\ ToReplay \in Seq(StoredCalls)
         /\ DueCalls \in Seq(StoredCalls)
<1>1. Selected(wire, StoredCalls) \in Seq(StoredCalls)
  <2>1. Selected(wire, StoredCalls) \in Seq(Command \cap StoredCalls)
    BY SelectedType DEF IInv, TypeOK
  <2>2. Command \cap StoredCalls = StoredCalls
    BY CallsAreCommands
  <2>. QED  BY <2>1, <2>2
<1>2. ToReplay \in Seq(StoredCalls)
  BY EmptySeq DEF IInv, OnlyCallsAreStored, ToReplay
<1>. QED  BY <1>1, <1>2, ConcatProperties DEF DueCalls

(* The channel is closed when an answer says so.                           *)
LEMMA ClosedByAnswer ==
  ChannelIsClosed <=> \E r : Has(replies, r) /\ r.op = "close"
BY DEF ChannelIsClosed, Has

(* A selection follows what is sent.                                       *)
LEMMA SelectedSent ==
  ASSUME wire \in Seq(Command), NEW commands \in Seq(Command), NEW S
  PROVE  Selected(Sent(commands), S)
           = IF Usable THEN Selected(wire, S) \o Selected(commands, S) ELSE Selected(wire, S)
BY SelectedConcat DEF Sent

(* A step that is none for the calls.                                      *)
Stutters == calls' = calls /\ DueCalls' = DueCalls /\ Closed' = Closed

(* A call of a user is asked for on the present connection, and due.       *)
LEMMA UserCallsAsk ==
  ASSUME IInv, UserCalls
  PROVE  Abstract!Ask
<1>1. PICK c \in StoredCalls : MakeCalls(<<c>>, << >>)
  BY UserCallsMade
<1>2. <<c>> \in Seq(Command) /\ c \in Command
  BY CallsAreCommands, ShortSequences
<1>3. Usable /\ ~isChannelInErrorState /\ loop \in {"created", "dispatch"}
  BY <1>1 DEF IInv, LoopAndLink, ErrorIsKnown, MakeCalls, MayCall, Usable
<1>4. wire' = Sent(<<c>>)
  BY <1>1, <1>2, ConcatEmptySeq DEF MakeCalls
<1>5. Selected(wire', StoredCalls) = Selected(wire, StoredCalls) \o <<c>>
  <2>1. Selected(<<c>>, StoredCalls) = <<c>>
    BY SelectedOne
  <2>. QED  BY <1>2, <1>3, <1>4, <2>1, SelectedSent DEF IInv, TypeOK
<1>6. ToReplay = << >> /\ ToReplay' = << >>
  BY <1>1, <1>3 DEF MakeCalls, channelVars, ToReplay
<1>7. DueCalls' = Append(DueCalls, c)
  BY <1>5, <1>6, DueType, ConcatEmptySeq, AppendIsConcat DEF DueCalls
<1>8. calls' = Append(calls, c)
  BY <1>1, <1>2, AppendIsConcat DEF IInv, TypeOK, MakeCalls
<1>9. Closed' = Closed
  BY <1>1 DEF UserCalls, MakeCalls, channelVars, Closed, ChannelIsClosed
<1>. QED  BY <1>7, <1>8, <1>9, Zenon DEF Abstract!Ask

(* restore() sends what it takes out of the copy.                          *)
LEMMA RestoreReplayStutters ==
  ASSUME IInv, RestoreReplay
  PROVE  Stutters
<1>. DEFINE next == Head(actions_to_restore)
<1>1. Usable
  BY DEF RestoreReplay, IInv, LoopAndLink, Usable
<1>2. Selected(wire', StoredCalls) = Selected(wire, StoredCalls) \o <<next>>
  <2>1. Selected(<<next>>, StoredCalls) = <<next>>
    BY NextCall, SelectedOne
  <2>. QED  BY <1>1, <2>1, NextCall, SelectedSent DEF IInv, TypeOK
<1>3. ToReplay = actions_to_restore /\ ToReplay' = Tail(actions_to_restore)
  BY DEF RestoreReplay, channelVars, ToReplay
<1>4. (Selected(wire, StoredCalls) \o <<next>>) \o Tail(actions_to_restore)
        = Selected(wire, StoredCalls) \o actions_to_restore
  BY DueType, MoveOne DEF IInv, OnlyCallsAreStored, RestoreReplay
<1>5. DueCalls' = DueCalls
  BY <1>2, <1>3, <1>4 DEF DueCalls
<1>. QED  BY <1>5 DEF RestoreReplay, Stutters, Closed, ChannelIsClosed, channelVars, historyVars

(* The other steps of restore(), and those that open a connection, move no *)
(* call.                                                                   *)
LEMMA LoopStutters ==
  ASSUME IInv, ClientRun \/ OnReady \/ RestoreClear \/ RestoreDone \/ Reconnect
  PROVE  Stutters
<1>1. ToReplay' = ToReplay /\ wire' = wire
  <2>1. CASE ClientRun
    BY <2>1 DEF ClientRun, ToReplay, IInv, ErrorIsKnown, storageVars
  <2>2. CASE OnReady
    BY <2>2 DEF OnReady, ToReplay, IInv, TypeOK
  <2>3. CASE RestoreClear
    BY <2>3 DEF RestoreClear, ToReplay
  <2>4. CASE RestoreDone
    BY <2>4 DEF RestoreDone, ToReplay, Usable, IInv, LoopAndLink, ErrorIsKnown
  <2>5. CASE Reconnect
    BY <2>5 DEF Reconnect, ToReplay, storageVars
  <2>. QED  BY <2>1, <2>2, <2>3, <2>4, <2>5
<1>2. replies' = replies /\ calls' = calls /\ (link' = "broken" <=> link = "broken")
  BY DEF ClientRun, OnReady, RestoreClear, RestoreDone, Reconnect, historyVars
<1>. QED  BY <1>1, <1>2 DEF Stutters, DueCalls, Closed, ChannelIsClosed

(* The commands that follow a call are none.                               *)
LEMMA OnQueueDeclaredStutters ==
  ASSUME IInv, OnQueueDeclared
  PROVE  Stutters
<1>. DEFINE r == Head(replies)
            more == ListenTo(r.exchange, r.queue)
<1>1. more \in Seq(Command)
  BY AnsweredQueue, ListenToCommands
<1>2. Selected(more, StoredCalls) = << >>
  <2>1. \A c : Has(more, c) => c \notin StoredCalls
    <3>1. \A c : Has(more, c) => c.op = "bind" \/ c.op = "consume"
      BY AnsweredQueue, ListenToCommands, CommandFields
    <3>2. \A c \in StoredCalls : ~(c.op = "bind" \/ c.op = "consume")
      BY CallsOperations
    <3>. QED  BY <3>1, <3>2, Zenon
  <2>. HIDE DEF more
  <2>. QED  BY <1>1, <2>1, SelectedElements DEF Has
<1>3. Selected(wire', StoredCalls) = Selected(wire, StoredCalls)
  <2>1. wire' = Sent(more)
    BY DEF OnQueueDeclared
  <2>. HIDE DEF more
  <2>2. Selected(wire, StoredCalls) \o << >> = Selected(wire, StoredCalls)
    BY DueType, ConcatEmptySeq
  <2>. QED  BY <1>1, <1>2, <2>1, <2>2, SelectedSent DEF IInv, TypeOK
<1>4. DueCalls' = DueCalls
  BY <1>3 DEF OnQueueDeclared, DueCalls, ToReplay, channelVars
<1>5. Closed' = Closed
  <2>1. ChannelIsClosed' <=> \E x : Has(replies', x) /\ x.op = "close"
    BY DEF ChannelIsClosed, Has
  <2>2. Head(replies).op = "queue-ok" /\ replies' = Tail(replies)
    BY DEF OnQueueDeclared
  <2>3. ChannelIsClosed' <=> ChannelIsClosed
    BY <2>1, <2>2, AnsweredQueue, ClosedByAnswer
  <2>. QED  BY <2>3 DEF Closed, OnQueueDeclared, channelVars
<1>. QED  BY <1>4, <1>5 DEF Stutters, OnQueueDeclared, historyVars

(* With the channel everything has to be done again.                       *)
LEMMA LossFails ==
  ASSUME IInv, OnChannelClosed \/ ConnectionLost
  PROVE  Abstract!Fail
<1>1. /\ wire' = << >> /\ replies' = << >> /\ isChannelInErrorState' = TRUE
      /\ loop = "dispatch" /\ loop' = loop /\ actions' = actions /\ calls' = calls
  BY DEF OnChannelClosed, ConnectionLost, OnConnectionLost, MarkError, Marked, storageVars,
         historyVars
<1>2. actions = calls
  BY <1>1, ConcatEmptySeq DEF IInv, TypeOK, NothingForgotten
<1>3. DueCalls' = calls
  <2>1. ToReplay' = calls
    BY <1>1, <1>2 DEF ToReplay
  <2>2. << >> \o calls = calls
    BY ConcatEmptySeq DEF IInv, TypeOK
  <2>. QED  BY <1>1, <2>1, <2>2, SelectedEmpty DEF DueCalls
<1>4. Closed' = Closed \/ Closed' = FALSE
  <2>1. ~ChannelIsClosed'
    BY <1>1 DEF ChannelIsClosed
  <2>2. CASE OnChannelClosed
    <3>1. link' = "broken"
      BY <2>2 DEF OnChannelClosed
    <3>2. ChannelIsClosed
      BY <2>2 DEF OnChannelClosed, ChannelIsClosed, IInv, TypeOK
    <3>. QED  BY <3>1, <3>2 DEF Closed
  <2>3. CASE ConnectionLost
    BY <2>1, <2>3 DEF Closed, ConnectionLost, OnConnectionLost
  <2>. QED  BY <2>2, <2>3
<1>. QED  BY <1>1, <1>3, <1>4, Zenon DEF Abstract!Fail

(* The broker takes the first command off the wire, and with it the first  *)
(* call that is due, if it is one.                                         *)
LEMMA TakesDue ==
  ASSUME IInv, wire # << >>, wire' = Tail(wire), ToReplay' = ToReplay
  PROVE  /\ Head(wire) \in StoredCalls => /\ DueCalls # << >> /\ Head(DueCalls) = Head(wire)
                                          /\ DueCalls' = Tail(DueCalls)
         /\ Head(wire) \notin StoredCalls => DueCalls' = DueCalls
<1>. DEFINE first == Selected(wire, StoredCalls)
<1>1. wire \in Seq(Command) /\ first \in Seq(StoredCalls) /\ ToReplay \in Seq(StoredCalls)
  BY DueType DEF IInv, TypeOK
<1>2. CASE Head(wire) \notin StoredCalls
  BY <1>1, <1>2, SelectedTail DEF DueCalls
<1>3. CASE Head(wire) \in StoredCalls
  <2>1. /\ first # << >> /\ Head(first) = Head(wire)
        /\ Selected(Tail(wire), StoredCalls) = Tail(first)
    BY <1>1, <1>3, SelectedTail
  <2>. HIDE DEF first
  <2>2. /\ first \o ToReplay # << >> /\ Head(first \o ToReplay) = Head(first)
        /\ Tail(first \o ToReplay) = Tail(first) \o ToReplay
    BY <1>1, <2>1
  <2>. QED  BY <1>3, <2>1, <2>2 DEF DueCalls, first
<1>. QED  BY <1>2, <1>3

(* The broker performs the first call that is due, or refuses a command,   *)
(* which may be this call.                                                 *)
LEMMA BrokerExecutesCalls ==
  ASSUME IInv, BrokerExecutes
  PROVE  Abstract!Perform \/ Abstract!Refuse \/ Stutters
<1>1. /\ calls' = calls /\ ToReplay' = ToReplay /\ wire' = Tail(wire) /\ link' = link
      /\ wire # << >> /\ link # "broken" /\ ~ChannelIsClosed
  BY DEF BrokerExecutes, historyVars, channelVars, storageVars, ToReplay, Usable
<1>2. ~Closed
  BY <1>1 DEF Closed
<1>3. \/ DueCalls' = DueCalls
      \/ DueCalls # << >> /\ DueCalls' = Tail(DueCalls)
  BY <1>1, TakesDue, Zenon
<1>4. CASE ChannelIsClosed'
  <2>1. Closed' = TRUE
    BY <1>4 DEF Closed
  <2>. QED  BY <1>1, <1>2, <1>3, <2>1, Zenon DEF Abstract!Refuse
<1>5. CASE ~ChannelIsClosed'
  <2>1. Closed' = Closed
    BY <1>1, <1>5 DEF Closed
  <2>. QED  BY <1>1, <1>2, <1>3, <2>1, Zenon DEF Abstract!Perform, Stutters
<1>. QED  BY <1>4, <1>5

(* The client implements the abstract specification: it gives every        *)
(* connection every call, in order and once.                               *)
THEOREM RestorationImplementation == Spec => RestoresCalls
<1>1. Init => Abstract!Init
  <2>. SUFFICES ASSUME Init PROVE Abstract!Init
    OBVIOUS
  <2>1. calls = << >> /\ wire = << >> /\ ToReplay = << >> /\ ~Closed
    BY DEF Init, ToReplay, Closed, ChannelIsClosed
  <2>2. DueCalls = << >>
    BY <2>1, SelectedEmpty DEF DueCalls
  <2>3. Closed = FALSE
    BY <2>1 DEF Closed
  <2>. QED  BY <2>1, <2>2, <2>3, Zenon DEF Abstract!Init
<1>2. IInv /\ [Next]_clientVars => [Abstract!Next]_(Abstract!vars)
  <2>. SUFFICES ASSUME IInv, [Next]_clientVars
                PROVE  Abstract!Next \/ UNCHANGED Abstract!vars
    OBVIOUS
  <2>1. CASE UNCHANGED clientVars
    BY <2>1 DEF clientVars, channelVars, storageVars, historyVars, Abstract!vars, DueCalls,
                ToReplay, Closed, ChannelIsClosed
  <2>2. CASE UserCalls
    BY <2>2, UserCallsAsk, Zenon DEF Abstract!Next
  <2>3. CASE EventLoop
    <3>1. Stutters \/ Abstract!Fail
      BY <2>3, LoopStutters, RestoreReplayStutters, OnQueueDeclaredStutters, LossFails, Zenon
         DEF EventLoop
    <3>. QED  BY <3>1, Zenon DEF Stutters, Abstract!Next, Abstract!vars
  <2>4. CASE BrokerExecutes
    <3>1. Abstract!Perform \/ Abstract!Refuse \/ Stutters
      BY <2>4, BrokerExecutesCalls
    <3>. QED  BY <3>1, Zenon DEF Stutters, Abstract!Next, Abstract!vars
  <2>5. CASE ConnectionLost
    BY <2>5, LossFails, Zenon DEF Abstract!Next
  <2>6. CASE Heartbeat
    BY <2>1, <2>6 DEF Heartbeat
  <2>. QED  BY <2>1, <2>2, <2>3, <2>4, <2>5, <2>6 DEF Next
<1>. QED  BY <1>1, <1>2, ClientInvariance, PTL DEF Spec, RestoresCalls, Abstract!Spec

-----------------------------------------------------------------------------
(***************************************************************************)
(* What was called is on its way or in effect.                             *)
(***************************************************************************)

(* The way of a queue: the broker has answered its declaration, the queue  *)
(* is bound or will be, it is consumed or will be.                         *)
Answered(e, q) == Has(replies, [op |-> "queue-ok", exchange |-> e, queue |-> q])

Bound(e, q) ==
  q \in DOMAIN queues /\ (e \in queues[q].bound \/ Has(wire, Cmd("bind", e, q)))

Consumed(q) ==
  q \in DOMAIN queues /\ (queues[q].consumed \/ \E x \in Exchanges : Has(wire, Cmd("consume", x, q)))

Connected(e, q) == Answered(e, q) \/ (Bound(e, q) /\ Consumed(q))

InEffect(c) ==
  IF c.op = "declare" THEN c.exchange \in exchanges
  ELSE \E q \in IF c.queue = "" THEN GeneratedNames ELSE {c.queue} : Connected(c.exchange, q)

(* Every call is due on this connection, or in effect.                     *)
OnTheirWay == \A c \in StoredCalls : Has(calls, c) => Has(DueCalls, c) \/ InEffect(c)

(* Every queue that the broker has named has a consumer, or will have one. *)
Attended ==
  \A q \in DOMAIN queues \cap GeneratedNames : Consumed(q) \/ \E e \in Exchanges : Answered(e, q)

(* The queues that the broker has named for an exchange are as many as the *)
(* calls for such a queue that are not due any more.                       *)
NamedFor(e) == {q \in DOMAIN queues \cap GeneratedNames : Answered(e, q) \/ Bound(e, q)}

OneEach ==
  \A e \in Exchanges :
     /\ IsFiniteSet(NamedFor(e))
     /\ Cardinality(NamedFor(e)) + Count(DueCalls, {AddListener(e, "")})
          = Count(calls, {AddListener(e, "")})

(* Until the broker closes the channel.                                    *)
SetUpInv == ~Closed => OnTheirWay /\ Attended /\ OneEach

(* A step that undoes nothing, and one that makes no queue either.         *)
GoesOn ==
  /\ exchanges \subseteq exchanges'
  /\ DOMAIN queues \subseteq DOMAIN queues'
  /\ \A q \in QueueNames : Consumed(q) => Consumed(q)'
  /\ \A e \in Exchanges, q \in QueueNames :
        /\ Bound(e, q) => Bound(e, q)'
        /\ Answered(e, q) => Answered(e, q)' \/ (Bound(e, q)' /\ Consumed(q)')

NoNewQueue ==
  /\ DOMAIN queues' = DOMAIN queues
  /\ \A e \in Exchanges, q \in QueueNames :
        Answered(e, q)' \/ Bound(e, q)' => Answered(e, q) \/ Bound(e, q)

-----------------------------------------------------------------------------
(* Nothing on the wire gets lost, and nothing is new for a queue.          *)
LEMMA SendingGoesOn ==
  ASSUME IInv, UNCHANGED brokerVars,
         \A r \in Reply : r.op = "queue-ok" => (Has(replies', r) <=> Has(replies, r)),
         \A c \in Command : Has(wire, c) => Has(wire', c),
         \A c \in Command : (Has(wire', c) /\ ~Has(wire, c)) => c.op # "bind"
  PROVE  GoesOn /\ NoNewQueue
<1>1. \A e \in Exchanges, q \in QueueNames :
        /\ Cmd("bind", e, q) \in Command /\ Cmd("consume", e, q) \in Command
        /\ Cmd("bind", e, q).op = "bind"
  BY DEF Cmd, Command
<1>2. \A e \in Exchanges, q \in QueueNames : Answered(e, q)' <=> Answered(e, q)
  <2>1. \A e \in Exchanges, q \in QueueNames :
          /\ [op |-> "queue-ok", exchange |-> e, queue |-> q] \in Reply
          /\ [op |-> "queue-ok", exchange |-> e, queue |-> q].op = "queue-ok"
    BY DEF Reply
  <2>. QED  BY <2>1 DEF Answered
<1>3. \A e \in Exchanges, q \in QueueNames : Bound(e, q)' <=> Bound(e, q)
  BY <1>1 DEF Bound, brokerVars
<1>4. \A q \in QueueNames : Consumed(q) => Consumed(q)'
  BY <1>1 DEF Consumed, brokerVars
<1>. QED  BY <1>2, <1>3, <1>4 DEF GoesOn, NoNewQueue, brokerVars

(* The steps of the loop before and after a restoration.                   *)
LEMMA LoopGoesOn ==
  ASSUME IInv, ClientRun \/ OnReady \/ RestoreClear \/ RestoreDone \/ Reconnect
  PROVE  GoesOn /\ NoNewQueue
<1>1. wire' = wire /\ replies' = replies /\ UNCHANGED brokerVars
  BY DEF ClientRun, OnReady, RestoreClear, RestoreDone, Reconnect
<1>. QED  BY <1>1, SendingGoesOn

(* A call that is repeated.                                                *)
LEMMA RestoreReplayGoesOn ==
  ASSUME IInv, RestoreReplay
  PROVE  GoesOn /\ NoNewQueue
<1>. DEFINE next == Head(actions_to_restore)
<1>1. \A c : Has(wire', c) => (Has(wire, c) \/ c = next)
  BY NextCall, SentHas, HasOne DEF IInv, TypeOK
<1>2. \A c : Has(wire, c) => Has(wire', c)
  BY NextCall, SentHas DEF IInv, TypeOK
<1>3. next.op # "bind"
  BY NextCall, CallsOperations
<1>4. replies' = replies /\ UNCHANGED brokerVars
  BY DEF RestoreReplay
<1>. QED  BY <1>1, <1>2, <1>3, <1>4, SendingGoesOn

(* Calls, with commands after them that bind nothing.                      *)
LEMMA CallsGoOn ==
  ASSUME IInv, NEW made \in Seq(StoredCalls), NEW more \in Seq(Command), MakeCalls(made, more),
         \A c \in Command : Has(more, c) => c.op # "bind",
         \A r \in Reply : r.op = "queue-ok" => (Has(replies', r) <=> Has(replies, r))
  PROVE  GoesOn /\ NoNewQueue
<1>1. made \in Seq(Command)
  BY CallsAreCommands, SeqMonotonic, Zenon
<1>2. made \o more \in Seq(Command)
  BY <1>1, ConcatProperties
<1>3. \A c : Has(made \o more, c) => (Has(made, c) \/ Has(more, c))
  BY <1>1, HasConcat
<1>4. \A c : Has(wire', c) => (Has(wire, c) \/ Has(made, c) \/ Has(more, c))
  BY <1>2, <1>3, SentHas DEF MakeCalls, IInv, TypeOK
<1>5. \A c : Has(wire, c) => Has(wire', c)
  BY <1>2, SentHas DEF MakeCalls, IInv, TypeOK
<1>6. \A c : Has(made, c) => c.op # "bind"
  <2>1. \A c : Has(made, c) => c \in StoredCalls
    BY HasInSet
  <2>. QED  BY <2>1, CallsOperations
<1>7. UNCHANGED brokerVars
  BY DEF MakeCalls
<1>. QED  BY <1>4, <1>5, <1>6, <1>7, SendingGoesOn

(* A queue whose declaration is answered gets bound and consumed.          *)
LEMMA OnQueueDeclaredGoesOn ==
  ASSUME IInv, OnQueueDeclared
  PROVE  GoesOn /\ NoNewQueue
<1>. DEFINE r == Head(replies)
            more == ListenTo(r.exchange, r.queue)
<1>1. /\ r.exchange \in Exchanges /\ r.queue \in QueueNames /\ r.queue \in DOMAIN queues
      /\ more \in Seq(Command) /\ r = [op |-> "queue-ok", exchange |-> r.exchange, queue |-> r.queue]
  <2>1. r \in Reply /\ r.op = "queue-ok"
    BY AnsweredQueue DEF OnQueueDeclared
  <2>. QED  BY <2>1, AnsweredQueue, ListenToCommands DEF Reply
<1>2. \A c : Has(wire', c) <=> \/ Has(wire, c)
                               \/ c = Cmd("bind", r.exchange, r.queue)
                               \/ c = Cmd("consume", r.exchange, r.queue)
  <2>1. Usable /\ wire' = Sent(more)
    BY DEF OnQueueDeclared, Usable
  <2>2. \A c : Has(more, c) <=> \/ c = Cmd("bind", r.exchange, r.queue)
                                \/ c = Cmd("consume", r.exchange, r.queue)
    BY <1>1, ListenToCommands
  <2>. HIDE DEF more, r
  <2>. QED  BY <1>1, <2>1, <2>2, SentHas DEF IInv, TypeOK
<1>3. \A x : Has(replies, x) <=> (x = r \/ Has(replies', x))
  BY AnsweredQueue DEF OnQueueDeclared
<1>4. UNCHANGED brokerVars
  BY DEF OnQueueDeclared
<1>. HIDE DEF r
<1>5. \A e \in Exchanges, q \in QueueNames :
        Answered(e, q) <=> (Answered(e, q)' \/ (e = r.exchange /\ q = r.queue))
  BY <1>1, <1>3 DEF Answered
<1>6. \A e \in Exchanges, q \in QueueNames :
        Bound(e, q)' <=> (Bound(e, q) \/ (e = r.exchange /\ q = r.queue))
  BY <1>1, <1>2, <1>4 DEF Bound, Cmd, brokerVars
<1>7. \A q \in QueueNames : Consumed(q)' <=> (Consumed(q) \/ q = r.queue)
  BY <1>1, <1>2, <1>4 DEF Consumed, Cmd, brokerVars
<1>. QED  BY <1>4, <1>5, <1>6, <1>7 DEF GoesOn, NoNewQueue, brokerVars

(* What the broker does with a command that it does not refuse.            *)
LEMMA BrokerPerforms ==
  ASSUME IInv, BrokerExecutes, ~ChannelIsClosed'
  PROVE  LET c == Head(wire)
         IN  \/ /\ c.op = "declare"
                /\ exchanges' = exchanges \cup {c.exchange}
                /\ UNCHANGED <<queues, replies>>
             \/ /\ c.op = "queue"
                /\ \E name \in IF c.queue = "" THEN GeneratedNames \ DOMAIN queues ELSE {c.queue} :
                      /\ queues' = Emplace(queues, name, [bound |-> {}, consumed |-> FALSE])
                      /\ replies' = Answer("queue-ok", c, name)
                /\ UNCHANGED exchanges
             \/ /\ c.op = "bind"
                /\ queues' = [queues EXCEPT ![c.queue].bound = @ \cup {c.exchange}]
                /\ UNCHANGED <<exchanges, replies>>
             \/ /\ c.op = "consume"
                /\ queues' = [queues EXCEPT ![c.queue].consumed = TRUE]
                /\ UNCHANGED <<exchanges, replies>>
<1>. DEFINE c == Head(wire)
<1>1. Execute(c)
  BY DEF BrokerExecutes
<1>2. replies' # Answer("close", c, "")
  <2>. SUFFICES ASSUME replies' = Answer("close", c, "")
                PROVE  FALSE
    OBVIOUS
  <2>. DEFINE a == [op |-> "close", exchange |-> c.exchange, queue |-> ""]
  <2>1. c \in Command
    BY HeadTailProperties DEF IInv, TypeOK, BrokerExecutes
  <2>2. a \in Reply /\ replies' = Append(replies, a) /\ a.op = "close"
    BY <2>1 DEF Command, Reply, Answer
  <2>. HIDE DEF a, c
  <2>3. Has(replies', a)
    <3>1. replies \in Seq(Reply)
      BY DEF IInv, TypeOK
    <3>2. Has(Append(replies, a), a)
      BY <2>2, <3>1, HasAppend
    <3>. QED  BY <2>2, <3>2
  <2>. QED  BY <2>2, <2>3 DEF ChannelIsClosed, Has
<1>. HIDE DEF c
<1>3. \/ /\ c.op = "declare"
         /\ exchanges' = exchanges \cup {c.exchange}
         /\ UNCHANGED <<queues, replies>>
      \/ /\ c.op = "queue"
         /\ \E name \in IF c.queue = "" THEN GeneratedNames \ DOMAIN queues ELSE {c.queue} :
               /\ queues' = Emplace(queues, name, [bound |-> {}, consumed |-> FALSE])
               /\ replies' = Answer("queue-ok", c, name)
         /\ UNCHANGED exchanges
      \/ /\ c.op = "bind"
         /\ queues' = [queues EXCEPT ![c.queue].bound = @ \cup {c.exchange}]
         /\ UNCHANGED <<exchanges, replies>>
      \/ /\ c.op = "consume"
         /\ queues' = [queues EXCEPT ![c.queue].consumed = TRUE]
         /\ UNCHANGED <<exchanges, replies>>
  BY <1>1, <1>2, Zenon DEF Execute
<1>. QED  BY <1>3, Zenon DEF c

(* Taking a command off the wire.                                          *)
LEMMA OffTheWire ==
  ASSUME IInv, wire # << >>, wire' = Tail(wire)
  PROVE  /\ Head(wire) \in Command /\ Has(wire, Head(wire))
         /\ \A c : Has(wire, c) <=> (c = Head(wire) \/ Has(wire', c))
         /\ \A op, e, q : (Has(wire, Cmd(op, e, q)) /\ ~Has(wire', Cmd(op, e, q))) =>
               /\ Head(wire).op = op /\ Head(wire).exchange = e /\ Head(wire).queue = q
<1>1. Head(wire) \in Command
  BY HeadTailProperties DEF IInv, TypeOK
<1>2. \A c : Has(wire, c) <=> (c = Head(wire) \/ Has(wire', c))
  BY HasTail DEF IInv, TypeOK
<1>. QED  BY <1>1, <1>2, CommandFields

(* An exchange that is declared.                                           *)
LEMMA DeclarePerformed ==
  ASSUME IInv, wire # << >>, wire' = Tail(wire), Head(wire).op \in {"declare", "ack", "publish"},
         exchanges \subseteq exchanges', UNCHANGED <<queues, replies>>
  PROVE  GoesOn /\ NoNewQueue
<1>1. \A op, e, q : op \in {"bind", "consume"} =>
         (Has(wire, Cmd(op, e, q)) <=> Has(wire', Cmd(op, e, q)))
  BY OffTheWire
<1>2. \A e \in Exchanges, q \in QueueNames : Answered(e, q)' <=> Answered(e, q)
  BY DEF Answered
<1>3. \A e \in Exchanges, q \in QueueNames : Bound(e, q)' <=> Bound(e, q)
  BY <1>1 DEF Bound
<1>4. \A q \in QueueNames : Consumed(q)' <=> Consumed(q)
  BY <1>1 DEF Consumed
<1>. QED  BY <1>2, <1>3, <1>4 DEF GoesOn, NoNewQueue

(* A binding more in the map of the queues.                                *)
LEMMA OneBindingMore ==
  ASSUME NEW map, NEW map2, IsMap(map, QueueNames, [bound : SUBSET Exchanges, consumed : BOOLEAN]),
         NEW name \in DOMAIN map, NEW e,
         map2 = [map EXCEPT ![name].bound = @ \cup {e}]
  PROVE  /\ DOMAIN map2 = DOMAIN map
         /\ \A q \in DOMAIN map : map2[q].consumed = map[q].consumed
         /\ \A q \in DOMAIN map : \A x :
               x \in map2[q].bound <=> (x \in map[q].bound \/ (q = name /\ x = e))
<1>1. map2[name].bound = map[name].bound \cup {e} /\ map2[name].consumed = map[name].consumed
  BY DEF IsMap
<1>2. DOMAIN map2 = DOMAIN map /\ \A q \in DOMAIN map : q # name => map2[q] = map[q]
  OBVIOUS
<1>3. ASSUME NEW q \in DOMAIN map
      PROVE  /\ map2[q].consumed = map[q].consumed
             /\ \A x : x \in map2[q].bound <=> (x \in map[q].bound \/ (q = name /\ x = e))
  <2>1. CASE q = name
    BY <1>1, <2>1
  <2>2. CASE q # name
    BY <1>2, <2>2, Zenon
  <2>. QED  BY <2>1, <2>2
<1>. QED  BY <1>2, <1>3

(* What a binding that is on the wire becomes when it is in a queue.       *)
LEMMA BindEffect ==
  ASSUME IInv, wire # << >>, wire' = Tail(wire), Head(wire).op = "bind",
         DOMAIN queues' = DOMAIN queues,
         \A q \in DOMAIN queues : queues'[q].consumed = queues[q].consumed,
         \A q \in DOMAIN queues : \A x :
            x \in queues'[q].bound
              <=> (x \in queues[q].bound \/ (q = Head(wire).queue /\ x = Head(wire).exchange)),
         UNCHANGED <<exchanges, replies>>
  PROVE  GoesOn /\ NoNewQueue
<1>. DEFINE c == Head(wire)
<1>2. c = Cmd("bind", c.exchange, c.queue)
  BY OffTheWire DEF Command, Cmd
<1>3. \A q \in DOMAIN queues : \A x :
         x \in queues'[q].bound <=> (x \in queues[q].bound \/ (q = c.queue /\ x = c.exchange))
  OBVIOUS
<1>1. c.queue \in DOMAIN queues
  BY OffTheWire DEF IInv, CommandsFit
<1>. HIDE DEF c
<1>4. \A e, q : Has(wire, Cmd("consume", e, q)) <=> Has(wire', Cmd("consume", e, q))
  BY OffTheWire
<1>5. \A e, q : Has(wire, Cmd("bind", e, q)) <=>
                   (Has(wire', Cmd("bind", e, q)) \/ (e = c.exchange /\ q = c.queue))
  BY <1>2, OffTheWire DEF c
<1>6. \A e \in Exchanges, q \in QueueNames : Answered(e, q)' <=> Answered(e, q)
  BY DEF Answered
<1>7. \A e \in Exchanges, q \in QueueNames : Bound(e, q)' <=> Bound(e, q)
  BY <1>1, <1>3, <1>5 DEF Bound
<1>8. \A q \in QueueNames : Consumed(q)' <=> Consumed(q)
  BY <1>4 DEF Consumed
<1>. QED  BY <1>6, <1>7, <1>8 DEF GoesOn, NoNewQueue

(* A queue that is bound: it is one of the present connection.             *)
LEMMA BindPerformed ==
  ASSUME IInv, wire # << >>, wire' = Tail(wire), Head(wire).op = "bind",
         queues' = [queues EXCEPT ![Head(wire).queue].bound = @ \cup {Head(wire).exchange}],
         UNCHANGED <<exchanges, replies>>
  PROVE  GoesOn /\ NoNewQueue
<1>1. Head(wire).queue \in DOMAIN queues
  BY OffTheWire DEF IInv, CommandsFit
<1>2. IsMap(queues, QueueNames, [bound : SUBSET Exchanges, consumed : BOOLEAN])
  BY DEF IInv, TypeOK
<1>3. /\ DOMAIN queues' = DOMAIN queues
      /\ \A q \in DOMAIN queues : queues'[q].consumed = queues[q].consumed
      /\ \A q \in DOMAIN queues : \A x :
            x \in queues'[q].bound
              <=> (x \in queues[q].bound \/ (q = Head(wire).queue /\ x = Head(wire).exchange))
  BY <1>1, <1>2, OneBindingMore
<1>. QED  BY <1>3, BindEffect

(* A queue that is consumed.                                               *)
LEMMA ConsumePerformed ==
  ASSUME IInv, wire # << >>, wire' = Tail(wire), Head(wire).op = "consume",
         queues' = [queues EXCEPT ![Head(wire).queue].consumed = TRUE],
         UNCHANGED <<exchanges, replies>>
  PROVE  GoesOn /\ NoNewQueue
<1>. DEFINE c == Head(wire)
<1>3. /\ DOMAIN queues' = DOMAIN queues
      /\ \A q \in DOMAIN queues :
            /\ queues'[q].bound = queues[q].bound
            /\ queues[q].consumed => queues'[q].consumed
            /\ q = c.queue => queues'[q].consumed
  BY DEF IInv, TypeOK, IsMap
<1>. HIDE DEF c
<1>4. \A e, q : Has(wire, Cmd("bind", e, q)) <=> Has(wire', Cmd("bind", e, q))
  BY OffTheWire
<1>5. \A e, q : Has(wire, Cmd("consume", e, q)) => (Has(wire', Cmd("consume", e, q)) \/ q = c.queue)
  BY OffTheWire DEF c
<1>6. \A e \in Exchanges, q \in QueueNames : Answered(e, q)' <=> Answered(e, q)
  BY DEF Answered
<1>7. \A e \in Exchanges, q \in QueueNames : Bound(e, q)' <=> Bound(e, q)
  BY <1>3, <1>4 DEF Bound
<1>8. \A q \in QueueNames : Consumed(q) => Consumed(q)'
  BY <1>3, <1>5 DEF Consumed
<1>. QED  BY <1>3, <1>6, <1>7, <1>8 DEF GoesOn, NoNewQueue

(* A queue that is declared: it is answered, and a new one is not bound.   *)
LEMMA QueuePerformed ==
  ASSUME IInv, wire # << >>, wire' = Tail(wire), Head(wire).op = "queue",
         NEW name \in QueueNames,
         queues' = Emplace(queues, name, [bound |-> {}, consumed |-> FALSE]),
         replies' = Answer("queue-ok", Head(wire), name), UNCHANGED exchanges
  PROVE  /\ GoesOn
         /\ DOMAIN queues' = DOMAIN queues \cup {name}
         /\ Head(wire).exchange \in Exchanges
         /\ \A e \in Exchanges, q \in QueueNames :
               /\ Answered(e, q)' <=> (Answered(e, q) \/ (e = Head(wire).exchange /\ q = name))
               /\ Bound(e, q)' <=> Bound(e, q)
<1>. DEFINE c == Head(wire)
            a == [op |-> "queue-ok", exchange |-> c.exchange, queue |-> name]
<1>1. c.exchange \in Exchanges /\ a \in Reply
  BY OffTheWire DEF Command, Reply
<1>2. \A r : Has(replies', r) <=> (Has(replies, r) \/ r = a)
  <2>1. replies' = Append(replies, a)
    BY DEF Answer
  <2>2. replies \in Seq(Reply)
    BY DEF IInv, TypeOK
  <2>. HIDE DEF a
  <2>3. \A r : Has(Append(replies, a), r) <=> (Has(replies, r) \/ r = a)
    BY <1>1, <2>2, HasAppend
  <2>. QED  BY <2>1, <2>3
<1>3. DOMAIN queues' = DOMAIN queues \cup {name} /\ \A q \in DOMAIN queues : queues'[q] = queues[q]
  BY DEF Emplace
<1>4. name \notin DOMAIN queues => queues'[name] = [bound |-> {}, consumed |-> FALSE]
  BY DEF Emplace
<1>5. \A op, e, q : op \in {"bind", "consume"} =>
         (Has(wire, Cmd(op, e, q)) <=> Has(wire', Cmd(op, e, q)))
  BY OffTheWire
<1>6. \A e, q : Has(wire, Cmd("bind", e, q)) => q \in DOMAIN queues
  BY CommandFields, HasInSet DEF IInv, TypeOK, CommandsFit
<1>7. \A e \in Exchanges, q \in QueueNames :
        Answered(e, q)' <=> (Answered(e, q) \/ (e = Head(wire).exchange /\ q = name))
  BY <1>2 DEF Answered
<1>8. \A e \in Exchanges, q \in QueueNames : Bound(e, q)' <=> Bound(e, q)
  <2>. TAKE e \in Exchanges, q \in QueueNames
  <2>1. CASE q \in DOMAIN queues
    BY <1>3, <1>5, <2>1 DEF Bound
  <2>2. CASE q \notin DOMAIN queues
    <3>1. q \in DOMAIN queues' => queues'[q].bound = {}
      BY <1>3, <1>4, <2>2
    <3>. QED  BY <1>5, <1>6, <2>2, <3>1 DEF Bound
  <2>. QED  BY <2>1, <2>2
<1>9. \A q \in QueueNames : Consumed(q) => Consumed(q)'
  BY <1>3, <1>5 DEF Consumed
<1>10. GoesOn
  BY <1>3, <1>7, <1>8, <1>9 DEF GoesOn
<1>. QED  BY <1>1, <1>3, <1>7, <1>8, <1>10

(* What is in effect stays in effect while nothing is undone.              *)
LEMMA EffectStays ==
  ASSUME GoesOn, NEW c \in StoredCalls, InEffect(c)
  PROVE  InEffect(c)'
<1>1. c.exchange \in Exchanges /\ c.queue \in NamedQueues \cup {""}
  BY CallsOperations DEF Command
<1>2. \A e \in Exchanges, q \in QueueNames : Connected(e, q) => Connected(e, q)'
  BY DEF GoesOn, Connected
<1>3. CASE c.op = "declare"
  BY <1>3 DEF GoesOn, InEffect
<1>4. CASE c.op # "declare"
  <2>1. PICK q \in IF c.queue = "" THEN GeneratedNames ELSE {c.queue} : Connected(c.exchange, q)
    BY <1>4 DEF InEffect
  <2>2. q \in QueueNames
    BY <1>1 DEF QueueNames
  <2>3. Connected(c.exchange, q)'
    BY <1>1, <1>2, <2>1, <2>2
  <2>. QED  BY <1>4, <2>1, <2>3, Zenon DEF InEffect
<1>. QED  BY <1>3, <1>4

(* So what was called is still on its way when what was due is due or in   *)
(* effect.                                                                 *)
LEMMA WayGoesOn ==
  ASSUME GoesOn, OnTheirWay,
         \A c \in StoredCalls : Has(calls', c) => (Has(calls, c) \/ Has(DueCalls', c)),
         \A c \in StoredCalls : Has(DueCalls, c) => (Has(DueCalls', c) \/ InEffect(c)')
  PROVE  OnTheirWay'
BY EffectStays DEF OnTheirWay

(* A queue that is attended stays so.                                      *)
LEMMA StaysAttended ==
  ASSUME IInv, GoesOn, Attended, NEW q \in DOMAIN queues \cap GeneratedNames
  PROVE  Consumed(q)' \/ \E e \in Exchanges : Answered(e, q)'
<1>1. q \in QueueNames
  BY DEF QueueNames
<1>. QED  BY <1>1 DEF GoesOn, Attended

(* Without a new queue there are the same for each exchange.               *)
LEMMA SameNames ==
  ASSUME GoesOn, NoNewQueue, NEW e \in Exchanges
  PROVE  NamedFor(e)' = NamedFor(e)
<1>1. \A q \in QueueNames : (Answered(e, q)' \/ Bound(e, q)') <=> (Answered(e, q) \/ Bound(e, q))
  BY DEF GoesOn, NoNewQueue
<1>2. DOMAIN queues' = DOMAIN queues
  BY DEF NoNewQueue
<1>3. \A q \in DOMAIN queues \cap GeneratedNames : q \in QueueNames
  BY DEF QueueNames
<1>. QED  BY <1>1, <1>2, <1>3 DEF NamedFor

(* A step that goes on without a new queue and without a call.             *)
LEMMA StutterKeeps ==
  ASSUME IInv, SetUpInv, GoesOn, NoNewQueue, Stutters
  PROVE  SetUpInv'
<1>. SUFFICES ASSUME ~Closed'
              PROVE  OnTheirWay' /\ Attended' /\ OneEach'
  BY DEF SetUpInv
<1>1. OnTheirWay /\ Attended /\ OneEach /\ calls' = calls /\ DueCalls' = DueCalls
  BY DEF SetUpInv, Stutters
<1>2. OnTheirWay'
  BY <1>1, WayGoesOn
<1>3. Attended'
  BY <1>1, StaysAttended DEF Attended, NoNewQueue
<1>4. OneEach'
  BY <1>1, SameNames DEF OneEach
<1>. QED  BY <1>2, <1>3, <1>4

(* A call of a user: it is due.                                            *)
LEMMA UserCallsSetUp ==
  ASSUME IInv, SetUpInv, UserCalls
  PROVE  SetUpInv'
<1>1. PICK c \in StoredCalls : MakeCalls(<<c>>, << >>)
  BY UserCallsMade
<1>2. GoesOn /\ NoNewQueue
  <2>1. <<c>> \in Seq(StoredCalls) /\ << >> \in Seq(Command)
    BY ShortSequences, EmptySeq
  <2>2. replies' = replies
    BY DEF UserCalls
  <2>. QED  BY <1>1, <2>1, <2>2, HasEmpty, CallsGoOn
<1>3. PICK d \in StoredCalls : calls' = Append(calls, d) /\ DueCalls' = Append(DueCalls, d)
  BY UserCallsAsk, Zenon DEF Abstract!Ask
<1>4. Closed' = Closed
  BY UserCallsAsk, Zenon DEF Abstract!Ask
<1>5. calls \in Seq(StoredCalls) /\ DueCalls \in Seq(StoredCalls)
  BY DueType DEF IInv, OnlyCallsAreStored
<1>. SUFFICES ASSUME ~Closed'
              PROVE  OnTheirWay' /\ Attended' /\ OneEach'
  BY DEF SetUpInv
<1>6. OnTheirWay /\ Attended /\ OneEach
  BY <1>4 DEF SetUpInv
<1>7. OnTheirWay'
  <2>1. \A x : /\ Has(Append(calls, d), x) <=> (Has(calls, x) \/ x = d)
               /\ Has(Append(DueCalls, d), x) <=> (Has(DueCalls, x) \/ x = d)
    BY <1>5, HasAppend
  <2>. QED  BY <1>2, <1>3, <1>6, <2>1, WayGoesOn
<1>8. Attended'
  BY <1>2, <1>6, StaysAttended DEF Attended, NoNewQueue
<1>9. OneEach'
  <2>. SUFFICES ASSUME NEW e \in Exchanges
                PROVE  /\ IsFiniteSet(NamedFor(e)')
                       /\ Cardinality(NamedFor(e)') + Count(DueCalls', {AddListener(e, "")})
                            = Count(calls', {AddListener(e, "")})
    BY DEF OneEach
  <2>. DEFINE S == {AddListener(e, "")}
              one == IF d \in S THEN 1 ELSE 0
  <2>1. NamedFor(e)' = NamedFor(e)
    BY <1>2, SameNames
  <2>2. /\ Count(Append(calls, d), S) = Count(calls, S) + one
        /\ Count(Append(DueCalls, d), S) = Count(DueCalls, S) + one
        /\ Count(calls, S) \in Nat /\ Count(DueCalls, S) \in Nat
    <3>. HIDE DEF S
    <3>. QED  BY <1>5, CountAppend, CountType
  <2>3. IsFiniteSet(NamedFor(e)) /\ Cardinality(NamedFor(e)) + Count(DueCalls, S) = Count(calls, S)
    BY <1>6 DEF OneEach
  <2>4. Cardinality(NamedFor(e)) \in Nat /\ one \in Nat
    BY <2>3, FS_CardinalityType
  <2>. HIDE DEF S, one
  <2>5. Cardinality(NamedFor(e)) + Count(DueCalls', S) = Count(calls', S)
    BY <1>3, <2>2, <2>3, <2>4
  <2>. QED  BY <2>1, <2>3, <2>5 DEF S
<1>. QED  BY <1>7, <1>8, <1>9

(* When the channel is gone everything is due, and no queue that the       *)
(* broker has named is left.                                               *)
LEMMA LossSetUp ==
  ASSUME IInv, OnChannelClosed \/ ConnectionLost
  PROVE  SetUpInv'
<1>1. DueCalls' = calls /\ calls' = calls
  BY LossFails, Zenon DEF Abstract!Fail
<1>2. DOMAIN queues' \cap GeneratedNames = {}
  <2>1. NamedQueues \cap GeneratedNames = {}
    BY ClientConstants, Zenon DEF ClientConstants
  <2>2. DOMAIN WithoutConsumers \subseteq NamedQueues /\ DOMAIN << >> = {}
    BY DEF WithoutConsumers
  <2>3. queues' = << >> \/ queues' = WithoutConsumers
    BY Zenon DEF OnChannelClosed, ConnectionLost, OnConnectionLost
  <2>. QED  BY <2>1, <2>2, <2>3
<1>3. OnTheirWay'
  BY <1>1 DEF OnTheirWay
<1>4. Attended'
  BY <1>2 DEF Attended
<1>5. OneEach'
  <2>. SUFFICES ASSUME NEW e \in Exchanges
                PROVE  /\ IsFiniteSet(NamedFor(e)')
                       /\ Cardinality(NamedFor(e)') + Count(DueCalls', {AddListener(e, "")})
                            = Count(calls', {AddListener(e, "")})
    BY DEF OneEach
  <2>1. NamedFor(e)' = {}
    BY <1>2 DEF NamedFor
  <2>2. IsFiniteSet({}) /\ Cardinality({}) = 0
    BY FS_EmptySet
  <2>3. Count(calls, {AddListener(e, "")}) \in Nat
    BY CountType DEF IInv, TypeOK
  <2>4. Cardinality({}) + Count(calls, {AddListener(e, "")}) = Count(calls, {AddListener(e, "")})
    <3>1. \A n \in Nat : 0 + n = n
      OBVIOUS
    <3>. QED  BY <2>2, <2>3, <3>1, Zenon
  <2>. QED  BY <1>1, <2>1, <2>2, <2>4, Zenon
<1>. QED  BY <1>3, <1>4, <1>5 DEF SetUpInv

(* The calls that are due when the broker has executed one.                *)
LEMMA DueAfterwards ==
  ASSUME IInv, BrokerExecutes
  PROVE  /\ \A x \in StoredCalls : Has(DueCalls, x) => (x = Head(wire) \/ Has(DueCalls', x))
         /\ \A x \in StoredCalls : Count(DueCalls', {x}) \in Nat
         /\ \A x \in StoredCalls :
               /\ Head(wire) = x => Count(DueCalls, {x}) = Count(DueCalls', {x}) + 1
               /\ Head(wire) # x => Count(DueCalls, {x}) = Count(DueCalls', {x})
<1>1. wire # << >> /\ wire' = Tail(wire) /\ ToReplay' = ToReplay
  BY DEF BrokerExecutes, channelVars, storageVars, ToReplay
<1>2. DueCalls \in Seq(StoredCalls)
  BY DueType
<1>3. CASE Head(wire) \notin StoredCalls
  <2>1. DueCalls' = DueCalls
    BY <1>1, <1>3, TakesDue
  <2>2. \A x \in StoredCalls : Count(DueCalls, {x}) \in Nat
    BY <1>2, CountType
  <2>. QED  BY <1>3, <2>1, <2>2
<1>4. CASE Head(wire) \in StoredCalls
  <2>1. DueCalls # << >> /\ Head(DueCalls) = Head(wire) /\ DueCalls' = Tail(DueCalls)
    BY <1>1, <1>4, TakesDue
  <2>2. Tail(DueCalls) \in Seq(StoredCalls)
    BY <1>2, <2>1, HeadTailProperties
  <2>3. \A x \in StoredCalls :
          /\ Has(DueCalls, x) <=> (x = Head(DueCalls) \/ Has(Tail(DueCalls), x))
          /\ Count(Tail(DueCalls), {x}) \in Nat
    BY <1>2, <2>1, <2>2, HasTail, CountType
  <2>4. ASSUME NEW x \in StoredCalls
        PROVE  /\ Head(DueCalls) = x => Count(DueCalls, {x}) = Count(Tail(DueCalls), {x}) + 1
               /\ Head(DueCalls) # x => Count(DueCalls, {x}) = Count(Tail(DueCalls), {x})
    BY <1>2, <2>1, CountOfOne
  <2>. QED  BY <2>1, <2>3, <2>4
<1>. QED  BY <1>3, <1>4

(* The names for an exchange when the broker has given one.                *)
LEMMA OneNameMore ==
  ASSUME IInv, NEW c \in StoredCalls, c.op = "queue", NEW e \in Exchanges,
         NEW name \in IF c.queue = "" THEN GeneratedNames \ DOMAIN queues ELSE {c.queue},
         DOMAIN queues' = DOMAIN queues \cup {name},
         \A x \in Exchanges, q \in QueueNames :
            /\ Answered(x, q)' <=> (Answered(x, q) \/ (x = c.exchange /\ q = name))
            /\ Bound(x, q)' <=> Bound(x, q)
  PROVE  /\ c = AddListener(e, "") => NamedFor(e)' = NamedFor(e) \cup {name} /\ name \notin NamedFor(e)
         /\ c # AddListener(e, "") => NamedFor(e)' = NamedFor(e)
<1>1. \A q \in GeneratedNames : q \in QueueNames /\ q \notin NamedQueues
  <2>1. NamedQueues \cap GeneratedNames = {}
    BY ClientConstants, Zenon DEF ClientConstants
  <2>. QED  BY <2>1 DEF QueueNames
<1>2. c = AddListener(c.exchange, c.queue) /\ c.queue \in NamedQueues \cup {""}
  BY CallsOperations
<1>3. AddListener(e, "").exchange = e /\ AddListener(e, "").queue = ""
  BY UnnamedCall
<1>4. \A q \in QueueNames : Answered(e, q) \/ Bound(e, q) => q \in DOMAIN queues
  <2>. TAKE q \in QueueNames
  <2>. DEFINE r == [op |-> "queue-ok", exchange |-> e, queue |-> q]
  <2>1. r \in Reply /\ r.op = "queue-ok" /\ r.queue = q
    BY DEF Reply
  <2>2. Has(replies, r) => q \in DOMAIN queues
    <3>. HIDE DEF r
    <3>. QED  BY <2>1 DEF IInv, AnswersNameQueues
  <2>. QED  BY <2>2 DEF Answered, Bound
<1>5. CASE c = AddListener(e, "")
  <2>1. c.queue = "" /\ c.exchange = e
    BY <1>3, <1>5
  <2>2. name \in GeneratedNames /\ name \notin DOMAIN queues
    BY <2>1
  <2>3. \A q \in GeneratedNames : q \in NamedFor(e)' <=> (q \in NamedFor(e) \/ q = name)
    BY <1>1, <1>4, <2>1, <2>2 DEF NamedFor
  <2>4. NamedFor(e) \subseteq GeneratedNames /\ NamedFor(e)' \subseteq GeneratedNames
    BY DEF NamedFor
  <2>. QED  BY <1>5, <2>2, <2>3, <2>4 DEF NamedFor
<1>6. CASE c # AddListener(e, "")
  <2>1. c.exchange # e \/ name \notin GeneratedNames
    BY <1>1, <1>2, <1>6
  <2>2. \A q \in GeneratedNames : q \in NamedFor(e)' <=> q \in NamedFor(e)
    BY <1>1, <1>4, <2>1 DEF NamedFor
  <2>3. NamedFor(e) \subseteq GeneratedNames /\ NamedFor(e)' \subseteq GeneratedNames
    BY DEF NamedFor
  <2>. QED  BY <1>6, <2>2, <2>3
<1>. QED  BY <1>5, <1>6

(* One more there is one less here.                                        *)
LEMMA OneMoreOneLess == \A m \in Nat, n \in Nat : (m + 1) + n = m + (n + 1)
OBVIOUS

(* What the broker has executed is in effect.                              *)
LEMMA BrokerSetUp ==
  ASSUME IInv, SetUpInv, BrokerExecutes
  PROVE  SetUpInv'
<1>. SUFFICES ASSUME ~Closed'
              PROVE  OnTheirWay' /\ Attended' /\ OneEach'
  BY DEF SetUpInv
<1>0. PICK c \in Command : c = Head(wire)
  BY HeadTailProperties DEF IInv, TypeOK, BrokerExecutes
<1>1. /\ ~ChannelIsClosed' /\ ~Closed /\ wire # << >> /\ wire' = Tail(wire) /\ calls' = calls
  BY DEF Closed, BrokerExecutes, Usable, historyVars
<1>2. OnTheirWay /\ Attended /\ OneEach
  BY <1>1 DEF SetUpInv
<1>3. c \in Command /\ (c.op \in {"declare", "queue"} => c \in StoredCalls)
  BY <1>0, <1>1, OffTheWire DEF IInv, CommandsFit
<1>4. CASE c.op # "queue"
  <2>1. GoesOn /\ NoNewQueue
    BY <1>0, <1>1, <1>4, BrokerPerforms, DeclarePerformed, BindPerformed, ConsumePerformed
  <2>2. c \in StoredCalls => InEffect(c)'
    <3>1. c \in StoredCalls => c.op = "declare" /\ c.exchange \in exchanges'
      BY <1>0, <1>1, <1>4, BrokerPerforms, CallsOperations
    <3>. QED  BY <3>1 DEF InEffect
  <2>3. OnTheirWay'
    BY <1>1, <1>2, <2>1, <2>2, <1>0, DueAfterwards, WayGoesOn
  <2>4. Attended'
    BY <1>2, <2>1, StaysAttended DEF Attended, NoNewQueue
  <2>5. OneEach'
    <3>. SUFFICES ASSUME NEW e \in Exchanges
                  PROVE  /\ IsFiniteSet(NamedFor(e)')
                         /\ Cardinality(NamedFor(e)') + Count(DueCalls', {AddListener(e, "")})
                              = Count(calls', {AddListener(e, "")})
      BY DEF OneEach
    <3>1. PICK x \in StoredCalls : x = AddListener(e, "") /\ x.op = "queue"
      BY UnnamedCall
    <3>2. c # x
      BY <1>4, <3>1, Zenon
    <3>3. Count(DueCalls', {x}) = Count(DueCalls, {x})
      BY <1>0, <3>2, DueAfterwards
    <3>. QED  BY <1>1, <1>2, <2>1, <3>1, <3>3, SameNames DEF OneEach
  <2>. QED  BY <2>3, <2>4, <2>5
<1>5. CASE c.op = "queue"
  <2>1. PICK name \in IF c.queue = "" THEN GeneratedNames \ DOMAIN queues ELSE {c.queue} :
          /\ queues' = Emplace(queues, name, [bound |-> {}, consumed |-> FALSE])
          /\ replies' = Answer("queue-ok", c, name)
          /\ UNCHANGED exchanges
    BY <1>0, <1>1, <1>5, BrokerPerforms
  <2>2. c \in StoredCalls
    BY <1>3, <1>5
  <2>3. name \in QueueNames
    BY <2>2, CallsOperations DEF QueueNames
  <2>4. /\ GoesOn
        /\ DOMAIN queues' = DOMAIN queues \cup {name}
        /\ c.exchange \in Exchanges
        /\ \A e \in Exchanges, q \in QueueNames :
              /\ Answered(e, q)' <=> (Answered(e, q) \/ (e = c.exchange /\ q = name))
              /\ Bound(e, q)' <=> Bound(e, q)
    BY <1>0, <1>1, <1>5, <2>1, <2>3, QueuePerformed
  <2>5. Answered(c.exchange, name)'
    BY <2>3, <2>4
  <2>6. InEffect(c)'
    <3>1. Connected(c.exchange, name)' /\ c.op # "declare"
      BY <1>5, <2>5 DEF Connected
    <3>2. name \in IF c.queue = "" THEN GeneratedNames ELSE {c.queue}
      OBVIOUS
    <3>. QED  BY <3>1, <3>2, Zenon DEF InEffect
  <2>7. OnTheirWay'
    BY <1>1, <1>2, <2>4, <2>6, <1>0, DueAfterwards, WayGoesOn
  <2>8. Attended'
    BY <1>2, <2>4, <2>5, StaysAttended DEF Attended
  <2>9. OneEach'
    <3>. SUFFICES ASSUME NEW e \in Exchanges
                  PROVE  /\ IsFiniteSet(NamedFor(e)')
                         /\ Cardinality(NamedFor(e)') + Count(DueCalls', {AddListener(e, "")})
                              = Count(calls', {AddListener(e, "")})
      BY DEF OneEach
    <3>1. PICK x \in StoredCalls : x = AddListener(e, "")
      BY UnnamedCall
    <3>2. /\ c = x => NamedFor(e)' = NamedFor(e) \cup {name} /\ name \notin NamedFor(e)
          /\ c # x => NamedFor(e)' = NamedFor(e)
      BY <1>5, <2>2, <2>4, <3>1, OneNameMore
    <3>3. /\ IsFiniteSet(NamedFor(e))
          /\ Cardinality(NamedFor(e)) + Count(DueCalls, {x}) = Count(calls, {x})
      BY <1>2, <3>1 DEF OneEach
    <3>4. /\ Count(DueCalls', {x}) \in Nat
          /\ c = x => Count(DueCalls, {x}) = Count(DueCalls', {x}) + 1
          /\ c # x => Count(DueCalls, {x}) = Count(DueCalls', {x})
      BY <1>0, DueAfterwards
    <3>5. Cardinality(NamedFor(e)) \in Nat
      BY <3>3, FS_CardinalityType
    <3>6. name \notin NamedFor(e) => /\ IsFiniteSet(NamedFor(e) \cup {name})
                                    /\ Cardinality(NamedFor(e) \cup {name})
                                         = Cardinality(NamedFor(e)) + 1
      BY <3>3, FS_AddElement
    <3>7. CASE c = x
      <4>1. Cardinality(NamedFor(e)') = Cardinality(NamedFor(e)) + 1 /\ IsFiniteSet(NamedFor(e)')
        BY <3>2, <3>6, <3>7
      <4>2. Count(DueCalls, {x}) = Count(DueCalls', {x}) + 1
        BY <3>4, <3>7
      <4>3. Cardinality(NamedFor(e)') + Count(DueCalls', {x}) = Count(calls, {x})
        BY <3>3, <3>4, <3>5, <4>1, <4>2, OneMoreOneLess, Zenon
      <4>. QED  BY <1>1, <3>1, <4>1, <4>3, Zenon
    <3>8. CASE c # x
      <4>1. NamedFor(e)' = NamedFor(e)
        BY <3>2, <3>8
      <4>2. Count(DueCalls, {x}) = Count(DueCalls', {x})
        BY <3>4, <3>8, Zenon
      <4>. QED  BY <1>1, <3>1, <3>3, <4>1, <4>2, Zenon
    <3>. QED  BY <3>7, <3>8
  <2>. QED  BY <2>7, <2>8, <2>9
<1>. QED  BY <1>4, <1>5

(* Initially nothing was called.                                           *)
LEMMA InitialSetUp ==
  ASSUME Init
  PROVE  SetUpInv
<1>1. calls = << >> /\ DueCalls = << >> /\ DOMAIN queues = {}
  <2>1. wire = << >> /\ ToReplay = << >> /\ calls = << >> /\ queues = << >>
    BY DEF Init, ToReplay
  <2>2. DueCalls = << >>
    BY <2>1, SelectedEmpty DEF DueCalls
  <2>. QED  BY <2>1, <2>2
<1>2. OnTheirWay /\ Attended
  BY <1>1, HasEmpty DEF OnTheirWay, Attended
<1>3. OneEach
  <2>. SUFFICES ASSUME NEW e \in Exchanges
                PROVE  /\ IsFiniteSet(NamedFor(e))
                       /\ Cardinality(NamedFor(e)) + Count(DueCalls, {AddListener(e, "")})
                            = Count(calls, {AddListener(e, "")})
    BY DEF OneEach
  <2>1. NamedFor(e) = {}
    BY <1>1 DEF NamedFor
  <2>2. IsFiniteSet({}) /\ Cardinality({}) = 0
    BY FS_EmptySet
  <2>3. Count(<< >>, {AddListener(e, "")}) = 0
    BY CountEmpty
  <2>4. 0 + 0 = 0
    OBVIOUS
  <2>. QED  BY <1>1, <2>1, <2>2, <2>3, <2>4, Zenon
<1>. QED  BY <1>2, <1>3 DEF SetUpInv

(* Every step keeps what was called on its way.                            *)
LEMMA SetUpConsecution ==
  ASSUME IInv, SetUpInv, [Next]_clientVars
  PROVE  SetUpInv'
<1>1. CASE UNCHANGED clientVars
  BY <1>1 DEF clientVars, channelVars, storageVars, brokerVars, historyVars, SetUpInv, Closed,
              ChannelIsClosed, OnTheirWay, Attended, OneEach, DueCalls, ToReplay, InEffect, Connected,
              NamedFor, Answered, Bound, Consumed
<1>2. CASE UserCalls
  BY <1>2, UserCallsSetUp
<1>3. CASE ClientRun \/ OnReady \/ RestoreClear \/ RestoreDone \/ Reconnect
  BY <1>3, LoopStutters, LoopGoesOn, StutterKeeps
<1>4. CASE RestoreReplay
  BY <1>4, RestoreReplayStutters, RestoreReplayGoesOn, StutterKeeps
<1>5. CASE OnQueueDeclared
  BY <1>5, OnQueueDeclaredStutters, OnQueueDeclaredGoesOn, StutterKeeps
<1>6. CASE OnChannelClosed \/ ConnectionLost
  BY <1>6, LossSetUp
<1>7. CASE BrokerExecutes
  BY <1>7, BrokerSetUp
<1>8. CASE Heartbeat
  BY <1>1, <1>8 DEF Heartbeat
<1>. QED  BY <1>1, <1>2, <1>3, <1>4, <1>5, <1>6, <1>7, <1>8 DEF Next, EventLoop

(* The invariant behind the two theorems that follow.                      *)
THEOREM SetUpInvariance == Spec => [](IInv /\ SetUpInv)
<1>1. Init => IInv /\ SetUpInv
  BY Initially, InitialSetUp
<1>2. (IInv /\ SetUpInv) /\ [Next]_clientVars => (IInv /\ SetUpInv)'
  BY Consecution, SetUpConsecution
<1>. QED  BY <1>1, <1>2, PTL DEF Spec

(* Without anything under way nothing is due, and what is connected is     *)
(* bound and consumed.                                                     *)
LEMMA QuietState ==
  ASSUME IInv, SetUpInv, Quiet
  PROVE  /\ DueCalls = << >> /\ OnTheirWay /\ Attended /\ OneEach
         /\ \A e, q : ~Answered(e, q)
         /\ \A e, q : Bound(e, q) <=> (q \in DOMAIN queues /\ e \in queues[q].bound)
         /\ \A q : Consumed(q) <=> (q \in DOMAIN queues /\ queues[q].consumed)
<1>1. wire = << >> /\ replies = << >> /\ ToReplay = << >> /\ ~Closed
  BY DEF Quiet, ToReplay, Closed, ChannelIsClosed, IInv, ErrorIsKnown
<1>2. DueCalls = << >>
  BY <1>1, SelectedEmpty DEF DueCalls
<1>. QED  BY <1>1, <1>2, HasEmpty DEF SetUpInv, Answered, Bound, Consumed

(* When everything has been executed, what the users called is in effect.  *)
THEOREM CallsTakeEffect == Spec => []CallsAreInEffect
<1>1. ASSUME IInv, SetUpInv
      PROVE  CallsAreInEffect
  <2>. SUFFICES ASSUME Quiet, NEW i \in 1..Len(calls)
                PROVE  LET c == calls[i]
                       IN  IF c.op = "declare"
                           THEN c.exchange \in exchanges
                           ELSE /\ c.queue # "" => c.queue \in Listening(c.exchange)
                                /\ c.queue = "" => Listening(c.exchange) \cap GeneratedNames # {}
    BY Zenon DEF CallsAreInEffect
  <2>. DEFINE c == calls[i]
  <2>1. c \in StoredCalls /\ Has(calls, c)
    BY <1>1 DEF IInv, OnlyCallsAreStored, Has
  <2>. HIDE DEF c
  <2>2. InEffect(c)
    BY <1>1, <2>1, QuietState, HasEmpty DEF OnTheirWay
  <2>3. \A e, q : Connected(e, q) => q \in Listening(e)
    BY <1>1, QuietState DEF Connected, Listening
  <2>4. CASE c.op = "declare"
    BY <2>2, <2>4 DEF InEffect, c
  <2>5. CASE c.op # "declare"
    <3>1. PICK q \in IF c.queue = "" THEN GeneratedNames ELSE {c.queue} : Connected(c.exchange, q)
      BY <2>2, <2>5 DEF InEffect
    <3>. QED  BY <2>3, <2>5, <3>1 DEF c
  <2>. QED  BY <2>4, <2>5
<1>. QED  BY <1>1, SetUpInvariance, PTL

(* Each call of add_listener without a name has one queue then.            *)
THEOREM NoQueueTwice == Spec => []OneQueuePerCall
<1>1. ASSUME IInv, SetUpInv
      PROVE  OneQueuePerCall
  <2>. SUFFICES ASSUME Quiet, NEW e \in Exchanges
                PROVE  Cardinality(Listening(e) \cap GeneratedNames)
                         = Cardinality({i \in 1..Len(calls) : calls[i] = AddListener(e, "")})
    BY DEF OneQueuePerCall
  <2>. DEFINE x == AddListener(e, "")
  <2>1. NamedFor(e) = Listening(e) \cap GeneratedNames
    <3>1. \A q \in DOMAIN queues \cap GeneratedNames : queues[q].consumed
      BY <1>1, QuietState DEF Attended
    <3>2. \A q \in DOMAIN queues \cap GeneratedNames : q \in NamedFor(e) <=> e \in queues[q].bound
      BY <1>1, QuietState DEF NamedFor
    <3>3. NamedFor(e) \subseteq DOMAIN queues \cap GeneratedNames
      BY DEF NamedFor
    <3>. QED  BY <3>1, <3>2, <3>3 DEF Listening
  <2>2. Cardinality(NamedFor(e)) + Count(DueCalls, {x}) = Count(calls, {x}) /\ IsFiniteSet(NamedFor(e))
    BY <1>1, QuietState DEF OneEach
  <2>3. Count(DueCalls, {x}) = 0
    BY <1>1, QuietState, CountEmpty
  <2>4. Cardinality(NamedFor(e)) \in Nat
    BY <2>2, FS_CardinalityType
  <2>5. Count(calls, {x}) = Cardinality({i \in 1..Len(calls) : calls[i] \in {x}})
    BY <1>1, CountCardinality DEF IInv, TypeOK
  <2>. HIDE DEF x
  <2>6. {i \in 1..Len(calls) : calls[i] \in {x}} = {i \in 1..Len(calls) : calls[i] = x}
    OBVIOUS
  <2>7. Cardinality(NamedFor(e)) = Count(calls, {x})
    BY <2>2, <2>3, <2>4
  <2>. QED  BY <2>1, <2>5, <2>6, <2>7 DEF x
<1>. QED  BY <1>1, SetUpInvariance, PTL
=============================================================================
