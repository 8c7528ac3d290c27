------------------------ MODULE RabbitmqClientProofs ------------------------
(***************************************************************************)
(* Every registered source has a queue that is bound and consumed, and     *)
(* every announcement of an available source is acknowledged, for any      *)
(* sources, any announcements and any number of lost connections.          *)
(***************************************************************************)
EXTENDS RabbitmqClient, MessageBusClientProofs

AckOf(q, b) == Cmd("ack", b, q)
MessageOf(q, b) == [op |-> "message", exchange |-> b, queue |-> q]

(* What is acknowledged, and what is delivered, are announcements.         *)
AcksFit ==
  \A c \in Command : (Has(wire, c) /\ c.op = "ack") => c.queue \in NamedQueues /\ c.exchange \in Body

MessagesFit ==
  \A r \in Reply :
     (Has(replies, r) /\ r.op = "message") => r.queue \in NamedQueues /\ r.exchange \in Body

(* An announcement that the broker takes for delivered is on its way to    *)
(* the client, or its acknowledgement is on its way back; but for those    *)
(* that obsolete_src_msg_callback does not acknowledge.                    *)
OnItsWay(q, b) == Count(wire, {AckOf(q, b)}) + Count(replies, {MessageOf(q, b)})

Accounted ==
  \A q \in NamedQueues, b \in Body :
     /\ OnItsWay(q, b) <= Count(unacked[q], {b})
     /\ q = Available => OnItsWay(q, b) = Count(unacked[q], {b})

(* A body with a bad id makes the client declare the default exchange,     *)
(* which the broker refuses: then and on every later connection.           *)
Doomed == Has(calls, DeclareExchange(DefaultExchange))

WillBeRefused == ~Closed => (Doomed => Has(DueCalls, DeclareExchange(DefaultExchange)))

(* For every other source that is registered there was a call of           *)
(* add_listener.  It is due, or it has brought about a queue from which    *)
(* nobody unbinds the source.                                              *)
Served(s) == \E q \in QueueNames : Connected(s, q) /\ ~Has(wire, Cmd("unbind", s, q))

WereFed ==
  \A s \in registered \cap Sources :
     Doomed \/ (s # DefaultExchange /\ Has(calls, AddListener(s, "")))

AreFed ==
  ~Closed => \A s \in registered \cap Sources :
                Doomed \/ Has(DueCalls, AddListener(s, "")) \/ Served(s)

CInv ==
  /\ ConsumerTypeOK
  /\ IInv
  /\ AcksFit /\ MessagesFit
  /\ Accounted
  /\ WillBeRefused
  /\ WereFed /\ AreFed

-----------------------------------------------------------------------------
(* The names of exchanges and queues.                                      *)
LEMMA ConsumerNames ==
  /\ Body \subseteq Exchanges /\ Sources \subseteq Exchanges
  /\ Available \in Exchanges /\ Obsolete \in Exchanges /\ DefaultExchange \in Exchanges
  /\ DefaultExchange \in OtherType
  /\ NamedQueues = {Available, Obsolete} /\ NamedQueues \subseteq QueueNames
BY SourcesConstants DEF SourcesConstants, Body, QueueNames

(* Two messages, or two acknowledgements, differ in queue or in body.      *)
LEMMA AnnouncementFields ==
  \A q, b : /\ AckOf(q, b).op = "ack" /\ AckOf(q, b).queue = q /\ AckOf(q, b).exchange = b
            /\ MessageOf(q, b).op = "message" /\ MessageOf(q, b).queue = q
            /\ MessageOf(q, b).exchange = b
BY DEF AckOf, MessageOf, Cmd

(* They are a command and a reply.                                         *)
LEMMA AnnouncementTypes ==
  ASSUME NEW q \in NamedQueues, NEW b \in Body
  PROVE  AckOf(q, b) \in Command /\ MessageOf(q, b) \in Reply
<1>1. q \in QueueNames \cup {""} /\ b \in Exchanges
  BY ConsumerNames
<1>. QED  BY <1>1 DEF AckOf, MessageOf, Cmd, Command, Reply

(* Sending other commands leaves the count of a command alone.             *)
LEMMA SentCount ==
  ASSUME wire \in Seq(Command), NEW commands \in Seq(Command), NEW x, ~Has(commands, x)
  PROVE  Count(Sent(commands), {x}) = Count(wire, {x})
<1>1. Count(commands, {x}) = 0
  BY CountPositive
<1>2. Count(wire \o commands, {x}) = Count(wire, {x}) + Count(commands, {x})
  BY CountConcat
<1>3. Count(wire, {x}) \in Nat
  BY CountType
<1>4. \A n \in Nat : n + 0 = n
  OBVIOUS
<1>5. Count(wire \o commands, {x}) = Count(wire, {x})
  BY <1>1, <1>2, <1>3, <1>4
<1>. QED  BY <1>5 DEF Sent

(* Sending one command more.                                               *)
LEMMA SentOnce ==
  ASSUME wire \in Seq(Command), NEW commands \in Seq(Command), NEW c \in Command, Usable,
         ~Has(commands, c)
  PROVE  Count(Sent(commands \o <<c>>), {c}) = Count(wire, {c}) + 1
<1>1. <<c>> \in Seq(Command) /\ Count(commands, {c}) = 0 /\ Count(<<c>>, {c}) = 1
  BY ShortSequences, CountPositive, CountOne
<1>2. Count(commands \o <<c>>, {c}) = 1
  <2>1. Count(commands \o <<c>>, {c}) = Count(commands, {c}) + Count(<<c>>, {c})
    BY <1>1, CountConcat
  <2>. QED  BY <1>1, <2>1
<1>3. commands \o <<c>> \in Seq(Command)
  BY <1>1, ConcatProperties
<1>4. Count(wire \o (commands \o <<c>>), {c}) = Count(wire, {c}) + Count(commands \o <<c>>, {c})
  BY <1>3, CountConcat
<1>. QED  BY <1>2, <1>4 DEF Sent

(* A sequence without one of its elements has one less of it.              *)
LEMMA WithoutOne ==
  ASSUME NEW T, NEW s \in Seq(T), NEW k \in 1..Len(s), NEW x
  PROVE  LET rest == SubSeq(s, 1, k - 1) \o SubSeq(s, k + 1, Len(s))
         IN  /\ x = s[k] => Count(s, {x}) = Count(rest, {x}) + 1
             /\ x # s[k] => Count(s, {x}) = Count(rest, {x})
<1>. DEFINE rest == SubSeq(s, 1, k - 1) \o SubSeq(s, k + 1, Len(s))
<1>1. rest \in Seq(T) /\ Count(s, {x}) = Count(rest, {x}) + (IF s[k] \in {x} THEN 1 ELSE 0)
  BY CountWithout
<1>. HIDE DEF rest
<1>2. Count(rest, {x}) \in Nat
  BY <1>1, CountType
<1>3. /\ x = s[k] => Count(s, {x}) = Count(rest, {x}) + 1
      /\ x # s[k] => Count(s, {x}) = Count(rest, {x})
  BY <1>1, <1>2
<1>. QED  BY <1>3 DEF rest

(* A sequence with one element more at its end.                            *)
LEMMA OneMore ==
  ASSUME NEW T, NEW s \in Seq(T), NEW e \in T, NEW x
  PROVE  /\ x = e => Count(Append(s, e), {x}) = Count(s, {x}) + 1
         /\ x # e => Count(Append(s, e), {x}) = Count(s, {x})
<1>1. Count(Append(s, e), {x}) = Count(s, {x}) + (IF e \in {x} THEN 1 ELSE 0)
  BY CountAppend
<1>2. Count(s, {x}) \in Nat
  BY CountType
<1>. QED  BY <1>1, <1>2

(* A map of queues of which one has a binding less.                        *)
LEMMA OneBindingLess ==
  ASSUME NEW map, NEW map2, IsMap(map, QueueNames, [bound : SUBSET Exchanges, consumed : BOOLEAN]),
         NEW name \in DOMAIN map, NEW e,
         map2 = [map EXCEPT ![name].bound = @ \ {e}]
  PROVE  /\ DOMAIN map2 = DOMAIN map
         /\ IsMap(map2, QueueNames, [bound : SUBSET Exchanges, consumed : BOOLEAN])
         /\ \A q \in DOMAIN map : map2[q].consumed = map[q].consumed
         /\ \A q \in DOMAIN map : \A x :
               (x \in map[q].bound /\ ~(q = name /\ x = e)) => x \in map2[q].bound
BY DEF IsMap

(* Numbers of announcements.                                               *)
LEMMA Counted ==
  ASSUME CInv, NEW q \in NamedQueues, NEW b
  PROVE  /\ Count(wire, {AckOf(q, b)}) \in Nat /\ Count(replies, {MessageOf(q, b)}) \in Nat
         /\ OnItsWay(q, b) \in Nat /\ Count(unacked[q], {b}) \in Nat
<1>1. wire \in Seq(Command) /\ replies \in Seq(Reply) /\ unacked[q] \in Seq(Body)
  BY DEF CInv, IInv, TypeOK, ConsumerTypeOK
<1>2. /\ Count(wire, {AckOf(q, b)}) \in Nat /\ Count(replies, {MessageOf(q, b)}) \in Nat
      /\ Count(unacked[q], {b}) \in Nat
  BY <1>1, CountType
<1>. QED  BY <1>2 DEF OnItsWay

-----------------------------------------------------------------------------
(* What main() has called before the event loop starts.                    *)
LEMMA SetUpCalls ==
  /\ SetUp \in Seq(StoredCalls) /\ SetUp \in Seq(Command)
  /\ ~Has(SetUp, DeclareExchange(DefaultExchange))
<1>1. /\ DeclareExchange(Available) \in StoredCalls /\ DeclareExchange(Obsolete) \in StoredCalls
      /\ AddListener(Available, Available) \in StoredCalls
      /\ AddListener(Obsolete, Obsolete) \in StoredCalls
  BY ConsumerNames, DeclarationCall, ListenerCall
<1>2. SetUp \in Seq(StoredCalls)
  BY <1>1 DEF SetUp
<1>3. SetUp \in Seq(Command)
  BY <1>2, CallsAreCommands, SeqMonotonic, Zenon
<1>4. Len(SetUp) = 4 /\ SetUp[1] = DeclareExchange(Available) /\ SetUp[2] = DeclareExchange(Obsolete)
      /\ SetUp[3] = AddListener(Available, Available) /\ SetUp[4] = AddListener(Obsolete, Obsolete)
  BY DEF SetUp
<1>5. \A i \in 1..4 : i = 1 \/ i = 2 \/ i = 3 \/ i = 4
  OBVIOUS
<1>6. /\ DeclareExchange(Available) # DeclareExchange(DefaultExchange)
      /\ DeclareExchange(Obsolete) # DeclareExchange(DefaultExchange)
      /\ AddListener(Available, Available) # DeclareExchange(DefaultExchange)
      /\ AddListener(Obsolete, Obsolete) # DeclareExchange(DefaultExchange)
  BY DEF DeclareExchange, AddListener, Cmd, Available, Obsolete, DefaultExchange
<1>7. ~Has(SetUp, DeclareExchange(DefaultExchange))
  BY <1>4, <1>5, <1>6 DEF Has
<1>. QED  BY <1>2, <1>3, <1>7

(* The invariant of the client holds with these calls on their way.        *)
LEMMA ClientSetUp ==
  ASSUME ConsumerInit
  PROVE  IInv
<1>. calls \in Seq(StoredCalls) /\ calls \in Seq(Command) /\ << >> \in Seq(StoredCalls)
  BY SetUpCalls, EmptySeq DEF ConsumerInit
<1>1. TypeOK
  <2>1. /\ OtherType \subseteq Exchanges /\ MaxFailures \in Nat
    BY ClientConstants, Zenon DEF ClientConstants
  <2>2. IsMap(m_binded_queues, Exchanges, QueueNames)
        /\ IsMap(queues, QueueNames, [bound : SUBSET Exchanges, consumed : BOOLEAN])
    BY DEF ConsumerInit, IsMap
  <2>3. << >> \in Seq(Command) /\ << >> \in Seq(Reply)
    BY EmptySeq
  <2>4. failures \in 0..MaxFailures
    BY <2>1 DEF ConsumerInit
  <2>5. actions \in Seq(Command) /\ wire \in Seq(Command)
    BY SetUpCalls, Zenon DEF ConsumerInit
  <2>. QED  BY <2>1, <2>2, <2>3, <2>4, <2>5, Zenon DEF ConsumerInit, TypeOK
<1>2. NothingForgotten
  BY ConcatEmptySeq DEF ConsumerInit, NothingForgotten
<1>3. CommandsFit
  <2>1. \A c \in Command : Has(wire, c) => c \in StoredCalls
    BY HasInSet DEF ConsumerInit
  <2>. QED  BY <2>1, CallsOperations DEF CommandsFit
<1>4. AnswersNameQueues
  BY HasEmpty DEF ConsumerInit, AnswersNameQueues
<1>. QED  BY <1>1, <1>2, <1>3, <1>4
          DEF ConsumerInit, IInv, BindedQueuesExist, LoopAndLink, ErrorIsKnown,
              OnlyCallsAreStored, NoOldNames

(* Initially nothing is announced and nothing registered.                  *)
LEMMA ConsumerInitially ==
  ASSUME ConsumerInit
  PROVE  CInv
<1>1. IInv
  BY ClientSetUp
<1>2. ConsumerTypeOK
  <2>1. NoAnnouncements \in [NamedQueues -> Seq(Body)]
    BY DEF NoAnnouncements
  <2>2. 0 \in 0..MaxMessages /\ 0 \in 0..MaxFrames
    BY SourcesConstants DEF SourcesConstants
  <2>3. TypeOK
    BY <1>1 DEF IInv
  <2>. QED  BY <2>1, <2>2, <2>3 DEF ConsumerInit, ConsumerTypeOK
<1>3. \A c \in Command : Has(wire, c) => c.op \in {"declare", "queue"}
  <2>1. \A c \in Command : Has(wire, c) => c \in StoredCalls
    BY SetUpCalls, HasInSet DEF ConsumerInit
  <2>. QED  BY <2>1, CallsOperations
<1>4. AcksFit /\ MessagesFit
  BY <1>3, HasEmpty DEF ConsumerInit, AcksFit, MessagesFit
<1>5. Accounted
  <2>. SUFFICES ASSUME NEW q \in NamedQueues, NEW b \in Body
                PROVE  OnItsWay(q, b) = 0 /\ Count(unacked[q], {b}) = 0
    <3>1. 0 <= 0
      OBVIOUS
    <3>. QED  BY <3>1, Zenon DEF Accounted
  <2>1. ~Has(wire, AckOf(q, b)) /\ wire \in Seq(Command)
    BY <1>3, SetUpCalls, AnnouncementTypes, AnnouncementFields DEF ConsumerInit
  <2>2. Count(wire, {AckOf(q, b)}) = 0
    BY <2>1, CountPositive
  <2>3. Count(replies, {MessageOf(q, b)}) = 0
    BY CountEmpty DEF ConsumerInit
  <2>4. unacked[q] = << >>
    BY DEF ConsumerInit, NoAnnouncements
  <2>. QED  BY <2>2, <2>3, <2>4, CountEmpty DEF OnItsWay
<1>6. WillBeRefused
  BY SetUpCalls DEF ConsumerInit, WillBeRefused, Doomed
<1>7. WereFed /\ AreFed
  BY DEF ConsumerInit, WereFed, AreFed
<1>. QED  BY <1>1, <1>2, <1>4, <1>5, <1>6, <1>7 DEF CInv

-----------------------------------------------------------------------------
(* What a step has to leave alone for each part of the invariant.          *)

(* No other acknowledgement is sent and no other announcement delivered.   *)
LEMMA FitStays ==
  ASSUME CInv,
         \A c \in Command : Has(wire', c) => Has(wire, c) \/ c.op # "ack",
         \A r \in Reply : Has(replies', r) => Has(replies, r) \/ r.op # "message"
  PROVE  AcksFit' /\ MessagesFit'
BY DEF CInv, AcksFit, MessagesFit

(* As many acknowledgements and announcements are under way as before.     *)
LEMMA AccountStays ==
  ASSUME CInv, unacked' = unacked,
         \A q \in NamedQueues, b \in Body :
            /\ Count(wire', {AckOf(q, b)}) = Count(wire, {AckOf(q, b)})
            /\ Count(replies', {MessageOf(q, b)}) = Count(replies, {MessageOf(q, b)})
  PROVE  Accounted'
<1>1. \A q \in NamedQueues, b \in Body : OnItsWay(q, b)' = OnItsWay(q, b)
  BY Zenon DEF OnItsWay
<1>. QED  BY <1>1, Zenon DEF CInv, Accounted

(* What is connected stays so.                                             *)
LEMMA StaysConnected ==
  ASSUME GoesOn, NEW e \in Exchanges, NEW q \in QueueNames, Connected(e, q)
  PROVE  Connected(e, q)'
BY DEF GoesOn, Connected

(* A source keeps its queue as long as nothing is undone.                  *)
LEMMA StaysServed ==
  ASSUME GoesOn, NEW s \in Sources, Served(s),
         \A q \in QueueNames : Has(wire', Cmd("unbind", s, q)) => Has(wire, Cmd("unbind", s, q))
  PROVE  Served(s)'
<1>1. PICK q \in QueueNames : Connected(s, q) /\ ~Has(wire, Cmd("unbind", s, q))
  BY DEF Served
<1>2. s \in Exchanges
  BY ConsumerNames
<1>3. Connected(s, q)'
  BY <1>1, <1>2, StaysConnected
<1>. QED  BY <1>1, <1>3 DEF Served

(* A step of the client that concerns no call.                             *)
LEMMA FeedingStays ==
  ASSUME CInv, GoesOn, Stutters, registered' = registered,
         \A s \in Sources, q \in QueueNames :
            Has(wire', Cmd("unbind", s, q)) => Has(wire, Cmd("unbind", s, q))
  PROVE  WillBeRefused' /\ WereFed' /\ AreFed'
<1>1. calls' = calls /\ DueCalls' = DueCalls /\ Closed' = Closed
  BY DEF Stutters
<1>2. Doomed' = Doomed
  BY <1>1 DEF Doomed
<1>3. \A s \in Sources : Served(s) => Served(s)'
  BY StaysServed
<1>4. WillBeRefused'
  BY <1>1, <1>2 DEF CInv, WillBeRefused
<1>5. WereFed'
  BY <1>1, <1>2 DEF CInv, WereFed
<1>6. AreFed'
  BY <1>1, <1>2, <1>3 DEF CInv, AreFed
<1>. QED  BY <1>4, <1>5, <1>6

(* The variables of the service when only the client moves.                *)
LEMMA ServiceType ==
  ASSUME CInv, TypeOK', UNCHANGED <<serviceVars, sourceVars, messageVars>>
  PROVE  ConsumerTypeOK' /\ unacked' = unacked /\ registered' = registered
BY DEF CInv, ConsumerTypeOK, serviceVars, sourceVars, messageVars

-----------------------------------------------------------------------------
(* One lemma per action.                                                   *)

(* The steps of the loop before and after a restoration.                   *)
LEMMA LoopKeeps ==
  ASSUME CInv, ClientRun \/ OnReady \/ RestoreClear \/ RestoreDone \/ Reconnect,
         UNCHANGED <<serviceVars, sourceVars, messageVars>>
  PROVE  CInv'
<1>0. IInv
  BY DEF CInv
<1>1. wire' = wire /\ replies' = replies
  BY Zenon DEF ClientRun, OnReady, RestoreClear, RestoreDone, Reconnect
<1>2. IInv'
  BY <1>0, ClientRunInv, OnReadyInv, RestoreClearInv, RestoreDoneInv, ReconnectInv
<1>3. ConsumerTypeOK' /\ unacked' = unacked /\ registered' = registered
  BY <1>2, ServiceType DEF IInv
<1>4. AcksFit' /\ MessagesFit'
  BY <1>1, FitStays
<1>5. Accounted'
  BY <1>1, <1>3, AccountStays
<1>6. GoesOn /\ Stutters
  BY <1>0, LoopGoesOn, LoopStutters
<1>7. WillBeRefused' /\ WereFed' /\ AreFed'
  BY <1>1, <1>3, <1>6, FeedingStays
<1>. QED  BY <1>2, <1>3, <1>4, <1>5, <1>7 DEF CInv

(* A restoration repeats a call.                                           *)
LEMMA RestoreReplayKeeps ==
  ASSUME CInv, RestoreReplay, UNCHANGED <<serviceVars, sourceVars, messageVars>>
  PROVE  CInv'
<1>0. IInv /\ wire \in Seq(Command)
  BY DEF CInv, IInv, TypeOK
<1>. PICK c \in StoredCalls : c = Head(actions_to_restore)
  BY <1>0, NextCall
<1>1. wire' = Sent(<<c>>) /\ <<c>> \in Seq(Command) /\ replies' = replies
  BY <1>0, NextCall DEF RestoreReplay
<1>2. IInv'
  BY <1>0, RestoreReplayInv
<1>3. ConsumerTypeOK' /\ unacked' = unacked /\ registered' = registered
  BY <1>2, ServiceType DEF IInv
<1>4. c.op \notin {"ack", "unbind"}
  BY CallsOperations
<1>5. \A x : Has(wire', x) => Has(wire, x) \/ x = c
  BY <1>0, <1>1, SentHas, HasOne
<1>6. AcksFit' /\ MessagesFit'
  BY <1>1, <1>4, <1>5, FitStays
<1>7. Accounted'
  <2>1. \A q, b : ~Has(<<c>>, AckOf(q, b))
    BY <1>4, AnnouncementFields, HasOne
  <2>2. \A q, b : Count(wire', {AckOf(q, b)}) = Count(wire, {AckOf(q, b)})
    BY <1>0, <1>1, <2>1, SentCount
  <2>. QED  BY <1>1, <1>3, <2>2, AccountStays
<1>8. GoesOn /\ Stutters
  BY <1>0, RestoreReplayGoesOn, RestoreReplayStutters
<1>9. \A s, q : Has(wire', Cmd("unbind", s, q)) => Has(wire, Cmd("unbind", s, q))
  BY <1>4, <1>5, CommandFields
<1>10. WillBeRefused' /\ WereFed' /\ AreFed'
  BY <1>3, <1>8, <1>9, FeedingStays
<1>. QED  BY <1>2, <1>3, <1>6, <1>7, <1>10 DEF CInv

(* A queue is bound and consumed.                                          *)
LEMMA OnQueueDeclaredKeeps ==
  ASSUME CInv, OnQueueDeclared, UNCHANGED <<serviceVars, sourceVars, messageVars>>
  PROVE  CInv'
<1>0. IInv /\ wire \in Seq(Command) /\ replies \in Seq(Reply) /\ replies # << >>
  BY DEF CInv, IInv, TypeOK, OnQueueDeclared
<1>. PICK r \in Reply : r = Head(replies)
  BY <1>0, AnsweredQueue
<1>1. /\ wire' = Sent(ListenTo(r.exchange, r.queue)) /\ replies' = Tail(replies)
      /\ r.op = "queue-ok"
  BY DEF OnQueueDeclared
<1>2. IInv'
  BY <1>0, OnQueueDeclaredInv
<1>3. ConsumerTypeOK' /\ unacked' = unacked /\ registered' = registered
  BY <1>2, ServiceType DEF IInv
<1>4. /\ ListenTo(r.exchange, r.queue) \in Seq(Command)
      /\ \A c : Has(ListenTo(r.exchange, r.queue), c) => c.op \in {"bind", "consume"}
  <2>1. r.exchange \in Exchanges /\ r.queue \in QueueNames
    BY <1>0, AnsweredQueue
  <2>. QED  BY <2>1, ListenToCommands, CommandFields
<1>5. \A c : Has(wire', c) => Has(wire, c) \/ c.op \in {"bind", "consume"}
  BY <1>0, <1>1, <1>4, SentHas
<1>6. \A x : Has(replies', x) => Has(replies, x)
  BY <1>0, <1>1, AnsweredQueue
<1>7. AcksFit' /\ MessagesFit'
  BY <1>5, <1>6, FitStays
<1>8. Accounted'
  <2>1. \A q, b : ~Has(ListenTo(r.exchange, r.queue), AckOf(q, b))
    BY <1>4, AnnouncementFields
  <2>2. \A q, b : Count(wire', {AckOf(q, b)}) = Count(wire, {AckOf(q, b)})
    BY <1>0, <1>1, <1>4, <2>1, SentCount
  <2>3. \A q, b : Count(replies', {MessageOf(q, b)}) = Count(replies, {MessageOf(q, b)})
    <3>1. \A q, b : Head(replies) # MessageOf(q, b)
      BY <1>1, AnnouncementFields
    <3>2. \A x : Head(replies) # x => Count(replies, {x}) = Count(Tail(replies), {x})
      BY <1>0, CountOfOne
    <3>. QED  BY <1>1, <3>1, <3>2, Zenon
  <2>. QED  BY <1>3, <2>2, <2>3, AccountStays
<1>9. GoesOn /\ Stutters
  BY <1>0, OnQueueDeclaredGoesOn, OnQueueDeclaredStutters
<1>10. \A s, q : Has(wire', Cmd("unbind", s, q)) => Has(wire, Cmd("unbind", s, q))
  BY <1>5, CommandFields
<1>11. WillBeRefused' /\ WereFed' /\ AreFed'
  BY <1>3, <1>9, <1>10, FeedingStays
<1>. QED  BY <1>2, <1>3, <1>7, <1>8, <1>11 DEF CInv

(* Nothing is unbound from a queue that is not there.                      *)
LEMMA UnbindsFit ==
  ASSUME IInv, NEW e \in Exchanges, NEW q \in QueueNames, q \notin DOMAIN queues
  PROVE  ~Has(wire, Cmd("unbind", e, q))
<1>. DEFINE c == Cmd("unbind", e, q)
<1>1. c \in Command /\ c.op = "unbind" /\ c.queue = q
  BY DEF Cmd, Command
<1>. HIDE DEF c
<1>2. ~Has(wire, c)
  BY <1>1 DEF IInv, CommandsFit
<1>. QED  BY <1>2 DEF c

(* What the broker executes for a call undoes nothing, and makes a queue   *)
(* for a call of add_listener.                                             *)
LEMMA BrokerFeeds ==
  ASSUME CInv, BrokerExecutes, ~Closed'
  PROVE  /\ GoesOn
         /\ Head(wire) # DeclareExchange(DefaultExchange)
         /\ \A s \in Sources : Head(wire) = AddListener(s, "") => Served(s)'
<1>0. IInv /\ wire \in Seq(Command)
  BY DEF CInv, IInv, TypeOK
<1>. PICK c \in Command : c = Head(wire)
  BY <1>0, HeadTailProperties DEF BrokerExecutes
<1>1. ~ChannelIsClosed' /\ wire # << >> /\ wire' = Tail(wire)
  BY DEF Closed, BrokerExecutes
<1>2. c \in Command /\ (c.op \in {"declare", "queue"} => c \in StoredCalls)
  BY <1>0, <1>1, OffTheWire DEF IInv, CommandsFit
<1>3. c # DeclareExchange(DefaultExchange)
  <2>. SUFFICES ASSUME c = DeclareExchange(DefaultExchange)
                PROVE  FALSE
    OBVIOUS
  <2>1. c.op = "declare" /\ c.exchange \in OtherType
    BY ConsumerNames, DeclarationCall
  <2>2. replies' = Answer("close", c, "")
    BY <2>1 DEF BrokerExecutes, Execute, Refused
  <2>. DEFINE a == [op |-> "close", exchange |-> c.exchange, queue |-> ""]
  <2>3. a \in Reply /\ a.op = "close" /\ replies \in Seq(Reply)
    BY <1>0, <2>1, ClientConstants DEF Reply, IInv, TypeOK, ClientConstants
  <2>4. replies' = Append(replies, a)
    BY <2>2 DEF Answer
  <2>. HIDE DEF a
  <2>5. Has(Append(replies, a), a)
    BY <2>3, HasAppend
  <2>6. /\ Append(replies, a) \in Seq(Reply) /\ Len(Append(replies, a)) = Len(replies) + 1
        /\ Append(replies, a)[Len(replies) + 1] = a /\ Len(replies) \in Nat
    BY <2>3, AppendToQueue
  <2>7. ChannelIsClosed'
    BY <2>3, <2>4, <2>6 DEF ChannelIsClosed
  <2>. QED  BY <1>1, <2>7
<1>4. CASE c.op # "queue"
  <2>1. GoesOn /\ NoNewQueue
    BY <1>0, <1>1, <1>4, BrokerPerforms, DeclarePerformed, BindPerformed, ConsumePerformed
  <2>2. \A s \in Sources : c # AddListener(s, "")
    BY <1>4, ConsumerNames, UnnamedCall
  <2>. QED  BY <1>3, <2>1, <2>2
<1>5. CASE c.op = "queue"
  <2>1. PICK name \in IF c.queue = "" THEN GeneratedNames \ DOMAIN queues ELSE {c.queue} :
          /\ queues' = Emplace(queues, name, [bound |-> {}, consumed |-> FALSE])
          /\ replies' = Answer("queue-ok", c, name)
          /\ UNCHANGED exchanges
    BY <1>0, <1>1, <1>5, BrokerPerforms
  <2>2. c \in StoredCalls
    BY <1>2, <1>5
  <2>3. name \in QueueNames
    BY <2>2, CallsOperations DEF QueueNames
  <2>4. /\ GoesOn
        /\ c.exchange \in Exchanges
        /\ \A e \in Exchanges, q \in QueueNames :
              Answered(e, q)' <=> (Answered(e, q) \/ (e = c.exchange /\ q = name))
    BY <1>0, <1>1, <1>5, <2>1, <2>3, QueuePerformed
  <2>5. Connected(c.exchange, name)'
    BY <2>3, <2>4 DEF Connected
  <2>6. ASSUME NEW s \in Sources, c = AddListener(s, "")
        PROVE  Served(s)'
    <3>1. c.exchange = s /\ c.queue = "" /\ s \in Exchanges
      BY <2>6, ConsumerNames, UnnamedCall
    <3>2. name \notin DOMAIN queues
      BY <3>1
    <3>4. ~Has(wire, Cmd("unbind", s, name))
      BY <1>0, <2>3, <3>1, <3>2, UnbindsFit
    <3>5. ~Has(wire', Cmd("unbind", s, name))
      BY <1>0, <1>1, <3>4, OffTheWire
    <3>. QED  BY <2>3, <2>5, <3>1, <3>5 DEF Served
  <2>. QED  BY <1>3, <2>4, <2>6
<1>. QED  BY <1>4, <1>5

(* The broker executes what the calls put on the wire.                     *)
LEMMA BrokerExecutesKeeps ==
  ASSUME CInv, BrokerExecutes, UNCHANGED <<serviceVars, sourceVars, messageVars>>
  PROVE  CInv'
<1>0. IInv /\ wire \in Seq(Command) /\ replies \in Seq(Reply) /\ TypeOK
  BY DEF CInv, IInv, TypeOK
<1>1. wire # << >> /\ wire' = Tail(wire) /\ calls' = calls /\ (Closed => Closed')
  BY DEF BrokerExecutes, historyVars, channelVars, Closed
<1>2. IInv'
  BY <1>0, BrokerExecutesInv
<1>3. ConsumerTypeOK' /\ unacked' = unacked /\ registered' = registered
  BY <1>2, ServiceType DEF IInv
<1>4. Head(wire).op \notin {"ack", "unbind"}
  BY DEF BrokerExecutes, Execute, Refused
<1>5. \A x : Has(wire', x) => Has(wire, x)
  BY <1>0, <1>1, OffTheWire
<1>6. \/ replies' = replies
      \/ \E a \in Reply : replies' = Append(replies, a) /\ a.op # "message"
  BY <1>0, BrokerExecutesChanges
<1>7. AcksFit' /\ MessagesFit'
  <2>1. \A a \in Reply : \A r : Has(Append(replies, a), r) => (Has(replies, r) \/ r = a)
    BY <1>0, HasAppend
  <2>2. \A r \in Reply : Has(replies', r) => Has(replies, r) \/ r.op # "message"
    BY <1>6, <2>1
  <2>. QED  BY <1>5, <2>2, FitStays
<1>8. Accounted'
  <2>1. \A q, b : Count(wire', {AckOf(q, b)}) = Count(wire, {AckOf(q, b)})
    <3>1. \A q, b : Head(wire) # AckOf(q, b)
      BY <1>4, AnnouncementFields
    <3>2. \A x : Head(wire) # x => Count(wire, {x}) = Count(Tail(wire), {x})
      BY <1>0, <1>1, CountOfOne
    <3>. QED  BY <1>1, <3>1, <3>2, Zenon
  <2>2. \A q, b : Count(replies', {MessageOf(q, b)}) = Count(replies, {MessageOf(q, b)})
    <3>1. ASSUME NEW a \in Reply, a.op # "message", NEW q, NEW b
          PROVE  Count(Append(replies, a), {MessageOf(q, b)}) = Count(replies, {MessageOf(q, b)})
      <4>1. a # MessageOf(q, b)
        BY <3>1, AnnouncementFields
      <4>2. Count(Append(replies, a), {MessageOf(q, b)})
              = Count(replies, {MessageOf(q, b)}) + (IF a \in {MessageOf(q, b)} THEN 1 ELSE 0)
        BY <1>0, CountAppend
      <4>3. Count(replies, {MessageOf(q, b)}) \in Nat
        BY <1>0, CountType
      <4>. QED  BY <4>1, <4>2, <4>3
    <3>. QED  BY <1>6, <3>1, Zenon
  <2>. QED  BY <1>3, <2>1, <2>2, AccountStays
<1>9. WereFed'
  BY <1>1, <1>3 DEF CInv, WereFed, Doomed
<1>10. WillBeRefused' /\ AreFed'
  <2>. SUFFICES ASSUME ~Closed'
                PROVE  WillBeRefused' /\ AreFed'
    BY DEF WillBeRefused, AreFed
  <2>1. ~Closed /\ Doomed' = Doomed
    BY <1>1 DEF Doomed
  <2>2. /\ GoesOn /\ Head(wire) # DeclareExchange(DefaultExchange)
        /\ \A s \in Sources : Head(wire) = AddListener(s, "") => Served(s)'
    BY BrokerFeeds
  <2>3. /\ DeclareExchange(DefaultExchange) \in StoredCalls
        /\ \A s \in Sources : AddListener(s, "") \in StoredCalls
    BY ConsumerNames, DeclarationCall, UnnamedCall
  <2>4. \A x \in StoredCalls : Has(DueCalls, x) => (x = Head(wire) \/ Has(DueCalls', x))
    BY <1>0, DueAfterwards
  <2>5. \A s, q : Has(wire', Cmd("unbind", s, q)) => Has(wire, Cmd("unbind", s, q))
    BY <1>5
  <2>6. \A s \in Sources : Served(s) => Served(s)'
    BY <2>2, <2>5, StaysServed
  <2>7. WillBeRefused'
    BY <2>1, <2>2, <2>3, <2>4 DEF CInv, WillBeRefused
  <2>8. AreFed'
    BY <1>3, <2>1, <2>2, <2>3, <2>4, <2>6 DEF CInv, AreFed
  <2>. QED  BY <2>7, <2>8
<1>. QED  BY <1>2, <1>3, <1>7, <1>8, <1>9, <1>10 DEF CInv

(* Commands that are no calls, and that change no queue but its bindings,  *)
(* mean nothing to the storage.                                            *)
LEMMA ExtraPerformed ==
  ASSUME IInv, wire # << >>, wire' = Tail(wire), Head(wire) \notin StoredCalls,
         UNCHANGED <<channelVars, storageVars, historyVars, replies, exchanges>>,
         DOMAIN queues' = DOMAIN queues,
         IsMap(queues', QueueNames, [bound : SUBSET Exchanges, consumed : BOOLEAN])
  PROVE  IInv' /\ Stutters
<1>1. /\ wire \in Seq(Command) /\ Tail(wire) \in Seq(Command)
      /\ \A x : Has(wire', x) => Has(wire, x)
  <2>1. wire \in Seq(Command)
    BY DEF IInv, TypeOK
  <2>2. Tail(wire) \in Seq(Command)
    BY <2>1
  <2>. QED  BY <2>1, <2>2, OffTheWire
<1>2. TypeOK'
  BY <1>1 DEF IInv, TypeOK, channelVars, storageVars, historyVars
<1>3. CommandsFit' /\ AnswersNameQueues'
  BY <1>1 DEF IInv, CommandsFit, AnswersNameQueues
<1>4. IInv'
  BY <1>2, <1>3 DEF IInv, NothingForgotten, BindedQueuesExist, LoopAndLink, ErrorIsKnown,
                    OnlyCallsAreStored, NoOldNames, channelVars, storageVars, historyVars
<1>5. ToReplay' = ToReplay /\ calls' = calls /\ Closed' = Closed
  BY DEF ToReplay, channelVars, storageVars, historyVars, Closed, ChannelIsClosed
<1>6. DueCalls' = DueCalls
  BY <1>5, TakesDue
<1>. QED  BY <1>4, <1>5, <1>6 DEF Stutters

(* The broker forgets an announcement that is acknowledged.                *)
LEMMA BrokerAcknowledgesKeeps ==
  ASSUME CInv, BrokerAcknowledges
  PROVE  CInv'
<1>0. /\ IInv /\ wire \in Seq(Command) /\ wire # << >> /\ wire' = Tail(wire)
      /\ replies' = replies /\ queues' = queues /\ calls' = calls
  BY DEF CInv, IInv, TypeOK, BrokerAcknowledges, brokerVars, historyVars
<1>. PICK c \in Command : c = Head(wire) /\ c.op = "ack"
  BY <1>0, OffTheWire DEF BrokerAcknowledges
<1>. PICK q \in NamedQueues, b \in Body : q = c.queue /\ b = c.exchange
  <2>1. Has(wire, c)
    BY <1>0, OffTheWire
  <2>. QED  BY <2>1 DEF CInv, AcksFit
<1>1. c = AckOf(q, b)
  BY DEF AckOf, Cmd, Command
<1>. DEFINE list == unacked[q]
            k    == CHOOSE i \in 1..Len(list) : list[i] = b
            rest == SubSeq(list, 1, k - 1) \o SubSeq(list, k + 1, Len(list))
<1>2. list \in Seq(Body)
  BY DEF CInv, ConsumerTypeOK
<1>3. unacked' = [unacked EXCEPT ![q] = rest]
  BY DEF BrokerAcknowledges
<1>4. k \in 1..Len(list) /\ list[k] = b
  <2>1. Count(wire, {c}) # 0
    BY <1>0, OffTheWire, CountPositive
  <2>2. OnItsWay(q, b) <= Count(list, {b})
    BY DEF CInv, Accounted
  <2>3. /\ Count(wire, {c}) \in Nat /\ Count(replies, {MessageOf(q, b)}) \in Nat
        /\ Count(list, {b}) \in Nat
    BY <1>1, Counted
  <2>4. Count(list, {b}) # 0
    BY <1>1, <2>1, <2>2, <2>3 DEF OnItsWay
  <2>5. Has(list, b)
    BY <1>2, <2>4, CountPositive
  <2>6. \E i \in 1..Len(list) : list[i] = b
    BY <2>5 DEF Has
  <2>. QED  BY <2>6
<1>. HIDE DEF k, list
<1>5. rest \in Seq(Body)
  BY <1>2, <1>4, CountWithout
<1>6. \A x : /\ x = b => Count(list, {x}) = Count(rest, {x}) + 1
             /\ x # b => Count(list, {x}) = Count(rest, {x})
  BY <1>2, <1>4, WithoutOne
<1>. HIDE DEF rest
<1>7. \A x : /\ x = c => Count(wire, {x}) = Count(wire', {x}) + 1
             /\ x # c => Count(wire, {x}) = Count(wire', {x})
  BY <1>0, CountOfOne
<1>8. IInv' /\ Stutters
  <2>1. c \notin StoredCalls
    BY CallsOperations
  <2>2. IsMap(queues', QueueNames, [bound : SUBSET Exchanges, consumed : BOOLEAN])
    BY <1>0 DEF IInv, TypeOK
  <2>. QED  BY <1>0, <2>1, <2>2, ExtraPerformed DEF BrokerAcknowledges, brokerVars
<1>9. ConsumerTypeOK' /\ registered' = registered
  <2>1. unacked' \in [NamedQueues -> Seq(Body)]
    BY <1>3, <1>5 DEF CInv, ConsumerTypeOK
  <2>2. TypeOK'
    BY <1>8 DEF IInv
  <2>. QED  BY <2>1, <2>2 DEF BrokerAcknowledges, CInv, ConsumerTypeOK, serviceVars, sourceVars
<1>10. \A x : Has(wire', x) => Has(wire, x)
  BY <1>0, OffTheWire
<1>11. AcksFit' /\ MessagesFit'
  BY <1>0, <1>10, FitStays
<1>12. Accounted'
  <2>. SUFFICES ASSUME NEW p \in NamedQueues, NEW x \in Body
                PROVE  /\ OnItsWay(p, x)' <= Count(unacked'[p], {x})
                       /\ p = Available => OnItsWay(p, x)' = Count(unacked'[p], {x})
    BY DEF Accounted
  <2>1. /\ OnItsWay(p, x) <= Count(unacked[p], {x})
        /\ p = Available => OnItsWay(p, x) = Count(unacked[p], {x})
    BY DEF CInv, Accounted
  <2>2. CASE p = q /\ x = b
    <3>1. Count(wire, {AckOf(p, x)}) = Count(wire', {AckOf(p, x)}) + 1
      BY <1>1, <1>7, <2>2
    <3>2. Count(unacked[p], {x}) = Count(unacked'[p], {x}) + 1
      BY <1>3, <1>6, <2>2 DEF list, CInv, ConsumerTypeOK
    <3>3. Count(wire', {AckOf(p, x)}) \in Nat /\ Count(unacked'[p], {x}) \in Nat
      <4>1. wire' \in Seq(Command) /\ unacked'[p] \in Seq(Body)
        BY <1>8, <1>9 DEF IInv, TypeOK, ConsumerTypeOK
      <4>. QED  BY <4>1, CountType
    <3>4. Count(replies, {MessageOf(p, x)}) \in Nat
      BY Counted
    <3>. QED  BY <1>0, <2>1, <3>1, <3>2, <3>3, <3>4 DEF OnItsWay
  <2>3. CASE ~(p = q /\ x = b)
    <3>1. AckOf(p, x) # c
      BY <2>3, AnnouncementFields
    <3>2. Count(wire', {AckOf(p, x)}) = Count(wire, {AckOf(p, x)})
      BY <1>7, <3>1
    <3>3. Count(unacked'[p], {x}) = Count(unacked[p], {x})
      <4>1. CASE p = q
        BY <1>3, <1>6, <2>3, <4>1 DEF list, CInv, ConsumerTypeOK
      <4>2. CASE p # q
        BY <1>3, <4>2 DEF CInv, ConsumerTypeOK
      <4>. QED  BY <4>1, <4>2
    <3>. QED  BY <1>0, <2>1, <3>2, <3>3, Zenon DEF OnItsWay
  <2>. QED  BY <2>2, <2>3
<1>13. GoesOn
  <2>1. \A e \in Exchanges, p \in QueueNames :
           /\ Has(wire, Cmd("bind", e, p)) => Has(wire', Cmd("bind", e, p))
           /\ Has(wire, Cmd("consume", e, p)) => Has(wire', Cmd("consume", e, p))
    <3>1. \A e, p : Cmd("bind", e, p) # c /\ Cmd("consume", e, p) # c
      BY CommandFields
    <3>. QED  BY <1>0, <3>1, OffTheWire
  <2>. QED  BY <1>0, <2>1 DEF GoesOn, Consumed, Bound, Answered, BrokerAcknowledges, brokerVars
<1>14. WillBeRefused' /\ WereFed' /\ AreFed'
  BY <1>8, <1>9, <1>10, <1>13, FeedingStays
<1>. QED  BY <1>8, <1>9, <1>11, <1>12, <1>14 DEF CInv

(* A source is unbound from a queue; those that are registered keep theirs.*)
LEMMA BrokerUnbindsKeeps ==
  ASSUME CInv, BrokerUnbinds
  PROVE  CInv'
<1>0. /\ IInv /\ wire \in Seq(Command) /\ wire # << >> /\ wire' = Tail(wire)
      /\ replies' = replies /\ exchanges' = exchanges /\ calls' = calls
      /\ UNCHANGED <<serviceVars, sourceVars, messageVars>>
      /\ IsMap(queues, QueueNames, [bound : SUBSET Exchanges, consumed : BOOLEAN])
  BY DEF CInv, IInv, TypeOK, BrokerUnbinds, historyVars
<1>. PICK c \in Command : c = Head(wire) /\ c.op = "unbind"
  BY <1>0, OffTheWire DEF BrokerUnbinds
<1>10. IsMap(queues, QueueNames, [bound : SUBSET Exchanges, consumed : BOOLEAN])
  BY <1>0
<1>11. PICK name \in DOMAIN queues : name = c.queue
  <2>1. Has(wire, c)
    BY <1>0, OffTheWire
  <2>. QED  BY <1>0, <2>1 DEF IInv, CommandsFit
<1>1. queues' = [queues EXCEPT ![name].bound = @ \ {c.exchange}]
  BY <1>11 DEF BrokerUnbinds
<1>2. /\ DOMAIN queues' = DOMAIN queues
      /\ IsMap(queues', QueueNames, [bound : SUBSET Exchanges, consumed : BOOLEAN])
      /\ \A q \in DOMAIN queues : queues'[q].consumed = queues[q].consumed
      /\ \A q \in DOMAIN queues : \A e :
            (e \in queues[q].bound /\ ~(q = name /\ e = c.exchange)) => e \in queues'[q].bound
  <2>. PICK e : e = c.exchange
    OBVIOUS
  <2>1. queues' = [queues EXCEPT ![name].bound = @ \ {e}]
    BY <1>1
  <2>2. DOMAIN queues' = DOMAIN queues
    BY <1>10, <2>1, OneBindingLess
  <2>3. IsMap(queues', QueueNames, [bound : SUBSET Exchanges, consumed : BOOLEAN])
    BY <1>10, <2>1, OneBindingLess
  <2>4. \A q \in DOMAIN queues : queues'[q].consumed = queues[q].consumed
    BY <1>10, <2>1, OneBindingLess
  <2>5. \A q \in DOMAIN queues : \A x :
           (x \in queues[q].bound /\ ~(q = name /\ x = e)) => x \in queues'[q].bound
    BY <1>10, <2>1, OneBindingLess
  <2>. QED  BY <2>2, <2>3, <2>4, <2>5
<1>3. IInv' /\ Stutters
  <2>1. c \notin StoredCalls
    BY CallsOperations
  <2>. QED  BY <1>0, <1>2, <2>1, ExtraPerformed DEF BrokerUnbinds
<1>4. ConsumerTypeOK' /\ unacked' = unacked /\ registered' = registered
  BY <1>0, <1>3, ServiceType DEF IInv
<1>5. \A x : Has(wire, x) <=> (x = c \/ Has(wire', x))
  BY <1>0, OffTheWire
<1>6. AcksFit' /\ MessagesFit'
  BY <1>0, <1>5, FitStays
<1>7. Accounted'
  <2>1. \A q, b : Head(wire) # AckOf(q, b)
    BY AnnouncementFields
  <2>2. \A x : Head(wire) # x => Count(wire, {x}) = Count(Tail(wire), {x})
    BY <1>0, CountOfOne
  <2>3. \A q, b : Count(wire', {AckOf(q, b)}) = Count(wire, {AckOf(q, b)})
    BY <1>0, <2>1, <2>2, Zenon
  <2>. QED  BY <1>0, <1>4, <2>3, AccountStays
<1>8. \A s \in Sources : Served(s) => Served(s)'
  <2>. SUFFICES ASSUME NEW s \in Sources, NEW q \in QueueNames, Connected(s, q),
                       ~Has(wire, Cmd("unbind", s, q))
                PROVE  Connected(s, q)' /\ ~Has(wire', Cmd("unbind", s, q))
    BY DEF Served
  <2>1. ~(q = name /\ s = c.exchange)
    <3>1. c = Cmd("unbind", c.exchange, c.queue) /\ Has(wire, c)
      BY <1>5 DEF Cmd, Command
    <3>. QED  BY <1>11, <3>1
  <2>2. \A e, p : /\ Has(wire, Cmd("bind", e, p)) => Has(wire', Cmd("bind", e, p))
                  /\ Has(wire, Cmd("consume", e, p)) => Has(wire', Cmd("consume", e, p))
    <3>1. \A e, p : Cmd("bind", e, p) # c /\ Cmd("consume", e, p) # c
      BY CommandFields
    <3>. QED  BY <1>5, <3>1
  <2>3. Answered(s, q) => Answered(s, q)'
    BY <1>0 DEF Answered
  <2>4. Bound(s, q) => Bound(s, q)'
    BY <1>2, <2>1, <2>2 DEF Bound
  <2>5. Consumed(q) => Consumed(q)'
    BY <1>2, <2>2 DEF Consumed
  <2>6. Connected(s, q)'
    BY <2>3, <2>4, <2>5 DEF Connected
  <2>. QED  BY <1>5, <2>6
<1>9. WillBeRefused' /\ WereFed' /\ AreFed'
  BY <1>3, <1>4, <1>8 DEF CInv, WillBeRefused, WereFed, AreFed, Doomed, Stutters
<1>. QED  BY <1>3, <1>4, <1>6, <1>7, <1>9 DEF CInv

(* The broker delivers an announcement.                                    *)
LEMMA DeliverKeeps ==
  ASSUME CInv, NEW q \in NamedQueues, Deliver(q)
  PROVE  CInv'
<1>0. /\ IInv /\ replies \in Seq(Reply) /\ waiting[q] \in Seq(Body) /\ waiting[q] # << >>
      /\ unacked[q] \in Seq(Body)
      /\ wire' = wire /\ queues' = queues /\ exchanges' = exchanges
      /\ UNCHANGED <<channelVars, storageVars, historyVars>>
  BY DEF CInv, IInv, TypeOK, ConsumerTypeOK, Deliver, brokerVars
<1>12. PICK s \in Body : s = Head(waiting[q])
  BY <1>0
<1>13. PICK m \in Reply : m = MessageOf(q, s)
  BY AnnouncementTypes
<1>14. replies \in Seq(Reply)
  BY <1>0
<1>15. unacked[q] \in Seq(Body)
  BY <1>0
<1>1. /\ replies' = Append(replies, m)
      /\ unacked' = [unacked EXCEPT ![q] = Append(unacked[q], s)]
      /\ waiting' = [waiting EXCEPT ![q] = Tail(waiting[q])]
      /\ UNCHANGED <<serviceVars, frames, sourceVars>>
  BY <1>12, <1>13 DEF Deliver, MessageOf
<1>2. m.op = "message" /\ m.queue = q /\ m.exchange = s
  BY <1>13, AnnouncementFields
<1>3. \A r : Has(Append(replies, m), r) <=> (Has(replies, r) \/ r = m)
  BY <1>0, HasAppend
<1>4. \A r : Has(replies', r) <=> (Has(replies, r) \/ r = m)
  BY <1>1, <1>3
<1>5. IInv'
  <2>1. replies' \in Seq(Reply)
    BY <1>0, <1>1
  <2>2. TypeOK'
    BY <1>0, <2>1 DEF IInv, TypeOK, channelVars, storageVars, historyVars
  <2>3. AnswersNameQueues' /\ CommandsFit'
    BY <1>0, <1>2, <1>4 DEF IInv, AnswersNameQueues, CommandsFit
  <2>. QED  BY <1>0, <2>2, <2>3 DEF IInv, NothingForgotten, BindedQueuesExist, LoopAndLink,
                 ErrorIsKnown, OnlyCallsAreStored, NoOldNames, channelVars, storageVars, historyVars
<1>6. Stutters
  <2>1. ChannelIsClosed' <=> \E r : Has(replies', r) /\ r.op = "close"
    BY DEF ChannelIsClosed, Has
  <2>2. ChannelIsClosed' <=> ChannelIsClosed
    BY <1>2, <1>4, <2>1, ClosedByAnswer
  <2>. QED  BY <1>0, <2>2
       DEF Stutters, DueCalls, ToReplay, Closed, channelVars, storageVars, historyVars
<1>7. ConsumerTypeOK' /\ registered' = registered
  <2>1. waiting' \in [NamedQueues -> Seq(Body)] /\ unacked' \in [NamedQueues -> Seq(Body)]
    <3>1. Tail(waiting[q]) \in Seq(Body) /\ Append(unacked[q], s) \in Seq(Body)
      BY <1>0
    <3>. QED  BY <1>1, <3>1 DEF CInv, ConsumerTypeOK
  <2>2. TypeOK'
    BY <1>5 DEF IInv
  <2>. QED  BY <1>1, <2>1, <2>2 DEF CInv, ConsumerTypeOK, serviceVars, sourceVars
<1>8. AcksFit' /\ MessagesFit'
  BY <1>0, <1>2, <1>4 DEF CInv, AcksFit, MessagesFit
<1>9. Accounted'
  <2>. SUFFICES ASSUME NEW p \in NamedQueues, NEW x \in Body
                PROVE  /\ OnItsWay(p, x)' <= Count(unacked'[p], {x})
                       /\ p = Available => OnItsWay(p, x)' = Count(unacked'[p], {x})
    BY DEF Accounted
  <2>1. /\ OnItsWay(p, x) <= Count(unacked[p], {x})
        /\ p = Available => OnItsWay(p, x) = Count(unacked[p], {x})
    BY DEF CInv, Accounted
  <2>2. /\ Count(wire, {AckOf(p, x)}) \in Nat /\ Count(replies, {MessageOf(p, x)}) \in Nat
        /\ Count(unacked[p], {x}) \in Nat
    BY Counted
  <2>3. CASE p = q /\ x = s
    <3>1. Count(replies', {MessageOf(p, x)}) = Count(replies, {MessageOf(p, x)}) + 1
      <4>1. Count(Append(replies, m), {m}) = Count(replies, {m}) + 1
        BY <1>14, <1>15, OneMore
      <4>. QED  BY <1>1, <1>13, <2>3, <4>1, Zenon
    <3>2. Count(unacked'[p], {x}) = Count(unacked[p], {x}) + 1
      <4>1. unacked'[p] = Append(unacked[p], s)
        BY <1>1, <2>3 DEF CInv, ConsumerTypeOK
      <4>2. Count(Append(unacked[q], s), {s}) = Count(unacked[q], {s}) + 1
        BY <1>14, <1>15, OneMore
      <4>. QED  BY <2>3, <4>1, <4>2, Zenon
    <3>3. Count(wire', {AckOf(p, x)}) = Count(wire, {AckOf(p, x)})
      BY <1>0
    <3>. QED  BY <2>1, <2>2, <3>1, <3>2, <3>3 DEF OnItsWay
  <2>4. CASE ~(p = q /\ x = s)
    <3>1. MessageOf(p, x) # m
      BY <1>2, <1>13, <2>4, AnnouncementFields
    <3>2. Count(replies', {MessageOf(p, x)}) = Count(replies, {MessageOf(p, x)})
      <4>1. \A y : y # m => Count(Append(replies, m), {y}) = Count(replies, {y})
        BY <1>14, <1>15, OneMore
      <4>. QED  BY <1>1, <3>1, <4>1, Zenon
    <3>3. Count(unacked'[p], {x}) = Count(unacked[p], {x})
      <4>1. CASE p = q
        <5>1. unacked'[p] = Append(unacked[p], s)
          BY <1>1, <4>1 DEF CInv, ConsumerTypeOK
        <5>2. \A y : y # s => Count(Append(unacked[q], s), {y}) = Count(unacked[q], {y})
          BY <1>14, <1>15, OneMore
        <5>. QED  BY <2>4, <4>1, <5>1, <5>2, Zenon
      <4>2. CASE p # q
        BY <1>1, <4>2 DEF CInv, ConsumerTypeOK
      <4>. QED  BY <4>1, <4>2
    <3>. QED  BY <1>0, <2>1, <3>2, <3>3, Zenon DEF OnItsWay
  <2>. QED  BY <2>3, <2>4
<1>10. GoesOn
  <2>1. \A e, p : Answered(e, p) => Answered(e, p)'
    BY <1>4 DEF Answered
  <2>. QED  BY <1>0, <2>1 DEF GoesOn, Consumed, Bound
<1>11. WillBeRefused' /\ WereFed' /\ AreFed'
  BY <1>0, <1>6, <1>7, <1>10, FeedingStays
<1>. QED  BY <1>5, <1>7, <1>8, <1>9, <1>11 DEF CInv

(* A lost channel or connection takes with it what was under way, and on   *)
(* the next one every call is due.                                         *)
LEMMA LossKeeps ==
  ASSUME CInv, ChannelClosed \/ \E restart \in MayRestart : LinkLost(restart)
  PROVE  CInv'
<1>0. IInv /\ UNCHANGED <<serviceVars, sourceVars>> /\ wire' = << >> /\ replies' = << >>
  BY DEF CInv, ChannelClosed, LinkLost, OnChannelClosed, OnConnectionLost, MarkError
<1>1. /\ unacked' = NoAnnouncements /\ frames' = {}
      /\ \/ waiting' = NoAnnouncements
         \/ waiting' = [q \in NamedQueues |-> unacked[q] \o waiting[q]]
  BY Zenon DEF ChannelClosed, LinkLost, Requeue
<1>2. OnChannelClosed \/ \E restart \in MayRestart : OnConnectionLost(restart)
  BY DEF ChannelClosed, LinkLost
<1>3. IInv'
  BY <1>0, <1>2, OnChannelClosedInv, OnConnectionLostInv
<1>4. DueCalls' = calls /\ calls' = calls
  <2>1. Abstract!Fail
    BY <1>0, <1>2, LossFails, Zenon DEF ConnectionLost
  <2>. QED  BY <2>1, Zenon DEF Abstract!Fail
<1>5. ConsumerTypeOK' /\ registered' = registered
  <2>1. NoAnnouncements \in [NamedQueues -> Seq(Body)]
    BY DEF NoAnnouncements
  <2>2. [q \in NamedQueues |-> unacked[q] \o waiting[q]] \in [NamedQueues -> Seq(Body)]
    BY ConcatProperties DEF CInv, ConsumerTypeOK
  <2>3. TypeOK' /\ waiting' \in [NamedQueues -> Seq(Body)] /\ unacked' \in [NamedQueues -> Seq(Body)]
    BY <1>1, <1>3, <2>1, <2>2, Zenon DEF IInv
  <2>. QED  BY <1>0, <1>1, <2>3 DEF CInv, ConsumerTypeOK, serviceVars, sourceVars
<1>6. AcksFit' /\ MessagesFit'
  BY <1>0, HasEmpty DEF AcksFit, MessagesFit
<1>7. Accounted'
  <2>. SUFFICES ASSUME NEW q \in NamedQueues, NEW b \in Body
                PROVE  OnItsWay(q, b)' = 0 /\ Count(unacked'[q], {b}) = 0
    <3>1. 0 <= 0
      OBVIOUS
    <3>. QED  BY <3>1, Zenon DEF Accounted
  <2>1. unacked'[q] = << >>
    BY <1>1 DEF NoAnnouncements
  <2>. QED  BY <1>0, <2>1, CountEmpty DEF OnItsWay
<1>8. WillBeRefused' /\ WereFed' /\ AreFed'
  BY <1>4, <1>5 DEF CInv, WillBeRefused, WereFed, AreFed, Doomed
<1>. QED  BY <1>3, <1>5, <1>6, <1>7, <1>8 DEF CInv

-----------------------------------------------------------------------------
(* The callbacks.                                                          *)

(* A callback runs while nothing is to be repeated: what it calls is due   *)
(* from now on.                                                            *)
LEMMA CallsAreDue ==
  ASSUME IInv, NEW made \in Seq(StoredCalls), NEW more \in Seq(Command), MakeCalls(made, more),
         loop = "dispatch", link = "open",
         \A c \in Command : Has(more, c) => c.op \notin {"declare", "queue"}
  PROVE  /\ \A c \in StoredCalls : Has(DueCalls', c) <=> (Has(DueCalls, c) \/ Has(made, c))
         /\ \A c : Has(calls', c) <=> (Has(calls, c) \/ Has(made, c))
         /\ \A c : Has(wire', c) <=> (Has(wire, c) \/ Has(made, c) \/ Has(more, c))
<1>0. /\ wire \in Seq(Command) /\ calls \in Seq(StoredCalls) /\ made \in Seq(Command)
      /\ made \o more \in Seq(Command) /\ Usable
  <2>1. made \in Seq(Command)
    BY CallsAreCommands, SeqMonotonic, Zenon
  <2>. QED  BY <2>1, ConcatProperties DEF IInv, TypeOK, OnlyCallsAreStored, Usable
<1>1. wire' = Sent(made \o more) /\ calls' = calls \o made /\ UNCHANGED channelVars
  BY DEF MakeCalls
<1>2. \A c : Has(wire', c) <=> (Has(wire, c) \/ Has(made, c) \/ Has(more, c))
  BY <1>0, <1>1, SentHas, HasConcat
<1>3. \A c : Has(calls', c) <=> (Has(calls, c) \/ Has(made, c))
  BY <1>0, <1>1, HasConcat
<1>4. ToReplay = << >> /\ ToReplay' = << >>
  BY <1>1 DEF ToReplay, channelVars, IInv, ErrorIsKnown
<1>5. wire' \in Seq(Command)
  BY <1>0, <1>1, SentCommands
<1>6. DueCalls = Selected(wire, StoredCalls) /\ DueCalls' = Selected(wire', StoredCalls)
  <2>1. Selected(wire, StoredCalls) \in Seq(Command) /\ Selected(wire', StoredCalls) \in Seq(Command)
    BY <1>0, <1>5, SelectedIn
  <2>2. /\ Selected(wire, StoredCalls) \o << >> = Selected(wire, StoredCalls)
        /\ Selected(wire', StoredCalls) \o << >> = Selected(wire', StoredCalls)
    BY <2>1, ConcatEmptySeq
  <2>. QED  BY <1>4, <2>2 DEF DueCalls
<1>7. \A c : /\ Has(Selected(wire, StoredCalls), c) <=> (Has(wire, c) /\ c \in StoredCalls)
             /\ Has(Selected(wire', StoredCalls), c) <=> (Has(wire', c) /\ c \in StoredCalls)
  BY <1>0, <1>5, SelectedHas
<1>8. \A c \in StoredCalls : ~Has(more, c)
  BY CallsOperations
<1>9. \A c \in StoredCalls : Has(DueCalls', c) <=> (Has(DueCalls, c) \/ Has(made, c))
  BY <1>2, <1>6, <1>7, <1>8
<1>. QED  BY <1>2, <1>3, <1>9

(* The announcement that has arrived is the next reply.                    *)
LEMMA Arrival ==
  ASSUME CInv, NEW q \in NamedQueues, NEW b, Arrives(q, b)
  PROVE  /\ b \in Body /\ loop = "dispatch" /\ link = "open"
         /\ replies' \in Seq(Reply)
         /\ \A r : Has(replies', r) => Has(replies, r)
         /\ \A r \in Reply : r.op # "message" => (Has(replies', r) <=> Has(replies, r))
         /\ \A x : /\ x = MessageOf(q, b) => Count(replies, {x}) = Count(replies', {x}) + 1
                   /\ x # MessageOf(q, b) => Count(replies, {x}) = Count(replies', {x})
<1>1. /\ replies \in Seq(Reply) /\ replies # << >> /\ replies' = Tail(replies)
      /\ Head(replies) = MessageOf(q, b) /\ loop = "dispatch" /\ link = "open"
  BY DEF Arrives, MessageOf, CInv, IInv, TypeOK
<1>2. \A r : Has(replies, r) <=> (r = Head(replies) \/ Has(Tail(replies), r))
  BY <1>1, HasTail
<1>3. Head(replies) \in Reply /\ Tail(replies) \in Seq(Reply)
  BY <1>1
<1>4. b \in Body
  BY <1>1, <1>2, <1>3, AnnouncementFields DEF CInv, MessagesFit
<1>5. \A x : /\ Head(replies) = x => Count(replies, {x}) = Count(Tail(replies), {x}) + 1
             /\ Head(replies) # x => Count(replies, {x}) = Count(Tail(replies), {x})
  BY <1>1, CountOfOne
<1>6. MessageOf(q, b).op = "message"
  BY AnnouncementFields
<1>. QED  BY <1>1, <1>2, <1>3, <1>4, <1>5, <1>6

(* Its acknowledgement is sent after everything else, or it is obsolete    *)
(* and none is.                                                            *)
Settles(q, b, more) ==
  /\ \A c : Has(more, c) => c = AckOf(q, b) \/ (c.op = "unbind" /\ c.queue \in DOMAIN queues)
  /\ \/ \E first \in Seq(Command) : more = first \o <<AckOf(q, b)>> /\ ~Has(first, AckOf(q, b))
     \/ more = << >> /\ q # Available

(* What a callback sends besides its calls.                                *)
LEMMA NoCallsInReply ==
  ASSUME NEW q, NEW b, NEW more, Settles(q, b, more), NEW c, Has(more, c)
  PROVE  c.op \in {"ack", "unbind"} /\ c.op \notin {"declare", "queue"}
BY AnnouncementFields DEF Settles

(* The commands of a callback fit, and settle the account.                 *)
LEMMA CallbackSettles ==
  ASSUME CInv, NEW q \in NamedQueues, NEW b, Arrives(q, b),
         NEW made \in Seq(StoredCalls), NEW more \in Seq(Command), MakeCalls(made, more),
         Settles(q, b, more), unacked' = unacked
  PROVE  IInv' /\ GoesOn /\ AcksFit' /\ MessagesFit' /\ Accounted'
<1>0. /\ IInv /\ wire \in Seq(Command) /\ made \in Seq(Command) /\ Usable
      /\ wire' = Sent(made \o more) /\ b \in Body /\ loop = "dispatch" /\ link = "open"
      /\ queues' = queues
  <2>1. made \in Seq(Command)
    BY CallsAreCommands, SeqMonotonic, Zenon
  <2>. QED  BY <2>1, Arrival DEF CInv, IInv, TypeOK, MakeCalls, Usable, brokerVars
<1>1. \A c : Has(more, c) => c.op \in {"ack", "unbind"} /\ (c.op = "unbind" => c.queue \in DOMAIN queues)
  BY AnnouncementFields DEF Settles
<1>2. \A c : Has(made, c) => c.op \in {"declare", "queue"}
  BY HasInSet, CallsOperations
<1>3. replies' \in Seq(Reply) /\ \A r \in Reply : Has(replies', r) => Has(replies, r)
  BY Arrival
<1>4. IInv'
  BY <1>0, <1>1, <1>3, CallsInv
<1>5. GoesOn
  <2>1. \A r \in Reply : r.op = "queue-ok" => (Has(replies', r) <=> Has(replies, r))
    BY Arrival
  <2>. QED  BY <1>0, <1>1, <2>1, CallsGoOn
<1>6. \A c : Has(wire', c) <=> (Has(wire, c) \/ Has(made, c) \/ Has(more, c))
  BY <1>0, <1>1, CallsAreDue
<1>7. AcksFit' /\ MessagesFit'
  <2>1. ASSUME NEW c \in Command, Has(wire', c), c.op = "ack"
        PROVE  c.queue \in NamedQueues /\ c.exchange \in Body
    <3>1. Has(wire, c) \/ c = AckOf(q, b)
      BY <1>2, <1>6, <2>1 DEF Settles
    <3>. QED  BY <1>0, <2>1, <3>1, AnnouncementFields DEF CInv, AcksFit
  <2>. QED  BY <1>3, <2>1 DEF CInv, AcksFit, MessagesFit
<1>8. \A p \in NamedQueues, x \in Body : AckOf(p, x) # AckOf(q, b) => ~Has(made \o more, AckOf(p, x))
  BY <1>0, <1>2, HasConcat, AnnouncementFields DEF Settles
<1>9. \A p \in NamedQueues, x \in Body : AckOf(p, x) # AckOf(q, b) =>
         Count(wire', {AckOf(p, x)}) = Count(wire, {AckOf(p, x)})
  <2>1. made \o more \in Seq(Command)
    BY <1>0, ConcatProperties
  <2>. QED  BY <1>0, <1>8, <2>1, SentCount
<1>10. \/ Count(wire', {AckOf(q, b)}) = Count(wire, {AckOf(q, b)}) + 1
       \/ Count(wire', {AckOf(q, b)}) = Count(wire, {AckOf(q, b)}) /\ q # Available
  <2>1. CASE \E first \in Seq(Command) : /\ more = first \o <<AckOf(q, b)>>
                                          /\ ~Has(first, AckOf(q, b))
    <3>1. PICK first \in Seq(Command) : more = first \o <<AckOf(q, b)>> /\ ~Has(first, AckOf(q, b))
      BY <2>1
    <3>2. PICK a \in Command : a = AckOf(q, b)
      BY <1>0, AnnouncementTypes
    <3>3. made \o first \in Seq(Command) /\ <<a>> \in Seq(Command)
      BY <1>0, ConcatProperties, ShortSequences
    <3>4. ~Has(made \o first, a)
      BY <1>0, <1>2, <3>1, <3>2, HasConcat, AnnouncementFields
    <3>5. made \o (first \o <<a>>) = (made \o first) \o <<a>>
      BY <1>0, <3>3, ConcatAssociative
    <3>6. Count(Sent((made \o first) \o <<a>>), {a}) = Count(wire, {a}) + 1
      BY <1>0, <3>3, <3>4, SentOnce
    <3>. QED  BY <1>0, <3>1, <3>2, <3>5, <3>6
  <2>2. CASE more = << >> /\ q # Available
    <3>1. made \o more \in Seq(Command)
      BY <1>0, ConcatProperties
    <3>2. ~Has(made \o more, AckOf(q, b))
      BY <1>0, <1>2, <2>2, HasConcat, HasEmpty, AnnouncementFields
    <3>. QED  BY <1>0, <2>2, <3>1, <3>2, SentCount
  <2>. QED  BY <2>1, <2>2 DEF Settles
<1>11. Accounted'
  <2>. SUFFICES ASSUME NEW p \in NamedQueues, NEW x \in Body
                PROVE  /\ OnItsWay(p, x)' <= Count(unacked[p], {x})
                       /\ p = Available => OnItsWay(p, x)' = Count(unacked[p], {x})
    BY DEF Accounted
  <2>1. /\ OnItsWay(p, x) <= Count(unacked[p], {x})
        /\ p = Available => OnItsWay(p, x) = Count(unacked[p], {x})
    BY DEF CInv, Accounted
  <2>2. /\ Count(wire, {AckOf(p, x)}) \in Nat /\ Count(replies, {MessageOf(p, x)}) \in Nat
        /\ Count(unacked[p], {x}) \in Nat /\ Count(replies', {MessageOf(p, x)}) \in Nat
    BY <1>3, Counted, CountType
  <2>3. CASE p = q /\ x = b
    <3>1. Count(replies, {MessageOf(p, x)}) = Count(replies', {MessageOf(p, x)}) + 1
      BY <2>3, Arrival
    <3>. QED  BY <1>10, <2>1, <2>2, <2>3, <3>1 DEF OnItsWay
  <2>4. CASE ~(p = q /\ x = b)
    <3>1. AckOf(p, x) # AckOf(q, b) /\ MessageOf(p, x) # MessageOf(q, b)
      BY <2>4, AnnouncementFields
    <3>2. Count(replies', {MessageOf(p, x)}) = Count(replies, {MessageOf(p, x)})
      BY <3>1, Arrival
    <3>3. Count(wire', {AckOf(p, x)}) = Count(wire, {AckOf(p, x)})
      BY <1>9, <3>1
    <3>. QED  BY <2>1, <3>2, <3>3, Zenon DEF OnItsWay
  <2>. QED  BY <2>3, <2>4
<1>. QED  BY <1>4, <1>5, <1>7, <1>11

(* A source that stays registered is not unbound, and a new one is fed.    *)
LEMMA CallbackFeeds ==
  ASSUME CInv, NEW q \in NamedQueues, NEW b, Arrives(q, b),
         NEW made \in Seq(StoredCalls), NEW more \in Seq(Command), MakeCalls(made, more),
         Settles(q, b, more), GoesOn,
         \A s \in registered' \cap Sources :
            \/ s \in registered /\ (Doomed \/ \A p \in QueueNames : ~Has(more, Cmd("unbind", s, p)))
            \/ Has(made, DeclareExchange(DefaultExchange))
            \/ s # DefaultExchange /\ Has(made, AddListener(s, ""))
  PROVE  WillBeRefused' /\ WereFed' /\ AreFed'
<1>1. loop = "dispatch" /\ link = "open" /\ link' = link
  BY Arrival DEF MakeCalls, channelVars
<1>2. \A c \in Command : Has(more, c) => c.op \notin {"declare", "queue"}
  BY NoCallsInReply
<1>3. /\ \A c \in StoredCalls : Has(DueCalls', c) <=> (Has(DueCalls, c) \/ Has(made, c))
      /\ \A c : Has(calls', c) <=> (Has(calls, c) \/ Has(made, c))
      /\ \A c : Has(wire', c) <=> (Has(wire, c) \/ Has(made, c) \/ Has(more, c))
  BY <1>1, <1>2, CallsAreDue DEF CInv
<1>4. Closed => Closed'
  <2>1. \A r \in Reply : r.op # "message" => (Has(replies', r) <=> Has(replies, r))
    BY Arrival
  <2>2. replies \in Seq(Reply)
    BY DEF CInv, IInv, TypeOK
  <2>3. ChannelIsClosed => \E r \in Reply : Has(replies, r) /\ r.op = "close"
    BY <2>2, ClosedByAnswer, HasInSet
  <2>4. ChannelIsClosed' <=> \E r : Has(replies', r) /\ r.op = "close"
    BY DEF ChannelIsClosed, Has
  <2>. QED  BY <1>1, <2>1, <2>3, <2>4 DEF Closed
<1>5. /\ DeclareExchange(DefaultExchange) \in StoredCalls
      /\ \A s \in Sources : AddListener(s, "") \in StoredCalls
  BY ConsumerNames, DeclarationCall, UnnamedCall
<1>6. Doomed' <=> (Doomed \/ Has(made, DeclareExchange(DefaultExchange)))
  BY <1>3 DEF Doomed
<1>7. WillBeRefused'
  BY <1>3, <1>4, <1>5, <1>6 DEF CInv, WillBeRefused
<1>8. WereFed'
  BY <1>3, <1>6 DEF CInv, WereFed
<1>9. ASSUME NEW s \in Sources, Served(s), \A p \in QueueNames : ~Has(more, Cmd("unbind", s, p))
      PROVE  Served(s)'
  <2>1. \A p : ~Has(made, Cmd("unbind", s, p))
    <3>1. \A c : Has(made, c) => c.op \in {"declare", "queue"}
      BY HasInSet, CallsOperations
    <3>2. \A p : Cmd("unbind", s, p).op = "unbind"
      BY CommandFields
    <3>. QED  BY <3>1, <3>2
  <2>. QED  BY <1>3, <1>9, <2>1, StaysServed
<1>10. AreFed'
  <2>. SUFFICES ASSUME ~Closed', NEW s \in registered' \cap Sources
                PROVE  Doomed' \/ Has(DueCalls', AddListener(s, "")) \/ Served(s)'
    BY DEF AreFed
  <2>1. s \in registered => Doomed \/ Has(DueCalls, AddListener(s, "")) \/ Served(s)
    BY <1>4 DEF CInv, AreFed
  <2>. QED  BY <1>3, <1>5, <1>6, <1>9, <2>1
<1>. QED  BY <1>7, <1>8, <1>10

(* A step of a callback, from its two halves.                              *)
LEMMA CallbackKeeps ==
  ASSUME CInv, NEW q \in NamedQueues, NEW b, Arrives(q, b),
         NEW made \in Seq(StoredCalls), NEW more \in Seq(Command), MakeCalls(made, more),
         Settles(q, b, more), UNCHANGED <<queued, sourceVars, messageVars>>,
         registered' \subseteq Sources \cup {BadId},
         \A s \in registered' \cap Sources :
            \/ s \in registered /\ (Doomed \/ \A p \in QueueNames : ~Has(more, Cmd("unbind", s, p)))
            \/ Has(made, DeclareExchange(DefaultExchange))
            \/ s # DefaultExchange /\ Has(made, AddListener(s, ""))
  PROVE  CInv'
<1>1. unacked' = unacked
  BY DEF messageVars
<1>2. IInv' /\ GoesOn /\ AcksFit' /\ MessagesFit' /\ Accounted'
  BY <1>1, CallbackSettles
<1>3. WillBeRefused' /\ WereFed' /\ AreFed'
  BY <1>2, CallbackFeeds
<1>4. ConsumerTypeOK'
  BY <1>2 DEF CInv, IInv, ConsumerTypeOK, sourceVars, messageVars
<1>. QED  BY <1>2, <1>3, <1>4 DEF CInv

(* The commands of the callbacks settle what arrives.                      *)
LEMMA AckSettles ==
  ASSUME NEW q \in NamedQueues, NEW b \in Body
  PROVE  /\ Ack(q, b) \in Seq(Command) /\ Settles(q, b, Ack(q, b))
         /\ \A e, p : ~Has(Ack(q, b), Cmd("unbind", e, p))
<1>1. Ack(q, b) = <<AckOf(q, b)>> /\ AckOf(q, b) \in Command
  BY AnnouncementTypes DEF Ack, AckOf
<1>2. <<AckOf(q, b)>> \in Seq(Command) /\ << >> \in Seq(Command)
  BY <1>1, ShortSequences, EmptySeq
<1>3. << >> \o <<AckOf(q, b)>> = <<AckOf(q, b)>>
  BY <1>2, ConcatEmptySeq
<1>4. \A c : Has(Ack(q, b), c) <=> c = AckOf(q, b)
  BY <1>1, HasOne
<1>5. Settles(q, b, Ack(q, b))
  BY <1>1, <1>2, <1>3, <1>4, HasEmpty DEF Settles
<1>6. \A e, p : Cmd("unbind", e, p) # AckOf(q, b)
  BY CommandFields, AnnouncementFields
<1>. QED  BY <1>1, <1>2, <1>4, <1>5, <1>6

(* A body without a source.                                                *)
LEMMA NoAnnouncementKeeps ==
  ASSUME CInv, NEW q \in NamedQueues, NoAnnouncement(q)
  PROVE  CInv'
<1>1. /\ Arrives(q, NoSource) /\ MakeCalls(<< >>, Ack(q, NoSource))
      /\ UNCHANGED <<serviceVars, sourceVars, messageVars>> /\ NoSource \in Body
  BY Arrival DEF NoAnnouncement
<1>2. /\ << >> \in Seq(StoredCalls) /\ Ack(q, NoSource) \in Seq(Command)
      /\ Settles(q, NoSource, Ack(q, NoSource))
      /\ \A e, p : ~Has(Ack(q, NoSource), Cmd("unbind", e, p))
  BY <1>1, EmptySeq, AckSettles
<1>3. registered' = registered /\ registered \subseteq Sources \cup {BadId} /\ queued' = queued
  BY <1>1 DEF CInv, ConsumerTypeOK, serviceVars
<1>. QED  BY <1>1, <1>2, <1>3, CallbackKeeps

(* The ids and exchanges of the bodies that reach a source.                *)
LEMMA SourceNames ==
  ASSUME NEW body \in Body \ {NoSource}, NEW id \in IdsIn(body)
  PROVE  /\ id \in Sources \cup {BadId}
         /\ ExchangeIn(body) \in Exchanges
         /\ ExchangeIn(body) = DefaultExchange \/ ExchangeIn(body) = id
BY SourcesConstants, ConsumerNames DEF SourcesConstants, Body, IdsIn, ExchangeIn, BadId

(* A new source is fed, a known one only acknowledged.                     *)
LEMMA AvailableSourceKeeps ==
  ASSUME CInv, NEW body \in Body \ {NoSource}, AvailableSource(body)
  PROVE  CInv'
<1>1. PICK id \in IdsIn(body) :
         /\ registered' = registered \cup {id}
         /\ MakeCalls(IF id \in registered THEN << >> ELSE Feed(ExchangeIn(body)),
                      Ack(Available, body))
  BY DEF AvailableSource
<1>2. /\ Arrives(Available, body) /\ Available \in NamedQueues /\ body \in Body
      /\ UNCHANGED <<queued, sourceVars, messageVars>>
  BY ConsumerNames DEF AvailableSource
<1>3. /\ Ack(Available, body) \in Seq(Command) /\ Settles(Available, body, Ack(Available, body))
      /\ \A e, p : ~Has(Ack(Available, body), Cmd("unbind", e, p))
  BY <1>2, AckSettles
<1>4. registered' \subseteq Sources \cup {BadId}
  BY <1>1, SourceNames DEF CInv, ConsumerTypeOK
<1>5. CASE id \in registered
  <2>1. MakeCalls(<< >>, Ack(Available, body)) /\ << >> \in Seq(StoredCalls)
    BY <1>1, <1>5, EmptySeq
  <2>2. registered' = registered
    BY <1>1, <1>5
  <2>. QED  BY <1>2, <1>3, <1>4, <2>1, <2>2, CallbackKeeps
<1>6. CASE id \notin registered
  <2>. PICK e \in Exchanges : e = ExchangeIn(body) /\ (e = DefaultExchange \/ e = id)
    BY SourceNames
  <2>1. DeclareExchange(e) \in StoredCalls /\ AddListener(e, "") \in StoredCalls
    BY DeclarationCall, UnnamedCall
  <2>2. Feed(e) \in Seq(StoredCalls)
    BY <2>1, ShortSequences DEF Feed
  <2>3. \A c : Has(Feed(e), c) <=> (c = DeclareExchange(e) \/ c = AddListener(e, ""))
    BY HasTwo DEF Feed
  <2>4. MakeCalls(Feed(e), Ack(Available, body))
    BY <1>1, <1>6
  <2>5. \A s \in registered' \cap Sources :
           \/ s \in registered
           \/ Has(Feed(e), DeclareExchange(DefaultExchange))
           \/ s # DefaultExchange /\ Has(Feed(e), AddListener(s, ""))
    BY <1>1, <2>3
  <2>. QED  BY <1>2, <1>3, <1>4, <2>2, <2>4, <2>5, CallbackKeeps
<1>. QED  BY <1>5, <1>6

(* What is unbound is a queue that the client knows.                       *)
LEMMA UnbindCommands ==
  ASSUME IInv, loop = "dispatch", link = "open", NEW e \in Exchanges
  PROVE  /\ Unbind(e) \in Seq(Command)
         /\ \A c : Has(Unbind(e), c) => /\ c.op = "unbind" /\ c.exchange = e
                                        /\ c.queue \in DOMAIN queues
<1>1. CASE e \in DOMAIN m_binded_queues
  <2>. PICK q \in DOMAIN queues : q = m_binded_queues[e]
    BY <1>1 DEF IInv, BindedQueuesExist
  <2>1. q \in QueueNames
    BY DEF IInv, TypeOK, IsMap
  <2>2. Cmd("unbind", e, q) \in Command
    BY <2>1 DEF Cmd, Command
  <2>3. Unbind(e) = <<Cmd("unbind", e, q)>>
    BY <1>1 DEF Unbind
  <2>. QED  BY <2>2, <2>3, ShortSequences, HasOne, CommandFields
<1>2. CASE e \notin DOMAIN m_binded_queues
  <2>1. Unbind(e) = << >>
    BY <1>2 DEF Unbind
  <2>. QED  BY <2>1, EmptySeq, HasEmpty
<1>. QED  BY <1>1, <1>2

(* A source that goes is unbound, no other one.                            *)
LEMMA ObsoleteSourceKeeps ==
  ASSUME CInv, NEW body \in Body \ {NoSource}, ObsoleteSource(body)
  PROVE  CInv'
<1>1. PICK id \in IdsIn(body) :
         /\ registered' = registered \ {id}
         /\ MakeCalls(<< >>, IF id \in registered
                             THEN Unbind(ExchangeIn(body)) \o Ack(Obsolete, body)
                             ELSE << >>)
  BY DEF ObsoleteSource
<1>2. /\ Arrives(Obsolete, body) /\ Obsolete \in NamedQueues /\ body \in Body
      /\ UNCHANGED <<queued, sourceVars, messageVars>> /\ loop = "dispatch" /\ link = "open"
  BY ConsumerNames, Arrival DEF ObsoleteSource
<1>3. registered' \subseteq Sources \cup {BadId} /\ << >> \in Seq(StoredCalls) /\ << >> \in Seq(Command)
  BY <1>1, EmptySeq DEF CInv, ConsumerTypeOK
<1>4. Available # Obsolete
  BY DEF Available, Obsolete
<1>5. CASE id \notin registered
  <2>1. MakeCalls(<< >>, << >>)
    BY <1>1, <1>5
  <2>2. Settles(Obsolete, body, << >>)
    BY <1>4, HasEmpty DEF Settles
  <2>3. \A s \in registered' : s \in registered
    BY <1>1
  <2>. QED  BY <1>2, <1>3, <2>1, <2>2, <2>3, HasEmpty, CallbackKeeps
<1>6. CASE id \in registered
  <2>. PICK e \in Exchanges : e = ExchangeIn(body) /\ (e = DefaultExchange \/ e = id)
    BY SourceNames
  <2>1. MakeCalls(<< >>, Unbind(e) \o Ack(Obsolete, body))
    BY <1>1, <1>6
  <2>2. /\ Unbind(e) \in Seq(Command)
        /\ \A c : Has(Unbind(e), c) => c.op = "unbind" /\ c.exchange = e /\ c.queue \in DOMAIN queues
    BY <1>2, UnbindCommands DEF CInv
  <2>3. /\ Ack(Obsolete, body) \in Seq(Command) /\ Ack(Obsolete, body) = <<AckOf(Obsolete, body)>>
    BY <1>2, AckSettles DEF Ack, AckOf
  <2>4. Unbind(e) \o Ack(Obsolete, body) \in Seq(Command)
    BY <2>2, <2>3, ConcatProperties
  <2>5. \A c : Has(Unbind(e) \o Ack(Obsolete, body), c)
                 <=> (Has(Unbind(e), c) \/ c = AckOf(Obsolete, body))
    <3>1. \A c : Has(Unbind(e) \o Ack(Obsolete, body), c)
                   <=> (Has(Unbind(e), c) \/ Has(Ack(Obsolete, body), c))
      BY <2>2, <2>3, HasConcat
    <3>2. \A c : Has(Ack(Obsolete, body), c) <=> c = AckOf(Obsolete, body)
      BY <2>3, HasOne
    <3>. QED  BY <3>1, <3>2
  <2>6. Settles(Obsolete, body, Unbind(e) \o Ack(Obsolete, body))
    <3>1. ~Has(Unbind(e), AckOf(Obsolete, body))
      BY <2>2, AnnouncementFields
    <3>2. \E first \in Seq(Command) : /\ Unbind(e) \o Ack(Obsolete, body)
                                           = first \o <<AckOf(Obsolete, body)>>
                                      /\ ~Has(first, AckOf(Obsolete, body))
      BY <2>2, <2>3, <3>1
    <3>. QED  BY <2>2, <2>5, <3>2 DEF Settles
  <2>7. ASSUME NEW s \in registered' \cap Sources
        PROVE  /\ s \in registered
               /\ Doomed \/ \A p \in QueueNames : ~Has(Unbind(e) \o Ack(Obsolete, body), Cmd("unbind", s, p))
    <3>1. s \in registered /\ s # id /\ (Doomed \/ s # DefaultExchange)
      BY <1>1 DEF CInv, WereFed
    <3>2. Doomed \/ s # e
      BY <3>1
    <3>3. ASSUME NEW p, Has(Unbind(e) \o Ack(Obsolete, body), Cmd("unbind", s, p))
          PROVE  s = e
      <4>1. Cmd("unbind", s, p) # AckOf(Obsolete, body)
        BY CommandFields, AnnouncementFields
      <4>2. Has(Unbind(e), Cmd("unbind", s, p))
        BY <2>5, <3>3, <4>1
      <4>. QED  BY <2>2, <4>2, CommandFields
    <3>. QED  BY <3>1, <3>2, <3>3
  <2>. QED  BY <1>2, <1>3, <2>1, <2>4, <2>6, <2>7, CallbackKeeps
<1>. QED  BY <1>5, <1>6

(* The invariant of the client does not depend on anything else.           *)
LEMMA ClientStays ==
  ASSUME IInv, UNCHANGED clientVars
  PROVE  IInv' /\ TypeOK' /\ Stutters
<1>1. IInv'
  BY Consecution
<1>2. Stutters
  BY DEF Stutters, clientVars, channelVars, storageVars, historyVars, DueCalls, ToReplay, Closed,
         ChannelIsClosed
<1>. QED  BY <1>1, <1>2 DEF IInv

(* A step that concerns neither the client nor what is acknowledged.       *)
LEMMA SourcesStep ==
  ASSUME CInv, ConsumerTypeOK', UNCHANGED <<clientVars, registered, unacked>>
  PROVE  CInv'
<1>1. IInv' /\ Stutters
  BY ClientStays DEF CInv
<1>2. wire' = wire /\ replies' = replies /\ queues' = queues /\ calls' = calls
      /\ exchanges' = exchanges
  BY DEF clientVars, brokerVars, historyVars
<1>3. AcksFit' /\ MessagesFit'
  BY <1>2, FitStays
<1>4. Accounted'
  BY <1>2, AccountStays
<1>5. \A s, q : Served(s) => Served(s)'
  BY <1>2 DEF Served, Connected, Answered, Bound, Consumed
<1>6. WillBeRefused' /\ WereFed' /\ AreFed'
  BY <1>1, <1>2, <1>5 DEF CInv, WillBeRefused, WereFed, AreFed, Doomed, Stutters
<1>. QED  BY <1>1, <1>3, <1>4, <1>6 DEF CInv

(* The sources publish.                                                    *)
LEMMA SourcesKeep ==
  ASSUME CInv, (\E s \in Sources : Film(s)) \/ (\E q \in NamedQueues, body \in Body : Announce(q, body))
  PROVE  CInv'
<1>1. CASE \E s \in Sources : Film(s)
  <2>. PICK s \in Sources : Film(s)
    BY <1>1
  <2>1. filmed' \in 1..MaxFrames
    BY SourcesConstants DEF SourcesConstants, Film, CInv, ConsumerTypeOK
  <2>2. DOMAIN queues \subseteq QueueNames
    BY DEF CInv, IInv, TypeOK, IsMap
  <2>3. \A q \in DOMAIN queues : [queue |-> q, src |-> s, num |-> filmed'] \in FrameMessage
    BY <2>1, <2>2 DEF FrameMessage
  <2>4. frames' \subseteq FrameMessage
    BY <2>3 DEF Film, CInv, ConsumerTypeOK
  <2>5. UNCHANGED <<clientVars, serviceVars, waiting, unacked, announced>>
    BY DEF Film
  <2>6. TypeOK'
    BY <2>5, ClientStays DEF CInv, IInv
  <2>7. ConsumerTypeOK'
    BY <2>1, <2>4, <2>5, <2>6 DEF CInv, ConsumerTypeOK, serviceVars
  <2>. QED  BY <2>5, <2>7, SourcesStep DEF serviceVars
<1>2. CASE \E q \in NamedQueues, body \in Body : Announce(q, body)
  <2>. PICK q \in NamedQueues, body \in Body : Announce(q, body)
    BY <1>2
  <2>1. UNCHANGED <<clientVars, serviceVars, unacked, frames, filmed>>
    BY DEF Announce
  <2>2. announced' \in 0..MaxMessages
    BY SourcesConstants DEF SourcesConstants, Announce, CInv, ConsumerTypeOK
  <2>3. waiting[q] \in Seq(Body) /\ waiting \in [NamedQueues -> Seq(Body)]
    BY DEF CInv, ConsumerTypeOK
  <2>4. Append(waiting[q], body) \in Seq(Body)
    BY <2>3, AppendProperties, Zenon
  <2>5. waiting' \in [NamedQueues -> Seq(Body)]
    BY <2>3, <2>4 DEF Announce
  <2>6. TypeOK'
    BY <2>1, ClientStays DEF CInv, IInv
  <2>7. ConsumerTypeOK'
    BY <2>1, <2>2, <2>5, <2>6 DEF CInv, ConsumerTypeOK, serviceVars
  <2>. QED  BY <2>1, <2>7, SourcesStep DEF serviceVars
<1>. QED  BY <1>1, <1>2

(* A frame arrives.                                                        *)
LEMMA FrameArrivesKeeps ==
  ASSUME CInv, NEW f \in frames, FrameArrives(f)
  PROVE  CInv'
<1>1. UNCHANGED <<clientVars, registered, sourceVars, waiting, unacked>>
  BY DEF FrameArrives
<1>2. f \in FrameMessage /\ queued \in Seq([src : Sources, num : 1..MaxFrames])
  BY DEF CInv, ConsumerTypeOK
<1>3. [src |-> f.src, num |-> f.num] \in [src : Sources, num : 1..MaxFrames]
  BY <1>2 DEF FrameMessage
<1>4. Append(queued, [src |-> f.src, num |-> f.num]) \in Seq([src : Sources, num : 1..MaxFrames])
  BY <1>2, <1>3, AppendProperties, Zenon
<1>5. queued' \in Seq([src : Sources, num : 1..MaxFrames])
  BY <1>2, <1>4, Zenon DEF FrameArrives
<1>6. TypeOK'
  BY <1>1, ClientStays DEF CInv, IInv
<1>7. frames' \subseteq FrameMessage
  BY DEF FrameArrives, CInv, ConsumerTypeOK
<1>8. ConsumerTypeOK'
  BY <1>1, <1>5, <1>6, <1>7 DEF CInv, ConsumerTypeOK, sourceVars
<1>. QED  BY <1>1, <1>8, SourcesStep

(* Nothing happens, but for a heartbeat.                                   *)
LEMMA NothingKeeps ==
  ASSUME CInv, UNCHANGED vars
  PROVE  CInv'
<1>1. UNCHANGED <<clientVars, serviceVars, sourceVars, messageVars>>
  BY DEF vars
<1>2. TypeOK'
  BY <1>1, ClientStays DEF CInv, IInv
<1>3. ConsumerTypeOK'
  BY <1>1, <1>2, ServiceType
<1>. QED  BY <1>1, <1>3, SourcesStep DEF serviceVars, messageVars

(* Every step keeps the invariant.                                         *)
LEMMA ConsumerConsecution ==
  ASSUME CInv, [ConsumerNext]_vars
  PROVE  CInv'
<1>1. CASE Loop
  <2>1. CASE Callbacks
    BY <2>1, NoAnnouncementKeeps, AvailableSourceKeeps, ObsoleteSourceKeeps, FrameArrivesKeeps
       DEF Callbacks
  <2>2. CASE ChannelClosed
    BY <2>2, LossKeeps
  <2>3. CASE /\ \/ ClientRun \/ OnReady \/ RestoreClear \/ RestoreReplay \/ RestoreDone
                \/ OnQueueDeclared \/ Reconnect
             /\ UNCHANGED <<serviceVars, sourceVars, messageVars>>
    BY <2>3, LoopKeeps, RestoreReplayKeeps, OnQueueDeclaredKeeps
  <2>. QED  BY <1>1, <2>1, <2>2, <2>3 DEF Loop
<1>2. CASE Broker
  BY <1>2, BrokerExecutesKeeps, BrokerAcknowledgesKeeps, BrokerUnbindsKeeps, DeliverKeeps DEF Broker
<1>3. CASE Outside
  <2>1. CASE Heartbeat /\ UNCHANGED <<serviceVars, sourceVars, messageVars>>
    <3>1. UNCHANGED vars
      BY <2>1 DEF Heartbeat, vars
    <3>. QED  BY <3>1, NothingKeeps
  <2>2. CASE \E restart \in MayRestart : LinkLost(restart)
    BY <2>2, LossKeeps
  <2>. QED  BY <1>3, <2>1, <2>2, SourcesKeep DEF Outside
<1>. QED  BY <1>1, <1>2, <1>3, NothingKeeps DEF ConsumerNext

-----------------------------------------------------------------------------
(* The inductive invariant of the consumer.                                *)
THEOREM ConsumerInvariance == ConsumerSpec => []CInv
<1>1. ConsumerInit => CInv
  BY ConsumerInitially
<1>2. CInv /\ [ConsumerNext]_vars => CInv'
  BY ConsumerConsecution
<1>. QED  BY <1>1, <1>2, PTL DEF ConsumerSpec

(* The types of the consumer, its client and the queues of announcements.  *)
THEOREM ConsumerTypeCorrect == ConsumerSpec => []ConsumerTypeOK
BY ConsumerInvariance, PTL DEF CInv

(* What holds for the client alone holds with these callbacks as its users,*)
(* who call in the thread of the loop: no call is forgotten, and the queues*)
(* that get_binded_queue names exist.                                      *)
THEOREM ConsumerForgetsNothing == ConsumerSpec => [](NothingForgotten /\ BindedQueuesExist)
BY ConsumerInvariance, PTL DEF CInv, IInv

(* When nothing is under way, every source that available_src_msg_callback *)
(* has registered has a queue that is bound to its exchange and consumed.  *)
THEOREM RegisteredAreListenedTo == ConsumerSpec => []RegisteredIsListenedTo
<1>1. ASSUME CInv
      PROVE  RegisteredIsListenedTo
  <2>. SUFFICES ASSUME Quiet, NEW s \in registered \cap Sources
                PROVE  Listening(s) # {}
    BY DEF RegisteredIsListenedTo
  <2>1. wire = << >> /\ replies = << >> /\ ToReplay = << >> /\ ~Closed
    BY <1>1 DEF Quiet, ToReplay, Closed, ChannelIsClosed, CInv, IInv, ErrorIsKnown
  <2>2. DueCalls = << >>
    BY <2>1, SelectedEmpty DEF DueCalls
  <2>3. ~Doomed
    BY <1>1, <2>1, <2>2, HasEmpty DEF CInv, WillBeRefused
  <2>4. Served(s)
    BY <1>1, <2>1, <2>2, <2>3, HasEmpty DEF CInv, AreFed
  <2>5. PICK q \in QueueNames : Connected(s, q)
    BY <2>4 DEF Served
  <2>6. ~Answered(s, q) /\ ~Has(wire, Cmd("bind", s, q)) /\ ~Has(wire, Cmd("consume", "", q))
    BY <2>1, HasEmpty DEF Answered
  <2>7. q \in Listening(s)
    BY <2>1, <2>5, HasEmpty DEF Connected, Answered, Bound, Consumed, Listening
  <2>. QED  BY <2>7
<1>. QED  BY <1>1, ConsumerInvariance, PTL

(* available_src_msg_callback acknowledges every announcement, of a source *)
(* that is new, known or none: nothing waits to be delivered again.        *)
THEOREM AvailableAcknowledged == ConsumerSpec => []AvailableIsAcknowledged
<1>1. ASSUME CInv
      PROVE  AvailableIsAcknowledged
  <2>. SUFFICES ASSUME Quiet, unacked[Available] # << >>
                PROVE  FALSE
    BY DEF AvailableIsAcknowledged
  <2>1. wire = << >> /\ replies = << >>
    BY DEF Quiet
  <2>2. Available \in NamedQueues /\ unacked[Available] \in Seq(Body)
    BY <1>1, ConsumerNames DEF CInv, ConsumerTypeOK
  <2>. DEFINE b == unacked[Available][1]
  <2>3. b \in Body /\ Has(unacked[Available], b)
    BY <2>2 DEF Has
  <2>. HIDE DEF b
  <2>4. Count(unacked[Available], {b}) # 0
    BY <2>2, <2>3, CountPositive
  <2>5. OnItsWay(Available, b) = 0
    <3>1. Count(wire, {AckOf(Available, b)}) = 0 /\ Count(replies, {MessageOf(Available, b)}) = 0
      BY <2>1, CountEmpty
    <3>. QED  BY <3>1 DEF OnItsWay
  <2>6. OnItsWay(Available, b) = Count(unacked[Available], {b})
    BY <1>1, <2>2, <2>3 DEF CInv, Accounted
  <2>. QED  BY <2>4, <2>5, <2>6
<1>. QED  BY <1>1, ConsumerInvariance, PTL
=============================================================================
