----------------------- MODULE ResultsPublisherProofs -----------------------
(***************************************************************************)
(* Results reach their exchanges in order and at most once, for any number *)
(* of sources, of results and of lost connections.  The processing thread  *)
(* goes on while the event loop of the other client restores a connection, *)
(* so the invariant says what this thread may still publish, and which of  *)
(* the results handed to the channel may still arrive.                     *)
(***************************************************************************)
EXTENDS ResultsPublisher, MessageBusClientProofs

Increasing(s) == \A i, j \in 1..Len(s) : i < j => s[i].num < s[j].num
AtMost(s, n)  == \A i \in 1..Len(s) : s[i].num <= n
Before(s, r)  == \A i \in 1..Len(s), j \in 1..Len(r) : s[i].num < r[j].num

(* The results that the processing thread has yet to publish: the front of *)
(* the queue is done when it is about to be removed.                       *)
ToPublish == IF procPc \in {"lock", "pop"} THEN Tail(results) ELSE results

(* While it has a result in hand the queue is not empty.                   *)
ResultInHand == procPc # "look" => results # << >>

(* What is stored, or repeated by a restoration, publishes nothing.        *)
NoMessageIsStored ==
  actions \in Seq(Command \ Messages) /\ actions_to_restore \in Seq(Command \ Messages)

(* Results are numbered as they were pushed, and nothing published comes   *)
(* again.                                                                  *)
InOrder ==
  /\ Increasing(results) /\ Increasing(sent) /\ Increasing(delivered)
  /\ AtMost(results, pushed) /\ AtMost(sent, pushed) /\ AtMost(delivered, pushed)
  /\ Before(sent, ToPublish) /\ Before(delivered, ToPublish)

(* The messages on the wire are the last ones of sent, newer than all that *)
(* were delivered.                                                         *)
UnderWay == Count(wire, Messages)

NewerOnTheWire ==
  /\ UnderWay <= Len(sent)
  /\ \A i \in 1..Len(delivered), j \in (Len(sent) + 1 - UnderWay)..Len(sent) :
        delivered[i].num < sent[j].num

PInv ==
  /\ PublisherTypeOK
  /\ ResultInHand
  /\ NoMessageIsStored
  /\ InOrder
  /\ NewerOnTheWire

-----------------------------------------------------------------------------
(* Adding to the end of a sequence of results what is newer than all.      *)
LEMMA AppendNewer ==
  ASSUME NEW s \in Seq(Result), NEW r \in Result, Increasing(s),
         \A i \in 1..Len(s) : s[i].num < r.num
  PROVE  Increasing(Append(s, r))
<1>1. /\ Len(Append(s, r)) = Len(s) + 1 /\ Append(s, r)[Len(s) + 1] = r
      /\ \A i \in 1..Len(s) : Append(s, r)[i] = s[i]
  BY AppendToQueue
<1>2. ASSUME NEW i \in 1..(Len(s) + 1), NEW j \in 1..(Len(s) + 1), i < j
      PROVE  Append(s, r)[i].num < Append(s, r)[j].num
  <2>1. i \in 1..Len(s) /\ (j \in 1..Len(s) \/ j = Len(s) + 1)
    BY <1>2
  <2>. QED  BY <1>1, <1>2, <2>1 DEF Increasing
<1>. QED  BY <1>1, <1>2 DEF Increasing

(* The bound of a longer sequence.                                         *)
LEMMA AppendAtMost ==
  ASSUME NEW s \in Seq(Result), NEW r \in Result, NEW n, AtMost(s, n), r.num <= n
  PROVE  AtMost(Append(s, r), n)
<1>1. /\ Len(Append(s, r)) = Len(s) + 1 /\ Append(s, r)[Len(s) + 1] = r
      /\ \A i \in 1..Len(s) : Append(s, r)[i] = s[i]
  BY AppendToQueue
<1>2. \A i \in 1..(Len(s) + 1) : i \in 1..Len(s) \/ i = Len(s) + 1
  OBVIOUS
<1>. QED  BY <1>1, <1>2 DEF AtMost

(* A longer sequence before the same one.                                  *)
LEMMA AppendBefore ==
  ASSUME NEW s \in Seq(Result), NEW r \in Result, NEW t, Before(s, t),
         \A j \in 1..Len(t) : r.num < t[j].num
  PROVE  Before(Append(s, r), t)
<1>1. /\ Len(Append(s, r)) = Len(s) + 1 /\ Append(s, r)[Len(s) + 1] = r
      /\ \A i \in 1..Len(s) : Append(s, r)[i] = s[i]
  BY AppendToQueue
<1>2. \A i \in 1..(Len(s) + 1) : i \in 1..Len(s) \/ i = Len(s) + 1
  OBVIOUS
<1>. QED  BY <1>1, <1>2 DEF Before

(* The same sequence before a longer one.                                  *)
LEMMA BeforeAppend ==
  ASSUME NEW s, NEW t \in Seq(Result), NEW r \in Result, Before(s, t),
         \A i \in 1..Len(s) : s[i].num < r.num
  PROVE  Before(s, Append(t, r))
<1>1. /\ Len(Append(t, r)) = Len(t) + 1 /\ Append(t, r)[Len(t) + 1] = r
      /\ \A i \in 1..Len(t) : Append(t, r)[i] = t[i]
  BY AppendToQueue
<1>2. \A i \in 1..(Len(t) + 1) : i \in 1..Len(t) \/ i = Len(t) + 1
  OBVIOUS
<1>. QED  BY <1>1, <1>2 DEF Before

(* What remains of a sequence without its front.                           *)
LEMMA TailInOrder ==
  ASSUME NEW s \in Seq(Result), s # << >>
  PROVE  /\ Tail(s) \in Seq(Result) /\ s[1] \in Result
         /\ Increasing(s) => /\ Increasing(Tail(s))
                             /\ \A j \in 1..Len(Tail(s)) : s[1].num < Tail(s)[j].num
         /\ \A n : AtMost(s, n) => AtMost(Tail(s), n) /\ s[1].num <= n
         /\ \A r : Before(r, s) => Before(r, Tail(s)) /\ \A i \in 1..Len(r) : r[i].num < s[1].num
<1>1. /\ Tail(s) \in Seq(Result) /\ 1 \in 1..Len(s) /\ s[1] \in Result
      /\ Len(Tail(s)) = Len(s) - 1 /\ Len(s) \in Nat
      /\ \A i \in 1..Len(Tail(s)) : i + 1 \in 1..Len(s) /\ Tail(s)[i] = s[i + 1]
  BY TailOfQueue
<1>2. Increasing(s) => Increasing(Tail(s))
  <2>. SUFFICES ASSUME Increasing(s), NEW i \in 1..Len(Tail(s)), NEW j \in 1..Len(Tail(s)), i < j
                PROVE  Tail(s)[i].num < Tail(s)[j].num
    BY DEF Increasing
  <2>1. i + 1 < j + 1
    OBVIOUS
  <2>. QED  BY <1>1, <2>1 DEF Increasing
<1>3. Increasing(s) => \A j \in 1..Len(Tail(s)) : s[1].num < Tail(s)[j].num
  <2>. SUFFICES ASSUME Increasing(s), NEW j \in 1..Len(Tail(s))
                PROVE  s[1].num < Tail(s)[j].num
    OBVIOUS
  <2>1. 1 < j + 1
    OBVIOUS
  <2>. QED  BY <1>1, <2>1 DEF Increasing
<1>4. \A n : AtMost(s, n) => AtMost(Tail(s), n) /\ s[1].num <= n
  BY <1>1 DEF AtMost
<1>5. \A r : Before(r, s) => Before(r, Tail(s)) /\ \A i \in 1..Len(r) : r[i].num < s[1].num
  BY <1>1 DEF Before
<1>. QED  BY <1>1, <1>2, <1>3, <1>4, <1>5

-----------------------------------------------------------------------------
(* Initially there may be the result of the warm-up.                       *)
LEMMA PublisherInitially ==
  ASSUME PublisherInit
  PROVE  PInv
<1>1. TypeOK
  BY Initially DEF PublisherInit, IInv
<1>2. results \in Seq(Result)
  <2>1. WarmUp \in Exchanges /\ MaxResults \in Nat
    BY ResultsAssumption, Zenon DEF ResultsAssumption
  <2>2. [src |-> WarmUp, num |-> 0] \in Result
    BY <2>1 DEF Result
  <2>3. <<[src |-> WarmUp, num |-> 0]>> \in Seq(Result) /\ << >> \in Seq(Result)
    BY <2>2, ShortSequences
  <2>. QED  BY <2>3 DEF PublisherInit
<1>3. PublisherTypeOK
  <2>1. pushed \in 0..MaxResults
    BY ResultsAssumption DEF ResultsAssumption, PublisherInit
  <2>2. sync \in BOOLEAN /\ mainVars \in BOOLEAN \X BOOLEAN
    BY DEF PublisherInit, mainVars
  <2>3. procPc \in {"look", "declare", "send", "publish", "lock", "pop"}
    BY DEF PublisherInit
  <2>4. sent \in Seq(Result) /\ delivered \in Seq(Result) /\ declared_exchanges \subseteq Exchanges
    BY DEF PublisherInit
  <2>. QED  BY <1>1, <1>2, <2>1, <2>2, <2>3, <2>4, Zenon DEF PublisherTypeOK
<1>4. ResultInHand
  BY DEF PublisherInit, ResultInHand
<1>5. NoMessageIsStored
  BY DEF PublisherInit, Init, NoMessageIsStored
<1>6. InOrder
  <2>1. Increasing(results) /\ AtMost(results, pushed)
    BY DEF PublisherInit, Increasing, AtMost
  <2>. QED  BY <2>1 DEF PublisherInit, InOrder, Increasing, AtMost, Before
<1>7. NewerOnTheWire
  BY CountEmpty DEF PublisherInit, Init, NewerOnTheWire, UnderWay
<1>. QED  BY <1>3, <1>4, <1>5, <1>6, <1>7 DEF PInv

-----------------------------------------------------------------------------
(* The bounds of a result.                                                 *)
LEMMA ResultFields ==
  \A r \in Result : r.src \in Exchanges /\ r.num \in 0..MaxResults /\ r.num \in Int
BY ResultsAssumption DEF Result, ResultsAssumption

(* How many messages are on the wire.                                      *)
LEMMA UnderWayType ==
  ASSUME wire \in Seq(Command)
  PROVE  UnderWay \in Nat
BY CountType DEF UnderWay

(* Results stay in order while the processing thread does nothing with     *)
(* them and nothing is added to the wire.                                  *)
LEMMA StillInOrder ==
  ASSUME PInv, UNCHANGED <<results, pushed, sent, delivered>>, ToPublish' = ToPublish,
         UnderWay' \in Nat, UnderWay' <= UnderWay
  PROVE  InOrder' /\ NewerOnTheWire'
<1>1. InOrder'
  BY DEF PInv, InOrder, Increasing, AtMost, Before
<1>2. UnderWay \in Nat
  BY UnderWayType DEF PInv, PublisherTypeOK, TypeOK
<1>3. Len(sent) \in Nat
  BY LenProperties DEF PInv, PublisherTypeOK
<1>4. UnderWay' <= Len(sent)
  BY <1>2, <1>3 DEF PInv, NewerOnTheWire
<1>5. ASSUME NEW j \in (Len(sent) + 1 - UnderWay')..Len(sent)
      PROVE  j \in (Len(sent) + 1 - UnderWay)..Len(sent)
  BY <1>2, <1>3
<1>6. NewerOnTheWire'
  BY <1>4, <1>5 DEF PInv, NewerOnTheWire
<1>. QED  BY <1>1, <1>6

(* The messages on the wire after commands of which none is a message.     *)
LEMMA NoMoreMessages ==
  ASSUME wire \in Seq(Command), NEW c \in Command \ Messages, wire' = Sent(<<c>>)
  PROVE  UnderWay' = UnderWay
<1>1. CASE Usable
  <2>1. wire' = wire \o <<c>> /\ <<c>> \in Seq(Command)
    BY <1>1, ShortSequences DEF Sent
  <2>2. Count(wire', Messages) = Count(wire, Messages) + Count(<<c>>, Messages)
    BY <2>1, CountConcat
  <2>3. Count(<<c>>, Messages) = 0
    BY CountOne
  <2>4. Count(wire, Messages) \in Nat
    BY CountType
  <2>5. \A n \in Nat : n + 0 = n
    OBVIOUS
  <2>. QED  BY <2>2, <2>3, <2>4, <2>5 DEF UnderWay
<1>2. CASE ~Usable
  BY <1>2 DEF Sent, UnderWay
<1>. QED  BY <1>1, <1>2

(* Calls that are stored are no messages.                                  *)
LEMMA CallsAreNoMessages ==
  \A e \in Exchanges : DeclareExchange(e) \in Command \ Messages
BY DEF DeclareExchange, Cmd, Command, Messages

(* A step of the event loop, or of the broker, that puts no message on the *)
(* wire.                                                                   *)
LEMMA ServiceStays ==
  ASSUME PInv, TypeOK', NoMessageIsStored', UNCHANGED <<serviceVars, publisherVars, delivered>>,
         UnderWay' \in Nat, UnderWay' <= UnderWay
  PROVE  PInv'
<1>1. PublisherTypeOK'
  BY DEF PInv, PublisherTypeOK, serviceVars, publisherVars, mainVars
<1>2. ResultInHand'
  BY DEF PInv, ResultInHand, serviceVars
<1>3. ToPublish' = ToPublish
  BY DEF ToPublish, serviceVars
<1>4. InOrder' /\ NewerOnTheWire'
  BY <1>3, StillInOrder DEF serviceVars, publisherVars
<1>. QED  BY <1>1, <1>2, <1>4 DEF PInv

(* The event loop stores only what it took from the storage, and a lost    *)
(* connection takes all messages with it.                                  *)
LEMMA LoopInOrder ==
  ASSUME PInv, Loop
  PROVE  PInv'
<1>. TypeOK /\ NoMessageIsStored /\ UnderWay \in Nat
  BY UnderWayType DEF PInv, PublisherTypeOK, TypeOK
<1>. UNCHANGED <<serviceVars, publisherVars, delivered>>
  BY DEF Loop
<1>0. UnderWay <= UnderWay
  OBVIOUS
<1>1. CASE ClientRun
  BY <1>0, <1>1, ClientRunType, ServiceStays DEF ClientRun, storageVars, NoMessageIsStored, UnderWay
<1>2. CASE OnReady
  <2>1. NoMessageIsStored' /\ UnderWay' = UnderWay
    BY <1>2 DEF OnReady, NoMessageIsStored, UnderWay
  <2>. QED  BY <1>0, <2>1, <1>2, OnReadyType, ServiceStays
<1>3. CASE RestoreClear
  <2>1. NoMessageIsStored' /\ UnderWay' = UnderWay
    BY <1>3 DEF RestoreClear, Cleared, NoMessageIsStored, UnderWay
  <2>. QED  BY <1>0, <2>1, <1>3, RestoreClearType, ServiceStays
<1>4. CASE RestoreReplay
  <2>. PICK c \in Command \ Messages : c = Head(actions_to_restore)
    BY <1>4 DEF RestoreReplay, NoMessageIsStored
  <2>1. actions' = actions \o <<c>> /\ wire' = Sent(<<c>>)
        /\ actions_to_restore' = Tail(actions_to_restore)
    BY <1>4 DEF RestoreReplay, Store, NextStored
  <2>2. UnderWay' = UnderWay
    BY <2>1, NoMoreMessages DEF TypeOK
  <2>3. <<c>> \in Seq(Command \ Messages)
    BY ShortSequences
  <2>4. actions' \in Seq(Command \ Messages)
    BY <2>1, <2>3 DEF NoMessageIsStored
  <2>5. actions_to_restore' \in Seq(Command \ Messages)
    BY <1>4, <2>1 DEF NoMessageIsStored, RestoreReplay
  <2>6. NoMessageIsStored'
    BY <2>4, <2>5 DEF NoMessageIsStored
  <2>. QED  BY <1>0, <2>2, <2>6, <1>4, RestoreReplayType, ServiceStays
<1>5. CASE RestoreDone
  <2>1. NoMessageIsStored' /\ UnderWay' = UnderWay
    BY <1>5 DEF RestoreDone, NoMessageIsStored, UnderWay
  <2>. QED  BY <1>0, <2>1, <1>5, RestoreDoneType, ServiceStays
<1>6. CASE OnChannelClosed
  <2>1. NoMessageIsStored' /\ UnderWay' = 0
    BY <1>6, CountEmpty DEF OnChannelClosed, MarkError, storageVars, NoMessageIsStored, UnderWay
  <2>2. 0 \in Nat /\ 0 <= UnderWay
    OBVIOUS
  <2>. QED  BY <2>1, <2>2, <1>6, OnChannelClosedType, ServiceStays
<1>7. CASE Reconnect
  <2>1. NoMessageIsStored' /\ UnderWay' = UnderWay
    BY <1>7 DEF Reconnect, storageVars, NoMessageIsStored, UnderWay
  <2>. QED  BY <1>0, <2>1, <1>7, ReconnectType, ServiceStays
<1>. QED  BY <1>1, <1>2, <1>3, <1>4, <1>5, <1>6, <1>7 DEF Loop

(* The same for what happens to the connection.                            *)
LEMMA ConnectionInOrder ==
  ASSUME PInv, Heartbeat \/ ConnectionLost, UNCHANGED <<serviceVars, publisherVars, delivered>>
  PROVE  PInv'
<1>. TypeOK /\ NoMessageIsStored /\ UnderWay \in Nat
  BY UnderWayType DEF PInv, PublisherTypeOK, TypeOK
<1>1. CASE Heartbeat
  <2>1. TypeOK' /\ NoMessageIsStored' /\ UnderWay' = UnderWay
    BY <1>1 DEF Heartbeat, clientVars, channelVars, storageVars, brokerVars, historyVars,
                TypeOK, NoMessageIsStored, UnderWay
  <2>2. UnderWay <= UnderWay
    OBVIOUS
  <2>. QED  BY <2>1, <2>2, ServiceStays
<1>2. CASE ConnectionLost
  <2>1. PICK restart \in MayRestart : OnConnectionLost(restart)
    BY <1>2 DEF ConnectionLost
  <2>2. NoMessageIsStored' /\ UnderWay' = 0
    BY <2>1, CountEmpty DEF OnConnectionLost, MarkError, storageVars, NoMessageIsStored, UnderWay
  <2>3. 0 \in Nat /\ 0 <= UnderWay
    OBVIOUS
  <2>. QED  BY <2>1, <2>2, <2>3, OnConnectionLostType, ServiceStays
<1>. QED  BY <1>1, <1>2

(* The broker executes a command, or refuses a message: none is added.     *)
LEMMA BrokerExecutesInOrder ==
  ASSUME PInv, BrokerExecutes, UNCHANGED <<serviceVars, publisherVars, delivered>>
  PROVE  PInv'
<1>. TypeOK /\ NoMessageIsStored /\ wire \in Seq(Command)
  BY DEF PInv, PublisherTypeOK, TypeOK
<1>1. NoMessageIsStored'
  BY DEF BrokerExecutes, storageVars, NoMessageIsStored
<1>2. wire # << >> /\ wire' = Tail(wire)
  BY DEF BrokerExecutes
<1>3. Count(wire, Messages) = Count(Tail(wire), Messages) + (IF Head(wire) \in Messages THEN 1 ELSE 0)
  BY <1>2, CountTail
<1>4. Count(Tail(wire), Messages) \in Nat
  <2>1. Tail(wire) \in Seq(Command)
    BY <1>2
  <2>. QED  BY <2>1, CountType
<1>5. UnderWay' \in Nat /\ UnderWay' <= UnderWay
  BY <1>2, <1>3, <1>4 DEF UnderWay
<1>. QED  BY <1>1, <1>5, BrokerExecutesType, ServiceStays

-----------------------------------------------------------------------------
(* The detection thread adds a result with a new number.                   *)
LEMMA PushResultsInOrder ==
  ASSUME PInv, NEW s \in Exchanges, PushResults(s)
  PROVE  PInv'
<1>. DEFINE r == [src |-> s, num |-> pushed + 1]
<1>1. r \in Result /\ r.num = pushed + 1 /\ pushed' = pushed + 1 /\ pushed \in Nat
      /\ pushed + 1 \in 0..MaxResults
  BY ResultsAssumption DEF ResultsAssumption, Result, PushResults, PInv, PublisherTypeOK
<1>2. results' = Append(results, r) /\ results \in Seq(Result)
  BY DEF PushResults, PInv, PublisherTypeOK
<1>. HIDE DEF r
<1>3. UNCHANGED <<clientVars, sync, procPc, publisherVars, delivered>>
  BY DEF PushResults
<1>4. PublisherTypeOK'
  <2>1. TypeOK'
    BY <1>3 DEF PInv, PublisherTypeOK, TypeOK, clientVars, channelVars, storageVars, brokerVars,
                historyVars
  <2>2. results' \in Seq(Result)
    BY <1>1, <1>2
  <2>. QED  BY <1>1, <1>3, <2>1, <2>2 DEF PInv, PublisherTypeOK, publisherVars, mainVars
<1>5. ResultInHand' /\ NoMessageIsStored'
  BY <1>1, <1>2, <1>3 DEF PInv, ResultInHand, NoMessageIsStored, clientVars, storageVars
<1>6. /\ \A i \in 1..Len(results) : results[i].num < r.num
      /\ \A i \in 1..Len(sent) : sent[i].num < r.num
      /\ \A i \in 1..Len(delivered) : delivered[i].num < r.num
      /\ AtMost(results, pushed + 1) /\ AtMost(sent, pushed + 1) /\ AtMost(delivered, pushed + 1)
      /\ r.num <= pushed + 1
  <2>1. \A n \in Int : n <= pushed => n < pushed + 1 /\ n <= pushed + 1
    BY <1>1
  <2>2. /\ \A i \in 1..Len(results) : results[i].num \in Int /\ results[i].num <= pushed
        /\ \A i \in 1..Len(sent) : sent[i].num \in Int /\ sent[i].num <= pushed
        /\ \A i \in 1..Len(delivered) : delivered[i].num \in Int /\ delivered[i].num <= pushed
    BY ResultFields DEF PInv, PublisherTypeOK, InOrder, AtMost
  <2>3. pushed + 1 <= pushed + 1
    BY <1>1
  <2>. QED  BY <1>1, <2>1, <2>2, <2>3 DEF AtMost
<1>7. ToPublish' = Append(ToPublish, r) /\ ToPublish \in Seq(Result)
  <2>1. CASE procPc \in {"lock", "pop"}
    <3>1. results # << >>
      BY <2>1 DEF PInv, ResultInHand
    <3>2. Tail(Append(results, r)) = Append(Tail(results), r)
      BY <1>1, <1>2, <3>1, TailOfAppend
    <3>. QED  BY <1>2, <1>3, <2>1, <3>1, <3>2 DEF ToPublish
  <2>2. CASE procPc \notin {"lock", "pop"}
    BY <1>2, <1>3, <2>2 DEF ToPublish
  <2>. QED  BY <2>1, <2>2
<1>8. InOrder'
  <2>1. Increasing(results') /\ AtMost(results', pushed')
    BY <1>1, <1>2, <1>6, AppendNewer, AppendAtMost DEF PInv, InOrder
  <2>2. /\ sent' = sent /\ delivered' = delivered
    BY <1>3 DEF publisherVars
  <2>3. Before(sent, Append(ToPublish, r)) /\ Before(delivered, Append(ToPublish, r))
    BY <1>1, <1>6, <1>7, BeforeAppend DEF PInv, InOrder
  <2>4. Before(sent', ToPublish') /\ Before(delivered', ToPublish')
    BY <1>7, <2>2, <2>3 DEF Before
  <2>5. /\ Increasing(sent') /\ Increasing(delivered')
        /\ AtMost(sent', pushed') /\ AtMost(delivered', pushed')
    BY <1>1, <1>6, <2>2 DEF PInv, InOrder, Increasing, AtMost
  <2>. QED  BY <2>1, <2>4, <2>5 DEF InOrder
<1>9. NewerOnTheWire'
  BY <1>3 DEF PInv, NewerOnTheWire, UnderWay, publisherVars, clientVars
<1>. QED  BY <1>4, <1>5, <1>8, <1>9 DEF PInv

(* main() sets up the publisher, and the processing thread takes the       *)
(* mutex: neither does anything with a result.                             *)
LEMMA SetUpInOrder ==
  ASSUME PInv, SetDataPublisher \/ StartConsuming \/ LockSync
  PROVE  PInv'
<1>1. UNCHANGED <<clientVars, results, pushed, declared_exchanges, sent, delivered>>
  BY DEF SetDataPublisher, StartConsuming, LockSync, serviceVars, publisherVars
<1>2. /\ sync' \in BOOLEAN /\ mainVars' \in BOOLEAN \X BOOLEAN
      /\ procPc' \in {"look", "declare", "send", "publish", "lock", "pop"}
      /\ procPc' = procPc \/ (procPc = "lock" /\ procPc' = "pop")
  BY DEF SetDataPublisher, StartConsuming, LockSync, serviceVars, publisherVars, mainVars, PInv,
         PublisherTypeOK
<1>3. TypeOK'
  BY <1>1 DEF PInv, PublisherTypeOK, TypeOK, clientVars, channelVars, storageVars, brokerVars,
              historyVars
<1>4. PublisherTypeOK'
  BY <1>1, <1>2, <1>3 DEF PInv, PublisherTypeOK
<1>5. ResultInHand' /\ NoMessageIsStored'
  BY <1>1, <1>2 DEF PInv, ResultInHand, NoMessageIsStored, clientVars, storageVars
<1>6. ToPublish' = ToPublish
  BY <1>1, <1>2 DEF ToPublish
<1>7. UnderWay' \in Nat /\ UnderWay' <= UnderWay
  <2>1. UnderWay' = UnderWay
    BY <1>1 DEF UnderWay, clientVars
  <2>2. UnderWay \in Nat
    BY UnderWayType DEF PInv, PublisherTypeOK, TypeOK
  <2>. QED  BY <2>1, <2>2
<1>8. InOrder' /\ NewerOnTheWire'
  BY <1>1, <1>6, <1>7, StillInOrder
<1>. QED  BY <1>4, <1>5, <1>8 DEF PInv

(* It looks at the queue; without a publisher it will remove the result.   *)
LEMMA SeeResultInOrder ==
  ASSUME PInv, SeeResult
  PROVE  PInv'
<1>1. UNCHANGED <<clientVars, results, sync, pushed, publisherVars, delivered>>
      /\ results # << >> /\ procPc = "look" /\ procPc' \in {"lock", "publish", "declare"}
  BY DEF SeeResult
<1>2. TypeOK'
  BY <1>1 DEF PInv, PublisherTypeOK, TypeOK, clientVars, channelVars, storageVars, brokerVars,
              historyVars
<1>3. PublisherTypeOK'
  <2>1. procPc' \in {"look", "declare", "send", "publish", "lock", "pop"}
    BY <1>1
  <2>. QED  BY <1>1, <1>2, <2>1 DEF PInv, PublisherTypeOK, publisherVars, mainVars
<1>4. ResultInHand' /\ NoMessageIsStored'
  BY <1>1 DEF PInv, ResultInHand, NoMessageIsStored, clientVars, storageVars
<1>5. ToPublish = results /\ (ToPublish' = results \/ ToPublish' = Tail(results))
  BY <1>1 DEF ToPublish
<1>6. InOrder'
  <2>1. \A s : Before(s, results) => Before(s, Tail(results))
    BY <1>1, TailInOrder DEF PInv, PublisherTypeOK
  <2>2. \A s : Before(s, results) => Before(s, ToPublish')
    BY <1>5, <2>1, Zenon
  <2>3. Before(sent, ToPublish') /\ Before(delivered, ToPublish')
    BY <1>5, <2>2 DEF PInv, InOrder
  <2>4. sent' = sent /\ delivered' = delivered /\ results' = results /\ pushed' = pushed
    BY <1>1 DEF publisherVars
  <2>5. Before(sent', ToPublish') /\ Before(delivered', ToPublish')
    BY <2>3, <2>4 DEF Before
  <2>. QED  BY <2>4, <2>5 DEF PInv, InOrder, Increasing, AtMost
<1>7. NewerOnTheWire'
  BY <1>1 DEF PInv, NewerOnTheWire, UnderWay, publisherVars, clientVars
<1>. QED  BY <1>3, <1>4, <1>6, <1>7 DEF PInv

(* The result in hand is of one of the sources.                            *)
LEMMA InHand ==
  ASSUME PInv, procPc # "look"
  PROVE  results # << >> /\ results[1] \in Result /\ results[1].src \in Exchanges
BY TailInOrder, ResultFields DEF PInv, ResultInHand, PublisherTypeOK

(* It stores the declaration of an output exchange.                        *)
LEMMA StoreDeclarationInOrder ==
  ASSUME PInv, StoreDeclaration
  PROVE  PInv'
<1>. DEFINE c == DeclareExchange(OutputExchange(results[1].src))
<1>1. c \in Command \ Messages
  <2>1. results[1].src \in Exchanges
    BY InHand DEF StoreDeclaration
  <2>. QED  BY <2>1, CallsAreNoMessages, Zenon DEF OutputExchange
<1>2. actions' = actions \o <<c>> /\ calls' = Append(calls, c)
  BY DEF StoreDeclaration, Store
<1>3. /\ UNCHANGED <<channelVars, actions_to_restore, m_binded_queues, wire, replies, brokerVars,
                     failures, results, sync, pushed, publisherVars, delivered>>
      /\ procPc = "declare" /\ procPc' = "send"
  BY DEF StoreDeclaration
<1>. HIDE DEF c
<1>4. NoMessageIsStored'
  <2>1. <<c>> \in Seq(Command \ Messages)
    BY <1>1, ShortSequences
  <2>. QED  BY <1>2, <1>3, <2>1 DEF PInv, NoMessageIsStored
<1>5. TypeOK'
  <2>1. actions' \in Seq(Command) /\ calls' \in Seq(Command)
    <3>1. <<c>> \in Seq(Command)
      BY <1>1, ShortSequences
    <3>. QED  BY <1>1, <1>2, <3>1 DEF PInv, PublisherTypeOK, TypeOK
  <2>. QED  BY <1>3, <2>1 DEF PInv, PublisherTypeOK, TypeOK, channelVars, brokerVars
<1>6. PublisherTypeOK'
  <2>1. procPc' \in {"look", "declare", "send", "publish", "lock", "pop"}
    BY <1>3
  <2>. QED  BY <1>3, <1>5, <2>1 DEF PInv, PublisherTypeOK, publisherVars, mainVars
<1>7. ResultInHand'
  BY <1>3 DEF PInv, ResultInHand
<1>8. ToPublish' = ToPublish
  BY <1>3 DEF ToPublish
<1>9. UnderWay' \in Nat /\ UnderWay' <= UnderWay
  <2>1. UnderWay' = UnderWay
    BY <1>3 DEF UnderWay
  <2>2. UnderWay \in Nat
    BY UnderWayType DEF PInv, PublisherTypeOK, TypeOK
  <2>. QED  BY <2>1, <2>2
<1>10. InOrder' /\ NewerOnTheWire'
  BY <1>3, <1>8, <1>9, StillInOrder DEF publisherVars
<1>. QED  BY <1>4, <1>6, <1>7, <1>10 DEF PInv

(* It sends that declaration.                                              *)
LEMMA SendDeclarationInOrder ==
  ASSUME PInv, SendDeclaration
  PROVE  PInv'
<1>. PICK c \in Command \ Messages : c = DeclareExchange(OutputExchange(results[1].src))
  <2>1. results[1].src \in Exchanges
    BY InHand DEF SendDeclaration
  <2>. QED  BY <2>1, CallsAreNoMessages, Zenon DEF OutputExchange
<1>1. wire' = Sent(<<c>>) /\ wire \in Seq(Command)
  BY DEF SendDeclaration, PInv, PublisherTypeOK, TypeOK
<1>2. /\ UNCHANGED <<channelVars, storageVars, replies, brokerVars, historyVars, results, sync,
                     pushed, mainVars, sent, delivered>>
      /\ procPc = "send" /\ procPc' = "publish"
      /\ declared_exchanges' = declared_exchanges \cup {results[1].src}
  BY DEF SendDeclaration
<1>3. TypeOK'
  <2>1. <<c>> \in Seq(Command)
    BY ShortSequences
  <2>2. wire' \in Seq(Command)
    BY <1>1, <2>1, SentCommands
  <2>. QED  BY <1>2, <2>2 DEF PInv, PublisherTypeOK, TypeOK, channelVars, storageVars, brokerVars,
                              historyVars
<1>4. PublisherTypeOK'
  <2>1. results[1].src \in Exchanges
    BY <1>2, InHand
  <2>2. declared_exchanges' \subseteq Exchanges
    BY <1>2, <2>1 DEF PInv, PublisherTypeOK
  <2>3. procPc' \in {"look", "declare", "send", "publish", "lock", "pop"}
    BY <1>2
  <2>. QED  BY <1>2, <1>3, <2>2, <2>3 DEF PInv, PublisherTypeOK, mainVars
<1>5. ResultInHand' /\ NoMessageIsStored'
  BY <1>2 DEF PInv, ResultInHand, NoMessageIsStored, storageVars
<1>6. ToPublish' = ToPublish
  BY <1>2 DEF ToPublish
<1>7. UnderWay' \in Nat /\ UnderWay' <= UnderWay
  <2>1. UnderWay' = UnderWay
    BY <1>1, NoMoreMessages
  <2>2. UnderWay \in Nat
    BY <1>1, UnderWayType
  <2>. QED  BY <2>1, <2>2
<1>8. InOrder' /\ NewerOnTheWire'
  BY <1>2, <1>6, <1>7, StillInOrder
<1>. QED  BY <1>4, <1>5, <1>8 DEF PInv

(* It removes the result that it has published, or for which there was no  *)
(* publisher.                                                              *)
LEMMA PopResultInOrder ==
  ASSUME PInv, PopResult
  PROVE  PInv'
<1>1. /\ UNCHANGED <<clientVars, pushed, publisherVars, delivered>>
      /\ procPc = "pop" /\ procPc' = "look" /\ sync' = FALSE /\ results' = Tail(results)
  BY DEF PopResult, WithoutFront
<1>2. results # << >> /\ results \in Seq(Result)
  BY <1>1 DEF PInv, ResultInHand, PublisherTypeOK
<1>3. /\ Tail(results) \in Seq(Result) /\ Increasing(Tail(results))
      /\ AtMost(Tail(results), pushed)
  BY <1>2, TailInOrder DEF PInv, InOrder
<1>4. TypeOK'
  BY <1>1 DEF PInv, PublisherTypeOK, TypeOK, clientVars, channelVars, storageVars, brokerVars,
              historyVars
<1>5. PublisherTypeOK'
  <2>1. procPc' \in {"look", "declare", "send", "publish", "lock", "pop"} /\ sync' \in BOOLEAN
    BY <1>1
  <2>. QED  BY <1>1, <1>3, <1>4, <2>1 DEF PInv, PublisherTypeOK, publisherVars, mainVars
<1>6. ResultInHand' /\ NoMessageIsStored'
  BY <1>1 DEF PInv, ResultInHand, NoMessageIsStored, clientVars, storageVars
<1>7. ToPublish' = ToPublish
  BY <1>1 DEF ToPublish
<1>8. InOrder'
  BY <1>1, <1>3, <1>7 DEF PInv, InOrder, Increasing, AtMost, Before, publisherVars
<1>9. NewerOnTheWire'
  BY <1>1 DEF PInv, NewerOnTheWire, UnderWay, publisherVars, clientVars
<1>. QED  BY <1>5, <1>6, <1>8, <1>9 DEF PInv

(* One more message on the wire, the newest of those sent.                 *)
LEMMA OneMoreMessage ==
  ASSUME PInv, NEW r \in Result, NEW c \in Command, c \in Messages,
         wire' = wire \o <<c>>, sent' = Append(sent, r), delivered' = delivered,
         \A i \in 1..Len(delivered) : delivered[i].num < r.num
  PROVE  NewerOnTheWire'
<1>1. wire \in Seq(Command) /\ sent \in Seq(Result) /\ <<c>> \in Seq(Command)
  BY ShortSequences DEF PInv, PublisherTypeOK, TypeOK
<1>2. UnderWay \in Nat /\ UnderWay' = UnderWay + 1
  <2>1. Count(wire \o <<c>>, Messages) = Count(wire, Messages) + Count(<<c>>, Messages)
    BY <1>1, CountConcat
  <2>2. Count(<<c>>, Messages) = 1
    BY CountOne
  <2>. QED  BY <1>1, <2>1, <2>2, UnderWayType DEF UnderWay
<1>3. /\ Len(sent') = Len(sent) + 1 /\ sent'[Len(sent) + 1] = r /\ Len(sent) \in Nat
      /\ \A i \in 1..Len(sent) : sent'[i] = sent[i]
  BY <1>1, AppendToQueue
<1>4. UnderWay <= Len(sent)
  BY DEF PInv, NewerOnTheWire
<1>5. UnderWay' <= Len(sent')
  BY <1>2, <1>3, <1>4
<1>6. ASSUME NEW j \in (Len(sent') + 1 - UnderWay')..Len(sent')
      PROVE  \/ j = Len(sent) + 1
             \/ j \in (Len(sent) + 1 - UnderWay)..Len(sent) /\ j \in 1..Len(sent)
  BY <1>2, <1>3, <1>4
<1>7. ASSUME NEW i \in 1..Len(delivered), NEW j \in (Len(sent') + 1 - UnderWay')..Len(sent')
      PROVE  delivered[i].num < sent'[j].num
  BY <1>3, <1>6 DEF PInv, NewerOnTheWire
<1>. QED  BY <1>5, <1>7 DEF NewerOnTheWire

(* A published result is newer than all that were sent or delivered.       *)
LEMMA PublishInOrder ==
  ASSUME PInv, Publish
  PROVE  PInv'
<1>. PICK r \in Result : r = results[1]
  BY InHand DEF Publish
<1>. PICK c \in Command : c = Cmd("publish", OutputExchange(r.src), "") /\ c \in Messages
  <2>1. r.src \in Exchanges /\ OutputExchange(r.src) = r.src
    BY ResultFields, Zenon DEF OutputExchange
  <2>2. \A e \in Exchanges : Cmd("publish", e, "") \in Command /\ Cmd("publish", e, "") \in Messages
    BY DEF Cmd, Command, Messages
  <2>. QED  BY <2>1, <2>2, Zenon
<1>1. /\ UNCHANGED <<channelVars, storageVars, replies, brokerVars, historyVars, results, sync,
                     pushed, mainVars, declared_exchanges, delivered>>
      /\ procPc = "publish" /\ procPc' = "lock"
      /\ wire' = Sent(<<c>>)
      /\ Usable => sent' = Append(sent, r)
      /\ ~Usable => sent' = sent
  BY DEF Publish
<1>2. /\ wire \in Seq(Command) /\ sent \in Seq(Result) /\ delivered \in Seq(Result)
      /\ results \in Seq(Result) /\ results # << >> /\ <<c>> \in Seq(Command)
  BY <1>1, ShortSequences DEF PInv, PublisherTypeOK, TypeOK, ResultInHand
<1>3. TypeOK'
  <2>1. wire' \in Seq(Command)
    BY <1>1, <1>2, SentCommands
  <2>. QED  BY <1>1, <2>1 DEF PInv, PublisherTypeOK, TypeOK, channelVars, storageVars, brokerVars,
                              historyVars
<1>4. PublisherTypeOK'
  <2>1. procPc' \in {"look", "declare", "send", "publish", "lock", "pop"}
    BY <1>1
  <2>2. Append(sent, r) \in Seq(Result)
    BY <1>2, AppendProperties, Zenon
  <2>3. sent' \in Seq(Result)
    BY <1>1, <1>2, <2>2, Zenon
  <2>. QED  BY <1>1, <1>3, <2>1, <2>3 DEF PInv, PublisherTypeOK, mainVars
<1>5. ResultInHand' /\ NoMessageIsStored'
  BY <1>1 DEF PInv, ResultInHand, NoMessageIsStored, storageVars
<1>6. ToPublish = results /\ ToPublish' = Tail(results)
  BY <1>1 DEF ToPublish
<1>7. /\ Before(sent, Tail(results)) /\ Before(delivered, Tail(results))
      /\ \A i \in 1..Len(sent) : sent[i].num < r.num
      /\ \A i \in 1..Len(delivered) : delivered[i].num < r.num
      /\ \A j \in 1..Len(Tail(results)) : r.num < Tail(results)[j].num
      /\ r.num <= pushed
  BY <1>2, <1>6, TailInOrder DEF PInv, InOrder
<1>8. InOrder'
  <2>1. Increasing(sent') /\ AtMost(sent', pushed) /\ Before(sent', Tail(results))
    <3>1. CASE Usable
      BY <1>1, <1>2, <1>7, <3>1, AppendNewer, AppendAtMost, AppendBefore DEF PInv, InOrder
    <3>2. CASE ~Usable
      BY <1>1, <1>7, <3>2 DEF PInv, InOrder, Increasing, AtMost, Before
    <3>. QED  BY <3>1, <3>2
  <2>2. pushed' = pushed /\ results' = results /\ delivered' = delivered
    BY <1>1
  <2>3. Before(sent', ToPublish')
    BY <1>6, <2>1, Zenon
  <2>4. Before(delivered', ToPublish')
    BY <1>6, <1>7, <2>2, Zenon
  <2>5. AtMost(sent', pushed')
    BY <2>1, <2>2, Zenon
  <2>. QED  BY <2>1, <2>2, <2>3, <2>4, <2>5 DEF PInv, InOrder, Increasing, AtMost
<1>9. NewerOnTheWire'
  <2>1. CASE Usable
    <3>1. sent' = Append(sent, r) /\ wire' = wire \o <<c>> /\ delivered' = delivered
      BY <1>1, <2>1 DEF Sent
    <3>. QED  BY <1>7, <3>1, OneMoreMessage
  <2>2. CASE ~Usable
    BY <1>1, <2>2 DEF PInv, NewerOnTheWire, UnderWay, Sent
  <2>. QED  BY <2>1, <2>2
<1>. QED  BY <1>4, <1>5, <1>8, <1>9 DEF PInv

(* The oldest message on the wire reaches its exchange.                    *)
LEMMA BrokerPublishesInOrder ==
  ASSUME PInv, BrokerPublishes
  PROVE  PInv'
<1>1. /\ UNCHANGED <<channelVars, storageVars, replies, brokerVars, historyVars, serviceVars,
                     publisherVars>>
      /\ wire # << >> /\ Head(wire) \in Messages /\ wire' = Tail(wire)
      /\ delivered' = Append(delivered, sent[Len(sent) + 1 - UnderWay])
  BY DEF BrokerPublishes, UnderWay, Count
<1>2. /\ wire \in Seq(Command) /\ sent \in Seq(Result) /\ delivered \in Seq(Result)
      /\ Tail(wire) \in Seq(Command)
  BY <1>1 DEF PInv, PublisherTypeOK, TypeOK
<1>3. UnderWay = UnderWay' + 1 /\ UnderWay' \in Nat
  <2>1. UnderWay' = Count(Tail(wire), Messages)
    BY <1>1 DEF UnderWay
  <2>2. UnderWay' \in Nat
    BY <1>2, <2>1, CountType
  <2>3. Count(wire, Messages)
          = Count(Tail(wire), Messages) + (IF Head(wire) \in Messages THEN 1 ELSE 0)
    BY <1>1, <1>2, CountTail
  <2>. QED  BY <1>1, <2>1, <2>2, <2>3 DEF UnderWay
<1>4. Len(sent) \in Nat /\ UnderWay <= Len(sent)
  BY <1>2, LenProperties DEF PInv, NewerOnTheWire
<1>5. Len(sent) + 1 - UnderWay \in 1..Len(sent)
  BY <1>3, <1>4
<1>. PICK k \in 1..Len(sent) : k = Len(sent) + 1 - UnderWay
  BY <1>5
<1>6. /\ delivered' = Append(delivered, sent[k]) /\ sent[k] \in Result
      /\ k \in (Len(sent) + 1 - UnderWay)..Len(sent)
  BY <1>1, <1>2, <1>3, <1>4
<1>7. TypeOK'
  BY <1>1, <1>2 DEF PInv, PublisherTypeOK, TypeOK, channelVars, storageVars, brokerVars, historyVars
<1>8. PublisherTypeOK'
  <2>1. delivered' \in Seq(Result)
    BY <1>2, <1>6
  <2>. QED  BY <1>1, <1>7, <2>1 DEF PInv, PublisherTypeOK, serviceVars, publisherVars, mainVars
<1>9. ResultInHand' /\ NoMessageIsStored'
  BY <1>1 DEF PInv, ResultInHand, NoMessageIsStored, serviceVars, storageVars
<1>10. /\ \A i \in 1..Len(delivered) : delivered[i].num < sent[k].num
       /\ sent[k].num <= pushed
       /\ \A j \in 1..Len(ToPublish) : sent[k].num < ToPublish[j].num
  BY <1>6 DEF PInv, NewerOnTheWire, InOrder, AtMost, Before
<1>11. ToPublish' = ToPublish
  BY <1>1 DEF ToPublish, serviceVars
<1>12. InOrder'
  <2>1. Increasing(delivered') /\ AtMost(delivered', pushed) /\ Before(delivered', ToPublish)
    BY <1>2, <1>6, <1>10, AppendNewer, AppendAtMost, AppendBefore DEF PInv, InOrder
  <2>2. pushed' = pushed /\ results' = results /\ sent' = sent
    BY <1>1 DEF serviceVars, publisherVars
  <2>3. Before(delivered', ToPublish') /\ AtMost(delivered', pushed')
    BY <1>11, <2>1, <2>2, Zenon
  <2>. QED  BY <1>11, <2>1, <2>2, <2>3 DEF PInv, InOrder, Increasing, AtMost, Before
<1>13. NewerOnTheWire'
  <2>1. /\ Len(delivered') = Len(delivered) + 1 /\ delivered'[Len(delivered) + 1] = sent[k]
        /\ \A i \in 1..Len(delivered) : delivered'[i] = delivered[i]
    BY <1>2, <1>6, AppendToQueue
  <2>2. \A i \in 1..(Len(delivered) + 1) : i \in 1..Len(delivered) \/ i = Len(delivered) + 1
    BY <1>2
  <2>3. sent' = sent
    BY <1>1 DEF publisherVars
  <2>4. ASSUME NEW j \in (Len(sent) + 1 - UnderWay')..Len(sent)
        PROVE  j \in (Len(sent) + 1 - UnderWay)..Len(sent) /\ k < j /\ j \in 1..Len(sent)
    BY <1>3, <1>4
  <2>5. ASSUME NEW i \in 1..Len(delivered'), NEW j \in (Len(sent) + 1 - UnderWay')..Len(sent)
        PROVE  delivered'[i].num < sent[j].num
    BY <2>1, <2>2, <2>4 DEF PInv, NewerOnTheWire, InOrder, Increasing
  <2>6. UnderWay' <= Len(sent)
    BY <1>3, <1>4
  <2>. QED  BY <2>3, <2>5, <2>6 DEF NewerOnTheWire
<1>. QED  BY <1>8, <1>9, <1>12, <1>13 DEF PInv

-----------------------------------------------------------------------------
(* Every step keeps the invariant.                                         *)
LEMMA PublisherConsecution ==
  ASSUME PInv, [PublisherNext]_vars
  PROVE  PInv'
<1>1. CASE UNCHANGED vars
  <2>1. UNCHANGED <<clientVars, serviceVars, publisherVars, delivered>> /\ TypeOK
    BY <1>1 DEF vars, PInv, PublisherTypeOK
  <2>2. TypeOK' /\ NoMessageIsStored' /\ UnderWay' = UnderWay
    BY <2>1 DEF PInv, TypeOK, NoMessageIsStored, UnderWay, clientVars, channelVars, storageVars,
                brokerVars, historyVars
  <2>3. UnderWay \in Nat
    BY <2>1, UnderWayType DEF TypeOK
  <2>4. UnderWay' \in Nat /\ UnderWay' <= UnderWay
    BY <2>2, <2>3
  <2>. QED  BY <2>1, <2>2, <2>4, ServiceStays
<1>2. CASE \E s \in Exchanges : PushResults(s)
  BY <1>2, PushResultsInOrder
<1>3. CASE SetDataPublisher \/ StartConsuming \/ LockSync
  BY <1>3, SetUpInOrder
<1>4. CASE SeeResult \/ StoreDeclaration \/ SendDeclaration \/ Publish \/ PopResult
  BY <1>4, SeeResultInOrder, StoreDeclarationInOrder, SendDeclarationInOrder, PublishInOrder,
     PopResultInOrder
<1>5. CASE Loop
  BY <1>5, LoopInOrder
<1>6. CASE BrokerExecutes /\ UNCHANGED <<serviceVars, publisherVars, delivered>>
  BY <1>6, BrokerExecutesInOrder
<1>7. CASE BrokerPublishes
  BY <1>7, BrokerPublishesInOrder
<1>8. CASE (Heartbeat \/ ConnectionLost) /\ UNCHANGED <<serviceVars, publisherVars, delivered>>
  BY <1>8, ConnectionInOrder
<1>. QED  BY <1>1, <1>2, <1>3, <1>4, <1>5, <1>6, <1>7, <1>8, Zenon DEF PublisherNext, Processing, Broker

(* The invariant of the publisher, with which both of its checked          *)
(* properties are proved.                                                  *)
THEOREM PublisherInvariance == PublisherSpec => []PInv
<1>. QED  BY PublisherInitially, PublisherConsecution, PTL DEF PublisherSpec

(* The queues, the counters and the messages of the service have their     *)
(* types, with the client of the publisher.                                *)
THEOREM PublisherTypeCorrect == PublisherSpec => []PublisherTypeOK
<1>1. PInv => PublisherTypeOK
  BY DEF PInv
<1>. QED  BY <1>1, PublisherInvariance, PTL

(* processing_service::run and data_publisher::publish: no result overtakes*)
(* another on its way to its exchange and none arrives twice, although     *)
(* connections are lost and what was declared is sent again.               *)
THEOREM DeliveryInOrder == PublisherSpec => []DeliveredInOrderOnce
<1>1. PInv => DeliveredInOrderOnce
  BY DEF PInv, InOrder, Increasing, DeliveredInOrderOnce
<1>. QED  BY <1>1, PublisherInvariance, PTL
=============================================================================
