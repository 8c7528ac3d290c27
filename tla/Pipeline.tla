------------------------------ MODULE Pipeline ------------------------------
(***************************************************************************)
(* The whole way of a frame: from the example client (TrivialClient) over  *)
(* the broker to a service that main() starts (Startup), through decoding  *)
(* (FrameDecoder), the queues of the detection service (SourceQueues, the  *)
(* specification that DetectionService implements), the model (Yolo) and   *)
(* the processing service, and back to the client.                         *)
(*                                                                         *)
(* The broker and its connections stay up here; what happens when they do  *)
(* not is the subject of MessageBusClient and of the modules on it.  The   *)
(* pixels of a raw frame are freed before the detection thread reads them: *)
(* it may see anything, and the service may crash, which ends it.          *)
(***************************************************************************)
EXTENDS FiniteSets, TrivialClient, Startup, Yolo, ResultsFilter

CONSTANTS
  MaxSizePerQue,     \* max_size_per_que
  Starts,            \* pairs of a command line and an environment
  OtherMessages,     \* what other senders publish in the exchange of SRC
  MaxOthers,         \* bound of the model: how many of those
  SetterCalls        \* calls of the setters of ResultsFilter

ASSUME PipelineAssumption ==
  /\ SRC \in Nat \ {0} /\ MaxSizePerQue \in Nat \ {0} /\ MaxSent \in Nat
  /\ Video \in Seq(Picture) /\ LastClass \in Nat /\ Leftovers \subseteq Seq(Object)

(* Headers are integers, and every picture is one.                         *)
ASSUME MessagesAssumption ==
  \A m \in OtherMessages :
    m.imgtype \in Int /\ m.width \in Int /\ m.height \in Int /\ m.body.picture \in Picture

(* A shape is two numbers, and may be no shape of a model for all that.    *)
ASSUME StartsAssumption ==
  \A start \in Starts :
    /\ "shape" \in DOMAIN start[1].given => start[1].given["shape"] \in [cols : Int, rows : Int]
    /\ "model_shape" \in DOMAIN start[2] => start[2]["model_shape"] \in [cols : Int, rows : Int]

ASSUME SetterAssumption ==
  SetterCalls \subseteq
    [setter : {"exclude_objects", "set_objects_threshold", "set_global_threshold",
               "set_applied_detections_limit"}, class : 0..LastClass, value : Int]

VARIABLES
  servicePc,         \* where the main() of the service is
  configuration,     \* what it has made of its command line
  announcements,     \* how many wait in the queue of available sources
  feedBound,         \* is the queue of the service bound to the exchange of SRC
  feed,              \* numbers of the frame messages in that queue
  kept,              \* numbers of those delivered and not acknowledged
  foreign,           \* history: numbers of the messages that others have sent
  pending, accepted, results,     \* of SourceQueues
  reports,           \* what push_results got: source, message, detections
  processed          \* how many of them the processing service has removed

serviceVars == <<servicePc, configuration>>
brokerVars == <<announcements, feedBound, feed, kept, foreign>>
queueVars == <<pending, accepted, results, reports>>
vars == <<clientVars, serviceVars, brokerVars, queueVars, processed>>

(* The source that main() warms the model up with, and its only frame.     *)
WarmUp == 0
WarmUpPicture(config) == Blank(config.shape.cols, config.shape.rows)

(* The configurations in which the service runs.                           *)
Configurations ==
  {Configuration(start[1], start[2]) :
     start \in {s \in Starts : Outcome(s[1], s[2]) = "running"}}

(* What can be in a queue: a picture, and the number of its message.       *)
Messages == OtherMessages \cup {RawMessage(picture) : picture \in Range(Video)}
Pictures ==
  {FrameOf(m) : m \in {n \in Messages : IsOffered(n)}}
    \cup {WarmUpPicture(c) : c \in Configurations}

(* What may be seen of it when it is detected.                             *)
Views ==
  (UNION {ReadLater(m, FrameOf(m)) : m \in {n \in Messages : IsOffered(n)}})
    \cup {WarmUpPicture(c) : c \in Configurations}
Usable == {picture \in Views : ~ModelThrows(picture)}

(* object_detection as a table, which TLC fills in once.                   *)
Detections == [c \in Configurations |-> [p \in Usable |-> ObjectDetection(c, p)]]
Answer(config, picture) == Detections[config][picture]

Queues == INSTANCE SourceQueues WITH
            Sources <- {WarmUp, SRC},
            FrameKinds <- [message : 0..MaxSent, picture : Pictures]

Init ==
  /\ ClientInit
  /\ servicePc = "options"
  /\ configuration = [version |-> "v8", shape |-> Default.shape, exchange |-> AVAILABLE_SOURCES_EX]
  /\ announcements = 0 /\ feedBound = FALSE /\ feed = << >> /\ kept = {}
  /\ foreign = {}
  /\ Queues!Init /\ reports = << >> /\ processed = 0

PipelineTypeOK ==
  /\ interrupt \in BOOLEAN /\ alive \in BOOLEAN /\ feedBound \in BOOLEAN
  /\ mainPc \in {"wait", "join_publisher", "join_consumer", "join_img_consumer"}
  /\ publisherPc \in {"announce", "open", "grab", "read", "done"}
  /\ position \in 0..Len(Video)
  /\ consumerPc \in {"declare", "consume", "done"}
  /\ servicePc \in {"options", "register", "offer", "sleep", "publisher", "running",
                   "ended", "crashed"}
  /\ announcements \in 0..1
  /\ Range(outbox) \subseteq 0..Len(sent) /\ Len(sent) <= MaxSent
  /\ Range(feed) \cup kept \cup Range(inbox) \cup Range(received) \subseteq DOMAIN sent
  /\ Queues!TypeOK
  /\ Len(reports) = Len(results) /\ processed \in 0..Len(reports)

-----------------------------------------------------------------------------
(* main() of the service.  A bad command line ends it; otherwise it        *)
(* creates the model, starts the detection thread and warms the model up.  *)
ReadOptions ==
  /\ servicePc = "options"
  /\ \E start \in Starts :
       IF Outcome(start[1], start[2]) = "running"
       THEN servicePc' = "register" /\ configuration' = Configuration(start[1], start[2])
       ELSE servicePc' = "ended" /\ UNCHANGED configuration
  /\ UNCHANGED <<clientVars, brokerVars, queueVars, processed>>

RegisterWarmUp ==
  /\ servicePc = "register" /\ servicePc' = "offer"
  /\ Queues!Register(WarmUp)
  /\ UNCHANGED <<clientVars, configuration, brokerVars, reports, processed>>

OfferWarmUp ==
  /\ servicePc = "offer" /\ servicePc' = "sleep"
  /\ Queues!Accept(WarmUp, [message |-> 0, picture |-> WarmUpPicture(configuration)])
  /\ UNCHANGED <<clientVars, configuration, brokerVars, reports, processed>>

(* After five seconds, whether the frame is detected by then or not.       *)
EndWarmUp ==
  /\ servicePc = "sleep" /\ servicePc' = "publisher"
  /\ Queues!Unregister(WarmUp)
  /\ UNCHANGED <<clientVars, configuration, brokerVars, reports, processed>>

(* The processing thread runs already; the publisher is set, and then the  *)
(* event loop of the consumer declares its queues and binds them.          *)
SetUp ==
  /\ servicePc = "publisher" /\ servicePc' = "running"
  /\ UNCHANGED <<clientVars, configuration, brokerVars, queueVars, processed>>

Main == ReadOptions \/ RegisterWarmUp \/ OfferWarmUp \/ EndWarmUp \/ SetUp

-----------------------------------------------------------------------------
(* External: the broker takes what the client sends.  An announcement and  *)
(* a frame are lost when no queue is bound to their exchange.              *)
Listens == servicePc = "running" /\ configuration.exchange = AVAILABLE_SOURCES_EX

Copied(queue, number) == IF feedBound THEN Append(queue, number) ELSE queue

BrokerTakes ==
  /\ outbox # << >>
  /\ outbox' = Tail(outbox)
  /\ IF Head(outbox) = Announcement
     THEN /\ announcements' = IF Listens THEN announcements + 1 ELSE announcements
          /\ UNCHANGED feed
     ELSE feed' = Copied(feed, Head(outbox)) /\ UNCHANGED announcements
  /\ UNCHANGED <<interrupt, mainPc, publisherPc, position, sent, consumerVars, alive,
                 serviceVars, feedBound, kept, foreign, queueVars, processed>>

(* Another program publishes in the same exchange.                         *)
IsOwn(n) == n \notin foreign

OtherSends(message) ==
  /\ Len(sent) < MaxSent
  /\ Cardinality(foreign) < MaxOthers
  /\ sent' = Append(sent, message)
  /\ foreign' = foreign \cup {Len(sent')}
  /\ feed' = Copied(feed, Len(sent'))
  /\ UNCHANGED <<interrupt, mainPc, publisherPc, position, outbox, consumerVars, alive,
                 serviceVars, announcements, feedBound, kept, queueVars, processed>>

(* The announcement is read: the source is registered, and a queue is      *)
(* declared and bound, which the broker does later.                        *)
ReadAnnouncement ==
  /\ servicePc = "running" /\ announcements > 0
  /\ announcements' = announcements - 1
  /\ Queues!Register(SRC)
  /\ UNCHANGED <<clientVars, serviceVars, feedBound, feed, kept, foreign, reports, processed>>

FedWhenKnown(s) == FALSE                   \* slip: visit_new_src without the !
IsFed(s) == s \in DOMAIN pending

BindFeed ==
  /\ servicePc = "running" /\ IsFed(SRC) /\ ~feedBound
  /\ feedBound' = TRUE
  /\ UNCHANGED <<clientVars, serviceVars, announcements, feed, kept, foreign, queueVars, processed>>

-----------------------------------------------------------------------------
(* new_frame_msg_callback: the frame is queued, or dropped because its     *)
(* queue is full or it has no source; the message is acknowledged or not.  *)
HasRoom(s) == s \in DOMAIN pending /\ Len(pending[s]) < MaxSizePerQue

FrameArrives ==
  /\ feed # << >>
  /\ LET n == Head(feed) IN
       /\ IF IsOffered(sent[n]) /\ HasRoom(sent[n].srcid)
          THEN Queues!Accept(sent[n].srcid, [message |-> n, picture |-> FrameOf(sent[n])])
          ELSE UNCHANGED <<pending, accepted, results>>
       /\ kept' = IF IsAcked(sent[n]) THEN kept ELSE kept \cup {n}
  /\ feed' = Tail(feed)
  /\ UNCHANGED <<clientVars, serviceVars, announcements, feedBound, foreign, reports, processed>>

(* The detection thread reads the pixels when the callback has returned;   *)
(* a frame on which the model throws stays where it is, in front of its    *)
(* queue.                                                                  *)
Seen(frame) ==
  IF frame.message = 0 THEN {frame.picture} ELSE ReadLater(sent[frame.message], frame.picture)

Detect(s) ==
  /\ servicePc # "crashed"
  /\ Queues!Detect(s)
  /\ LET frame == Head(pending[s]).kind IN
       \E picture \in Seen(frame) :
         /\ ~ModelThrows(picture)
         /\ reports' = Append(reports, [src |-> s, message |-> frame.message,
                         detections |-> Answer(configuration, picture)])
  /\ UNCHANGED <<clientVars, serviceVars, brokerVars, processed>>

(* Reading freed memory may also end the program.  Its queue, which is     *)
(* exclusive, goes with its connection.                                    *)
IsDangling(frame) == frame.message # 0 /\ IsRaw(sent[frame.message])

Crash(s) ==
  /\ servicePc # "crashed"
  /\ s \in DOMAIN pending /\ pending[s] # << >>
  /\ IsDangling(Head(pending[s]).kind)
  /\ servicePc' = "crashed"
  /\ feedBound' = FALSE /\ feed' = << >> /\ kept' = {}
  /\ UNCHANGED <<clientVars, configuration, announcements, foreign, queueVars, processed>>

(* The processing thread: without a publisher the result is only removed,  *)
(* which is what may become of the warm-up; a result reaches the client    *)
(* when the client has bound its queue to the exchange of the source.      *)
AlwaysResult == TRUE                        \* slip: no test of results.empty()
HasResult == processed < Len(reports)

LatestReport == reports[Len(reports)]       \* slip: back() for front()
NextReport == reports[processed + 1]

ProcessResult ==
  /\ servicePc \in {"publisher", "running"}
  /\ HasResult
  /\ processed' = processed + 1
  /\ inbox' = IF Bound /\ NextReport.src = SRC
              THEN Append(inbox, NextReport.message) ELSE inbox
  /\ UNCHANGED <<interrupt, mainPc, publisherVars, consumerPc, received, alive, serviceVars,
                 brokerVars, queueVars>>

-----------------------------------------------------------------------------
Client == Publisher \/ Consumer \/ Join \/ PressKey

ServiceUnchanged == UNCHANGED <<serviceVars, brokerVars, queueVars, processed>>

Next ==
  \/ Client /\ ServiceUnchanged
  \/ Main
  \/ BrokerTakes \/ BindFeed
  \/ \E message \in OtherMessages : OtherSends(message)
  \/ ReadAnnouncement \/ FrameArrives
  \/ \E s \in {WarmUp, SRC} : Detect(s) \/ Crash(s)
  \/ ProcessResult

Spec == Init /\ [][Next]_vars

(* Every thread keeps running and the broker delivers.  A key press, the   *)
(* messages of others and a crash may never come.                          *)
Fairness ==
  /\ WF_vars(Publisher /\ ServiceUnchanged)
  /\ WF_vars(Consumer /\ ServiceUnchanged)
  /\ WF_vars(Main)
  /\ WF_vars(BrokerTakes \/ BindFeed)
  /\ WF_vars(ReadAnnouncement \/ FrameArrives)
  /\ WF_vars(\E s \in {WarmUp, SRC} : Detect(s))
  /\ WF_vars(ProcessResult)

FairSpec == Spec /\ Fairness

-----------------------------------------------------------------------------
Rectangle(o) ==
  [x |-> o.left, y |-> o.top, width |-> o.right - o.left, height |-> o.bottom - o.top]

ObjectsOf(n) == Range(sent[n].body.picture.objects)

(* json_converter publishes what object_detection returned: every          *)
(* detection in the answer to a frame that was decoded is an object on the *)
(* picture of its message, at its place in that picture (not in the padded *)
(* or scaled one), with its own class and with enough confidence.  Nothing *)
(* of the kind holds for raw frames, whose pixels are freed too early.     *)
AnswersShowThePicture ==
  \A i \in DOMAIN reports : LET n == reports[i].message IN
    (n # 0 /\ ~IsRaw(sent[n])) =>
      \A d \in Range(reports[i].detections) :
        /\ d.confidence > modelScoreThreshold
        /\ \E o \in ObjectsOf(n) :
             d.box = Rectangle(o) /\ \A c \in DOMAIN o.scores : o.scores[c] <= o.scores[d.class_id]

(* An object that the network is sure of is in the answer, or the answer   *)
(* has a box over it that is at least as sure, also when the picture had   *)
(* to be made a square.  That is for colour pictures that are sent         *)
(* encoded and are not taken for raw ones.                                 *)
IsSure(score) == score > modelScoreThreshold

ShowsItsPicture(m) == ~IsRaw(m) /\ CanDecode(m.body) /\ m.body.picture.channels = 3

ClearObjectsAreAnswered ==
  \A i \in DOMAIN reports : LET n == reports[i].message IN
    (n # 0 /\ ShowsItsPicture(sent[n])) =>
      \A o \in ObjectsOf(n) :
        (IsSure(o.confidence) /\ \E c \in DOMAIN o.scores : IsSure(o.scores[c])) =>
          \E d \in Range(reports[i].detections) :
            /\ d.box = Rectangle(o) \/ Overlap(d.box, Rectangle(o))
            /\ d.confidence >= Confidence(configuration, o)

(* A message that new_frame_msg_callback leaves unacknowledged, and that   *)
(* the broker therefore still has, is neither waiting to be detected nor   *)
(* answered: what has led to a frame is acknowledged, whatever became of   *)
(* the frame.                                                              *)
IsWaiting(n) ==
  SRC \in DOMAIN pending /\ \E i \in DOMAIN pending[SRC] : pending[SRC][i].kind.message = n

KeptAreNotAnswered ==
  \A n \in kept : ~IsWaiting(n) /\ \A i \in DOMAIN reports : reports[i].message # n

(* The client reads the results of its own frames in the order in which it *)
(* published them, none of them twice, although results carry no number    *)
(* and other senders use the same exchange.                                *)
ReceivedInOrder ==
  \A i, j \in DOMAIN received :
    (i < j /\ IsOwn(received[i]) /\ IsOwn(received[j])) => received[i] < received[j]

(* The variables model_type, model_shape and model_name never decide which *)
(* model is loaded, although main() looks for them: in another environment *)
(* the same command line leads to the same network, if to any.             *)
EnvironmentNeverDecides ==
  servicePc = "register" =>
    \A start \in Starts, other \in {s[2] : s \in Starts} :
      LET now == Configuration(start[1], start[2])
          then == Configuration(start[1], other)
      IN  (configuration = now /\ Outcome(start[1], other) = "running") =>
             then.version = now.version /\ then.shape = now.shape

(* Of the result that the processing thread is about to take apply_results *)
(* would draw, after any calls of the setters, what these ask for: the     *)
(* first threshold given for a class counts, or else the last global one,  *)
(* exclusions add up, and the limit limits nothing.                        *)
Histories == UNION {[1..n -> SetterCalls] : n \in 0..2}

FilterFollowsCalls ==
  processed < Len(reports) =>
    LET detections == NextReport.detections IN
    \A history \in Histories :
      Drawn(After(history), detections)
        = Selected(detections, {d \in Range(detections) : IsWanted(history, d)})

-----------------------------------------------------------------------------
IsFaulty(s) ==
  /\ s \in DOMAIN pending
  /\ pending[s] # << >>
  /\ Head(pending[s]).kind.picture.channels = 1

(* A frame that was queued while the client listens comes back to it as a  *)
(* result, unless the client ends before, a gray picture in front of the   *)
(* queue makes the model throw, or the service crashes on freed pixels.    *)
QueuedIsReceived ==
  \A n \in 1..MaxSent :
    (IsWaiting(n) /\ Bound) ~> (n \in Range(received) \/ ~Bound \/ IsFaulty(SRC)
                                    \/ servicePc = "crashed")

(* A source that is announced to a running service is fed into it.         *)
AnnouncedIsFed ==
  (Listens /\ alive /\ Announcement \in Range(outbox)) ~> (feedBound \/ publisherPc = "done" \/ ~alive)

(* trivial_client.cpp:231, "press any button to quit": the publisher ends, *)
(* wherever it is in the video, although it shows it over and over.        *)
PublisherQuits == interrupt ~> (publisherPc = "done" \/ ~alive)

(* After the key the next result ends the consumer; only a result does.    *)
ConsumerQuits == (interrupt /\ Bound /\ inbox # << >>) ~> ~Bound
=============================================================================
