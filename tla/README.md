# A verification project for the object-detection microservice

The program receives video frames from RabbitMQ, runs a YOLO model on them and
publishes what it detects. This directory holds TLA+ models of its parts and of
the way of a frame through all of them, the TLC runs that check them on small
instances, and proofs, checked by TLAPS, that the invariants of all of them and
both refinements hold for every instance.

Paths of the sources are relative to the repository.

## 1. Inventory

### Threads

| thread | started by | runs |
|---|---|---|
| main | the system | warm-up, setup, then joins |
| detection | `detection_service::run_background_service` | `basic_detection_service::run` |
| processing | `processing_service::run_background_service` | `basic_processing_service::run` |
| consumer loop | `rabbitmq->client_run()` | event loop, callbacks for announcements and frames |
| publisher loop | `rabbitmq_publisher->client_run()` | event loop of the client that the processing thread publishes with |

The example client is a program of its own with four threads: `main()`, the
publisher of a video, the consumer of results and the consumer of images.

### Components

| component | state | operations | what makes it correct |
|---|---|---|---|
| Detection service (`src/services/detection_service.cpp`) | `queues`, `que_mutexes`, `dropped_frames` (maps over source ids), `inference_mutex`, counters, `current_queue_id` | `register_source`, `unregister_source`, `try_add_to_queue`, `run`, two strategies | bounded queues; the frame removed is the frame answered; answers once and in order; maps and mutexes agree; no source starves |
| Broker client (`src/rabbitmq/message_bus_client.cpp`, `action_storage.hpp`) | connection, channel and its two flags, stored actions, `m_binded_queues` | constructor, `declare_exchange`, `add_listener`, `publish`, `client_run`, `restore` and the channel callbacks | after a lost connection every call is in effect again, each once; recovery happens |
| Consumer (`src/rabbitmq/rabbitmq_client.cpp`) | the three callbacks | announcement of an available source, of an obsolete source, a frame | registered sources are listened to, dropped ones are not; announcements are acknowledged; a frame is queued once |
| Processing service and data publisher (`src/services/processing_service.cpp`, `src/publishers/`) | `results`, `sync`, `json_publisher`, `declared_exchanges` | `push_results`, `run`, `set_data_publisher`, `publish`, `declare_exchange` | results reach an exchange that exists, in order, once |
| Program start (`main.cpp`) | local | options, environment, warm-up, setup | nothing is used before it is set up; the command line decides which model runs |
| YOLO models (`src/ai/`) | network, classes | `object_detection` | detections are in the coordinates of the frame, above the thresholds, and of the object they name |
| Example client (`examples/trivial_client.cpp`) | `interrupt`, connections | announce, publish a video, read results, stop | results come in the order of the frames; it ends after a key press |
| Image publisher, interfaces, build files | | | see section 7 |

Interactions: the consumer's callbacks call the detection service (through
`detection_service_visitor`) in the consumer loop's thread; the detection thread
calls `processing_service::push_results`; the processing thread calls the
publisher, which calls its `message_bus_client` while the publisher loop runs
in it. Everything else goes over the broker.

### What is hard

- Two threads share the maps of the detection service, with three locking
  disciplines: no lock (`register_source`, `try_add_to_queue`'s size test,
  `run`'s emptiness test), `inference_mutex`, and a mutex per queue.
- `run` holds a pointer to the front frame over a whole inference.
- Restoring a connection replays the original calls, which store themselves
  again while they are replayed; the processing thread may call in the middle.
- Replies of the broker come later than the messages that depend on them (a
  source becomes obsolete before its queue has a name).
- The broker keeps named queues when a connection is lost, and nothing at all
  when it restarts.
- A frame is described by its sender: the headers may be missing or not fit the
  body, the body may not be decodable, the picture may not suit the model.
- The service may start before, while or after a client announces a source and
  publishes frames, and results carry no number of a frame.

`PROJECT.json` lists every hazard at its line, with the properties for it.

## 2. Modules

| module | models | depends on |
|---|---|---|
| `StdMap` | `try_emplace` and `erase` of `std::map` | |
| `Selection` | the elements of a sequence that are in a set, as a recursive function | |
| `SourceQueues` | abstract specification: a bounded queue per registered source, answers from its head | `StdMap` |
| `DetectionService` | the detection service: client thread and detection thread, one action per access to shared state | `StdMap`; refines `SourceQueues` |
| `CallsPerConnection` | abstract specification: every connection gets every call of the users, in order and once | |
| `MessageBusClient` | the broker client, with the channel and the broker as environment | `StdMap`, `Selection`; refines `CallsPerConnection` |
| `RabbitmqClient` | the consumer: callbacks over `MessageBusClient` | extends `MessageBusClient` |
| `ResultsPublisher` | results queue, processing thread and publisher over a `MessageBusClient` shared with its event loop, in the order in which `main()` starts them | extends `MessageBusClient` |
| `FrameDecoder` | operators: what the frame callback makes of headers and body, and whether it acknowledges | |
| `Yolo` | operators: `object_detection` of both models | `Selection` |
| `Startup` | operators: options and environment of `main()`, how it ends, what it configures | `StdMap` |
| `ResultsFilter` | operators: `apply_results` and the setters it looks at | `StdMap`, `Selection` |
| `TrivialClient` | the threads of the example client | extends `FrameDecoder` |
| `Pipeline` | composition: client, broker, start of the service, decoding, queues, model, processing thread | extends `TrivialClient`, `Startup`, `Yolo`, `ResultsFilter`; instance of `SourceQueues` |
| `CollectionProofs` | lemmas: maps, queues, what is in a sequence and how often, induction up to a number | |
| `SourceQueuesProofs`, `DetectionServiceProofs`, `MessageBusClientProofs`, `RabbitmqClientProofs`, `ResultsPublisherProofs`, `AnswerProofs`, `PipelineProofs` | theorems (section 4) | `CollectionProofs` |
| `MC*` | instances for TLC | |

### Detection service

`cliPc` is where the client thread is in a call, `detPc` where the detection
thread is in `run()`. A call is one thread's at a time because `main()` ends
its warm-up before it starts the event loop. The actions:

| code | actions |
|---|---|
| `register_source` | `RegisterSource`, `EmplaceQueue`, `EmplaceMutex` |
| `unregister_source` | `UnregisterSource`, `LockInferenceForErase`, `EraseSource` |
| frame callback, `try_add_to_queue` | `TryAddToQueue`, `LockQueueForPush`, `PushFrame`, `AckFrame` |
| `run` | `SeeQueues`, `LockInference`, `ChooseNextQueue`, `SkipQueue` or `FetchFrame`, `DetectionThrows` or `PushResults`, `LockQueueForPop`, `PopFrame` |

`strategy` is the one that the constructor took. It is constant, and both
`prioritize_order_strategy` and `prioritize_load_strategy` are initial values
of it (`Strategies`).

`current_queue_id` chosen from an empty map, or from a map that is being
changed, is any identifier: the code reads past the end of the map. A search in
a map that is being changed may miss. What the two subscripts at the end of
`run` would do to a broken tree is not modelled: the proofs and the runs hold
for executions in which they do not meet an insertion. Reading
`front()` and `empty()` of a `std::queue` while the other thread pushes is
modelled as reading before or after the push: `front()` depends on the begin
iterator's element only, which a push does not move.

`accepted` and `results` are history: the numbers of the frames and the calls
of `push_results`. `total_frames_processed` is the counter of the code.

### Broker client

`loop` says where the event loop is: not started, dispatching, or in one of the
parts of `restore()` (`OnReady` makes the copy of the actions, `RestoreClear`
clears, `RestoreReplay` repeats one call, `RestoreDone` looks at the channel).
`link` is the connection with its channel; "broken" is a channel that the broker has
closed on a living connection. `wire` and `replies` are the commands and
answers under way; they are lost with the channel. `calls` is history.
`event_base_dispatch` returns when no events are left, that is without a
connection: `Reconnect` needs `link = "lost"`, and `Heartbeat` is what keeps the
loop inside otherwise.

`CallsPerConnection` is what the users rely on. `due` maps to the stored commands
on the wire and then those that `restore()` has still to repeat, which are the
whole storage from the failure of a channel until `restore()` makes its copy.

The broker executes commands in order, names queues, closes the channel when
an exchange exists with another type or is missing, forgets the queues it named
with their connection, and everything when it restarts (nothing is declared
durable).

### Consumer

A source and its exchange are one name, the detection service is the set
`registered`. A callback is one action with all the calls it makes on the
client. Announcements survive a lost connection in their named queue and come
back when they were not acknowledged; frames go away with their queue. Frames
of one queue arrive in order.

`Body` is what an announcement can say to `source_from_json`: a source;
`NoSource`, for which it returns nothing (no JSON, no id or no exchange); or
`BadId`, an id that is not a number, for which `validate_json` logs the error and
still returns true. The callback then goes on with an identifier that was never
initialized (any one) and with an empty exchange, which is the broker's default
exchange: declaring it as a fanout exchange closes the channel.

### Results publisher

`procPc` is where the processing thread is in `run()`. Its call of
`declare_exchange` is two actions (store, then send), because the event loop
can clear the storage in between; a send and a change of the storage are atomic
each. `main()` starts the processing thread, sets the publisher, and only then
starts the event loop that brings sources; the detection thread has run since
the warm-up, whose result may be waiting already. `json_publisher` and
`consuming` are these steps. That `channel` itself may be replaced while the other thread is in it,
and that a `std::vector` is changed by two threads, is not modelled further.

### Pipeline and its parts

A picture has a size, a number of channels and the objects on it, of the classes 0 to
`LastClass`; a unit of length is 160 pixels (640 is 4), which only the defaults of the
program depend on.
A message is the four headers and a body in some format. `FrameOf` is the frame
that the callback hands on: a header over the body when the headers describe
raw pixels, or else the decoded image, or else a blank one. A body without a byte makes
both the decoder and the constructor of a header throw.

A raw frame does not have its pixels: they belong to the body, which is freed when the
callback returns (the run `raw_frame`), and the detection thread reads them later. So
`FrameOf` of a raw message is a header only, and what `Detect` sees of it is a free
choice (`ReadLater`): the objects of the body, if the headers fit it and the memory is
as it was, or any of `Leftovers`. Or reading them ends the service (`Crash`), with
its connection and the queue of frames that belongs to it; nothing starts it
again. The client sends raw frames only, hence nothing is claimed of what is
on their answers, only of their order, their number, and their arrival if the service lives.

In `Yolo` the network finds the objects of its input, in the coordinates of its
input, with a score per class. What the code does around it is
modelled: the padding to a square, the thresholds of each version, `minMaxLoc`,
the factors, truncation, and the use of the indices that `NMSBoxes` returns.
Floating-point numbers are exact: a coordinate of a row stands for itself divided by
the side of the picture that was scaled, and a row carries twice its centre, so
that every quotient is formed once, in `Box`. `NMSBoxes` works in rounds (`KeepBest`):
keep the surest box of the rest, drop what overlaps it.

`Startup` gives for a command line and an environment how `main()` ends and the
model it creates. What `parse_command_line` throws is caught only when it is an
unknown option. Then not even the defaults are in the map of options, so the
environment is asked for each; but only `model_shape` is assigned.

`Pipeline` uses `SourceQueues`, which `DetectionService` implements, for
the queues and the detection thread, and adds what a frame is (a picture) and
what the model answers (`reports`). `servicePc` is where `main()` of the service
is. Connections stay up here; what happens when they do not is the subject
of `MessageBusClient`, `RabbitmqClient` and `ResultsPublisher`. The broker
copies a message only to a queue that is bound by then: announcements
and frames published earlier are lost (`Listens`, `feedBound`, `Bound`). Anybody
else may publish in the exchange of the source (`OtherSends`); `foreign` is history,
the numbers of such messages. Nobody
unregisters the source: the example client does not.

The client's connection has its own thread, which sends what is in `outbox`; it
goes on running when the publisher thread cannot open the video and returns,
which terminates the program (`CannotOpenVideo`).

`apply_results` is not called by the program; its operators are applied to the
results that the processing thread takes, after every sequence of at most two calls of
the setters (`FilterFollowsCalls`).

## 3. Runs

`pipeline` takes about a minute and a half, each other passing run less than
half a minute. "V" marks runs that show a property violated.

| run | shows |
|---|---|
| `detection` | type, `QueueBound`, `FrontIsProcessed`, `MapsAgree`, `QueueMutexHolders`, `ResultsInOrder`, `WaitingIsNewer`; the service implements `SourceQueues`; `HealthyFrontAnswered`: a source is served although another one's front frame always makes the model throw. All but the last for both strategies |
| `end_dereference` V | the map may become empty between the test and the lock |
| `raw_frame` V | pixels of a raw frame are read after they were freed |
| `faulty_frame` V | a frame on which the model throws blocks its source for ever |
| `unregister_starves` V | `unregister_source` may wait for ever |
| `bus` | storage complete (`NothingForgotten`), calls in effect (`CallsAreInEffect`), once (`OneQueuePerCall`), no stale queue names (`BindedQueuesExist`), the client implements `CallsPerConnection` (`RestoresCalls`), recovery (`Recovers`) |
| `channel_error` V | a closed channel on a living connection stays closed |
| `consumer` | `RegisteredIsListenedTo`, `AvailableIsAcknowledged`, `AnnouncementIsHandled` |
| `frame_twice` V | a source announced again can have two queues, and its frames arrive twice |
| `publisher` | `DeliveredInOrderOnce`; `ResultIsPublished`: because of the order in which `main()` starts, no result of a source finds the processing thread without a publisher |
| `pipeline` | `AnswersShowThePicture` and `ClearObjectsAreAnswered`: the answer to a frame that is not raw has the objects of its own picture at their places, and of an encoded colour picture no sure one is missing, unless under a box that is at least as sure; `KeptAreNotAnswered`: no message is unacknowledged and yet waiting or answered; `ReceivedInOrder` at the client; `EnvironmentNeverDecides` which model is loaded; `FilterFollowsCalls`; `QueuedIsReceived`, `AnnouncedIsFed`: a frame becomes a result unless the service crashes, an announcement a binding; `PublisherQuits`, `ConsumerQuits` after the key |
| `lost_declaration` V | a declaration made in the middle of `restore` is forgotten |

Each violation is listed under "findings" in `PROJECT.json` with the line of the
documentation or of the code that promises otherwise.

### Bounds

- Sources: two, so that one can disturb the other, be chosen next, and be
  registered again.
- `MaxSizePerQue` two: empty, between and full. Three frames fill a queue and
  leave one that is refused, that goes to the other source, or that takes the
  place of a frame removed.
- Lost connections: two for the client (the second one tests what the first
  restoration stored), one for the consumer and the publisher, whose interest is
  the place of the failure relative to a message.
- Calls: four for the client: both exchanges and a queue of each kind, or one
  exchange and three queues. Three generated names are then enough: a name is
  free again with its connection.
- Sources of the consumer: one, with the two other kinds of body. Announcements:
  three, which is available, obsolete, available of the source, or a bad body
  before, between or after two of them. Frames: one, copied to every bound queue.
- Results: two of two sources after that of the warm-up; two results are enough
  for one to overtake or repeat the other, and their declarations for one to
  fall into a restoration.
- The way of a frame: a video of three pictures, of which the client publishes
  the second; two messages, one of which another sender may send: an upright, a wide or
  a gray encoded picture, garbage, raw headers over an empty body, a message without
  source, a raw gray picture. `Leftovers` is one dog at another place, so that freed
  pixels show what was, something else, or end the service.
  Queues hold one frame, so that the second message may be dropped. The two
  messages are enough for answers to be exchanged, doubled or put out of order.
- Starts: both versions (one in capitals), a model that is not square, another exchange,
  an invalid shape, no options, an unknown option, and another error of the parser, each with the environment that matters to it.
- `Park` has two objects of different classes in nearly the same place, one of
  which suppresses the other, and a third below one of the two thresholds.
- `OtherType` holds an exchange that the broker refuses, so that closed channels
  occur in passing runs; in the consumer it is the default exchange.

Deadlock is checked in every run but `pipeline`, where everything really may
stop: a service with bad options or a crash ends, and so does a client, and no message is
left.

### Fairness

Weak fairness of each thread's steps as a whole: the code never leaves its
loops, and a step of a thread that stays enabled is taken. Nothing is
assumed about who gets a mutex that two threads want; `HealthyFrontAnswered`
therefore has the hypothesis that unregistering ceases, and `UnregisterCompletes`
fails. The broker is weakly fair too: it executes and delivers what it was
given. Lost connections are bounded by `MaxFailures`, so in the end the
connection stays. Calls of other services (frames, announcements) are not fair. In
`Pipeline` each thread of the client and of the service, and the broker, are
weakly fair; the key press and what other senders publish are not.
`AnnouncementIsHandled` gives up what waits in a queue that a broker restart
deletes, and a channel that the broker closed; `ResultIsPublished` gives up
results once a connection was lost, because `publish` does not keep them.

## 4. Proofs

Every invariant that a passing run checks is a theorem, and so are both
refinements (`AbstractSpec`, `RestoresCalls`). The theorems hold for every value
of the constants under these assumptions, which TLC evaluates in the runs:

| assumption | says | because |
|---|---|---|
| `ConstantsAssumption` | identifiers of sources are numbers, a queue has room for a frame | `unsigned int` keys; `max_size_per_que` is 30 in `detection_service.hpp` |
| `ClientConstants` | generated and given names of queues differ, none is empty | the queues of announcements have names of their own (`main()`), the broker makes the others; the empty name asks for one |
| `SourcesConstants` | the exchanges are those of the sources and of announcements, and the default exchange, which is no fanout | the broker refuses to declare the default exchange |
| `ResultsAssumption` | the source of the warm-up is one of the names of sources | a source and its output exchange have one name in the model |
| `PipelineAssumption`, `MessagesAssumption`, `StartsAssumption`, `SetterAssumption` | types: pictures have a positive size, headers and shapes are integers of any sign, freed memory may show any objects, classes of the setters are known ones, the client's source is not 0 | the types of the C++ variables; 0 is the source of the warm-up |
| `NamelessFile` | no model file has neither a path nor a name | it could not be opened |

The bounds (`MaxCalls`, `MaxFailures`, `MaxFrames`, ...) are any natural numbers,
so a theorem holds for executions of every length.

The inductive invariants below (`IInv` of either module, `SetUpInv`, `CInv`, `PInv`,
`PipelineInv`) also hold on the instances of section 3, where TLC has checked them.

### Detection service (`DetectionServiceProofs`, `SourceQueuesProofs`)

| theorem | statement |
|---|---|
| `TypeCorrect`, `QueuesAreBounded`, `FrameStaysInFront`, `MapsStayTogether`, `MutexesAreHeld` | `[]TypeOK`, `[]QueueBound`, `[]FrontIsProcessed`, `[]MapsAgree`, `[]QueueMutexHolders` |
| `Implementation` | `Spec => AbstractSpec`, the refinement of `SourceQueues` |
| `AnswersInOrder`, `WaitingFramesAreNewer` | `[]ResultsInOrder`, `[]WaitingIsNewer` |
| `Safety` | `SourceQueues` answers in order and once |

None of these properties is inductive. `IInv` adds: who holds `inference_mutex`
follows from the two program counters (`InferenceMutexHolder`); what a thread has
tested still holds when it acts on it (`TestsStillHold`): the client thread is the
only one that adds keys and frames, so a registered source stays registered and a
queue with room keeps it, and the detection thread is inside `inference_mutex`,
the only lock under which keys go away. With it, each action preserves each
conjunct (one lemma per action, `Invariance`).

For the refinement a frame counts as taken from the moment its result is pushed
(`Waiting`), so `EmplaceQueue`, `EraseSource`, `PushFrame` and `PushResults` map
to the four abstract actions and every other step stutters. `SourceQueuesProofs`
proves order and uniqueness once for the abstract queues (`Safety`), from an
invariant that says that numbers in a queue ascend, no number waits twice and
nothing that waits was answered; the refinement carries both back to the service.

### Broker client (`MessageBusClientProofs`)

| theorem | statement |
|---|---|
| `ClientTypeCorrect`, `StorageIsComplete`, `BindedQueuesAreThere` | `[]TypeOK`, `[]NothingForgotten`, `[]BindedQueuesExist` |
| `RestorationImplementation` | `Spec => RestoresCalls`, the refinement of `CallsPerConnection` |
| `CallsTakeEffect` | `[]CallsAreInEffect` |
| `NoQueueTwice` | `[]OneQueuePerCall` |

`IInv` adds: `restore()` runs on an open connection and starts with a copy that is
complete (`LoopAndLink`); to repeat a call moves it from the copy to the storage
and leaves both together as they are (`MoveOne`). A channel that is open is ready,
and has its error flag set only until `restore()` is over (`ErrorIsKnown`). An
answer under way names a queue of the present connection (`AnswersNameQueues`),
because answers are lost with the channel and no queue is deleted before it is;
and no name is remembered between the end of one connection and the answers of the
next (`NoOldNames`).

In the refinement a call is due while it is on the wire or in the copy
(`DueCalls`); the broker executes the first due call or a command that is none,
`MakeCalls` appends to both sequences, and a new connection makes every call due.

The state in which nothing is under way (`Quiet`) is the end of a long way, so
`CallsAreInEffect` and `OneQueuePerCall` need to know where each call is on the
way (`SetUpInv`, until the broker closes the channel): every call is due or in
effect, where a queue that the broker has named and answered for counts as long as
the bind and the consume that the client sends next are under way (`OnTheirWay`);
a queue with a generated name has a consumer or an answer that brings one
(`Attended`); and the queues named for an exchange, together with the calls for
such a queue that are still due, are as many as the calls that were made
(`OneEach`). When nothing is due, that leaves one queue for each call.

These hold for the client and its users as `MessageBusClient` has them, where
calls are made in the thread of the loop; the run `lost_declaration` shows what
becomes of `NothingForgotten` when another thread calls in the middle.

### Consumer (`RabbitmqClientProofs`)

| theorem | statement |
|---|---|
| `ConsumerInvariance`, `ConsumerTypeCorrect` | `[]CInv`, `[]ConsumerTypeOK` |
| `ConsumerForgetsNothing` | the client's `NothingForgotten` and `BindedQueuesExist` under the callbacks of the consumer |
| `RegisteredAreListenedTo` | `[]RegisteredIsListenedTo` |
| `AvailableAcknowledged` | `[]AvailableIsAcknowledged` |

The callbacks make calls as the users of the client do, so `IInv` is kept for them
too. `Accounted` counts: in the queue of available sources the announcements that
the broker takes for delivered are exactly the messages on their way to the client
and the acknowledgements on their way back. In the other queue they may be more,
since `obsolete_src_msg_callback` returns early. Every registered source has a
call of `add_listener` behind it (`WereFed`) which is due, or has led to a queue
that is bound to it, consumed, and that no command on the wire unbinds (`AreFed`).
The exception is a body with a bad id: it makes the client declare the default
exchange, and then the refusal is still to come (`Doomed`, `WillBeRefused`), so
that the channel is closed before anything is quiet again.

### Results publisher (`ResultsPublisherProofs`)

| theorem | statement |
|---|---|
| `PublisherInvariance`, `PublisherTypeCorrect` | `[]PInv`, `[]PublisherTypeOK` |
| `DeliveryInOrder` | `[]DeliveredInOrderOnce` |

`PInv`: the processing thread has a result in hand between its test and its
removal, since it alone removes (`ResultInHand`); what `restore()` repeats is
never a message (`NoMessageIsStored`), so nothing is published twice; numbers
ascend in the queue, in what was sent and in what was delivered, and all of these
come before what the thread has still to publish (`InOrder`); and the messages on
the wire are the last ones sent, newer than every one delivered
(`NewerOnTheWire`). It needs nothing of `IInv`: the processing thread breaks
`NothingForgotten` (`lost_declaration`) and yet keeps the order.

### Answers (`AnswerProofs`)

Three theorems about the operators, for any picture, model and history:

| theorem | statement |
|---|---|
| `DetectionsAreObjects` | a detection has more than the threshold, the place of an object of the picture, and its best class |
| `SureObjectsAreDetected` | an object above both thresholds is detected, or a box over it that is at least as sure |
| `DrawnAsAsked` | after any number of calls of the setters, `apply_results` draws what they ask for: the first threshold of a class, the last global one, and no limit |

For the first, the scale of the model and the factor of the code cancel in `Box`,
with and without padding (`ScaledBack`). For the second, each round of `NMSBoxes`
keeps that what it has dropped overlaps a kept box that is at least as sure, and
the rest gets smaller until it is empty (`RoundFits`). For the third, after each
call the settings say what the history up to there asks for (`IsSettled`).

### Pipeline (`PipelineProofs`)

| theorem | statement |
|---|---|
| `PipelineInvariance`, `PipelineTypeCorrect` | `[]PipelineInv`, `[]PipelineTypeOK` |
| `AnswersFitPictures` | every result is the answer of the loaded model to what may be seen of its message: the decoded picture, or any bytes under a raw header |
| `AnswersAreOfThePicture`, `ObjectsAreAnswered` | `[]AnswersShowThePicture`, `[]ClearObjectsAreAnswered` |
| `KeptAreUnanswered` | `[]KeptAreNotAnswered` |
| `ReceivingInOrder` | `[]ReceivedInOrder` |
| `EnvironmentIsIgnored`, `FilterObeysCalls` | `[]EnvironmentNeverDecides`, `[]FilterFollowsCalls` |
| `QueuesImplementation`, `AnsweredInOrderOnce` | the pipeline uses its queues as `SourceQueues` allows, so no frame is answered twice or out of order |

`PipelineInv` follows a frame. A number stands for the same message everywhere
(`NumbersKnown`), what waits in a queue is the frame of its message and came for
this source (`FramesOfTheirMessages`), and what was answered is the answer to
something that may be seen of such a frame by the model that the command line has
chosen (`AnswersOfTheirPictures`, `ServiceIsSet`). Of a frame that was decoded only the
picture itself can be seen, and then the theorems of `AnswerProofs` make the objects in an
answer those of the picture. What is left unacknowledged was never
offered (`KeptAreNotOffered`), so nothing that waits or was answered can be of it. The source is announced once and before its frames
(`OneAnnouncement`). For the order, the way of a frame is a sequence of six
places: read by the client, in its inbox, answered, waiting, in the queue of the
broker, in the outbox. The client's own numbers ascend within each place and along
the way (`Sorted(OwnNumbers, Way)`), and every action moves a number one place on,
drops it, or adds the newest at the end, whatever others send in between.

### Induction over data

The library's induction theorems take an operator, which the installed provers
cannot instantiate. `CollectionProofs` does with the least element of a set of
numbers instead: a set that has 0 and with each number the next one has them all
(`UpTo`, from `LeastNumber`). With it, the recursive functions are proved about
for every argument: `Selected`, the rounds of `NMSBoxes`, the settings after a
history. The recursive definitions are functions on an interval, not `RECURSIVE`
operators, for that purpose.

### Only model-checked

Liveness and the fairness it rests on, which are out of the reach of the prover:
`HealthyFrontAnswered`, `Recovers`, `AnnouncementIsHandled`, `ResultIsPublished`,
`QueuedIsReceived`, `AnnouncedIsFed`, `PublisherQuits`, `ConsumerQuits`. And the
violations, which are single executions.

## 5. Mutants

Beside a definition stands its slip, an operator commented "slip:", that a hurried change of
the code could produce (a missing lock, the wrong end of a queue, a storage that
is not cleared). `PROJECT.json` names for each property of a passing run a slip
that makes TLC find it violated.

## 6. Running

    tlc -workers 2 -config detection.cfg MCDetectionService
    for m in CollectionProofs SourceQueuesProofs DetectionServiceProofs \
             MessageBusClientProofs RabbitmqClientProofs ResultsPublisherProofs \
             AnswerProofs PipelineProofs; do tlapm $m.tla; done

The configuration of a run is named after it; "runs" in `PROJECT.json` names its module.

## 7. What is not modelled

- `add_to_queue`: it only throws that it is not implemented. `get_performance`
  and the performance meter: they feed a line of the log.
- The image publisher and `set_img_publisher`: the only call of the publisher is
  commented out. `set_labels`, whose member nobody reads.
- `apply_detections_on_image`, which nobody calls, and the drawing in
  `apply_results`; what `apply_results` would draw is in `ResultsFilter`.
- The network, `NMSBoxes` and `imdecode` themselves: they are external, modelled by what
  the code expects of them. Names and colours of classes. Rounding of
  floating-point numbers: they are taken to be exact.
- The text of JSON bodies; the three outcomes of reading one are modelled.
- The consumer of images of the example client: the service publishes none, so
  its callback never runs, and the client's `main()` waits for it for ever.
- Build and deployment files, and the interface classes, which have no state.
- Tearing of data that two threads change at once: what is left of a tree or a
  vector is undefined, and only the outcomes named in section 2 are modelled.

## 8. Plan

1. *Done*: all the modules of section 2, their runs, and theorems for every
   invariant and both refinements.
2. Heartbeats: a callback that waits for `inference_mutex` stops the event loop,
   and the broker drops the connection in the end.
3. Several instances of the service on the same named queues, for the obsolete
   announcements that an instance keeps without acknowledging them.
4. `DetectionService` in the place of `SourceQueues` under the callbacks of
   `RabbitmqClient`, so that a source becomes obsolete while its frame is detected.
