-------------------------- MODULE DetectionService --------------------------
(***************************************************************************)
(* detection_service: a map of frame queues shared by two threads.         *)
(*                                                                         *)
(*  - the client thread (main() while it warms up the model, then the      *)
(*    event loop of the consuming rabbitmq_client) registers sources,      *)
(*    unregisters them and offers frames, one call after the other;        *)
(*  - the detection thread, in run(), picks a queue, runs the model on its *)
(*    front frame, pushes the result and removes the frame.                *)
(*                                                                         *)
(* Every action is one access to what the threads share.  run() holds      *)
(* inference_mutex from the choice of a queue to the end of the iteration; *)
(* unregister_source takes the same mutex; register_source takes none.     *)
(***************************************************************************)
EXTENDS Integers, Sequences, FiniteSets, StdMap

CONSTANTS
  Sources,        \* the source identifiers that messages carry
  MaxSizePerQue,  \* max_size_per_que (30 in the code)
  MaxFrames,      \* bound of the model: frames accepted in one behaviour
  FrameKinds,     \* see KindsOfFrame
  Strategies      \* of KindsOfStrategy, those that the service may have

(***************************************************************************)
(* What new_frame_msg_callback can hand over:                              *)
(*   "decoded"  pixels owned by the frame (imdecode, or the blank image)   *)
(*   "raw"      a header over the body of the message, which the broker    *)
(*              client frees when the callback returns                     *)
(*   "faulty"   an image on which object_detection throws                  *)
(***************************************************************************)
KindsOfFrame == {"decoded", "raw", "faulty"}

(* The service creates itself with "order" and offers no way to change it; *)
(* "load" is the other class that the code has for it.                     *)
KindsOfStrategy == {"order", "load"}

ASSUME ConstantsAssumption ==
  /\ Sources \subseteq Nat
  /\ MaxSizePerQue \in Nat \ {0}
  /\ MaxFrames \in Nat
  /\ FrameKinds \subseteq KindsOfFrame
  /\ Strategies \subseteq KindsOfStrategy

VARIABLES
  queues,                  \* source -> frames
  que_mutexes,             \* source -> the thread that holds its mutex
  dropped_frames,          \* source -> count
  strategy,                \* member of the service, as the next one
  total_frames_processed,
  inference_mutex,         \* the thread that holds it
  current_queue_id,        \* local of run()
  frame_ptr,               \* local of run()
  detPc,                   \* where the detection thread is in run()
  cliPc,                   \* where the client thread is in a call
  cliId,                   \* source_id of that call
  cliFrame,                \* frame of that call
  accepted,                \* how many frames were put into a queue
  results                  \* what push_results was called with, in order

maps     == <<queues, que_mutexes, dropped_frames>>
members  == <<strategy, total_frames_processed>>
detVars  == <<current_queue_id, frame_ptr, detPc>>
cliVars  == <<cliPc, cliId, cliFrame>>
vars == <<maps, members, inference_mutex, detVars, cliVars, accepted, results>>

Thread  == {"detection", "client"}
Nobody  == "nobody"
Frame   == [num : Nat \ {0}, kind : FrameKinds]
NoFrame == [num |-> 0, kind |-> "none"]
Result  == [src : Sources, num : Nat \ {0}]

TypeOK ==
  /\ IsMap(queues, Sources, Seq(Frame))
  /\ IsMap(que_mutexes, Sources, Thread \cup {Nobody})
  /\ IsMap(dropped_frames, Sources, Nat)
  /\ strategy \in Strategies
  /\ total_frames_processed \in Nat
  /\ inference_mutex \in Thread \cup {Nobody}
  /\ current_queue_id \in Sources \cup {0}
  /\ frame_ptr \in Frame \cup {NoFrame}
  /\ detPc \in {"idle", "lock", "choose", "test", "detect", "lock_que", "pop"}
  /\ cliPc \in {"ready", "emplace", "emplace_mutex", "lock_inference", "erase",
                "lock_que", "push", "ack"}
  /\ cliId \in Sources \cup {0}
  /\ cliFrame \in Frame \cup {NoFrame}
  /\ accepted \in Nat
  /\ results \in Seq(Result)

Init ==
  /\ queues = << >>
  /\ que_mutexes = << >>
  /\ dropped_frames = << >>
  /\ strategy \in Strategies
  /\ total_frames_processed = 0
  /\ inference_mutex = Nobody
  /\ current_queue_id = 0
  /\ frame_ptr = NoFrame
  /\ detPc = "idle"
  /\ cliPc = "ready"
  /\ cliId = 0
  /\ cliFrame = NoFrame
  /\ accepted = 0
  /\ results = << >>

Contains(s) == s \in DOMAIN queues

(* A map in the middle of an insertion: its tree is being rebalanced while *)
(* nothing keeps the other thread from reading it.  What a search for the  *)
(* next queue may then find is modelled; what the subscripts at the end of *)
(* run() would do to a broken tree is not.                                 *)
Inserting == cliPc = "emplace"

(* A thread blocks on a mutex until nobody holds it.  A subscript of        *)
(* que_mutexes default-constructs a mutex that is missing.                 *)
NeverWait == TRUE                       \* slip: no lock_guard
InferenceIsFree == inference_mutex = Nobody

NeverWaitFor(s) == TRUE                 \* slip: no lock_guard
QueueIsFree(s) == s \in DOMAIN que_mutexes => que_mutexes[s] = Nobody

LockQueue(s, thread) == [Emplace(que_mutexes, s, Nobody) EXCEPT ![s] = thread]

(* front() and pop() of a std::queue.                                      *)
Newest(queue) == queue[Len(queue)]      \* slip: back() for front()
Front(queue) == Head(queue)

KeepAll(queue) == queue                 \* slip: no pop()
PopNewest(queue) == SubSeq(queue, 1, Len(queue) - 1)    \* slip: the wrong end
Pop(queue) == Tail(queue)

(* The end of a call: its locals are gone.                                 *)
Return ==
  /\ cliPc' = "ready"
  /\ cliId' = 0
  /\ cliFrame' = NoFrame

-----------------------------------------------------------------------------
(***************************************************************************)
(* register_source.  For a source that is already there it returns false   *)
(* and changes nothing.  The three maps are filled one after the other,    *)
(* without a lock.                                                         *)
(***************************************************************************)
RegisterSource(s) ==
  /\ cliPc = "ready"
  /\ ~Contains(s)
  /\ cliPc' = "emplace"
  /\ cliId' = s
  /\ UNCHANGED <<maps, members, inference_mutex, detVars, cliFrame, accepted, results>>

EmplaceQueue ==
  /\ cliPc = "emplace"
  /\ queues' = Emplace(queues, cliId, << >>)
  /\ cliPc' = "emplace_mutex"
  /\ UNCHANGED <<que_mutexes, dropped_frames, members, inference_mutex, detVars,
                 cliId, cliFrame, accepted, results>>

EmplaceMutex ==
  /\ cliPc = "emplace_mutex"
  /\ que_mutexes' = Emplace(que_mutexes, cliId, Nobody)
  /\ dropped_frames' = Emplace(dropped_frames, cliId, 0)
  /\ Return
  /\ UNCHANGED <<queues, members, inference_mutex, detVars, accepted, results>>

(***************************************************************************)
(* unregister_source.  For an unknown source it returns false and changes  *)
(* nothing.                                                                *)
(***************************************************************************)
UnregisterSource(s) ==
  /\ cliPc = "ready"
  /\ Contains(s)
  /\ cliPc' = "lock_inference"
  /\ cliId' = s
  /\ UNCHANGED <<maps, members, inference_mutex, detVars, cliFrame, accepted, results>>

LockInferenceForErase ==
  /\ cliPc = "lock_inference"
  /\ InferenceIsFree
  /\ inference_mutex' = "client"
  /\ cliPc' = "erase"
  /\ UNCHANGED <<maps, members, detVars, cliId, cliFrame, accepted, results>>

KeepMutex(s) == que_mutexes             \* slip: queues.erase only
EraseMutex(s) == Erase(que_mutexes, s)

EraseSource ==
  /\ cliPc = "erase"
  /\ queues' = Erase(queues, cliId)
  /\ que_mutexes' = EraseMutex(cliId)
  /\ dropped_frames' = Erase(dropped_frames, cliId)
  /\ inference_mutex' = Nobody
  /\ Return
  /\ UNCHANGED <<members, detVars, accepted, results>>

(***************************************************************************)
(* A frame message: new_frame_msg_callback builds the frame and calls      *)
(* try_add_to_queue.  A frame for an unknown source or a full queue is     *)
(* dropped, which no counter records; the size is read without the mutex   *)
(* of the queue.                                                           *)
(***************************************************************************)
HasRoomOrIsFull(s) == Len(queues[s]) <= MaxSizePerQue   \* slip: > for >=
HasRoom(s) == Len(queues[s]) < MaxSizePerQue

TryAddToQueue(s, kind) ==
  /\ cliPc = "ready"
  /\ accepted < MaxFrames
  /\ Contains(s)
  /\ HasRoom(s)
  /\ cliPc' = "lock_que"
  /\ cliId' = s
  /\ cliFrame' = [num |-> accepted + 1, kind |-> kind]
  /\ UNCHANGED <<maps, members, inference_mutex, detVars, accepted, results>>

LockQueueForPush ==
  /\ cliPc = "lock_que"
  /\ QueueIsFree(cliId)
  /\ que_mutexes' = LockQueue(cliId, "client")
  /\ cliPc' = "push"
  /\ UNCHANGED <<queues, dropped_frames, members, inference_mutex, detVars, cliId,
                 cliFrame, accepted, results>>

PushFrame ==
  /\ cliPc = "push"
  /\ queues' = [Emplace(queues, cliId, << >>) EXCEPT ![cliId] = Append(@, cliFrame)]
  /\ que_mutexes' = [que_mutexes EXCEPT ![cliId] = Nobody]
  /\ accepted' = accepted + 1
  /\ cliPc' = "ack"
  /\ UNCHANGED <<dropped_frames, members, inference_mutex, detVars, cliId, cliFrame, results>>

(* The callback acknowledges the message and returns; the body of the      *)
(* message is freed.                                                       *)
AckFrame ==
  /\ cliPc = "ack"
  /\ Return
  /\ UNCHANGED <<maps, members, inference_mutex, detVars, accepted, results>>

-----------------------------------------------------------------------------
(***************************************************************************)
(* run().  While queues is empty the loop yields and looks again, which    *)
(* changes nothing.  The emptiness is read before the mutex is taken.      *)
(***************************************************************************)
SeeQueues ==
  /\ detPc = "idle"
  /\ DOMAIN queues # {}
  /\ detPc' = "lock"
  /\ UNCHANGED <<maps, members, inference_mutex, current_queue_id, frame_ptr, cliVars,
                 accepted, results>>

LockInference ==
  /\ detPc = "lock"
  /\ InferenceIsFree
  /\ inference_mutex' = "detection"
  /\ detPc' = "choose"
  /\ UNCHANGED <<maps, members, current_queue_id, frame_ptr, cliVars, accepted, results>>

(***************************************************************************)
(* prioritize_order_strategy: the key after the current one, and the first *)
(* key when there is none or the current key is gone.                      *)
(***************************************************************************)
FirstKey(keys) == {k \in keys : \A j \in keys : k <= j}

NextInOrder ==
  LET keys  == DOMAIN queues
      after == {k \in keys : current_queue_id \in keys /\ k > current_queue_id}
  IN  FirstKey(IF after # {} THEN after ELSE keys)

(* prioritize_load_strategy: the first of the longest queues.              *)
FirstLongest ==
  FirstKey({k \in DOMAIN queues : \A j \in DOMAIN queues : Len(queues[j]) <= Len(queues[k])})

(* With no queue left the strategy dereferences end(), and while a key is  *)
(* being inserted it walks a tree that changes under it: the result is     *)
(* whatever the memory holds.                                              *)
NextIndex == {current_queue_id + 1}     \* slip: identifiers taken for indices
AlwaysFirst == FirstKey(DOMAIN queues)  \* slip: no rotation
Choosable ==
  (IF strategy = "order" THEN NextInOrder ELSE FirstLongest)
    \cup (IF DOMAIN queues = {} \/ Inserting THEN Sources \cup {0} ELSE {})

ChooseNextQueue ==
  /\ detPc = "choose"
  /\ current_queue_id' \in Choosable
  /\ detPc' = "test"
  /\ UNCHANGED <<maps, members, inference_mutex, frame_ptr, cliVars, accepted, results>>

(* The end of an iteration: the lock_guard of inference_mutex is destroyed.*)
EndIteration ==
  /\ inference_mutex' = Nobody
  /\ detPc' = "idle"
  /\ frame_ptr' = NoFrame

(* Nothing to do, or at() throws because the key is not there or the       *)
(* search misses it in the changing tree.                                  *)
SkipQueue ==
  /\ detPc = "test"
  /\ \/ ~Contains(current_queue_id)
     \/ Contains(current_queue_id) /\ queues[current_queue_id] = << >>
     \/ Inserting
  /\ EndIteration
  /\ UNCHANGED <<maps, members, current_queue_id, cliVars, accepted, results>>

FetchFrame ==
  /\ detPc = "test"
  /\ Contains(current_queue_id)
  /\ queues[current_queue_id] # << >>
  /\ frame_ptr' = Front(queues[current_queue_id])
  /\ detPc' = "detect"
  /\ UNCHANGED <<maps, members, inference_mutex, current_queue_id, cliVars, accepted, results>>

(* object_detection throws: the handlers log, and the frame stays where it *)
(* is.                                                                     *)
DetectionThrows ==
  /\ detPc = "detect"
  /\ frame_ptr.kind = "faulty"
  /\ EndIteration
  /\ UNCHANGED <<maps, members, current_queue_id, cliVars, accepted, results>>

PushResults ==
  /\ detPc = "detect"
  /\ frame_ptr.kind # "faulty"
  /\ total_frames_processed' = total_frames_processed + 1
  /\ results' = Append(results, [src |-> current_queue_id, num |-> frame_ptr.num])
  /\ detPc' = "lock_que"
  /\ UNCHANGED <<maps, strategy, inference_mutex, current_queue_id, frame_ptr,
                 cliVars, accepted>>

LockQueueForPop ==
  /\ detPc = "lock_que"
  /\ QueueIsFree(current_queue_id)
  /\ que_mutexes' = LockQueue(current_queue_id, "detection")
  /\ detPc' = "pop"
  /\ UNCHANGED <<queues, dropped_frames, members, inference_mutex, current_queue_id,
                 frame_ptr, cliVars, accepted, results>>

PopFrame ==
  /\ detPc = "pop"
  /\ queues' = [queues EXCEPT ![current_queue_id] = Pop(@)]
  /\ que_mutexes' = [que_mutexes EXCEPT ![current_queue_id] = Nobody]
  /\ EndIteration
  /\ UNCHANGED <<dropped_frames, members, current_queue_id, cliVars, accepted, results>>

-----------------------------------------------------------------------------
(* The rest of a call that the client thread has begun.                    *)
ClientContinues ==
  \/ EmplaceQueue \/ EmplaceMutex
  \/ LockInferenceForErase \/ EraseSource
  \/ LockQueueForPush \/ PushFrame \/ AckFrame

ClientBegins ==
  \E s \in Sources :
     \/ RegisterSource(s)
     \/ UnregisterSource(s)
     \/ \E kind \in FrameKinds : TryAddToQueue(s, kind)

Detection ==
  \/ SeeQueues \/ LockInference \/ ChooseNextQueue \/ SkipQueue \/ FetchFrame
  \/ DetectionThrows \/ PushResults \/ LockQueueForPop \/ PopFrame

Next == ClientBegins \/ ClientContinues \/ Detection

Spec == Init /\ [][Next]_vars

(* Both threads keep running; a std::mutex grants nobody a turn.           *)
Fairness == WF_vars(ClientContinues) /\ WF_vars(Detection)

FairSpec == Spec /\ Fairness

-----------------------------------------------------------------------------
(* A queue never holds more than max_size_per_que frames, although         *)
(* try_add_to_queue tests the size before it takes the mutex of the queue. *)
QueueBound == \A s \in DOMAIN queues : Len(queues[s]) <= MaxSizePerQue

(* From the moment run() has fetched a frame until it removes it, the      *)
(* frame stays at the front of a queue that stays registered: what is      *)
(* removed is what was answered, whatever the client thread does meanwhile.*)
FrontIsProcessed ==
  detPc \in {"detect", "lock_que", "pop"} =>
     /\ Contains(current_queue_id)
     /\ queues[current_queue_id] # << >>
     /\ Head(queues[current_queue_id]) = frame_ptr

(* The three maps keep the same keys outside register_source, and no       *)
(* subscript of que_mutexes or queues creates an entry: a mutex that is    *)
(* locked is the mutex of a registered source.                             *)
MapsAgree ==
  /\ DOMAIN dropped_frames = DOMAIN que_mutexes
  /\ cliPc # "emplace_mutex" => DOMAIN que_mutexes = DOMAIN queues
  /\ detPc \in {"lock_que", "pop"} => current_queue_id \in DOMAIN que_mutexes
  /\ cliPc \in {"lock_que", "push"} => cliId \in DOMAIN que_mutexes \cap DOMAIN queues

(* The mutex of a queue is held by whoever is inside the access it guards, *)
(* so it is neither taken twice nor destroyed by unregister_source while   *)
(* it is locked.                                                           *)
QueueMutexHolders ==
  \A s \in DOMAIN que_mutexes :
     /\ que_mutexes[s] = "detection" <=> detPc = "pop" /\ s = current_queue_id
     /\ que_mutexes[s] = "client" <=> cliPc = "push" /\ s = cliId

(***************************************************************************)
(* The frame that was answered but is not removed yet does not wait any    *)
(* more: with that, the service implements SourceQueues.                   *)
(***************************************************************************)
Waiting(s) ==
  IF detPc \in {"lock_que", "pop"} /\ s = current_queue_id
  THEN Tail(queues[s])
  ELSE queues[s]

Pending == [s \in DOMAIN queues |-> Waiting(s)]

Abstract == INSTANCE SourceQueues WITH pending <- Pending

(* run() and its callers implement the bounded queues of SourceQueues.     *)
AbstractSpec == Abstract!Spec

(* No frame is answered twice and each source is answered in the order in  *)
(* which try_add_to_queue took its frames.                                 *)
ResultsInOrder == Abstract!InOrderOnce

(* What waits in a queue is newer than every result of its source, also    *)
(* when the source was unregistered and registered again.                  *)
WaitingIsNewer == Abstract!PendingIsNewer

-----------------------------------------------------------------------------
HeadIs(s, num, kinds) ==
  /\ Contains(s)
  /\ queues[s] # << >>
  /\ Head(queues[s]).num = num
  /\ Head(queues[s]).kind \in kinds

Answered(s, num) == \E i \in 1..Len(results) : results[i] = [src |-> s, num |-> num]

UnregisteringCeases == <>[](cliPc \notin {"lock_inference", "erase"})

(* The front frame of a source is answered unless the source is dropped,   *)
(* also when the front frame of another source makes the model throw for   *)
(* ever: the rotation of prioritize_order_strategy.  Assumes that the      *)
(* client thread stops competing for inference_mutex.                      *)
HealthyFrontAnswered ==
  UnregisteringCeases /\ strategy = "order" =>
    \A s \in Sources, num \in 1..MaxFrames :
       HeadIs(s, num, {"decoded", "raw"}) ~> (Answered(s, num) \/ ~Contains(s))

-----------------------------------------------------------------------------
(* README.md:60, "Thread-safe operations": run() never calls               *)
(* choose_next_queue on an empty map, whose end() it would dereference.    *)
NoEndDereference == detPc = "choose" => DOMAIN queues # {}

(* README.md:59, the frame is decoded, queued and then detected: the       *)
(* pixels that object_detection reads have not been freed.                 *)
PixelsAlive ==
  detPc = "detect" /\ frame_ptr.kind = "raw" => cliPc = "ack" /\ cliFrame = frame_ptr

(* README.md:59, "add to appropriate service's queue -> detect": every     *)
(* front frame is answered unless its source is dropped.                   *)
EveryFrontAnswered ==
  UnregisteringCeases =>
    \A s \in Sources, num \in 1..MaxFrames :
       HeadIs(s, num, FrameKinds) ~> (Answered(s, num) \/ ~Contains(s))

(* README.md:53, an obsolete source "should be dropped immediately and no  *)
(* longer be processed": unregister_source gets hold of inference_mutex.   *)
UnregisterCompletes == cliPc = "lock_inference" ~> cliPc = "erase"
=============================================================================
