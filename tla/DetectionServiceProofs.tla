----------------------- MODULE DetectionServiceProofs -----------------------
(***************************************************************************)
(* The invariants of DetectionService for any set of sources, any bound of *)
(* the queues and any mixture of frames, and that it implements            *)
(* SourceQueues.                                                           *)
(***************************************************************************)
EXTENDS DetectionService, CollectionProofs

(* inference_mutex is held by whoever is between its lock and its unlock.  *)
InferenceMutexHolder ==
  /\ inference_mutex = "detection" <=>
        detPc \in {"choose", "test", "detect", "lock_que", "pop"}
  /\ inference_mutex = "client" <=> cliPc = "erase"

(* What a call of the client thread has tested stays true until it acts:   *)
(* only this thread changes the keys of queues, and the detection thread   *)
(* makes queues shorter.                                                   *)
TestsStillHold ==
  /\ cliPc # "ready" => cliId \in Sources
  /\ cliPc = "emplace" => cliId \notin DOMAIN queues
  /\ cliPc = "emplace_mutex" =>
        /\ cliId \in DOMAIN queues
        /\ queues[cliId] = << >>
        /\ DOMAIN que_mutexes = DOMAIN queues \ {cliId}
  /\ cliPc \in {"lock_inference", "erase"} => cliId \in DOMAIN queues
  /\ cliPc \in {"lock_que", "push"} =>
        /\ cliId \in DOMAIN queues
        /\ Len(queues[cliId]) < MaxSizePerQue
        /\ cliFrame \in Frame
        /\ cliFrame.num = accepted + 1

IInv ==
  /\ TypeOK
  /\ InferenceMutexHolder
  /\ TestsStillHold
  /\ FrontIsProcessed
  /\ MapsAgree
  /\ QueueMutexHolders
  /\ QueueBound

(* What the lemmas below need of the types: the keys of a map are sources, *)
(* and run() works on a frame of a registered source.                      *)
LEMMA TypesOfMaps ==
  ASSUME IInv
  PROVE  /\ DOMAIN queues \subseteq Sources
         /\ \A s \in DOMAIN queues : queues[s] \in Seq(Frame) /\ Len(queues[s]) \in Nat
         /\ DOMAIN que_mutexes \subseteq Sources
         /\ \A s \in DOMAIN que_mutexes : que_mutexes[s] \in Thread \cup {Nobody}
         /\ detPc \in {"detect", "lock_que", "pop"} =>
               current_queue_id \in Sources /\ frame_ptr \in Frame
<1>1. /\ DOMAIN queues \subseteq Sources
      /\ \A s \in DOMAIN queues : queues[s] \in Seq(Frame) /\ Len(queues[s]) \in Nat
      /\ DOMAIN que_mutexes \subseteq Sources
      /\ \A s \in DOMAIN que_mutexes : que_mutexes[s] \in Thread \cup {Nobody}
  BY DEF IInv, TypeOK, IsMap
<1>2. ASSUME detPc \in {"detect", "lock_que", "pop"}
      PROVE  current_queue_id \in Sources /\ frame_ptr \in Frame
  <2>1. /\ current_queue_id \in DOMAIN queues
        /\ queues[current_queue_id] # << >>
        /\ Head(queues[current_queue_id]) = frame_ptr
    BY <1>2 DEF IInv, FrontIsProcessed, Contains
  <2>. QED  BY <1>1, <2>1, TailOfQueue
<1>. QED  BY <1>1, <1>2

-----------------------------------------------------------------------------
(* The steps that leave the three maps alone: the tests with which a call  *)
(* begins, the locks and unlocks of inference_mutex, and what run() does   *)
(* with the frame it looks at.                                             *)

(* The call begins for a source whose queue is not there.                  *)
LEMMA RegisterSourceInv ==
  ASSUME IInv, NEW s \in Sources, RegisterSource(s)
  PROVE  IInv'
<1>1. TypeOK'
  BY DEF IInv, TypeOK, maps, members, cliVars, detVars, RegisterSource, Contains
<1>2. InferenceMutexHolder'
  BY DEF IInv, TypeOK, InferenceMutexHolder, maps, members, cliVars, detVars, RegisterSource,
         Contains
<1>3. TestsStillHold'
  BY DEF IInv, TypeOK, TestsStillHold, maps, members, cliVars, detVars, RegisterSource,
         Contains
<1>4. FrontIsProcessed'
  BY DEF IInv, FrontIsProcessed, maps, members, cliVars, detVars, Contains, RegisterSource
<1>5. MapsAgree' /\ QueueMutexHolders' /\ QueueBound'
  BY DEF IInv, MapsAgree, QueueMutexHolders, QueueBound, TestsStillHold, maps, cliVars,
         detVars, RegisterSource, Contains
<1>. QED  BY <1>1, <1>2, <1>3, <1>4, <1>5 DEF IInv

(* The call begins for a source whose queue is there.                      *)
LEMMA UnregisterSourceInv ==
  ASSUME IInv, NEW s \in Sources, UnregisterSource(s)
  PROVE  IInv'
<1>1. TypeOK'
  BY DEF IInv, TypeOK, maps, members, cliVars, detVars, UnregisterSource, Contains
<1>2. InferenceMutexHolder'
  BY DEF IInv, TypeOK, InferenceMutexHolder, maps, members, cliVars, detVars,
         UnregisterSource, Contains
<1>3. TestsStillHold'
  BY DEF IInv, TypeOK, TestsStillHold, maps, members, cliVars, detVars, UnregisterSource,
         Contains
<1>4. FrontIsProcessed'
  BY DEF IInv, FrontIsProcessed, maps, members, cliVars, detVars, Contains, UnregisterSource
<1>5. MapsAgree' /\ QueueMutexHolders' /\ QueueBound'
  BY DEF IInv, MapsAgree, QueueMutexHolders, QueueBound, TestsStillHold, maps, cliVars,
         detVars, UnregisterSource, Contains
<1>. QED  BY <1>1, <1>2, <1>3, <1>4, <1>5 DEF IInv

(* The client thread takes a free inference_mutex.                         *)
LEMMA LockInferenceForEraseInv ==
  ASSUME IInv, LockInferenceForErase
  PROVE  IInv'
<1>1. TypeOK'
  BY DEF IInv, TypeOK, maps, members, cliVars, detVars, LockInferenceForErase,
         InferenceIsFree, Nobody, Thread
<1>2. InferenceMutexHolder'
  BY DEF IInv, TypeOK, InferenceMutexHolder, maps, members, cliVars, detVars,
         LockInferenceForErase, InferenceIsFree, Nobody, Thread
<1>3. TestsStillHold'
  BY DEF IInv, TypeOK, TestsStillHold, maps, members, cliVars, detVars, LockInferenceForErase,
         InferenceIsFree, Nobody, Thread
<1>4. FrontIsProcessed'
  BY DEF IInv, FrontIsProcessed, maps, members, cliVars, detVars, Contains,
         LockInferenceForErase, InferenceIsFree, Nobody, Thread
<1>5. MapsAgree' /\ QueueMutexHolders' /\ QueueBound'
  BY DEF IInv, MapsAgree, QueueMutexHolders, QueueBound, TestsStillHold, maps, cliVars,
         detVars, LockInferenceForErase, InferenceIsFree, Nobody, Thread
<1>. QED  BY <1>1, <1>2, <1>3, <1>4, <1>5 DEF IInv

(* The call begins for a source whose queue has room.                      *)
LEMMA TryAddToQueueInv ==
  ASSUME IInv, NEW s \in Sources, NEW kind \in FrameKinds, TryAddToQueue(s, kind)
  PROVE  IInv'
<1>1. TypeOK'
  BY DEF IInv, TypeOK, maps, members, cliVars, detVars, TryAddToQueue, Contains, HasRoom, Frame
<1>2. InferenceMutexHolder'
  BY DEF IInv, TypeOK, InferenceMutexHolder, maps, members, cliVars, detVars, TryAddToQueue,
         Contains, HasRoom, Frame
<1>3. TestsStillHold'
  BY DEF IInv, TypeOK, TestsStillHold, maps, members, cliVars, detVars, TryAddToQueue,
         Contains, HasRoom, Frame
<1>4. FrontIsProcessed'
  BY DEF IInv, FrontIsProcessed, maps, members, cliVars, detVars, Contains, TryAddToQueue,
         HasRoom, Frame
<1>5. MapsAgree' /\ QueueMutexHolders' /\ QueueBound'
  BY DEF IInv, MapsAgree, QueueMutexHolders, QueueBound, TestsStillHold, maps, cliVars,
         detVars, TryAddToQueue, Contains, HasRoom, Frame
<1>. QED  BY <1>1, <1>2, <1>3, <1>4, <1>5 DEF IInv

(* The end of the frame callback leaves no test behind.                    *)
LEMMA AckFrameInv ==
  ASSUME IInv, AckFrame
  PROVE  IInv'
<1>1. TypeOK'
  BY DEF IInv, TypeOK, maps, members, cliVars, detVars, AckFrame, Return
<1>2. InferenceMutexHolder'
  BY DEF IInv, TypeOK, InferenceMutexHolder, maps, members, cliVars, detVars, AckFrame, Return
<1>3. TestsStillHold'
  BY DEF IInv, TypeOK, TestsStillHold, maps, members, cliVars, detVars, AckFrame, Return
<1>4. FrontIsProcessed'
  BY DEF IInv, FrontIsProcessed, maps, members, cliVars, detVars, Contains, AckFrame, Return
<1>5. MapsAgree' /\ QueueMutexHolders' /\ QueueBound'
  BY DEF IInv, MapsAgree, QueueMutexHolders, QueueBound, TestsStillHold, maps, cliVars,
         detVars, AckFrame, Return
<1>. QED  BY <1>1, <1>2, <1>3, <1>4, <1>5 DEF IInv

(* run() has seen a queue and does not hold the mutex yet.                 *)
LEMMA SeeQueuesInv ==
  ASSUME IInv, SeeQueues
  PROVE  IInv'
<1>1. TypeOK'
  BY DEF IInv, TypeOK, maps, members, cliVars, detVars, SeeQueues
<1>2. InferenceMutexHolder'
  BY DEF IInv, TypeOK, InferenceMutexHolder, maps, members, cliVars, detVars, SeeQueues
<1>3. TestsStillHold'
  BY DEF IInv, TypeOK, TestsStillHold, maps, members, cliVars, detVars, SeeQueues
<1>4. FrontIsProcessed'
  BY DEF IInv, FrontIsProcessed, maps, members, cliVars, detVars, Contains, SeeQueues
<1>5. MapsAgree' /\ QueueMutexHolders' /\ QueueBound'
  BY DEF IInv, MapsAgree, QueueMutexHolders, QueueBound, TestsStillHold, maps, cliVars,
         detVars, SeeQueues
<1>. QED  BY <1>1, <1>2, <1>3, <1>4, <1>5 DEF IInv

(* The detection thread takes a free inference_mutex.                      *)
LEMMA LockInferenceInv ==
  ASSUME IInv, LockInference
  PROVE  IInv'
<1>1. TypeOK'
  BY DEF IInv, TypeOK, maps, members, cliVars, detVars, LockInference, InferenceIsFree,
         Nobody, Thread
<1>2. InferenceMutexHolder'
  BY DEF IInv, TypeOK, InferenceMutexHolder, maps, members, cliVars, detVars, LockInference,
         InferenceIsFree, Nobody, Thread
<1>3. TestsStillHold'
  BY DEF IInv, TypeOK, TestsStillHold, maps, members, cliVars, detVars, LockInference,
         InferenceIsFree, Nobody, Thread
<1>4. FrontIsProcessed'
  BY DEF IInv, FrontIsProcessed, maps, members, cliVars, detVars, Contains, LockInference,
         InferenceIsFree, Nobody, Thread
<1>5. MapsAgree' /\ QueueMutexHolders' /\ QueueBound'
  BY DEF IInv, MapsAgree, QueueMutexHolders, QueueBound, TestsStillHold, maps, cliVars,
         detVars, LockInference, InferenceIsFree, Nobody, Thread
<1>. QED  BY <1>1, <1>2, <1>3, <1>4, <1>5 DEF IInv

(* Whatever the strategy returns, no frame is fetched yet.                 *)
LEMMA ChooseNextQueueInv ==
  ASSUME IInv, ChooseNextQueue
  PROVE  IInv'
<1>1. TypeOK'
  <2>1. Choosable \subseteq Sources \cup {0}
    BY TypesOfMaps DEF Choosable, FirstKey, NextInOrder, FirstLongest
  <2>. QED  BY <2>1 DEF IInv, TypeOK, maps, members, cliVars, ChooseNextQueue
<1>2. InferenceMutexHolder'
  BY DEF IInv, TypeOK, InferenceMutexHolder, maps, members, cliVars, detVars, ChooseNextQueue
<1>3. TestsStillHold'
  BY DEF IInv, TypeOK, TestsStillHold, maps, members, cliVars, detVars, ChooseNextQueue
<1>4. FrontIsProcessed'
  BY DEF IInv, FrontIsProcessed, maps, members, cliVars, detVars, Contains, ChooseNextQueue
<1>5. MapsAgree' /\ QueueMutexHolders' /\ QueueBound'
  BY DEF IInv, MapsAgree, QueueMutexHolders, QueueBound, TestsStillHold, maps, cliVars,
         detVars, ChooseNextQueue
<1>. QED  BY <1>1, <1>2, <1>3, <1>4, <1>5 DEF IInv

(* The iteration ends without a frame.                                     *)
LEMMA SkipQueueInv ==
  ASSUME IInv, SkipQueue
  PROVE  IInv'
<1>1. TypeOK'
  BY DEF IInv, TypeOK, maps, members, cliVars, detVars, SkipQueue, EndIteration, Nobody, Thread
<1>2. InferenceMutexHolder'
  BY DEF IInv, TypeOK, InferenceMutexHolder, maps, members, cliVars, detVars, SkipQueue,
         EndIteration, Nobody, Thread
<1>3. TestsStillHold'
  BY DEF IInv, TypeOK, TestsStillHold, maps, members, cliVars, detVars, SkipQueue,
         EndIteration, Nobody, Thread
<1>4. FrontIsProcessed'
  BY DEF IInv, FrontIsProcessed, maps, members, cliVars, detVars, Contains, SkipQueue,
         EndIteration, Nobody, Thread
<1>5. MapsAgree' /\ QueueMutexHolders' /\ QueueBound'
  BY DEF IInv, MapsAgree, QueueMutexHolders, QueueBound, TestsStillHold, maps, cliVars,
         detVars, SkipQueue, EndIteration, Nobody, Thread
<1>. QED  BY <1>1, <1>2, <1>3, <1>4, <1>5 DEF IInv

(* The frame that is fetched is the front of a queue that is there.        *)
LEMMA FetchFrameInv ==
  ASSUME IInv, FetchFrame
  PROVE  IInv'
<1>1. TypeOK'
  <2>1. frame_ptr' \in Frame
    BY TypesOfMaps, TailOfQueue DEF FetchFrame, Front, Contains
  <2>. QED  BY <2>1 DEF IInv, TypeOK, maps, members, cliVars, FetchFrame
<1>2. InferenceMutexHolder'
  BY DEF IInv, TypeOK, InferenceMutexHolder, maps, members, cliVars, detVars, FetchFrame,
         Front, Contains
<1>3. TestsStillHold'
  BY DEF IInv, TypeOK, TestsStillHold, maps, members, cliVars, detVars, FetchFrame, Front,
         Contains
<1>4. FrontIsProcessed'
  BY DEF IInv, FrontIsProcessed, maps, members, cliVars, detVars, Contains, FetchFrame, Front
<1>5. MapsAgree' /\ QueueMutexHolders' /\ QueueBound'
  BY DEF IInv, MapsAgree, QueueMutexHolders, QueueBound, TestsStillHold, maps, cliVars,
         detVars, FetchFrame, Front, Contains
<1>. QED  BY <1>1, <1>2, <1>3, <1>4, <1>5 DEF IInv

(* The iteration ends and the frame stays where it is.                     *)
LEMMA DetectionThrowsInv ==
  ASSUME IInv, DetectionThrows
  PROVE  IInv'
<1>1. TypeOK'
  BY DEF IInv, TypeOK, maps, members, cliVars, detVars, DetectionThrows, EndIteration, Nobody,
         Thread
<1>2. InferenceMutexHolder'
  BY DEF IInv, TypeOK, InferenceMutexHolder, maps, members, cliVars, detVars, DetectionThrows,
         EndIteration, Nobody, Thread
<1>3. TestsStillHold'
  BY DEF IInv, TypeOK, TestsStillHold, maps, members, cliVars, detVars, DetectionThrows,
         EndIteration, Nobody, Thread
<1>4. FrontIsProcessed'
  BY DEF IInv, FrontIsProcessed, maps, members, cliVars, detVars, Contains, DetectionThrows,
         EndIteration, Nobody, Thread
<1>5. MapsAgree' /\ QueueMutexHolders' /\ QueueBound'
  BY DEF IInv, MapsAgree, QueueMutexHolders, QueueBound, TestsStillHold, maps, cliVars,
         detVars, DetectionThrows, EndIteration, Nobody, Thread
<1>. QED  BY <1>1, <1>2, <1>3, <1>4, <1>5 DEF IInv

(* The frame stays in front while its result is pushed.                    *)
LEMMA PushResultsInv ==
  ASSUME IInv, PushResults
  PROVE  IInv'
<1>1. TypeOK'
  <2>1. [src |-> current_queue_id, num |-> frame_ptr.num] \in Result
    BY TypesOfMaps DEF PushResults, Result, Frame
  <2>2. results' \in Seq(Result)
    BY <2>1 DEF IInv, TypeOK, PushResults
  <2>. QED  BY <2>2 DEF IInv, TypeOK, maps, members, cliVars, PushResults
<1>2. InferenceMutexHolder'
  BY DEF IInv, TypeOK, InferenceMutexHolder, maps, members, cliVars, detVars, PushResults,
         Result, Frame
<1>3. TestsStillHold'
  BY DEF IInv, TypeOK, TestsStillHold, maps, members, cliVars, detVars, PushResults, Result,
         Frame
<1>4. FrontIsProcessed'
  BY DEF IInv, FrontIsProcessed, maps, members, cliVars, detVars, Contains, PushResults,
         Result, Frame
<1>5. MapsAgree' /\ QueueMutexHolders' /\ QueueBound'
  <2>1. current_queue_id \in DOMAIN que_mutexes
    BY DEF IInv, MapsAgree, FrontIsProcessed, TestsStillHold, Contains, PushResults
  <2>. QED  BY <2>1 DEF IInv, MapsAgree, QueueMutexHolders, QueueBound, maps, cliVars,
                        PushResults
<1>. QED  BY <1>1, <1>2, <1>3, <1>4, <1>5 DEF IInv

-----------------------------------------------------------------------------
(* The steps that change a map.                                            *)

(* The new queue is empty and nobody's: run() cannot be working on it.     *)
LEMMA EmplaceQueueInv ==
  ASSUME IInv, EmplaceQueue
  PROVE  IInv'
<1>1. cliPc = "emplace" /\ cliId \in Sources /\ cliId \notin DOMAIN queues
  BY DEF IInv, TestsStillHold, EmplaceQueue
<1>2. /\ IsMap(queues', Sources, Seq(Frame))
      /\ DOMAIN queues' = DOMAIN queues \cup {cliId}
      /\ \A s \in DOMAIN queues : queues'[s] = queues[s]
      /\ queues'[cliId] = << >>
  <2>1. IsMap(queues, Sources, Seq(Frame)) /\ << >> \in Seq(Frame)
    BY DEF IInv, TypeOK
  <2>2. queues' = Emplace(queues, cliId, << >>)
    BY DEF EmplaceQueue
  <2>. QED  BY <1>1, <2>1, <2>2 DEF IsMap, Emplace
<1>3. TypeOK'
  BY <1>2 DEF IInv, TypeOK, EmplaceQueue, members, detVars
<1>4. InferenceMutexHolder'
  BY DEF IInv, InferenceMutexHolder, EmplaceQueue, detVars
<1>5. TestsStillHold'
  BY <1>1, <1>2 DEF IInv, TestsStillHold, MapsAgree, EmplaceQueue
<1>6. FrontIsProcessed'
  BY <1>1, <1>2 DEF IInv, FrontIsProcessed, Contains, EmplaceQueue, detVars
<1>7. MapsAgree' /\ QueueMutexHolders'
  BY <1>1, <1>2 DEF IInv, MapsAgree, QueueMutexHolders, EmplaceQueue, detVars
<1>8. QueueBound'
  BY <1>2, ConstantsAssumption DEF IInv, QueueBound
<1>. QED  BY <1>3, <1>4, <1>5, <1>6, <1>7, <1>8 DEF IInv

(* The maps have the same keys again.                                      *)
LEMMA EmplaceMutexInv ==
  ASSUME IInv, EmplaceMutex
  PROVE  IInv'
<1>1. /\ cliPc = "emplace_mutex" /\ cliId \in Sources /\ cliId \in DOMAIN queues
      /\ DOMAIN que_mutexes = DOMAIN queues \ {cliId}
      /\ DOMAIN dropped_frames = DOMAIN que_mutexes
  BY DEF IInv, TestsStillHold, MapsAgree, EmplaceMutex
<1>2. /\ IsMap(que_mutexes', Sources, Thread \cup {Nobody})
      /\ DOMAIN que_mutexes' = DOMAIN queues
      /\ \A s \in DOMAIN que_mutexes : que_mutexes'[s] = que_mutexes[s]
      /\ que_mutexes'[cliId] = Nobody
  <2>1. IsMap(que_mutexes, Sources, Thread \cup {Nobody})
    BY DEF IInv, TypeOK
  <2>2. que_mutexes' = Emplace(que_mutexes, cliId, Nobody)
    BY DEF EmplaceMutex
  <2>. QED  BY <1>1, <2>1, <2>2 DEF IsMap, Emplace
<1>3. IsMap(dropped_frames', Sources, Nat) /\ DOMAIN dropped_frames' = DOMAIN queues
  <2>1. IsMap(dropped_frames, Sources, Nat)
    BY DEF IInv, TypeOK
  <2>2. dropped_frames' = Emplace(dropped_frames, cliId, 0)
    BY DEF EmplaceMutex
  <2>. QED  BY <1>1, <2>1, <2>2 DEF IsMap, Emplace
<1>4. cliPc' = "ready" /\ cliId' = 0 /\ cliFrame' = NoFrame /\ queues' = queues
  BY DEF EmplaceMutex, Return
<1>5. TypeOK'
  BY <1>2, <1>3, <1>4 DEF IInv, TypeOK, EmplaceMutex, members, detVars
<1>6. InferenceMutexHolder' /\ TestsStillHold'
  BY <1>1, <1>4 DEF IInv, InferenceMutexHolder, TestsStillHold, EmplaceMutex, detVars
<1>7. FrontIsProcessed' /\ QueueBound'
  BY <1>4 DEF IInv, FrontIsProcessed, QueueBound, Contains, EmplaceMutex, detVars
<1>8. MapsAgree'
  BY <1>1, <1>2, <1>3, <1>4 DEF IInv, MapsAgree, EmplaceMutex, detVars
<1>9. QueueMutexHolders'
  <2>1. detPc = "pop" => current_queue_id \in DOMAIN que_mutexes
    BY DEF IInv, MapsAgree
  <2>2. detPc' = detPc /\ current_queue_id' = current_queue_id
    BY DEF EmplaceMutex, detVars
  <2>. QED  BY <1>1, <1>2, <1>4, <2>1, <2>2 DEF IInv, QueueMutexHolders, Nobody
<1>. QED  BY <1>5, <1>6, <1>7, <1>8, <1>9 DEF IInv

(* With inference_mutex in the hands of the client thread, run() is not    *)
(* working on the queue that goes away.                                    *)
LEMMA EraseSourceInv ==
  ASSUME IInv, EraseSource
  PROVE  IInv'
<1>1. /\ cliPc = "erase" /\ cliId \in DOMAIN queues
      /\ DOMAIN que_mutexes = DOMAIN queues
      /\ DOMAIN dropped_frames = DOMAIN que_mutexes
  BY DEF IInv, TestsStillHold, MapsAgree, EraseSource
<1>2. detPc \notin {"choose", "test", "detect", "lock_que", "pop"}
  BY <1>1 DEF IInv, InferenceMutexHolder
<1>3. /\ IsMap(queues', Sources, Seq(Frame))
      /\ DOMAIN queues' = DOMAIN queues \ {cliId}
      /\ \A s \in DOMAIN queues' : queues'[s] = queues[s]
  <2>1. IsMap(queues, Sources, Seq(Frame)) /\ queues' = Erase(queues, cliId)
    BY DEF IInv, TypeOK, EraseSource
  <2>. QED  BY <2>1 DEF IsMap, Erase
<1>4. /\ IsMap(que_mutexes', Sources, Thread \cup {Nobody})
      /\ DOMAIN que_mutexes' = DOMAIN que_mutexes \ {cliId}
      /\ \A s \in DOMAIN que_mutexes' : que_mutexes'[s] = que_mutexes[s]
  <2>1. /\ IsMap(que_mutexes, Sources, Thread \cup {Nobody})
        /\ que_mutexes' = Erase(que_mutexes, cliId)
    BY DEF IInv, TypeOK, EraseSource, EraseMutex
  <2>. QED  BY <2>1 DEF IsMap, Erase
<1>5. /\ IsMap(dropped_frames', Sources, Nat)
      /\ DOMAIN dropped_frames' = DOMAIN dropped_frames \ {cliId}
  <2>1. IsMap(dropped_frames, Sources, Nat) /\ dropped_frames' = Erase(dropped_frames, cliId)
    BY DEF IInv, TypeOK, EraseSource
  <2>. QED  BY <2>1 DEF IsMap, Erase
<1>6. /\ cliPc' = "ready" /\ cliId' = 0 /\ cliFrame' = NoFrame
      /\ inference_mutex' = Nobody /\ detPc' = detPc
  BY DEF EraseSource, Return, detVars
<1>7. TypeOK'
  BY <1>3, <1>4, <1>5, <1>6 DEF IInv, TypeOK, EraseSource, members, detVars
<1>8. InferenceMutexHolder' /\ TestsStillHold' /\ FrontIsProcessed'
  BY <1>2, <1>6 DEF InferenceMutexHolder, TestsStillHold, FrontIsProcessed, Nobody
<1>9. MapsAgree' /\ QueueMutexHolders' /\ QueueBound'
  BY <1>1, <1>2, <1>3, <1>4, <1>5, <1>6
  DEF IInv, MapsAgree, QueueMutexHolders, QueueBound
<1>. QED  BY <1>7, <1>8, <1>9 DEF IInv

(* Locking the mutex of a queue that exists sets its holder.               *)
LEMMA LockQueueSetsHolder ==
  ASSUME IInv, NEW s \in DOMAIN que_mutexes, NEW holder \in Thread \cup {Nobody}
  PROVE  /\ LockQueue(s, holder) = [que_mutexes EXCEPT ![s] = holder]
         /\ IsMap([que_mutexes EXCEPT ![s] = holder], Sources, Thread \cup {Nobody})
         /\ DOMAIN [que_mutexes EXCEPT ![s] = holder] = DOMAIN que_mutexes
         /\ [que_mutexes EXCEPT ![s] = holder][s] = holder
         /\ \A t \in DOMAIN que_mutexes : 
               t # s => [que_mutexes EXCEPT ![s] = holder][t] = que_mutexes[t]
<1>1. IsMap(que_mutexes, Sources, Thread \cup {Nobody})
  BY DEF IInv, TypeOK
<1>2. Emplace(que_mutexes, s, Nobody) = que_mutexes
  BY <1>1 DEF IsMap, Emplace
<1>3. LockQueue(s, holder) = [que_mutexes EXCEPT ![s] = holder]
  BY <1>2 DEF LockQueue
<1>. QED  BY <1>1, <1>3, AssignMap

(* The client thread takes a mutex that the detection thread does not hold.*)
LEMMA LockQueueForPushInv ==
  ASSUME IInv, LockQueueForPush
  PROVE  IInv'
<1>1. /\ cliPc = "lock_que" /\ cliId \in DOMAIN que_mutexes
      /\ que_mutexes[cliId] = Nobody
  BY DEF IInv, MapsAgree, LockQueueForPush, QueueIsFree
<1>2. /\ IsMap(que_mutexes', Sources, Thread \cup {Nobody})
      /\ DOMAIN que_mutexes' = DOMAIN que_mutexes
      /\ que_mutexes'[cliId] = "client"
      /\ \A s \in DOMAIN que_mutexes : s # cliId => que_mutexes'[s] = que_mutexes[s]
  <2>1. "client" \in Thread \cup {Nobody}
    BY DEF Thread
  <2>2. LockQueue(cliId, "client") = [que_mutexes EXCEPT ![cliId] = "client"]
    BY <1>1, <2>1, LockQueueSetsHolder
  <2>3. que_mutexes' = [que_mutexes EXCEPT ![cliId] = "client"]
    BY <2>2 DEF LockQueueForPush
  <2>. QED  BY <1>1, <2>1, <2>3, LockQueueSetsHolder
<1>3. TypeOK'
  BY <1>2 DEF IInv, TypeOK, LockQueueForPush, members, detVars
<1>4. InferenceMutexHolder' /\ TestsStillHold' /\ FrontIsProcessed' /\ QueueBound'
  BY <1>1 DEF IInv, InferenceMutexHolder, TestsStillHold, FrontIsProcessed, QueueBound,
              Contains, LockQueueForPush, detVars
<1>5. MapsAgree' /\ QueueMutexHolders'
  BY <1>1, <1>2 DEF IInv, MapsAgree, QueueMutexHolders, LockQueueForPush, detVars, Nobody
<1>. QED  BY <1>3, <1>4, <1>5 DEF IInv

(* The size that was tested before the lock can only have shrunk.          *)
LEMMA PushFrameInv ==
  ASSUME IInv, PushFrame
  PROVE  IInv'
<1>. DEFINE q == queues[cliId]
<1>1. /\ cliPc = "push" /\ cliId \in DOMAIN queues /\ cliId \in DOMAIN que_mutexes
      /\ Len(q) < MaxSizePerQue /\ cliFrame \in Frame
  BY DEF IInv, TestsStillHold, MapsAgree, PushFrame
<1>2. q \in Seq(Frame) /\ Len(q) \in Nat
  BY <1>1, TypesOfMaps
<1>3. /\ Append(q, cliFrame) \in Seq(Frame)
      /\ Append(q, cliFrame) # << >>
      /\ Len(Append(q, cliFrame)) = Len(q) + 1
      /\ q # << >> => Head(Append(q, cliFrame)) = Head(q)
  BY <1>1, <1>2, AppendToQueue
<1>4. queues' = [queues EXCEPT ![cliId] = Append(q, cliFrame)]
  <2>1. Emplace(queues, cliId, << >>) = queues
    BY <1>1 DEF IInv, TypeOK, IsMap, Emplace
  <2>. QED  BY <2>1 DEF PushFrame
<1>5. /\ IsMap(queues', Sources, Seq(Frame))
      /\ DOMAIN queues' = DOMAIN queues
      /\ queues'[cliId] = Append(q, cliFrame)
      /\ \A s \in DOMAIN queues : s # cliId => queues'[s] = queues[s]
  <2>1. IsMap(queues, Sources, Seq(Frame))
    BY DEF IInv, TypeOK
  <2>. QED  BY <1>1, <1>3, <1>4, <2>1, AssignMap
<1>6. /\ IsMap(que_mutexes', Sources, Thread \cup {Nobody})
      /\ DOMAIN que_mutexes' = DOMAIN que_mutexes
      /\ que_mutexes'[cliId] = Nobody
      /\ \A s \in DOMAIN que_mutexes : s # cliId => que_mutexes'[s] = que_mutexes[s]
  <2>1. que_mutexes' = [que_mutexes EXCEPT ![cliId] = Nobody]
    BY DEF PushFrame
  <2>. QED  BY <1>1, <2>1, LockQueueSetsHolder
<1>7. /\ cliPc' = "ack" /\ cliId' = cliId /\ detPc' = detPc /\ frame_ptr' = frame_ptr
      /\ current_queue_id' = current_queue_id /\ dropped_frames' = dropped_frames
  BY DEF PushFrame, detVars
<1>8. TypeOK'
  BY <1>5, <1>6 DEF IInv, TypeOK, PushFrame, members, detVars
<1>9. InferenceMutexHolder' /\ TestsStillHold'
  BY <1>1, <1>7 DEF IInv, InferenceMutexHolder, TestsStillHold, PushFrame
<1>10. FrontIsProcessed'
  BY <1>3, <1>5, <1>7 DEF IInv, FrontIsProcessed, Contains
<1>11. MapsAgree'
  BY <1>1, <1>5, <1>6, <1>7 DEF IInv, MapsAgree
<1>12. QueueMutexHolders'
  <2>1. ~(detPc = "pop" /\ cliId = current_queue_id)
    BY <1>1 DEF IInv, QueueMutexHolders
  <2>. QED  BY <1>1, <1>6, <1>7, <2>1 DEF IInv, QueueMutexHolders, Nobody
<1>13. QueueBound'
  BY <1>1, <1>2, <1>3, <1>5, ConstantsAssumption DEF IInv, QueueBound
<1>. QED  BY <1>8, <1>9, <1>10, <1>11, <1>12, <1>13 DEF IInv

(* The detection thread takes a mutex that the client does not hold.       *)
LEMMA LockQueueForPopInv ==
  ASSUME IInv, LockQueueForPop
  PROVE  IInv'
<1>1. /\ detPc = "lock_que" /\ current_queue_id \in DOMAIN que_mutexes
      /\ que_mutexes[current_queue_id] = Nobody
  BY DEF IInv, MapsAgree, LockQueueForPop, QueueIsFree
<1>2. /\ IsMap(que_mutexes', Sources, Thread \cup {Nobody})
      /\ DOMAIN que_mutexes' = DOMAIN que_mutexes
      /\ que_mutexes'[current_queue_id] = "detection"
      /\ \A s \in DOMAIN que_mutexes : s # current_queue_id => que_mutexes'[s] = que_mutexes[s]
  <2>1. "detection" \in Thread \cup {Nobody}
    BY DEF Thread
  <2>2. LockQueue(current_queue_id, "detection")
          = [que_mutexes EXCEPT ![current_queue_id] = "detection"]
    BY <1>1, <2>1, LockQueueSetsHolder
  <2>3. que_mutexes' = [que_mutexes EXCEPT ![current_queue_id] = "detection"]
    BY <2>2 DEF LockQueueForPop
  <2>. QED  BY <1>1, <2>1, <2>3, LockQueueSetsHolder
<1>3. TypeOK'
  BY <1>2 DEF IInv, TypeOK, LockQueueForPop, members, cliVars
<1>4. InferenceMutexHolder' /\ TestsStillHold' /\ FrontIsProcessed' /\ QueueBound'
  BY <1>1, <1>2 DEF IInv, InferenceMutexHolder, TestsStillHold, FrontIsProcessed, QueueBound,
              Contains, LockQueueForPop, cliVars
<1>5. MapsAgree' /\ QueueMutexHolders'
  BY <1>1, <1>2 DEF IInv, MapsAgree, QueueMutexHolders, LockQueueForPop, cliVars, Nobody
<1>. QED  BY <1>3, <1>4, <1>5 DEF IInv

(* What is removed is the frame that was answered.                         *)
LEMMA PopFrameInv ==
  ASSUME IInv, PopFrame
  PROVE  IInv'
<1>. DEFINE q == queues[current_queue_id]
<1>1. /\ detPc = "pop" /\ current_queue_id \in DOMAIN queues
      /\ current_queue_id \in DOMAIN que_mutexes
      /\ q # << >>
  BY DEF IInv, FrontIsProcessed, Contains, MapsAgree, PopFrame
<1>2. q \in Seq(Frame) /\ Len(q) \in Nat
  BY <1>1, TypesOfMaps
<1>3. Tail(q) \in Seq(Frame) /\ Len(Tail(q)) = Len(q) - 1
  BY <1>1, <1>2, TailOfQueue
<1>4. /\ IsMap(queues', Sources, Seq(Frame))
      /\ DOMAIN queues' = DOMAIN queues
      /\ queues'[current_queue_id] = Tail(q)
      /\ \A s \in DOMAIN queues : s # current_queue_id => queues'[s] = queues[s]
  <2>1. queues' = [queues EXCEPT ![current_queue_id] = Tail(q)]
    BY DEF PopFrame, Pop
  <2>2. IsMap(queues, Sources, Seq(Frame))
    BY DEF IInv, TypeOK
  <2>. QED  BY <1>1, <1>3, <2>1, <2>2, AssignMap
<1>sizes. \A s \in DOMAIN queues :
          Len(queues[s]) \in Nat /\ Len(queues'[s]) \in Nat /\ Len(queues'[s]) <= Len(queues[s])
  <2>. SUFFICES ASSUME NEW s \in DOMAIN queues
                PROVE  /\ Len(queues[s]) \in Nat /\ Len(queues'[s]) \in Nat
                       /\ Len(queues'[s]) <= Len(queues[s])
    OBVIOUS
  <2>1. CASE s = current_queue_id
    <3>1. Len(Tail(q)) \in Nat
      BY <1>3
    <3>. QED  BY <2>1, <3>1, <1>2, <1>3, <1>4
  <2>2. CASE s # current_queue_id
    BY <2>2, <1>4, TypesOfMaps
  <2>. QED  BY <2>1, <2>2
<1>5. /\ IsMap(que_mutexes', Sources, Thread \cup {Nobody})
      /\ DOMAIN que_mutexes' = DOMAIN que_mutexes
      /\ que_mutexes'[current_queue_id] = Nobody
      /\ \A s \in DOMAIN que_mutexes : s # current_queue_id => que_mutexes'[s] = que_mutexes[s]
  <2>1. que_mutexes' = [que_mutexes EXCEPT ![current_queue_id] = Nobody]
    BY DEF PopFrame
  <2>. QED  BY <1>1, <2>1, LockQueueSetsHolder
<1>6. /\ detPc' = "idle" /\ frame_ptr' = NoFrame /\ inference_mutex' = Nobody
      /\ current_queue_id' = current_queue_id /\ dropped_frames' = dropped_frames
      /\ cliPc' = cliPc /\ cliId' = cliId /\ cliFrame' = cliFrame /\ accepted' = accepted
  BY DEF PopFrame, EndIteration, cliVars
<1>7. cliPc # "erase"
  BY <1>1 DEF IInv, InferenceMutexHolder
<1>8. TypeOK'
  BY <1>4, <1>5, <1>6 DEF IInv, TypeOK, PopFrame, members
<1>9. InferenceMutexHolder' /\ FrontIsProcessed'
  BY <1>6, <1>7 DEF InferenceMutexHolder, FrontIsProcessed, Nobody
<1>10. TestsStillHold'
  <2>1. cliPc = "emplace_mutex" => cliId # current_queue_id
    BY <1>1 DEF IInv, TestsStillHold
  <2>2. cliPc \in {"lock_que", "push"} => Len(queues'[cliId]) < MaxSizePerQue
    BY <1>4, <1>sizes, ConstantsAssumption DEF IInv, TestsStillHold
  <2>. QED  BY <1>4, <1>5, <1>6, <2>1, <2>2 DEF IInv, TestsStillHold
<1>11. MapsAgree'
  BY <1>4, <1>5, <1>6 DEF IInv, MapsAgree
<1>12. QueueMutexHolders'
  BY <1>1, <1>5, <1>6 DEF IInv, QueueMutexHolders, Nobody
<1>13. QueueBound'
  BY <1>4, <1>sizes, ConstantsAssumption DEF IInv, QueueBound
<1>. QED  BY <1>8, <1>9, <1>10, <1>11, <1>12, <1>13 DEF IInv

-----------------------------------------------------------------------------
(* Both threads are at the start of their loops and the maps are empty.    *)
LEMMA InitIInv ==
  ASSUME Init
  PROVE  IInv
<1>1. TypeOK
  BY ConstantsAssumption DEF Init, TypeOK, IsMap, Nobody
<1>2. InferenceMutexHolder /\ TestsStillHold /\ FrontIsProcessed
  BY DEF Init, InferenceMutexHolder, TestsStillHold, FrontIsProcessed, Nobody
<1>3. MapsAgree /\ QueueMutexHolders /\ QueueBound
  BY DEF Init, MapsAgree, QueueMutexHolders, QueueBound
<1>. QED  BY <1>1, <1>2, <1>3 DEF IInv

(* Every step of the client thread preserves the invariant.                *)
LEMMA ClientInv ==
  ASSUME IInv, ClientBegins \/ ClientContinues
  PROVE  IInv'
BY RegisterSourceInv, UnregisterSourceInv, TryAddToQueueInv, EmplaceQueueInv, EmplaceMutexInv,
   LockInferenceForEraseInv, EraseSourceInv, LockQueueForPushInv, PushFrameInv, AckFrameInv
DEF ClientBegins, ClientContinues

(* Every step of run() preserves the invariant.                            *)
LEMMA DetectionInv ==
  ASSUME IInv, Detection
  PROVE  IInv'
BY SeeQueuesInv, LockInferenceInv, ChooseNextQueueInv, SkipQueueInv, FetchFrameInv,
   DetectionThrowsInv, PushResultsInv, LockQueueForPopInv, PopFrameInv
DEF Detection

(* The inductive invariant holds in every behaviour of the two threads.    *)
THEOREM Invariance == Spec => []IInv
<1>1. Init => IInv
  BY InitIInv
<1>2. IInv /\ [Next]_vars => IInv'
  <2>. SUFFICES ASSUME IInv, [Next]_vars
                PROVE  IInv'
    OBVIOUS
  <2>1. CASE UNCHANGED vars
    BY <2>1 DEF vars, maps, members, detVars, cliVars, IInv, TypeOK, InferenceMutexHolder,
                TestsStillHold, FrontIsProcessed, Contains, MapsAgree, QueueMutexHolders, QueueBound
  <2>2. CASE Next
    BY <2>2, ClientInv, DetectionInv DEF Next
  <2>. QED  BY <2>1, <2>2
<1>. QED  BY <1>1, <1>2, PTL DEF Spec

(* The type invariant of the service.                                      *)
THEOREM TypeCorrect == Spec => []TypeOK
BY Invariance, PTL DEF IInv

(* No queue exceeds max_size_per_que.                                      *)
THEOREM QueuesAreBounded == Spec => []QueueBound
BY Invariance, PTL DEF IInv

(* The frame that run() works on stays at the front of its queue.          *)
THEOREM FrameStaysInFront == Spec => []FrontIsProcessed
BY Invariance, PTL DEF IInv

(* The three maps agree and no subscript creates an entry.                 *)
THEOREM MapsStayTogether == Spec => []MapsAgree
BY Invariance, PTL DEF IInv

(* Each mutex of a queue has the holder that the access says.              *)
THEOREM MutexesAreHeld == Spec => []QueueMutexHolders
BY Invariance, PTL DEF IInv

-----------------------------------------------------------------------------
(***************************************************************************)
(* The service implements SourceQueues.  A registration takes effect when  *)
(* the queue is emplaced, an unregistration when it is erased, a frame is  *)
(* accepted when it is pushed and stops waiting when its result is pushed; *)
(* every other step changes nothing that a caller can tell.                *)
(***************************************************************************)

(* The keys and the queues that the mapping shows.                         *)
LEMMA PendingIs ==
  /\ DOMAIN Pending = DOMAIN queues
  /\ \A s \in DOMAIN queues : Pending[s] = Waiting(s)
BY DEF Pending

(* The mapping stays the same when the queues do and no frame is between   *)
(* its answer and its removal before or after the step.                    *)
LEMMA PendingUnchanged ==
  ASSUME queues' = queues, current_queue_id' = current_queue_id,
         detPc \in {"lock_que", "pop"} <=> detPc' \in {"lock_que", "pop"}
  PROVE  Pending' = Pending
BY DEF Pending, Waiting

(* The same for the choice of a queue, while no frame is being removed.    *)
LEMMA PendingUnchangedByChoice ==
  ASSUME queues' = queues,
         detPc \notin {"lock_que", "pop"}, detPc' \notin {"lock_que", "pop"}
  PROVE  Pending' = Pending
BY DEF Pending, Waiting

(* EmplaceQueue is Register of the abstract queues.                        *)
LEMMA EmplaceQueueRegisters ==
  ASSUME IInv, EmplaceQueue
  PROVE  Abstract!Register(cliId)
<1>1. cliId \in Sources /\ cliId \notin DOMAIN queues
  BY DEF IInv, TestsStillHold, EmplaceQueue
<1>2. detPc \in {"lock_que", "pop"} => current_queue_id # cliId
  BY <1>1 DEF IInv, FrontIsProcessed, Contains
<1>3. Pending' = Abstract!Emplace(Pending, cliId, << >>)
  BY <1>1, <1>2 DEF EmplaceQueue, Emplace, Abstract!Emplace, Pending, Waiting, detVars
<1>. QED  BY <1>1, <1>3, PendingIs DEF Abstract!Register, EmplaceQueue

(* EraseSource is Unregister of the abstract queues.                       *)
LEMMA EraseSourceUnregisters ==
  ASSUME IInv, EraseSource
  PROVE  Abstract!Unregister(cliId)
<1>1. cliId \in Sources /\ cliId \in DOMAIN queues
  BY DEF IInv, TestsStillHold, EraseSource
<1>2. detPc \notin {"lock_que", "pop"}
  BY DEF IInv, InferenceMutexHolder, EraseSource
<1>3. Pending' = Abstract!Erase(Pending, cliId)
  BY <1>1, <1>2 DEF EraseSource, Erase, Abstract!Erase, Pending, Waiting, detVars
<1>. QED  BY <1>1, <1>3, PendingIs DEF Abstract!Unregister, EraseSource

(* PushFrame is Accept: the queue has room, and when its front frame is    *)
(* answered already, push and removal commute.                             *)
LEMMA PushFrameAccepts ==
  ASSUME IInv, PushFrame
  PROVE  cliFrame.kind \in FrameKinds /\ Abstract!Accept(cliId, cliFrame.kind)
<1>. DEFINE q == queues[cliId]
<1>1. /\ cliId \in Sources /\ cliId \in DOMAIN queues
      /\ Len(q) < MaxSizePerQue /\ cliFrame \in Frame /\ cliFrame.num = accepted + 1
  BY DEF IInv, TestsStillHold, PushFrame
<1>2. q \in Seq(Frame) /\ Len(q) \in Nat
  BY <1>1, TypesOfMaps
<1>3. cliFrame.kind \in FrameKinds /\ cliFrame = [num |-> accepted + 1, kind |-> cliFrame.kind]
  BY <1>1 DEF Frame
<1>4. /\ DOMAIN queues' = DOMAIN queues
      /\ queues'[cliId] = Append(q, cliFrame)
      /\ \A s \in DOMAIN queues : s # cliId => queues'[s] = queues[s]
  <2>1. Emplace(queues, cliId, << >>) = queues
    BY <1>1 DEF IInv, TypeOK, IsMap, Emplace
  <2>2. queues' = [queues EXCEPT ![cliId] = Append(q, cliFrame)]
    BY <2>1 DEF PushFrame
  <2>. QED  BY <1>1, <2>2
<1>5. /\ detPc' = detPc /\ current_queue_id' = current_queue_id
      /\ accepted' = accepted + 1 /\ results' = results /\ cliId' = cliId
  BY DEF PushFrame, detVars
<1>6. Waiting(cliId)' = Append(Waiting(cliId), cliFrame) /\ Len(Waiting(cliId)) < MaxSizePerQue
  <2>1. CASE detPc \in {"lock_que", "pop"} /\ cliId = current_queue_id
    <3>1. q # << >>
      BY <2>1 DEF IInv, FrontIsProcessed
    <3>2. Tail(Append(q, cliFrame)) = Append(Tail(q), cliFrame)
      BY <3>1, <1>1, <1>2, TailOfAppend
    <3>3. Len(Tail(q)) < MaxSizePerQue
      <4>1. Len(Tail(q)) = Len(q) - 1
        BY <3>1, <1>2, TailOfQueue
      <4>. QED  BY <4>1, <1>1, <1>2, ConstantsAssumption
    <3>4. Waiting(cliId) = Tail(q)
      BY <2>1 DEF Waiting
    <3>5. Waiting(cliId)' = Tail(Append(q, cliFrame))
      BY <2>1, <1>4, <1>5 DEF Waiting
    <3>. QED  BY <3>2, <3>3, <3>4, <3>5
  <2>2. CASE ~(detPc \in {"lock_que", "pop"} /\ cliId = current_queue_id)
    BY <2>2, <1>1, <1>4, <1>5 DEF Waiting, PushFrame
  <2>. QED  BY <2>1, <2>2
<1>7. \A s \in DOMAIN queues : s # cliId => Waiting(s)' = Waiting(s)
  BY <1>4, <1>5 DEF Waiting
<1>8. Pending' = [Pending EXCEPT ![cliId] = Append(@, [num |-> accepted', kind |-> cliFrame.kind])]
  <2>1. \A s \in DOMAIN queues :
           Waiting(s)' = IF s = cliId THEN Append(Waiting(s), cliFrame) ELSE Waiting(s)
    <3>1. \A s : s = cliId => Waiting(s)' = Waiting(cliId)' /\ Waiting(s) = Waiting(cliId)
      BY <1>5 DEF Waiting
    <3>. QED  BY <3>1, <1>6, <1>7
  <2>2. [num |-> accepted', kind |-> cliFrame.kind] = cliFrame
    BY <1>3, <1>5
  <2>. QED  BY <1>1, <1>4, <2>1, <2>2 DEF Pending
<1>. QED  BY <1>1, <1>3, <1>5, <1>6, <1>8, PendingIs DEF Abstract!Accept

(* PushResults is Detect: the frame that was fetched is still the oldest.  *)
LEMMA PushResultsDetects ==
  ASSUME IInv, PushResults
  PROVE  current_queue_id \in Sources /\ Abstract!Detect(current_queue_id)
<1>1. /\ detPc = "detect" /\ current_queue_id \in DOMAIN queues
      /\ queues[current_queue_id] # << >>
      /\ Head(queues[current_queue_id]) = frame_ptr
  BY DEF IInv, FrontIsProcessed, Contains, PushResults
<1>2. current_queue_id \in Sources
  BY <1>1, TypesOfMaps
<1>3. /\ queues' = queues /\ current_queue_id' = current_queue_id /\ detPc' = "lock_que"
      /\ accepted' = accepted
      /\ results' = Append(results, [src |-> current_queue_id, num |-> frame_ptr.num])
  BY DEF PushResults, maps
<1>4. Pending[current_queue_id] = queues[current_queue_id]
  BY <1>1 DEF Pending, Waiting
<1>5. Pending' = [Pending EXCEPT ![current_queue_id] = Tail(@)]
  BY <1>1, <1>3 DEF Pending, Waiting
<1>. QED  BY <1>1, <1>2, <1>3, <1>4, <1>5, PendingIs DEF Abstract!Detect

(* PopFrame removes what does not wait any more.                           *)
LEMMA PopFrameStutters ==
  ASSUME IInv, PopFrame
  PROVE  Pending' = Pending
<1>1. detPc = "pop" /\ detPc' = "idle" /\ current_queue_id \in DOMAIN queues
  BY DEF IInv, FrontIsProcessed, Contains, PopFrame, EndIteration
<1>2. queues' = [queues EXCEPT ![current_queue_id] = Tail(@)]
  BY DEF PopFrame, Pop
<1>3. DOMAIN queues' = DOMAIN queues
  BY <1>2 DEF IInv, TypeOK, IsMap
<1>4. \A s \in DOMAIN queues : Waiting(s)' = Waiting(s)
  BY <1>1, <1>2 DEF IInv, TypeOK, IsMap, Waiting
<1>. QED  BY <1>3, <1>4 DEF Pending

(* The steps that nobody outside can tell.                                 *)
LEMMA OtherStepsStutter ==
  ASSUME IInv,
         \/ ClientBegins \/ EmplaceMutex \/ LockInferenceForErase \/ LockQueueForPush \/ AckFrame
         \/ SeeQueues \/ LockInference \/ ChooseNextQueue \/ SkipQueue \/ FetchFrame
         \/ DetectionThrows \/ LockQueueForPop \/ PopFrame
  PROVE  Pending' = Pending /\ accepted' = accepted /\ results' = results
<1>1. CASE ClientBegins \/ EmplaceMutex \/ LockInferenceForErase \/ LockQueueForPush \/ AckFrame
  BY <1>1, PendingUnchanged
  DEF ClientBegins, RegisterSource, UnregisterSource, TryAddToQueue, EmplaceMutex,
      LockInferenceForErase, LockQueueForPush, AckFrame, maps, detVars
<1>2. CASE SeeQueues \/ LockInference \/ SkipQueue \/ FetchFrame \/ DetectionThrows \/ LockQueueForPop
  BY <1>2, PendingUnchanged
  DEF SeeQueues, LockInference, SkipQueue, FetchFrame, DetectionThrows, LockQueueForPop,
      EndIteration, maps
<1>3. CASE ChooseNextQueue
  BY <1>3, PendingUnchangedByChoice DEF ChooseNextQueue, maps
<1>4. CASE PopFrame
  BY <1>4, PopFrameStutters DEF PopFrame
<1>. QED  BY <1>1, <1>2, <1>3, <1>4

(* run() and its callers implement the bounded queues.                     *)
THEOREM Implementation == Spec => AbstractSpec
<1>1. Init => Abstract!Init
  BY DEF Init, Abstract!Init, Pending
<1>2. IInv /\ [Next]_vars => [Abstract!Next]_(Abstract!vars)
  <2>. SUFFICES ASSUME IInv, [Next]_vars
                PROVE  Abstract!Next \/ UNCHANGED Abstract!vars
    OBVIOUS
  <2>1. CASE UNCHANGED vars
    BY <2>1, PendingUnchanged DEF vars, maps, detVars, Abstract!vars
  <2>2. CASE EmplaceQueue
    <3>1. cliId \in Sources
      BY <2>2 DEF IInv, TestsStillHold, EmplaceQueue
    <3>. QED  BY <2>2, <3>1, EmplaceQueueRegisters DEF Abstract!Next
  <2>3. CASE EraseSource
    <3>1. cliId \in Sources
      BY <2>3 DEF IInv, TestsStillHold, EraseSource
    <3>. QED  BY <2>3, <3>1, EraseSourceUnregisters DEF Abstract!Next
  <2>4. CASE PushFrame
    <3>1. cliId \in Sources
      BY <2>4 DEF IInv, TestsStillHold, PushFrame
    <3>. QED  BY <2>4, <3>1, PushFrameAccepts DEF Abstract!Next
  <2>5. CASE PushResults
    BY <2>5, PushResultsDetects DEF Abstract!Next
  <2>6. CASE ~(EmplaceQueue \/ EraseSource \/ PushFrame \/ PushResults) /\ Next
    BY <2>6, OtherStepsStutter DEF Next, ClientContinues, Detection, Abstract!vars
  <2>. QED  BY <2>1, <2>2, <2>3, <2>4, <2>5, <2>6
<1>. QED  BY <1>1, <1>2, Invariance, PTL DEF Spec, AbstractSpec, Abstract!Spec

(***************************************************************************)
(* What the abstract queues promise, seen through the mapping.             *)
(***************************************************************************)
Promises == INSTANCE SourceQueuesProofs WITH pending <- Pending

(* The proofs about SourceQueues speak of the same specification.          *)
LEMMA SameSpecification == Abstract!Spec => Promises!Spec
<1>1. Abstract!Init => Promises!Init
  BY DEF Abstract!Init, Promises!Init
<1>2. Abstract!Next => Promises!Next
  BY DEF Abstract!Next, Abstract!Register, Abstract!Unregister, Abstract!Accept,
         Abstract!Detect,
         Abstract!Emplace, Abstract!Erase,
         Promises!Next, Promises!Register, Promises!Unregister, Promises!Accept, Promises!Detect,
         Promises!Emplace, Promises!Erase
<1>3. UNCHANGED Abstract!vars => UNCHANGED Promises!vars
  BY DEF Abstract!vars, Promises!vars
<1>. QED  BY <1>1, <1>2, <1>3, PTL DEF Abstract!Spec, Promises!Spec

(* Every behaviour of the service keeps the promises of the queues.        *)
LEMMA PromisesKept == Spec => []Promises!Inv
<1>1. Promises!Spec => []Promises!Inv
  BY Promises!Safety
<1>. QED  BY <1>1, Implementation, SameSpecification, PTL DEF AbstractSpec

(* No frame is answered twice, each source is answered in order.           *)
THEOREM AnswersInOrder == Spec => []ResultsInOrder
<1>1. Promises!Inv => ResultsInOrder
  BY DEF Promises!Inv, Promises!InOrderOnce, ResultsInOrder, Abstract!InOrderOnce
<1>. QED  BY <1>1, PromisesKept, PTL

(* What waits is newer than what was answered for its source.              *)
THEOREM WaitingFramesAreNewer == Spec => []WaitingIsNewer
<1>1. Promises!Inv => WaitingIsNewer
  BY DEF Promises!Inv, Promises!PendingIsNewer, WaitingIsNewer, Abstract!PendingIsNewer
<1>. QED  BY <1>1, PromisesKept, PTL
=============================================================================
