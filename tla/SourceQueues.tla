---------------------------- MODULE SourceQueues ----------------------------
(***************************************************************************)
(* What the detection service promises its callers, without its threads    *)
(* and its locks: every registered source has a bounded first-in first-out *)
(* queue of frames, and every result is the result of the frame at the     *)
(* head of the queue of a source that is registered at that moment.        *)
(* DetectionService.tla implements this specification.                     *)
(***************************************************************************)
EXTENDS Integers, Sequences, StdMap

CONSTANTS
  Sources,        \* source identifiers, the keys of the maps
  MaxSizePerQue,  \* max_size_per_que
  FrameKinds      \* what a frame can be, see DetectionService.tla

VARIABLES
  pending,        \* registered source -> frames waiting for detection
  accepted,       \* how many frames were ever put into a queue
  results         \* every result pushed so far, in order

vars == <<pending, accepted, results>>

Frame  == [num : Nat \ {0}, kind : FrameKinds]
Result == [src : Sources, num : Nat \ {0}]

TypeOK ==
  /\ IsMap(pending, Sources, Seq(Frame))
  /\ accepted \in Nat
  /\ results \in Seq(Result)

-----------------------------------------------------------------------------
Init ==
  /\ pending = << >>
  /\ accepted = 0
  /\ results = << >>

Register(s) ==
  /\ s \notin DOMAIN pending
  /\ pending' = Emplace(pending, s, << >>)
  /\ UNCHANGED <<accepted, results>>

Unregister(s) ==
  /\ s \in DOMAIN pending
  /\ pending' = Erase(pending, s)
  /\ UNCHANGED <<accepted, results>>

(* Frames are numbered in the order in which the service accepts them.     *)
Accept(s, kind) ==
  /\ s \in DOMAIN pending
  /\ Len(pending[s]) < MaxSizePerQue
  /\ accepted' = accepted + 1
  /\ pending' = [pending EXCEPT ![s] = Append(@, [num |-> accepted', kind |-> kind])]
  /\ UNCHANGED results

Detect(s) ==
  /\ s \in DOMAIN pending
  /\ pending[s] # << >>
  /\ results' = Append(results, [src |-> s, num |-> Head(pending[s]).num])
  /\ pending' = [pending EXCEPT ![s] = Tail(@)]
  /\ UNCHANGED accepted

Next ==
  \E s \in Sources :
     \/ Register(s)
     \/ Unregister(s)
     \/ \E kind \in FrameKinds : Accept(s, kind)
     \/ Detect(s)

Spec == Init /\ [][Next]_vars

-----------------------------------------------------------------------------
(* No frame is answered twice, and the answers of one source come in the   *)
(* order in which its frames were accepted: the contract of the queue that *)
(* try_add_to_queue fills and run() drains.                                *)
InOrderOnce ==
  \A i, j \in 1..Len(results) :
     i < j => /\ results[i].num # results[j].num
              /\ results[i].src = results[j].src => results[i].num < results[j].num

(* Whatever is still waiting was accepted after everything already         *)
(* answered for that source, even across unregister_source and a new       *)
(* register_source of the same identifier.                                 *)
PendingIsNewer ==
  \A s \in DOMAIN pending : \A i \in 1..Len(pending[s]), j \in 1..Len(results) :
     results[j].src = s => results[j].num < pending[s][i].num
=============================================================================
