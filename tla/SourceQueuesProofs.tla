------------------------- MODULE SourceQueuesProofs -------------------------
(***************************************************************************)
(* The promises of SourceQueues hold for any set of sources and any bound. *)
(***************************************************************************)
EXTENDS SourceQueues, CollectionProofs

(* Frames stand in a queue in the order in which they were accepted.       *)
QueuesAscend ==
  \A s \in DOMAIN pending : \A i, j \in 1..Len(pending[s]) :
     i < j => pending[s][i].num < pending[s][j].num

(* A frame waits in one queue only.                                        *)
WaitsOnce ==
  \A s, t \in DOMAIN pending : \A i \in 1..Len(pending[s]), j \in 1..Len(pending[t]) :
     s # t => pending[s][i].num # pending[t][j].num

(* A frame that waits was not answered before, not even for another source.*)
WaitingIsUnanswered ==
  \A s \in DOMAIN pending : \A i \in 1..Len(pending[s]), j \in 1..Len(results) :
     pending[s][i].num # results[j].num

(* Every number in use was given out.                                      *)
NumbersGivenOut ==
  /\ \A s \in DOMAIN pending : \A i \in 1..Len(pending[s]) : pending[s][i].num <= accepted
  /\ \A j \in 1..Len(results) : results[j].num <= accepted

Inv ==
  /\ TypeOK
  /\ QueuesAscend
  /\ WaitsOnce
  /\ WaitingIsUnanswered
  /\ NumbersGivenOut
  /\ InOrderOnce
  /\ PendingIsNewer

(* A registered source has a sequence of numbered frames.                  *)
LEMMA PendingType ==
  ASSUME TypeOK, NEW s \in DOMAIN pending
  PROVE  /\ s \in Sources
         /\ pending[s] \in Seq(Frame)
         /\ \A i \in 1..Len(pending[s]) : pending[s][i].num \in Nat \ {0}
<1>1. s \in Sources /\ pending[s] \in Seq(Frame)
  BY DEF TypeOK, IsMap
<1>2. \A i \in 1..Len(pending[s]) : pending[s][i] \in Frame
  BY <1>1
<1>. QED  BY <1>1, <1>2 DEF Frame

(* Nothing waits and nothing was answered when the service starts.         *)
LEMMA InitInv ==
  ASSUME Init
  PROVE  Inv
<1>1. DOMAIN pending = {} /\ results = << >> /\ Len(results) = 0
  BY DEF Init
<1>2. TypeOK
  BY <1>1 DEF Init, TypeOK, IsMap
<1>. QED
  BY <1>1, <1>2 DEF Inv, QueuesAscend, WaitsOnce, WaitingIsUnanswered, NumbersGivenOut,
                    InOrderOnce, PendingIsNewer

(* register_source adds an empty queue.                                    *)
LEMMA RegisterInv ==
  ASSUME Inv, NEW s \in Sources, Register(s)
  PROVE  Inv'
<1>1. << >> \in Seq(Frame)
  OBVIOUS
<1>2. /\ IsMap(pending', Sources, Seq(Frame))
      /\ DOMAIN pending' = DOMAIN pending \cup {s}
      /\ \A t \in DOMAIN pending : pending'[t] = pending[t]
      /\ pending'[s] = << >>
  <2>1. IsMap(pending, Sources, Seq(Frame))
    BY DEF Inv, TypeOK
  <2>2. s \notin DOMAIN pending /\ pending' = Emplace(pending, s, << >>)
    BY DEF Register
  <2>. QED  BY <1>1, <2>1, <2>2 DEF IsMap, Emplace
<1>3. accepted' = accepted /\ results' = results
  BY DEF Register
<1>4. TypeOK'
  BY <1>2, <1>3 DEF Inv, TypeOK
<1>5. \A t \in DOMAIN pending' : \A i \in 1..Len(pending'[t]) :
         t \in DOMAIN pending /\ pending'[t] = pending[t]
  BY <1>2
<1>6. QueuesAscend' /\ WaitsOnce'
  BY <1>5 DEF Inv, QueuesAscend, WaitsOnce
<1>7. WaitingIsUnanswered' /\ NumbersGivenOut' /\ InOrderOnce' /\ PendingIsNewer'
  BY <1>3, <1>5 DEF Inv, WaitingIsUnanswered, NumbersGivenOut, InOrderOnce, PendingIsNewer
<1>. QED  BY <1>4, <1>6, <1>7 DEF Inv

(* unregister_source takes a queue away with the frames in it.             *)
LEMMA UnregisterInv ==
  ASSUME Inv, NEW s \in Sources, Unregister(s)
  PROVE  Inv'
<1>1. /\ IsMap(pending', Sources, Seq(Frame))
      /\ DOMAIN pending' = DOMAIN pending \ {s}
      /\ \A t \in DOMAIN pending' : t \in DOMAIN pending /\ pending'[t] = pending[t]
  <2>1. IsMap(pending, Sources, Seq(Frame))
    BY DEF Inv, TypeOK
  <2>2. pending' = Erase(pending, s)
    BY DEF Unregister
  <2>. QED  BY <2>1, <2>2 DEF IsMap, Erase
<1>2. accepted' = accepted /\ results' = results
  BY DEF Unregister
<1>3. TypeOK'
  BY <1>1, <1>2 DEF Inv, TypeOK
<1>4. QueuesAscend' /\ WaitsOnce'
  BY <1>1 DEF Inv, QueuesAscend, WaitsOnce
<1>5. WaitingIsUnanswered' /\ NumbersGivenOut' /\ InOrderOnce' /\ PendingIsNewer'
  BY <1>1, <1>2 DEF Inv, WaitingIsUnanswered, NumbersGivenOut, InOrderOnce, PendingIsNewer
<1>. QED  BY <1>3, <1>4, <1>5 DEF Inv

(* An accepted frame gets a number above every number in use.              *)
LEMMA AcceptInv ==
  ASSUME Inv, NEW s \in Sources, NEW kind \in FrameKinds, Accept(s, kind)
  PROVE  Inv'
<1>. DEFINE f == [num |-> accepted + 1, kind |-> kind]
<1>1. accepted \in Nat /\ accepted' = accepted + 1 /\ results' = results
  BY DEF Inv, TypeOK, Accept
<1>2. s \in DOMAIN pending /\ pending[s] \in Seq(Frame)
  BY PendingType DEF Inv, Accept
<1>3. f \in Frame /\ f.num = accepted + 1
  BY <1>1 DEF Frame
<1>4. /\ Append(pending[s], f) \in Seq(Frame)
      /\ Len(Append(pending[s], f)) = Len(pending[s]) + 1
      /\ \A i \in 1..Len(pending[s]) : Append(pending[s], f)[i] = pending[s][i]
      /\ Append(pending[s], f)[Len(pending[s]) + 1] = f
  BY <1>2, <1>3, AppendToQueue
<1>5. pending' = [pending EXCEPT ![s] = Append(pending[s], f)]
  BY <1>1 DEF Accept
<1>6. /\ IsMap(pending', Sources, Seq(Frame))
      /\ DOMAIN pending' = DOMAIN pending
      /\ pending'[s] = Append(pending[s], f)
      /\ \A t \in DOMAIN pending : t # s => pending'[t] = pending[t]
  <2>1. IsMap(pending, Sources, Seq(Frame))
    BY DEF Inv, TypeOK
  <2>. HIDE DEF f
  <2>. QED  BY <2>1, <1>2, <1>4, <1>5, AssignMap
<1>7. TypeOK'
  BY <1>1, <1>6 DEF Inv, TypeOK
<1>8. \A t \in DOMAIN pending' : \A i \in 1..Len(pending'[t]) :
         \/ i \in 1..Len(pending[t]) /\ pending'[t][i] = pending[t][i]
         \/ t = s /\ i = Len(pending[s]) + 1 /\ pending'[t][i].num = accepted + 1
  <2>. SUFFICES ASSUME NEW t \in DOMAIN pending', NEW i \in 1..Len(pending'[t])
                PROVE  \/ i \in 1..Len(pending[t]) /\ pending'[t][i] = pending[t][i]
                       \/ t = s /\ i = Len(pending[s]) + 1 /\ pending'[t][i].num = accepted + 1
    OBVIOUS
  <2>1. CASE t # s
    BY <2>1, <1>6
  <2>2. CASE t = s
    <3>1. Len(pending[s]) \in Nat /\ i \in 1..(Len(pending[s]) + 1)
      BY <2>2, <1>2, <1>4, <1>6
    <3>2. CASE i \in 1..Len(pending[s])
      BY <2>2, <3>2, <1>4, <1>6
    <3>3. CASE i = Len(pending[s]) + 1
      BY <2>2, <3>3, <1>3, <1>4, <1>6
    <3>. QED  BY <3>1, <3>2, <3>3
  <2>. QED  BY <2>1, <2>2
<1>9. \A t \in DOMAIN pending : /\ t \in Sources
                                /\ Len(pending[t]) \in Nat
                                /\ \A i \in 1..Len(pending[t]) :
                                      pending[t][i].num \in Nat /\ pending[t][i].num <= accepted
  BY PendingType DEF Inv, NumbersGivenOut
<1>10. \A j \in 1..Len(results) : results[j].num \in Nat /\ results[j].num <= accepted
  <2>1. \A j \in 1..Len(results) : results[j] \in Result
    BY DEF Inv, TypeOK
  <2>. QED  BY <2>1 DEF Inv, NumbersGivenOut, Result
<1>11. QueuesAscend'
  BY <1>1, <1>2, <1>6, <1>8, <1>9 DEF Inv, QueuesAscend
<1>12. WaitsOnce'
  <2>. SUFFICES ASSUME NEW t \in DOMAIN pending', NEW u \in DOMAIN pending', t # u,
                       NEW i \in 1..Len(pending'[t]), NEW j \in 1..Len(pending'[u])
                PROVE  pending'[t][i].num # pending'[u][j].num
    BY DEF WaitsOnce
  <2>1. CASE /\ i \in 1..Len(pending[t]) /\ pending'[t][i] = pending[t][i]
             /\ j \in 1..Len(pending[u]) /\ pending'[u][j] = pending[u][j]
    BY <2>1, <1>6 DEF Inv, WaitsOnce
  <2>2. CASE /\ i \in 1..Len(pending[t]) /\ pending'[t][i] = pending[t][i]
             /\ pending'[u][j].num = accepted + 1
    BY <2>2, <1>1, <1>6, <1>9
  <2>3. CASE /\ j \in 1..Len(pending[u]) /\ pending'[u][j] = pending[u][j]
             /\ pending'[t][i].num = accepted + 1
    BY <2>3, <1>1, <1>6, <1>9
  <2>. QED  BY <2>1, <2>2, <2>3, <1>8
<1>13. WaitingIsUnanswered' /\ PendingIsNewer'
  <2>. SUFFICES ASSUME NEW t \in DOMAIN pending', NEW i \in 1..Len(pending'[t]),
                       NEW j \in 1..Len(results)
                PROVE  /\ pending'[t][i].num # results[j].num
                       /\ results[j].src = t => results[j].num < pending'[t][i].num
    BY <1>1 DEF WaitingIsUnanswered, PendingIsNewer
  <2>1. CASE i \in 1..Len(pending[t]) /\ pending'[t][i] = pending[t][i]
    BY <2>1, <1>6 DEF Inv, WaitingIsUnanswered, PendingIsNewer
  <2>2. CASE pending'[t][i].num = accepted + 1
    BY <2>2, <1>1, <1>10
  <2>. QED  BY <2>1, <2>2, <1>8
<1>14. NumbersGivenOut' /\ InOrderOnce'
  BY <1>1, <1>6, <1>8, <1>9, <1>10 DEF Inv, NumbersGivenOut, InOrderOnce
<1>. QED  BY <1>7, <1>11, <1>12, <1>13, <1>14 DEF Inv

(* Detection moves the oldest frame of a queue to the end of the results.  *)
LEMMA DetectInv ==
  ASSUME Inv, NEW s \in Sources, Detect(s)
  PROVE  Inv'
<1>. DEFINE q == pending[s]
            r == [src |-> s, num |-> Head(q).num]
<1>1. s \in DOMAIN pending /\ q \in Seq(Frame) /\ q # << >>
  BY PendingType DEF Inv, Detect
<1>2. /\ Tail(q) \in Seq(Frame)
      /\ Len(Tail(q)) = Len(q) - 1
      /\ \A i \in 1..Len(Tail(q)) : i + 1 \in 1..Len(q) /\ Tail(q)[i] = q[i + 1]
      /\ Head(q) = q[1] /\ Head(q) \in Frame /\ 1 \in 1..Len(q)
  BY <1>1, TailOfQueue
<1>3. r \in Result /\ r.num = q[1].num /\ r.src = s
  BY <1>2 DEF Result, Frame
<1>4. /\ results' = Append(results, r)
      /\ results \in Seq(Result)
      /\ results' \in Seq(Result)
      /\ Len(results') = Len(results) + 1
      /\ \A j \in 1..Len(results) : results'[j] = results[j]
      /\ results'[Len(results) + 1] = r
  BY <1>3, AppendToQueue DEF Inv, TypeOK, Detect
<1>5. /\ IsMap(pending', Sources, Seq(Frame))
      /\ DOMAIN pending' = DOMAIN pending
      /\ pending'[s] = Tail(q)
      /\ \A t \in DOMAIN pending : t # s => pending'[t] = pending[t]
  BY <1>1, <1>2, AssignMap DEF Inv, TypeOK, Detect
<1>6. accepted' = accepted
  BY DEF Detect
<1>7. TypeOK'
  BY <1>4, <1>5, <1>6 DEF Inv, TypeOK
<1>8. \A j \in 1..Len(results') :
         \/ j \in 1..Len(results) /\ results'[j] = results[j]
         \/ j = Len(results) + 1 /\ results'[j] = r
  BY <1>4
<1>9. \A t \in DOMAIN pending' : \A i \in 1..Len(pending'[t]) :
         \/ t # s /\ i \in 1..Len(pending[t]) /\ pending'[t][i] = pending[t][i]
         \/ t = s /\ i + 1 \in 1..Len(q) /\ 1 < i + 1 /\ pending'[t][i] = q[i + 1]
  <2>. SUFFICES ASSUME NEW t \in DOMAIN pending', NEW i \in 1..Len(pending'[t])
                PROVE  \/ t # s /\ i \in 1..Len(pending[t]) /\ pending'[t][i] = pending[t][i]
                       \/ t = s /\ i + 1 \in 1..Len(q) /\ 1 < i + 1 /\ pending'[t][i] = q[i + 1]
    OBVIOUS
  <2>1. CASE t # s
    BY <2>1, <1>5
  <2>2. CASE t = s
    <3>1. pending'[t] = Tail(q) /\ i \in 1..Len(Tail(q))
      BY <2>2, <1>5
    <3>. QED  BY <2>2, <3>1, <1>2
  <2>. QED  BY <2>1, <2>2
<1>10. /\ \A t \in DOMAIN pending : \A i \in 1..Len(pending[t]) : pending[t][i].num \in Nat
       /\ \A j \in 1..Len(results) : results[j].num \in Nat
  <2>1. \A t \in DOMAIN pending : \A i \in 1..Len(pending[t]) : pending[t][i].num \in Nat
    BY PendingType DEF Inv
  <2>2. \A j \in 1..Len(results) : results[j] \in Result
    BY <1>4
  <2>. QED  BY <2>1, <2>2 DEF Result
<1>11. QueuesAscend'
  <2>. SUFFICES ASSUME NEW t \in DOMAIN pending', NEW i \in 1..Len(pending'[t]),
                       NEW j \in 1..Len(pending'[t]), i < j
                PROVE  pending'[t][i].num < pending'[t][j].num
    BY DEF QueuesAscend
  <2>1. CASE t # s
    BY <2>1, <1>5, <1>9 DEF Inv, QueuesAscend
  <2>2. CASE t = s
    <3>1. i + 1 \in 1..Len(q) /\ j + 1 \in 1..Len(q) /\ i + 1 < j + 1
      BY <2>2, <1>9
    <3>2. q[i + 1].num < q[j + 1].num
      BY <3>1, <1>1 DEF Inv, QueuesAscend
    <3>. QED  BY <2>2, <3>2, <1>9
  <2>. QED  BY <2>1, <2>2
<1>12. \A t \in DOMAIN pending' : \A i \in 1..Len(pending'[t]) :
          \E k \in 1..Len(pending[t]) :
             /\ pending'[t][i] = pending[t][k]
             /\ t = s => q[1].num < pending[t][k].num
  <2>. SUFFICES ASSUME NEW t \in DOMAIN pending', NEW i \in 1..Len(pending'[t])
                PROVE  \E k \in 1..Len(pending[t]) :
                          /\ pending'[t][i] = pending[t][k]
                          /\ t = s => q[1].num < pending[t][k].num
    OBVIOUS
  <2>1. CASE t # s
    BY <2>1, <1>9
  <2>2. CASE t = s
    <3>1. i + 1 \in 1..Len(q) /\ 1 < i + 1 /\ pending'[t][i] = q[i + 1]
      BY <2>2, <1>9
    <3>2. q[1].num < q[i + 1].num
      BY <3>1, <1>1, <1>2 DEF Inv, QueuesAscend
    <3>. QED  BY <2>2, <3>1, <3>2
  <2>. QED  BY <2>1, <2>2
<1>13. WaitsOnce'
  <2>. SUFFICES ASSUME NEW t \in DOMAIN pending', NEW u \in DOMAIN pending', t # u,
                       NEW i \in 1..Len(pending'[t]), NEW j \in 1..Len(pending'[u])
                PROVE  pending'[t][i].num # pending'[u][j].num
    BY DEF WaitsOnce
  <2>1. PICK k \in 1..Len(pending[t]) : pending'[t][i] = pending[t][k]
    BY <1>12
  <2>2. PICK l \in 1..Len(pending[u]) : pending'[u][j] = pending[u][l]
    BY <1>12
  <2>. QED  BY <2>1, <2>2, <1>5 DEF Inv, WaitsOnce
<1>14. WaitingIsUnanswered'
  <2>. SUFFICES ASSUME NEW t \in DOMAIN pending', NEW i \in 1..Len(pending'[t]),
                       NEW j \in 1..Len(results')
                PROVE  pending'[t][i].num # results'[j].num
    BY DEF WaitingIsUnanswered
  <2>1. PICK k \in 1..Len(pending[t]) : /\ pending'[t][i] = pending[t][k]
                                        /\ t = s => q[1].num < pending[t][k].num
    BY <1>12
  <2>2. CASE j \in 1..Len(results) /\ results'[j] = results[j]
    BY <2>1, <2>2, <1>5 DEF Inv, WaitingIsUnanswered
  <2>3. CASE results'[j] = r
    <3>1. CASE t = s
      <4>1. q[1].num \in Nat /\ pending[t][k].num \in Nat
        BY <1>1, <1>2, <1>5, <1>10
      <4>. QED  BY <2>1, <2>3, <3>1, <4>1, <1>3
    <3>2. CASE t # s
      BY <2>1, <2>3, <3>2, <1>1, <1>2, <1>3, <1>5 DEF Inv, WaitsOnce
    <3>. QED  BY <3>1, <3>2
  <2>. QED  BY <2>2, <2>3, <1>8
<1>15. NumbersGivenOut'
  <2>1. q[1].num <= accepted
    BY <1>1, <1>2 DEF Inv, NumbersGivenOut
  <2>. QED  BY <2>1, <1>3, <1>5, <1>6, <1>8, <1>12 DEF Inv, NumbersGivenOut
<1>16. InOrderOnce'
  <2>1. \A j \in 1..Len(results) : /\ results[j].num # q[1].num
                                   /\ results[j].src = s => results[j].num < q[1].num
    BY <1>1, <1>2 DEF Inv, WaitingIsUnanswered, PendingIsNewer
  <2>2. Len(results) \in Nat
    BY <1>4
  <2>. QED  BY <2>1, <2>2, <1>3, <1>8 DEF Inv, InOrderOnce
<1>17. PendingIsNewer'
  <2>. SUFFICES ASSUME NEW t \in DOMAIN pending', NEW i \in 1..Len(pending'[t]),
                       NEW j \in 1..Len(results'), results'[j].src = t
                PROVE  results'[j].num < pending'[t][i].num
    BY DEF PendingIsNewer
  <2>1. PICK k \in 1..Len(pending[t]) : /\ pending'[t][i] = pending[t][k]
                                        /\ t = s => q[1].num < pending[t][k].num
    BY <1>12
  <2>2. CASE j \in 1..Len(results) /\ results'[j] = results[j]
    BY <2>1, <2>2, <1>5 DEF Inv, PendingIsNewer
  <2>3. CASE results'[j] = r
    BY <2>1, <2>3, <1>3
  <2>. QED  BY <2>2, <2>3, <1>8
<1>. QED  BY <1>7, <1>11, <1>13, <1>14, <1>15, <1>16, <1>17 DEF Inv

-----------------------------------------------------------------------------
(* The promises of the bounded queues, with the strengthening they need.   *)
THEOREM Safety == Spec => []Inv
<1>1. Init => Inv
  BY InitInv
<1>2. Inv /\ [Next]_vars => Inv'
  <2>. SUFFICES ASSUME Inv, [Next]_vars
                PROVE  Inv'
    OBVIOUS
  <2>1. CASE UNCHANGED vars
    BY <2>1 DEF vars, Inv, TypeOK, QueuesAscend, WaitsOnce, WaitingIsUnanswered,
                NumbersGivenOut, InOrderOnce, PendingIsNewer
  <2>2. CASE Next
    BY <2>2, RegisterInv, UnregisterInv, AcceptInv, DetectInv DEF Next
  <2>. QED  BY <2>1, <2>2
<1>. QED  BY <1>1, <1>2, PTL DEF Spec
=============================================================================
