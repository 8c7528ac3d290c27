---------------------------- MODULE AnswerProofs ----------------------------
(***************************************************************************)
(* What is in the answer to a picture (Yolo), and what of it apply_results *)
(* would draw (ResultsFilter), for every picture, every model and any      *)
(* number of calls of the setters.                                         *)
(***************************************************************************)
EXTENDS FrameDecoder, Yolo, ResultsFilter, CollectionProofs

(* There is a highest value, and Highest is the first place that has it.   *)
IsHighest(f, S, i) == \A j \in S : f[j] < f[i] \/ (f[j] = f[i] /\ i <= j)

(* Among the numbers up to k.                                              *)
LEMMA HighestUpTo ==
  ASSUME NEW N \in Nat, NEW S, S \subseteq 0..N, NEW f, \A i \in S : f[i] \in Int,
         NEW k \in 1..N, NEW m \in S \cap 0..(k - 1), IsHighest(f, S \cap 0..(k - 1), m), k \in S
  PROVE  \E i \in S \cap 0..k : IsHighest(f, S \cap 0..k, i)
<1>1. \A j \in S \cap 0..k : j = k \/ j \in S \cap 0..(k - 1)
  OBVIOUS
<1>2. m \in S \cap 0..k /\ k \in S \cap 0..k /\ m <= k /\ ~(k <= m)
  OBVIOUS
<1>3. f[m] \in Int /\ f[k] \in Int
  OBVIOUS
<1>4. \A j \in S \cap 0..(k - 1) : f[j] \in Int /\ (f[j] < f[m] \/ (f[j] = f[m] /\ m <= j))
  BY DEF IsHighest
<1>5. CASE f[k] <= f[m]
  <2>1. IsHighest(f, S \cap 0..k, m)
    BY <1>1, <1>2, <1>3, <1>4, <1>5 DEF IsHighest
  <2>. QED  BY <1>2, <2>1
<1>6. CASE f[m] < f[k]
  <2>1. \A j \in S \cap 0..(k - 1) : f[j] < f[k]
    BY <1>3, <1>4, <1>6
  <2>2. IsHighest(f, S \cap 0..k, k)
    BY <1>1, <1>2, <1>3, <2>1 DEF IsHighest
  <2>. QED  BY <1>2, <2>2
<1>. QED  BY <1>3, <1>5, <1>6

(* Among all of them.                                                      *)
LEMMA HighestIs ==
  ASSUME NEW N \in Nat, NEW S, S \subseteq 0..N, S # {}, NEW f, \A i \in S : f[i] \in Int
  PROVE  Highest(f, S) \in S /\ \A j \in S : f[j] <= f[Highest(f, S)]
<1>. DEFINE Good == {k \in 0..N : \/ S \cap 0..k = {}
                                  \/ \E i \in S \cap 0..k : IsHighest(f, S \cap 0..k, i)}
<1>1. 0 \in Good
  <2>1. CASE 0 \in S
    <3>1. 0 \in S \cap 0..0 /\ \A j \in S \cap 0..0 : j = 0
      BY <2>1
    <3>2. IsHighest(f, S \cap 0..0, 0)
      BY <3>1 DEF IsHighest
    <3>. QED  BY <3>1, <3>2
  <2>2. CASE 0 \notin S
    <3>1. S \cap 0..0 = {}
      BY <2>2
    <3>. QED  BY <3>1
  <2>. QED  BY <2>1, <2>2
<1>2. ASSUME NEW k \in 1..N, k - 1 \in Good
      PROVE  k \in Good
  <2>0. \/ S \cap 0..(k - 1) = {}
        \/ \E i \in S \cap 0..(k - 1) : IsHighest(f, S \cap 0..(k - 1), i)
    BY <1>2
  <2>1. CASE k \notin S
    <3>1. S \cap 0..k = S \cap 0..(k - 1)
      BY <2>1
    <3>2. k \in 0..N
      OBVIOUS
    <3>. QED  BY <2>0, <3>1, <3>2
  <2>2. CASE k \in S /\ S \cap 0..(k - 1) = {}
    <3>1. \A j \in S \cap 0..k : j = k
      BY <2>2
    <3>2. IsHighest(f, S \cap 0..k, k) /\ k \in S \cap 0..k
      BY <2>2, <3>1 DEF IsHighest
    <3>. QED  BY <3>2
  <2>3. CASE k \in S /\ \E i \in S \cap 0..(k - 1) : IsHighest(f, S \cap 0..(k - 1), i)
    <3>1. PICK m \in S \cap 0..(k - 1) : IsHighest(f, S \cap 0..(k - 1), m)
      BY <2>3
    <3>2. \E i \in S \cap 0..k : IsHighest(f, S \cap 0..k, i)
      BY <2>3, <3>1, HighestUpTo
    <3>3. k \in 0..N
      OBVIOUS
    <3>. QED  BY <3>2, <3>3
  <2>. QED  BY <2>0, <2>1, <2>2, <2>3
<1>3. N \in Good
  <2>1. 0..N \subseteq Good
    <3>. HIDE DEF Good
    <3>. QED  BY <1>1, <1>2, UpTo
  <2>2. N \in 0..N
    OBVIOUS
  <2>. HIDE DEF Good
  <2>. QED  BY <2>1, <2>2
<1>4. S \cap 0..N = S
  OBVIOUS
<1>5. \E i \in S : IsHighest(f, S, i)
  BY <1>3, <1>4
<1>6. Highest(f, S) \in S /\ IsHighest(f, S, Highest(f, S))
  <2>. DEFINE h == CHOOSE i \in S : IsHighest(f, S, i)
  <2>1. Highest(f, S) = h
    BY DEF Highest, IsHighest
  <2>2. h \in S /\ IsHighest(f, S, h)
    BY <1>5, Zenon
  <2>. HIDE DEF h
  <2>. QED  BY <2>1, <2>2
<1>7. PICK h : h = Highest(f, S)
  OBVIOUS
<1>8. h \in S /\ \A j \in S : f[j] \in Int /\ f[h] \in Int /\ (f[j] < f[h] \/ f[j] = f[h])
  BY <1>6, <1>7 DEF IsHighest
<1>9. \A j \in S : f[j] <= f[h]
  BY <1>8
<1>. QED  BY <1>7, <1>8, <1>9

-----------------------------------------------------------------------------
(* The rounds of NMSBoxes up to the n-th.                                  *)
FirstRound(boxes, confidences) ==
  [kept |-> << >>, rest |-> {i \in DOMAIN boxes : confidences[i] > modelScoreThreshold}]

AreRounds(t, boxes, confidences, n) ==
  t = [i \in 0..n |-> IF i = 0 THEN FirstRound(boxes, confidences)
                      ELSE KeepBest(boxes, confidences, t[i - 1])]

(* There are rounds up to every number.                                    *)
LEMMA RoundsExist ==
  ASSUME NEW boxes, NEW confidences, NEW N \in Nat
  PROVE  \E t : AreRounds(t, boxes, confidences, N)
<1>. DEFINE Good == {k \in 0..N : \E t : AreRounds(t, boxes, confidences, k)}
<1>1. 0 \in Good
  <2>. DEFINE t == [i \in 0..0 |-> FirstRound(boxes, confidences)]
  <2>1. t = [i \in 0..0 |-> IF i = 0 THEN FirstRound(boxes, confidences)
                            ELSE KeepBest(boxes, confidences, t[i - 1])]
    OBVIOUS
  <2>2. AreRounds(t, boxes, confidences, 0) /\ 0 \in 0..N
    BY <2>1 DEF AreRounds
  <2>. HIDE DEF t
  <2>. QED  BY <2>2
<1>2. ASSUME NEW k \in 1..N, k - 1 \in Good
      PROVE  k \in Good
  <2>1. PICK t : AreRounds(t, boxes, confidences, k - 1)
    BY <1>2
  <2>. DEFINE u == [i \in 0..k |-> IF i = k THEN KeepBest(boxes, confidences, t[k - 1]) ELSE t[i]]
  <2>2. ASSUME NEW i \in 0..k
        PROVE  u[i] = IF i = 0 THEN FirstRound(boxes, confidences)
                      ELSE KeepBest(boxes, confidences, u[i - 1])
    <3>1. CASE i = k
      BY <3>1, k - 1 \in 0..k, k # k - 1
    <3>2. CASE i # k /\ i # 0
      <4>1. i \in 0..(k - 1) /\ i - 1 \in 0..k /\ i - 1 # k
        BY <3>2
      <4>2. t[i] = KeepBest(boxes, confidences, t[i - 1])
        BY <2>1, <3>2, <4>1 DEF AreRounds
      <4>. QED  BY <3>2, <4>1, <4>2
    <3>3. CASE i = 0
      <4>1. 0 \in 0..(k - 1) /\ 0 # k
        OBVIOUS
      <4>. QED  BY <2>1, <3>3, <4>1 DEF AreRounds
    <3>. QED  BY <3>1, <3>2, <3>3
  <2>3. AreRounds(u, boxes, confidences, k)
    BY <2>2 DEF AreRounds
  <2>4. k \in 0..N
    OBVIOUS
  <2>. HIDE DEF u
  <2>. QED  BY <2>3, <2>4
<1>. HIDE DEF Good
<1>3. 0..N \subseteq Good
  BY <1>1, <1>2, UpTo
<1>4. N \in 0..N
  OBVIOUS
<1>. QED  BY <1>3, <1>4 DEF Good

(* What NMSBoxes is the last value of.                                     *)
LEMMA NMSBoxesRounds ==
  ASSUME NEW boxes, NEW confidences, Len(boxes) \in Nat
  PROVE  \E t : /\ AreRounds(t, boxes, confidences, Len(boxes))
                /\ NMSBoxes(boxes, confidences) = t[Len(boxes)].kept
<1>. DEFINE t == CHOOSE u : AreRounds(u, boxes, confidences, Len(boxes))
<1>1. AreRounds(t, boxes, confidences, Len(boxes))
  <2>1. \E u : AreRounds(u, boxes, confidences, Len(boxes))
    BY RoundsExist
  <2>. QED  BY <2>1, Zenon
<1>2. NMSBoxes(boxes, confidences) = t[Len(boxes)].kept
  BY Zenon DEF NMSBoxes, AreRounds, FirstRound
<1>. QED  BY <1>1, <1>2, Zenon

(* After the n-th round: what is kept or left is above the threshold, what *)
(* is neither is overlapped by a box that is kept and at least as good,    *)
(* and every round takes a box away from the rest.                         *)
IsDropped(boxes, confidences, kept, i) ==
  \E k \in 1..Len(boxes) :
    Has(kept, k) /\ confidences[i] <= confidences[k] /\ (k = i \/ Overlap(boxes[k], boxes[i]))

RoundFits(boxes, confidences, n, round) ==
  /\ round = [kept |-> round.kept, rest |-> round.rest]
  /\ round.kept \in Seq(1..Len(boxes))
  /\ round.rest \subseteq 1..Len(boxes)
  /\ \A i \in 1..Len(boxes) :
       Has(round.kept, i) \/ i \in round.rest => confidences[i] > modelScoreThreshold
  /\ \A i \in 1..Len(boxes) :
       confidences[i] > modelScoreThreshold =>
         i \in round.rest \/ IsDropped(boxes, confidences, round.kept, i)
  /\ IsFiniteSet(round.rest)
  /\ round.rest = {} \/ Cardinality(round.rest) + n <= Len(boxes)

(* The first round.                                                        *)
LEMMA FirstRoundFits ==
  ASSUME NEW T, NEW boxes \in Seq(T), NEW confidences
  PROVE  RoundFits(boxes, confidences, 0, FirstRound(boxes, confidences))
<1>. DEFINE rest == {i \in 1..Len(boxes) : confidences[i] > modelScoreThreshold}
<1>1. FirstRound(boxes, confidences) = [kept |-> << >>, rest |-> rest]
  <2>1. DOMAIN boxes = 1..Len(boxes)
    OBVIOUS
  <2>. QED  BY <2>1 DEF FirstRound
<1>2. rest \subseteq 1..Len(boxes) /\ << >> \in Seq(1..Len(boxes))
  OBVIOUS
<1>3. IsFiniteSet(rest) /\ Cardinality(rest) + 0 <= Len(boxes)
  <2>1. Len(boxes) \in Nat
    OBVIOUS
  <2>2. IsFiniteSet(1..Len(boxes)) /\ Cardinality(1..Len(boxes)) = Len(boxes)
    BY <2>1, FS_Interval, 1 \in Int, SMT
  <2>3. IsFiniteSet(rest) /\ Cardinality(rest) <= Cardinality(1..Len(boxes))
    BY <1>2, <2>2, FS_Subset
  <2>4. Cardinality(rest) \in Nat
    BY <2>3, FS_CardinalityType
  <2>. HIDE DEF rest
  <2>. QED  BY <2>1, <2>2, <2>3, <2>4
<1>4. \A i \in 1..Len(boxes) : ~Has(<< >>, i)
  BY HasEmpty
<1>. QED  BY <1>1, <1>2, <1>3, <1>4 DEF RoundFits

(* A round more.                                                           *)
LEMMA NextRoundFits ==
  ASSUME NEW T, NEW boxes \in Seq(T), NEW confidences, \A i \in 1..Len(boxes) : confidences[i] \in Int,
         NEW n \in 1..Len(boxes), NEW round, RoundFits(boxes, confidences, n - 1, round)
  PROVE  RoundFits(boxes, confidences, n, KeepBest(boxes, confidences, round))
<1>1. CASE round.rest = {}
  BY <1>1 DEF RoundFits, KeepBest
<1>2. CASE round.rest # {}
  <2>. DEFINE kept == round.kept
              rest == round.rest
              best == Highest(confidences, rest)
              left == {i \in rest \ {best} : ~Overlap(boxes[best], boxes[i])}
  <2>0. Len(boxes) \in Nat
    OBVIOUS
  <2>1. best \in rest /\ \A i \in rest : confidences[i] <= confidences[best]
    <3>1. rest \subseteq 0..Len(boxes) /\ rest # {} /\ \A i \in rest : confidences[i] \in Int
      BY <1>2 DEF RoundFits
    <3>. QED  BY <2>0, <3>1, HighestIs
  <2>2. KeepBest(boxes, confidences, round) = [kept |-> Append(kept, best), rest |-> left]
    BY <1>2 DEF KeepBest
  <2>3. /\ kept \in Seq(1..Len(boxes)) /\ rest \subseteq 1..Len(boxes) /\ IsFiniteSet(rest)
        /\ Cardinality(rest) + (n - 1) <= Len(boxes)
        /\ \A i \in 1..Len(boxes) : Has(kept, i) \/ i \in rest => confidences[i] > modelScoreThreshold
        /\ \A i \in 1..Len(boxes) : confidences[i] > modelScoreThreshold =>
                                      i \in rest \/ IsDropped(boxes, confidences, kept, i)
    BY <1>2 DEF RoundFits
  <2>. HIDE DEF best, kept, rest
  <2>4. best \in 1..Len(boxes) /\ left \subseteq rest \ {best} /\ left \subseteq 1..Len(boxes)
    BY <2>1, <2>3
  <2>5. /\ Append(kept, best) \in Seq(1..Len(boxes))
        /\ \A k : Has(Append(kept, best), k) <=> (Has(kept, k) \/ k = best)
    BY <2>3, <2>4, HasAppend, AppendProperties
  <2>6. IsFiniteSet(left) /\ Cardinality(left) + n <= Len(boxes)
    <3>1. IsFiniteSet(rest \ {best}) /\ Cardinality(rest \ {best}) = Cardinality(rest) - 1
      BY <2>1, <2>3, FS_RemoveElement
    <3>2. IsFiniteSet(left) /\ Cardinality(left) <= Cardinality(rest \ {best})
      BY <2>4, <3>1, FS_Subset
    <3>3. Cardinality(left) \in Nat /\ Cardinality(rest) \in Nat
      BY <2>3, <3>2, FS_CardinalityType
    <3>. HIDE DEF left
    <3>. QED  BY <2>0, <2>3, <3>1, <3>2, <3>3
  <2>7. \A i \in 1..Len(boxes) : Has(Append(kept, best), i) \/ i \in left => confidences[i] > modelScoreThreshold
    BY <2>1, <2>3, <2>4, <2>5
  <2>8. ASSUME NEW i \in 1..Len(boxes), confidences[i] > modelScoreThreshold, i \notin left
        PROVE  IsDropped(boxes, confidences, Append(kept, best), i)
    <3>1. CASE i \in rest
      <4>1. i = best \/ Overlap(boxes[best], boxes[i])
        BY <2>8, <3>1
      <4>. QED  BY <2>1, <2>4, <2>5, <3>1, <4>1 DEF IsDropped
    <3>2. CASE IsDropped(boxes, confidences, kept, i)
      BY <2>5, <3>2 DEF IsDropped
    <3>. QED  BY <2>3, <2>8, <3>1, <3>2
  <2>. HIDE DEF left
  <2>9. RoundFits(boxes, confidences, n, [kept |-> Append(kept, best), rest |-> left])
    BY <2>4, <2>5, <2>6, <2>7, <2>8 DEF RoundFits
  <2>. QED  BY <2>2, <2>9
<1>. QED  BY <1>1, <1>2

(* NMSBoxes keeps boxes above the threshold, and of every box above the    *)
(* threshold itself or one over it that is at least as good.               *)
LEMMA NMSBoxesKeeps ==
  ASSUME NEW T, NEW boxes \in Seq(T), NEW confidences, \A i \in 1..Len(boxes) : confidences[i] \in Int
  PROVE  LET kept == NMSBoxes(boxes, confidences)
         IN  /\ kept \in Seq(1..Len(boxes))
             /\ \A i \in 1..Len(boxes) : Has(kept, i) => confidences[i] > modelScoreThreshold
             /\ \A i \in 1..Len(boxes) : confidences[i] > modelScoreThreshold =>
                                           IsDropped(boxes, confidences, kept, i)
<1>0. Len(boxes) \in Nat
  OBVIOUS
<1>1. PICK t : AreRounds(t, boxes, confidences, Len(boxes))
               /\ NMSBoxes(boxes, confidences) = t[Len(boxes)].kept
  BY <1>0, NMSBoxesRounds
<1>. DEFINE Good == {k \in 0..Len(boxes) : RoundFits(boxes, confidences, k, t[k])}
<1>2. 0 \in Good
  <2>1. t[0] = FirstRound(boxes, confidences) /\ 0 \in 0..Len(boxes)
    BY <1>0, <1>1 DEF AreRounds
  <2>. QED  BY <2>1, FirstRoundFits
<1>3. ASSUME NEW k \in 1..Len(boxes), k - 1 \in Good
      PROVE  k \in Good
  <2>1. t[k] = KeepBest(boxes, confidences, t[k - 1])
    BY <1>0, <1>1 DEF AreRounds
  <2>2. RoundFits(boxes, confidences, k - 1, t[k - 1])
    BY <1>3
  <2>3. RoundFits(boxes, confidences, k, t[k])
    BY <2>1, <2>2, NextRoundFits
  <2>. QED  BY <2>3
<1>4. RoundFits(boxes, confidences, Len(boxes), t[Len(boxes)])
  <2>1. 0..Len(boxes) \subseteq Good
    <3>. HIDE DEF Good
    <3>. QED  BY <1>0, <1>2, <1>3, UpTo
  <2>. QED  BY <1>0, <2>1
<1>. DEFINE last == t[Len(boxes)]
<1>5. last.rest = {}
  <2>1. SUFFICES ASSUME last.rest # {}
                 PROVE  FALSE
    OBVIOUS
  <2>2. Cardinality(last.rest) + Len(boxes) <= Len(boxes) /\ IsFiniteSet(last.rest)
    BY <1>4, <2>1 DEF RoundFits
  <2>3. Cardinality(last.rest) \in Nat /\ Cardinality(last.rest) # 0
    BY <2>1, <2>2, FS_CardinalityType, FS_EmptySet
  <2>. QED  BY <1>0, <2>2, <2>3
<1>. QED  BY <1>1, <1>4, <1>5 DEF RoundFits

-----------------------------------------------------------------------------
(* The scales of blobFromImage and of the factors cancel, whatever the     *)
(* sides of the picture and the shape of the model are.                    *)
LEMMA ScaledBack ==
  ASSUME NEW q \in Int, NEW b \in Nat \ {0}
  PROVE  Truncated(q * b, b) = q
<1>1. \A n \in Int : (n * b) \div b = n
  OBVIOUS
<1>2. q * b >= 0 <=> q >= 0
  OBVIOUS
<1>3. -(q * b) = (-q) * b
  OBVIOUS
<1>4. CASE q >= 0
  BY <1>1, <1>2, <1>4 DEF Truncated
<1>5. CASE ~(q >= 0)
  <2>1. Truncated(q * b, b) = -(((-q) * b) \div b)
    BY <1>2, <1>3, <1>5 DEF Truncated
  <2>2. -q \in Int /\ -(-q) = q
    OBVIOUS
  <2>. QED  BY <1>1, <2>1, <2>2
<1>. QED  BY <1>4, <1>5

(* There and back along one side.                                          *)
LEMMA SideScaledBack ==
  ASSUME NEW low \in Int, NEW high \in Int, NEW shape \in Nat \ {0}, NEW side \in Nat \ {0}
  PROVE  /\ Truncated(((low + high) * shape - (high - low) * shape) * side, 2 * shape * side) = low
         /\ Truncated(((high - low) * shape) * side, shape * side) = high - low
<1>1. /\ ((low + high) * shape - (high - low) * shape) * side = low * (2 * shape * side)
      /\ ((high - low) * shape) * side = (high - low) * (shape * side)
      /\ 2 * shape * side \in Nat \ {0} /\ shape * side \in Nat \ {0}
  OBVIOUS
<1>2. high - low \in Int
  OBVIOUS
<1>3. Truncated(low * (2 * shape * side), 2 * shape * side) = low
  BY <1>1, ScaledBack
<1>4. Truncated((high - low) * (shape * side), shape * side) = high - low
  BY <1>1, <1>2, ScaledBack
<1>. QED  BY <1>1, <1>3, <1>4

(* A model has a shape, and what it is shown has sides and objects.        *)
IsModel(model) == model.shape.cols \in Nat \ {0} /\ model.shape.rows \in Nat \ {0}
IsView(picture) ==
  picture.cols \in Nat \ {0} /\ picture.rows \in Nat \ {0} /\ picture.objects \in Seq(Object)

(* Where an object is in its picture.                                      *)
Place(o) ==
  [x |-> o.left, y |-> o.top, width |-> o.right - o.left, height |-> o.bottom - o.top]

(* The box of an object is its place.                                      *)
LEMMA BoxIsPlace ==
  ASSUME NEW model, IsModel(model), NEW input, IsView(input), NEW o \in Object
  PROVE  Box(model, input, RowOf(model, o)) = Place(o)
<1>. DEFINE cols == model.shape.cols
            rows == model.shape.rows
<1>1. /\ cols \in Nat \ {0} /\ rows \in Nat \ {0}
      /\ input.cols \in Nat \ {0} /\ input.rows \in Nat \ {0}
  BY DEF IsModel, IsView
<1>2. o.left \in Int /\ o.right \in Int /\ o.top \in Int /\ o.bottom \in Int
  BY DEF Object
<1>3. Box(model, input, RowOf(model, o)) =
        [x      |-> Truncated(((o.left + o.right) * cols - (o.right - o.left) * cols) * input.cols,
                              2 * cols * input.cols),
         y      |-> Truncated(((o.top + o.bottom) * rows - (o.bottom - o.top) * rows) * input.rows,
                              2 * rows * input.rows),
         width  |-> Truncated(((o.right - o.left) * cols) * input.cols, cols * input.cols),
         height |-> Truncated(((o.bottom - o.top) * rows) * input.rows, rows * input.rows)]
  BY Zenon DEF Box, RowOf, Sides
<1>. HIDE DEF cols, rows
<1>4. /\ Truncated(((o.left + o.right) * cols - (o.right - o.left) * cols) * input.cols,
                   2 * cols * input.cols) = o.left
      /\ Truncated(((o.right - o.left) * cols) * input.cols, cols * input.cols) = o.right - o.left
  BY <1>1, <1>2, SideScaledBack
<1>5. /\ Truncated(((o.top + o.bottom) * rows - (o.bottom - o.top) * rows) * input.rows,
                   2 * rows * input.rows) = o.top
      /\ Truncated(((o.bottom - o.top) * rows) * input.rows, rows * input.rows) = o.bottom - o.top
  BY <1>1, <1>2, SideScaledBack
<1>. QED  BY <1>3, <1>4, <1>5, Zenon DEF Place

(* The padding of formatToSquare adds no object.                           *)
LEMMA InputIsView ==
  ASSUME NEW model, NEW picture, IsView(picture),
         picture = [cols |-> picture.cols, rows |-> picture.rows, channels |-> picture.channels,
                    objects |-> picture.objects]
  PROVE  IsView(ModelInput(model, picture)) /\ ModelInput(model, picture).objects = picture.objects
BY DEF ModelInput, IsView

-----------------------------------------------------------------------------
(* The best class has the highest score.                                   *)
LEMMA BestIsHighest ==
  ASSUME LastClass \in Nat, NEW model, NEW o \in Object
  PROVE  /\ Best(o) \in Int /\ BestClass(o) \in DOMAIN o.scores
         /\ \A c \in DOMAIN o.scores : o.scores[c] \in Int /\ o.scores[c] <= o.scores[BestClass(o)]
         /\ o.scores[BestClass(o)] = Best(o)
         /\ BestClass(RowOf(model, o)) = BestClass(o) /\ Best(RowOf(model, o)) = Best(o)
         /\ Confidence(model, RowOf(model, o)) = Confidence(model, o)
         /\ Confidence(model, o) \in Int
<1>1. o.scores \in [0..LastClass -> Int] /\ o.confidence \in Int
  BY DEF Object
<1>2. /\ BestClass(o) \in DOMAIN o.scores
      /\ \A c \in DOMAIN o.scores : o.scores[c] <= o.scores[BestClass(o)]
  <2>. DEFINE S == DOMAIN o.scores
  <2>1. S \subseteq 0..LastClass /\ S # {} /\ \A c \in S : o.scores[c] \in Int
    <3>1. S = 0..LastClass /\ 0 \in 0..LastClass
      BY <1>1
    <3>. QED  BY <1>1, <3>1
  <2>. HIDE DEF S
  <2>2. Highest(o.scores, S) \in S /\ \A c \in S : o.scores[c] <= o.scores[Highest(o.scores, S)]
    BY <2>1, HighestIs
  <2>. QED  BY <2>2 DEF S, BestClass
<1>3. RowOf(model, o).scores = o.scores /\ RowOf(model, o).confidence = o.confidence
  BY DEF RowOf
<1>4. BestClass(RowOf(model, o)) = BestClass(o) /\ Best(RowOf(model, o)) = Best(o)
  BY <1>3 DEF BestClass, Best
<1>5. Best(o) \in Int /\ o.scores[BestClass(o)] = Best(o)
  BY <1>1, <1>2 DEF Best
<1>6. /\ Confidence(model, RowOf(model, o)) = Confidence(model, o)
      /\ Confidence(model, o) \in Int
  BY <1>1, <1>3, <1>4, <1>5 DEF Confidence
<1>. QED  BY <1>1, <1>2, <1>4, <1>5, <1>6

(* The candidates are the rows of objects that pass the thresholds.        *)
LEMMA CandidatesAre ==
  ASSUME NEW model, NEW input, IsView(input)
  PROVE  /\ Candidates(model, input) \in Seq({RowOf(model, o) : o \in Object})
         /\ \A row \in Range(Candidates(model, input)) :
              \E o \in Range(input.objects) : row = RowOf(model, o)
         /\ \A o \in Range(input.objects) :
              IsCandidate(model, RowOf(model, o)) =>
                \E i \in 1..Len(Candidates(model, input)) :
                  Candidates(model, input)[i] = RowOf(model, o)
<1>. DEFINE candidates == Candidates(model, input)
            Rows == {RowOf(model, o) : o \in Object}
            rows == Network(model, input)
            Passing == {row \in Range(rows) : IsCandidate(model, row)}
<1>1. /\ input.objects \in Seq(Object) /\ DOMAIN input.objects = 1..Len(input.objects)
      /\ Len(input.objects) \in Nat
      /\ \A i \in 1..Len(input.objects) : input.objects[i] \in Object
  BY DEF IsView
<1>2. /\ rows \in Seq(Rows) /\ Len(rows) = Len(input.objects) /\ DOMAIN rows = 1..Len(rows)
      /\ \A i \in 1..Len(rows) : rows[i] = RowOf(model, input.objects[i])
  <2>1. rows = [i \in 1..Len(input.objects) |-> RowOf(model, input.objects[i])]
    BY <1>1 DEF Network
  <2>2. \A i \in 1..Len(input.objects) : RowOf(model, input.objects[i]) \in Rows
    BY <1>1
  <2>. HIDE DEF rows, Rows
  <2>. QED  BY <1>1, <2>1, <2>2
<1>3. candidates = Selected(rows, Passing)
  BY DEF Candidates
<1>. HIDE DEF candidates, rows, Rows
<1>4. candidates \in Seq(Rows)
  BY <1>2, <1>3, SelectedIn
<1>5. \A row : Has(candidates, row) <=> (Has(rows, row) /\ row \in Passing)
  <2>. HIDE DEF Passing
  <2>. QED  BY <1>2, <1>3, SelectedHas
<1>6. ASSUME NEW row \in Range(candidates)
      PROVE  \E o \in Range(input.objects) : row = RowOf(model, o)
  <2>1. Has(candidates, row)
    BY <1>4 DEF Has, Range
  <2>2. PICK j \in 1..Len(rows) : rows[j] = row
    BY <1>5, <2>1 DEF Has
  <2>. QED  BY <1>1, <1>2, <2>2 DEF Range
<1>7. ASSUME NEW o \in Range(input.objects), IsCandidate(model, RowOf(model, o))
      PROVE  \E i \in 1..Len(candidates) : candidates[i] = RowOf(model, o)
  <2>1. PICK j \in 1..Len(rows) : input.objects[j] = o
    BY <1>1, <1>2 DEF Range
  <2>2. rows[j] = RowOf(model, o) /\ RowOf(model, o) \in Range(rows)
    BY <1>2, <2>1 DEF Range
  <2>3. Has(rows, RowOf(model, o)) /\ RowOf(model, o) \in Passing
    BY <1>7, <2>2 DEF Has
  <2>. QED  BY <1>5, <2>3 DEF Has
<1>. QED  BY <1>4, <1>6, <1>7 DEF candidates, Rows

(* What object_detection makes of the candidates, one by one.              *)
Boxes(model, picture) ==
  [i \in 1..Len(Candidates(model, ModelInput(model, picture))) |->
     Box(model, ModelInput(model, picture), Candidates(model, ModelInput(model, picture))[i])]

Confidences(model, picture) ==
  [i \in 1..Len(Candidates(model, ModelInput(model, picture))) |->
     Confidence(model, Candidates(model, ModelInput(model, picture))[i])]

DetectionOf(model, picture, i) ==
  [class_id |-> BestClass(Candidates(model, ModelInput(model, picture))[i]),
   confidence |-> Confidences(model, picture)[i], box |-> Boxes(model, picture)[i]]

(* Every detection is the one of a box that NMSBoxes keeps.                *)
LEMMA DetectionsAreKept ==
  ASSUME NEW model, NEW picture, IsView(ModelInput(model, picture))
  PROVE  LET kept == NMSBoxes(Boxes(model, picture), Confidences(model, picture))
         IN  /\ DOMAIN ObjectDetection(model, picture) = DOMAIN kept
             /\ \A j \in DOMAIN kept :
                  ObjectDetection(model, picture)[j] = DetectionOf(model, picture, kept[j])
<1>. DEFINE candidates == Candidates(model, ModelInput(model, picture))
            kept == NMSBoxes(Boxes(model, picture), Confidences(model, picture))
<1>1. DOMAIN candidates = 1..Len(candidates)
  <2>1. candidates \in Seq({RowOf(model, o) : o \in Object})
    BY CandidatesAre
  <2>. HIDE DEF candidates
  <2>. QED  BY <2>1
<1>2. /\ Boxes(model, picture)
           = [i \in DOMAIN candidates |-> Box(model, ModelInput(model, picture), candidates[i])]
      /\ Confidences(model, picture)
           = [i \in DOMAIN candidates |-> Confidence(model, candidates[i])]
  BY <1>1 DEF Boxes, Confidences
<1>3. ObjectDetection(model, picture) =
        [j \in DOMAIN kept |->
           [class_id |-> BestClass(candidates[kept[j]]),
            confidence |-> Confidences(model, picture)[kept[j]],
            box |-> Boxes(model, picture)[kept[j]]]]
  BY <1>2, Zenon DEF ObjectDetection, ByIndex
<1>. QED  BY <1>3 DEF DetectionOf

(* What is known of the candidates of a picture.                           *)
LEMMA CandidatesFit ==
  ASSUME LastClass \in Nat, NEW model, IsModel(model), NEW picture, IsView(picture),
         picture = [cols |-> picture.cols, rows |-> picture.rows, channels |-> picture.channels,
                    objects |-> picture.objects],
         NEW i \in 1..Len(Boxes(model, picture))
  PROVE  \E o \in Range(picture.objects) :
           /\ o \in Object
           /\ Boxes(model, picture)[i] = Place(o)
           /\ Confidences(model, picture)[i] = Confidence(model, o)
           /\ DetectionOf(model, picture, i).class_id = BestClass(o)
<1>. DEFINE candidates == Candidates(model, ModelInput(model, picture))
<1>1. IsView(ModelInput(model, picture)) /\ ModelInput(model, picture).objects = picture.objects
  BY InputIsView
<1>2. Len(candidates) \in Nat
  <2>1. candidates \in Seq({RowOf(model, o) : o \in Object})
    BY <1>1, CandidatesAre
  <2>. HIDE DEF candidates
  <2>. QED  BY <2>1
<1>3. i \in 1..Len(candidates)
  <2>. HIDE DEF candidates
  <2>1. Boxes(model, picture)
          = [k \in 1..Len(candidates) |-> Box(model, ModelInput(model, picture), candidates[k])]
    BY DEF Boxes, candidates
  <2>. QED  BY <1>2, <2>1
<1>4. PICK o \in Range(picture.objects) : candidates[i] = RowOf(model, o)
  <2>1. \A row \in Range(candidates) :
          \E o \in Range(ModelInput(model, picture).objects) : row = RowOf(model, o)
    BY <1>1, CandidatesAre, Zenon
  <2>2. candidates \in Seq({RowOf(model, p) : p \in Object})
    BY <1>1, CandidatesAre
  <2>. HIDE DEF candidates
  <2>3. candidates[i] \in Range(candidates)
    BY <1>3, <2>2 DEF Range
  <2>. QED  BY <1>1, <2>1, <2>3
<1>5. o \in Object
  BY <1>4 DEF IsView, Range
<1>6. Boxes(model, picture)[i] = Box(model, ModelInput(model, picture), RowOf(model, o))
  BY <1>3, <1>4 DEF Boxes
<1>7. Confidences(model, picture)[i] = Confidence(model, RowOf(model, o))
  BY <1>3, <1>4 DEF Confidences
<1>8. DetectionOf(model, picture, i).class_id = BestClass(RowOf(model, o))
  BY <1>4 DEF DetectionOf
<1>. QED  BY <1>1, <1>4, <1>5, <1>6, <1>7, <1>8, BoxIsPlace, BestIsHighest

(* The types of what NMSBoxes gets.                                        *)
LEMMA BoxesFit ==
  ASSUME LastClass \in Nat, NEW model, IsModel(model), NEW picture, IsView(picture),
         picture = [cols |-> picture.cols, rows |-> picture.rows, channels |-> picture.channels,
                    objects |-> picture.objects]
  PROVE  /\ Boxes(model, picture) \in Seq(Range(Boxes(model, picture)))
         /\ Len(Boxes(model, picture)) = Len(Candidates(model, ModelInput(model, picture)))
         /\ \A i \in 1..Len(Boxes(model, picture)) : Confidences(model, picture)[i] \in Int
<1>. DEFINE candidates == Candidates(model, ModelInput(model, picture))
            boxes == Boxes(model, picture)
<1>1. IsView(ModelInput(model, picture)) /\ ModelInput(model, picture).objects = picture.objects
  BY InputIsView
<1>2. Len(candidates) \in Nat
  <2>1. candidates \in Seq({RowOf(model, o) : o \in Object})
    BY <1>1, CandidatesAre
  <2>. HIDE DEF candidates
  <2>. QED  BY <2>1
<1>3. boxes = [i \in 1..Len(candidates) |-> Box(model, ModelInput(model, picture), candidates[i])]
  BY DEF Boxes
<1>4. boxes \in Seq(Range(boxes)) /\ Len(boxes) = Len(candidates)
  <2>. HIDE DEF candidates, boxes
  <2>. QED  BY <1>2, <1>3 DEF Range
<1>5. ASSUME NEW i \in 1..Len(boxes)
      PROVE  Confidences(model, picture)[i] \in Int
  BY CandidatesFit, BestIsHighest
<1>. QED  BY <1>4, <1>5

-----------------------------------------------------------------------------
(* object_detection: a detection is surer than the threshold, in the place *)
(* of an object of the picture, and of the class with its highest score.   *)
THEOREM DetectionsAreObjects ==
  ASSUME LastClass \in Nat, NEW model, IsModel(model), NEW picture, IsView(picture),
         picture = [cols |-> picture.cols, rows |-> picture.rows, channels |-> picture.channels,
                    objects |-> picture.objects],
         NEW d \in Range(ObjectDetection(model, picture))
  PROVE  /\ d.confidence > modelScoreThreshold
         /\ \E o \in Range(picture.objects) :
              /\ d.box = Place(o) /\ d.confidence = Confidence(model, o)
              /\ \A c \in DOMAIN o.scores : o.scores[c] <= o.scores[d.class_id]
<1>. DEFINE boxes == Boxes(model, picture)
            confidences == Confidences(model, picture)
            kept == NMSBoxes(boxes, confidences)
<1>0. IsView(ModelInput(model, picture))
  BY InputIsView
<1>1. boxes \in Seq(Range(boxes)) /\ \A i \in 1..Len(boxes) : confidences[i] \in Int
  BY BoxesFit
<1>2. PICK j \in DOMAIN kept : d = DetectionOf(model, picture, kept[j])
  BY <1>0, DetectionsAreKept DEF Range
<1>. HIDE DEF boxes, confidences
<1>3. /\ kept \in Seq(1..Len(boxes))
      /\ \A i \in 1..Len(boxes) : Has(kept, i) => confidences[i] > modelScoreThreshold
  BY <1>1, NMSBoxesKeeps
<1>. HIDE DEF kept
<1>4. kept[j] \in 1..Len(boxes) /\ Has(kept, kept[j])
  <2>1. DOMAIN kept = 1..Len(kept)
    BY <1>3
  <2>. QED  BY <1>2, <1>3, <2>1 DEF Has
<1>5. PICK o \in Range(picture.objects) :
        /\ o \in Object
        /\ boxes[kept[j]] = Place(o)
        /\ confidences[kept[j]] = Confidence(model, o)
        /\ DetectionOf(model, picture, kept[j]).class_id = BestClass(o)
  BY <1>4, CandidatesFit DEF boxes, confidences
<1>6. d.box = boxes[kept[j]] /\ d.confidence = confidences[kept[j]] /\ d.class_id = BestClass(o)
  BY <1>2, <1>5 DEF DetectionOf, boxes, confidences
<1>7. d.confidence > modelScoreThreshold
  BY <1>3, <1>4, <1>6
<1>8. \A c \in DOMAIN o.scores : o.scores[c] <= o.scores[d.class_id]
  BY <1>5, <1>6, BestIsHighest
<1>. QED  BY <1>5, <1>6, <1>7, <1>8

(* An object that the network is sure of is detected, or something over it *)
(* that is at least as sure.                                               *)
THEOREM SureObjectsAreDetected ==
  ASSUME LastClass \in Nat, NEW model, IsModel(model), NEW picture, IsView(picture),
         picture = [cols |-> picture.cols, rows |-> picture.rows, channels |-> picture.channels,
                    objects |-> picture.objects],
         NEW o \in Range(picture.objects), o.confidence > modelScoreThreshold,
         NEW c \in DOMAIN o.scores, o.scores[c] > modelScoreThreshold
  PROVE  \E d \in Range(ObjectDetection(model, picture)) :
           /\ d.box = Place(o) \/ Overlap(d.box, Place(o))
           /\ d.confidence >= Confidence(model, o)
<1>. DEFINE boxes == Boxes(model, picture)
            confidences == Confidences(model, picture)
            kept == NMSBoxes(boxes, confidences)
            candidates == Candidates(model, ModelInput(model, picture))
<1>0. IsView(ModelInput(model, picture)) /\ ModelInput(model, picture).objects = picture.objects
  BY InputIsView
<1>1. /\ boxes \in Seq(Range(boxes)) /\ Len(boxes) = Len(candidates)
      /\ \A i \in 1..Len(boxes) : confidences[i] \in Int
  BY BoxesFit
<1>2. o \in Object
  BY DEF IsView, Range
<1>3. /\ o.confidence \in Int /\ Best(o) \in Int /\ o.scores[c] \in Int /\ o.scores[c] <= Best(o)
      /\ Best(RowOf(model, o)) = Best(o) /\ RowOf(model, o).confidence = o.confidence
      /\ Confidence(model, RowOf(model, o)) = Confidence(model, o)
  <2>1. o.confidence \in Int
    BY <1>2 DEF Object
  <2>2. RowOf(model, o).confidence = o.confidence
    BY DEF RowOf
  <2>3. /\ Best(o) \in Int
        /\ \A k \in DOMAIN o.scores : o.scores[k] \in Int /\ o.scores[k] <= o.scores[BestClass(o)]
        /\ o.scores[BestClass(o)] = Best(o) /\ Best(RowOf(model, o)) = Best(o)
        /\ Confidence(model, RowOf(model, o)) = Confidence(model, o)
    BY <1>2, BestIsHighest
  <2>. QED  BY <2>1, <2>2, <2>3
<1>4. IsCandidate(model, RowOf(model, o)) /\ Confidence(model, o) > modelScoreThreshold
  BY <1>3 DEF IsCandidate, Confidence, modelScoreThreshold, modelConfidenceThreshold
<1>5. PICK i \in 1..Len(candidates) : candidates[i] = RowOf(model, o)
  <2>1. \A p \in Range(ModelInput(model, picture).objects) :
          IsCandidate(model, RowOf(model, p)) =>
            \E k \in 1..Len(candidates) : candidates[k] = RowOf(model, p)
    BY <1>0, CandidatesAre, Zenon
  <2>. HIDE DEF candidates
  <2>. QED  BY <1>0, <1>4, <2>1
<1>6. boxes[i] = Place(o) /\ confidences[i] = Confidence(model, o)
  <2>1. boxes[i] = Box(model, ModelInput(model, picture), RowOf(model, o))
    BY <1>5 DEF Boxes
  <2>2. confidences[i] = Confidence(model, RowOf(model, o))
    BY <1>5 DEF Confidences
  <2>. QED  BY <1>0, <1>2, <1>3, <2>1, <2>2, BoxIsPlace
<1>7. /\ DOMAIN ObjectDetection(model, picture) = DOMAIN kept
      /\ \A j \in DOMAIN kept : ObjectDetection(model, picture)[j] = DetectionOf(model, picture, kept[j])
  BY <1>0, DetectionsAreKept
<1>8. \A k \in 1..Len(boxes) : /\ DetectionOf(model, picture, k).box = boxes[k]
                               /\ DetectionOf(model, picture, k).confidence = confidences[k]
  BY DEF DetectionOf
<1>. HIDE DEF boxes, confidences, candidates
<1>9. /\ kept \in Seq(1..Len(boxes)) /\ i \in 1..Len(boxes)
      /\ IsDropped(boxes, confidences, kept, i)
  BY <1>1, <1>4, <1>5, <1>6, NMSBoxesKeeps
<1>. HIDE DEF kept
<1>10. PICK k \in 1..Len(boxes) : /\ Has(kept, k) /\ confidences[i] <= confidences[k]
                                  /\ k = i \/ Overlap(boxes[k], boxes[i])
  BY <1>9 DEF IsDropped
<1>11. PICK j \in DOMAIN kept : kept[j] = k
  BY <1>9, <1>10 DEF Has
<1>. DEFINE d == ObjectDetection(model, picture)[j]
<1>12. d.box = boxes[k] /\ d.confidence = confidences[k] /\ d \in Range(ObjectDetection(model, picture))
  BY <1>7, <1>8, <1>10, <1>11 DEF Range
<1>. HIDE DEF d
<1>13. d.confidence >= Confidence(model, o)
  BY <1>1, <1>6, <1>9, <1>10, <1>12
<1>14. d.box = Place(o) \/ Overlap(d.box, Place(o))
  BY <1>6, <1>10, <1>12
<1>. QED  BY <1>12, <1>13, <1>14

-----------------------------------------------------------------------------
(* A call of a setter.                                                     *)
IsCall(call) ==
  call.setter \in {"exclude_objects", "set_objects_threshold", "set_global_threshold",
                   "set_applied_detections_limit"}

IsHistory(history) == history \in Seq(Range(history)) /\ \A call \in Range(history) : IsCall(call)

(* The settings after each of the first n calls.                           *)
AreSettings(t, history, n) ==
  t = [k \in 0..n |-> IF k = 0 THEN DefaultSettings ELSE Set(t[k - 1], history[k])]

(* There are settings after any number of calls.                           *)
LEMMA SettingsExist ==
  ASSUME NEW history, NEW N \in Nat
  PROVE  \E t : AreSettings(t, history, N)
<1>. DEFINE Good == {k \in 0..N : \E t : AreSettings(t, history, k)}
<1>1. 0 \in Good
  <2>. DEFINE t == [k \in 0..0 |-> DefaultSettings]
  <2>1. t = [k \in 0..0 |-> IF k = 0 THEN DefaultSettings ELSE Set(t[k - 1], history[k])]
    OBVIOUS
  <2>2. AreSettings(t, history, 0) /\ 0 \in 0..N
    BY <2>1 DEF AreSettings
  <2>. HIDE DEF t
  <2>. QED  BY <2>2
<1>2. ASSUME NEW n \in 1..N, n - 1 \in Good
      PROVE  n \in Good
  <2>1. PICK t : AreSettings(t, history, n - 1)
    BY <1>2
  <2>. DEFINE u == [k \in 0..n |-> IF k = n THEN Set(t[n - 1], history[n]) ELSE t[k]]
  <2>2. ASSUME NEW k \in 0..n
        PROVE  u[k] = IF k = 0 THEN DefaultSettings ELSE Set(u[k - 1], history[k])
    <3>1. CASE k = n
      BY <3>1, n - 1 \in 0..n, n # n - 1
    <3>2. CASE k # n /\ k # 0
      <4>1. k \in 0..(n - 1) /\ k - 1 \in 0..n /\ k - 1 # n
        BY <3>2
      <4>2. t[k] = Set(t[k - 1], history[k])
        BY <2>1, <3>2, <4>1 DEF AreSettings
      <4>. QED  BY <3>2, <4>1, <4>2
    <3>3. CASE k = 0
      <4>1. 0 \in 0..(n - 1) /\ 0 # n
        OBVIOUS
      <4>. QED  BY <2>1, <3>3, <4>1 DEF AreSettings
    <3>. QED  BY <3>1, <3>2, <3>3
  <2>3. AreSettings(u, history, n)
    BY <2>2 DEF AreSettings
  <2>4. n \in 0..N
    OBVIOUS
  <2>. HIDE DEF u
  <2>. QED  BY <2>3, <2>4
<1>. HIDE DEF Good
<1>3. 0..N \subseteq Good
  BY <1>1, <1>2, UpTo
<1>4. N \in 0..N
  OBVIOUS
<1>. QED  BY <1>3, <1>4 DEF Good

(* What the settings after the first n calls have kept of these.           *)
IsFor(call, setter, c) == call.setter = setter /\ call.class = c

Excludes(settings, history, n) ==
  \A c : c \in settings.excluded <=> \E i \in 1..n : IsFor(history[i], "exclude_objects", c)

KeepsFirst(settings, history, n) ==
  \A c :
    /\ c \in DOMAIN settings.thresholds
         <=> \E i \in 1..n : IsFor(history[i], "set_objects_threshold", c)
    /\ \A i \in 1..n :
         /\ IsFor(history[i], "set_objects_threshold", c)
         /\ \A j \in 1..n : IsFor(history[j], "set_objects_threshold", c) => i <= j
         => settings.thresholds[c] = history[i].value

KeepsLatest(settings, history, n) ==
  /\ (\A i \in 1..n : history[i].setter # "set_global_threshold")
       => settings.g_confidence_threshold = DefaultSettings.g_confidence_threshold
  /\ \A i \in 1..n :
       /\ history[i].setter = "set_global_threshold"
       /\ \A j \in 1..n : history[j].setter = "set_global_threshold" => j <= i
       => settings.g_confidence_threshold = history[i].value

IsSettled(settings, history, n) ==
  /\ settings = [excluded |-> settings.excluded, thresholds |-> settings.thresholds,
                 boxes_limit |-> settings.boxes_limit,
                 g_confidence_threshold |-> settings.g_confidence_threshold]
  /\ Excludes(settings, history, n)
  /\ KeepsFirst(settings, history, n)
  /\ KeepsLatest(settings, history, n)

(* Before the first call.                                                  *)
LEMMA DefaultIsSettled == \A history : IsSettled(DefaultSettings, history, 0)
BY DEF DefaultSettings, IsSettled, Excludes, KeepsFirst, KeepsLatest

(* A call more: each setter changes what it is for, and nothing else.      *)
LEMMA SetIsSettled ==
  ASSUME NEW history, IsHistory(history), NEW n \in 1..Len(history), NEW settings,
         IsSettled(settings, history, n - 1)
  PROVE  IsSettled(Set(settings, history[n]), history, n)
<1>. DEFINE call == history[n]
            next == Set(settings, call)
<1>1. IsCall(call)
  BY DEF IsHistory, Range
<1>2. /\ n \in 1..n /\ 1..(n - 1) \subseteq 1..n /\ n \notin 1..(n - 1)
      /\ \A i \in 1..n : i = n \/ i \in 1..(n - 1)
      /\ \A i \in 1..(n - 1) : i <= n /\ ~(n <= i)
  OBVIOUS
<1>3. /\ settings = [excluded |-> settings.excluded, thresholds |-> settings.thresholds,
                     boxes_limit |-> settings.boxes_limit,
                     g_confidence_threshold |-> settings.g_confidence_threshold]
      /\ Excludes(settings, history, n - 1)
      /\ KeepsFirst(settings, history, n - 1)
      /\ KeepsLatest(settings, history, n - 1)
  BY DEF IsSettled
<1>4. /\ next.excluded = IF call.setter = "exclude_objects"
                         THEN settings.excluded \cup {call.class} ELSE settings.excluded
      /\ next.thresholds = IF call.setter = "set_objects_threshold"
                           THEN Emplace(settings.thresholds, call.class, call.value)
                           ELSE settings.thresholds
      /\ next.g_confidence_threshold = IF call.setter = "set_global_threshold"
                                       THEN call.value ELSE settings.g_confidence_threshold
      /\ next = [excluded |-> next.excluded, thresholds |-> next.thresholds,
                 boxes_limit |-> next.boxes_limit,
                 g_confidence_threshold |-> next.g_confidence_threshold]
  <2>. HIDE DEF call
  <2>1. CASE call.setter = "exclude_objects"
    BY <1>3, <2>1 DEF Set
  <2>2. CASE call.setter = "set_objects_threshold"
    BY <1>3, <2>2 DEF Set, WithThreshold
  <2>3. CASE call.setter = "set_global_threshold"
    BY <1>3, <2>3 DEF Set
  <2>4. CASE call.setter = "set_applied_detections_limit"
    BY <1>3, <2>4 DEF Set
  <2>. QED  BY <1>1, <2>1, <2>2, <2>3, <2>4 DEF IsCall
<1>. HIDE DEF next
<1>5. Excludes(next, history, n)
  BY <1>2, <1>3, <1>4 DEF Excludes, IsFor
<1>6. KeepsFirst(next, history, n)
  <2>1. CASE call.setter # "set_objects_threshold"
    BY <1>2, <1>3, <1>4, <2>1 DEF KeepsFirst, IsFor
  <2>2. CASE call.setter = "set_objects_threshold"
    <3>1. /\ DOMAIN next.thresholds = DOMAIN settings.thresholds \cup {call.class}
          /\ \A c \in DOMAIN settings.thresholds : next.thresholds[c] = settings.thresholds[c]
          /\ call.class \notin DOMAIN settings.thresholds
               => next.thresholds[call.class] = call.value
      BY <1>4, <2>2 DEF Emplace
    <3>. SUFFICES ASSUME NEW c
                  PROVE  /\ c \in DOMAIN next.thresholds
                              <=> \E i \in 1..n : IsFor(history[i], "set_objects_threshold", c)
                         /\ \A i \in 1..n :
                              /\ IsFor(history[i], "set_objects_threshold", c)
                              /\ \A j \in 1..n :
                                   IsFor(history[j], "set_objects_threshold", c) => i <= j
                              => next.thresholds[c] = history[i].value
      BY DEF KeepsFirst
    <3>2. c \in DOMAIN settings.thresholds
            <=> \E i \in 1..(n - 1) : IsFor(history[i], "set_objects_threshold", c)
      BY <1>3 DEF KeepsFirst
    <3>3. IsFor(call, "set_objects_threshold", c) <=> c = call.class
      BY <2>2 DEF IsFor
    <3>4. c \in DOMAIN next.thresholds
            <=> \E i \in 1..n : IsFor(history[i], "set_objects_threshold", c)
      BY <1>2, <3>1, <3>2, <3>3
    <3>5. ASSUME NEW i \in 1..n, IsFor(history[i], "set_objects_threshold", c),
                 \A j \in 1..n : IsFor(history[j], "set_objects_threshold", c) => i <= j
          PROVE  next.thresholds[c] = history[i].value
      <4>1. CASE i = n
        <5>1. \A j \in 1..(n - 1) : ~IsFor(history[j], "set_objects_threshold", c)
          BY <1>2, <3>5, <4>1
        <5>2. c = call.class /\ c \notin DOMAIN settings.thresholds
          BY <3>2, <3>3, <3>5, <4>1, <5>1
        <5>. QED  BY <3>1, <4>1, <5>2
      <4>2. CASE i # n
        <5>1. i \in 1..(n - 1)
          BY <1>2, <4>2
        <5>2. settings.thresholds[c] = history[i].value
          BY <1>2, <1>3, <3>5, <5>1 DEF KeepsFirst
        <5>. QED  BY <3>1, <3>2, <3>5, <5>1, <5>2
      <4>. QED  BY <4>1, <4>2
    <3>. QED  BY <3>4, <3>5
  <2>. QED  BY <2>1, <2>2
<1>7. KeepsLatest(next, history, n)
  BY <1>2, <1>3, <1>4 DEF KeepsLatest
<1>. QED  BY <1>4, <1>5, <1>6, <1>7 DEF IsSettled, next

(* After all of them.                                                      *)
LEMMA AfterIsSettled ==
  ASSUME NEW history, IsHistory(history)
  PROVE  IsSettled(After(history), history, Len(history))
<1>. DEFINE N == Len(history)
            t == CHOOSE u : AreSettings(u, history, N)
            Good == {k \in 0..N : IsSettled(t[k], history, k)}
<1>0. N \in Nat
  BY DEF IsHistory
<1>1. AreSettings(t, history, N)
  <2>1. \E u : AreSettings(u, history, N)
    BY <1>0, SettingsExist
  <2>. QED  BY <2>1, Zenon
<1>2. After(history) = t[N]
  BY Zenon DEF After, AreSettings
<1>. HIDE DEF t, N
<1>3. 0 \in Good
  <2>1. t[0] = DefaultSettings
    BY <1>0, <1>1 DEF AreSettings
  <2>. QED  BY <1>0, <2>1, DefaultIsSettled
<1>4. ASSUME NEW k \in 1..N, k - 1 \in Good
      PROVE  k \in Good
  <2>1. t[k] = Set(t[k - 1], history[k])
    BY <1>0, <1>1 DEF AreSettings
  <2>2. IsSettled(t[k - 1], history, k - 1)
    BY <1>4
  <2>. DEFINE before == t[k - 1]
  <2>. HIDE DEF before
  <2>3. IsSettled(Set(before, history[k]), history, k)
    BY <2>2, SetIsSettled DEF before, N
  <2>. QED  BY <2>1, <2>3 DEF before
<1>. HIDE DEF Good
<1>5. 0..N \subseteq Good
  BY <1>0, <1>3, <1>4, UpTo
<1>6. N \in Good
  BY <1>0, <1>5
<1>. QED  BY <1>2, <1>6 DEF Good, N

(* A set of indexes has a first and a latest one.                          *)
LEMMA FirstAndLatest ==
  ASSUME NEW N \in Nat, NEW S, S \subseteq 1..N, S # {}
  PROVE  /\ First(S) \in S /\ \A j \in S : First(S) <= j
         /\ Latest(S) \in S /\ \A j \in S : j <= Latest(S)
<1>. DEFINE up == [i \in S |-> i]
            down == [i \in S |-> 0 - i]
<1>0. S \subseteq 0..N /\ \A i \in S : i \in Int
  OBVIOUS
<1>1. \E i \in S : \A j \in S : j <= i
  <2>1. \A i \in S : up[i] = i /\ up[i] \in Int
    BY <1>0
  <2>. HIDE DEF up
  <2>2. Highest(up, S) \in S /\ \A j \in S : up[j] <= up[Highest(up, S)]
    BY <1>0, <2>1, HighestIs
  <2>. QED  BY <2>1, <2>2
<1>2. \E i \in S : \A j \in S : i <= j
  <2>1. \A i \in S : down[i] = 0 - i /\ down[i] \in Int
    BY <1>0
  <2>. HIDE DEF down
  <2>2. Highest(down, S) \in S /\ \A j \in S : down[j] <= down[Highest(down, S)]
    BY <1>0, <2>1, HighestIs
  <2>3. PICK h \in S : \A j \in S : down[j] <= down[h]
    BY <2>2
  <2>4. \A j \in S : h <= j
    BY <1>0, <2>1, <2>3
  <2>. QED  BY <2>4
<1>. QED  BY <1>1, <1>2, Zenon DEF First, Latest

(* The threshold that the settings have is the one that was asked for.     *)
LEMMA ThresholdIsAsked ==
  ASSUME NEW history, IsHistory(history), NEW c
  PROVE  Threshold(After(history), c) = AskedThreshold(history, c)
<1>. DEFINE s == After(history)
            N == Len(history)
            own == CallsFor(history, "set_objects_threshold", c)
            global == CallsOf(history, "set_global_threshold")
<1>0. N \in Nat /\ DOMAIN history = 1..N
  BY DEF IsHistory
<1>1. KeepsFirst(s, history, N) /\ KeepsLatest(s, history, N)
  BY AfterIsSettled DEF IsSettled
<1>2. /\ own = {i \in 1..N : IsFor(history[i], "set_objects_threshold", c)}
      /\ global = {i \in 1..N : history[i].setter = "set_global_threshold"}
  BY <1>0 DEF CallsFor, CallsOf, IsFor
<1>3. AskedThreshold(history, c) =
        IF own # {} THEN history[First(own)].value
        ELSE IF global # {} THEN history[Latest(global)].value
        ELSE DefaultSettings.g_confidence_threshold
  BY DEF AskedThreshold
<1>4. Threshold(s, c) = IF c \in DOMAIN s.thresholds THEN s.thresholds[c] ELSE s.g_confidence_threshold
  BY DEF Threshold
<1>. HIDE DEF s, N, own, global
<1>5. CASE own # {}
  <2>1. First(own) \in own /\ \A j \in own : First(own) <= j
    BY <1>0, <1>2, <1>5, FirstAndLatest
  <2>. DEFINE f == First(own)
  <2>. HIDE DEF f
  <2>2. f \in own /\ \A j \in own : f <= j
    BY <2>1 DEF f
  <2>3. c \in DOMAIN s.thresholds /\ s.thresholds[c] = history[f].value
    BY <1>1, <1>2, <2>2 DEF KeepsFirst
  <2>. QED  BY <1>3, <1>4, <1>5, <2>3 DEF s, f
<1>6. CASE own = {} /\ global # {}
  <2>1. Latest(global) \in global /\ \A j \in global : j <= Latest(global)
    BY <1>0, <1>2, <1>6, FirstAndLatest
  <2>. DEFINE l == Latest(global)
  <2>. HIDE DEF l
  <2>2. l \in global /\ \A j \in global : j <= l
    BY <2>1 DEF l
  <2>3. c \notin DOMAIN s.thresholds
    BY <1>1, <1>2, <1>6 DEF KeepsFirst
  <2>4. s.g_confidence_threshold = history[l].value
    BY <1>1, <1>2, <2>2 DEF KeepsLatest
  <2>. QED  BY <1>3, <1>4, <1>6, <2>3, <2>4 DEF s, l
<1>7. CASE own = {} /\ global = {}
  <2>1. c \notin DOMAIN s.thresholds
    BY <1>1, <1>2, <1>7 DEF KeepsFirst
  <2>2. s.g_confidence_threshold = DefaultSettings.g_confidence_threshold
    BY <1>1, <1>2, <1>7 DEF KeepsLatest
  <2>. QED  BY <1>3, <1>4, <1>7, <2>1, <2>2 DEF s
<1>. QED  BY <1>5, <1>6, <1>7

(* apply_results: after any number of calls of the setters, it draws what  *)
(* these ask for, and the limit of boxes never stops it.                   *)
THEOREM DrawnAsAsked ==
  ASSUME NEW history, IsHistory(history), NEW detections
  PROVE  Drawn(After(history), detections)
           = Selected(detections, {d \in Range(detections) : IsWanted(history, d)})
<1>1. ASSUME NEW d
      PROVE  IsDrawn(After(history), d) <=> IsWanted(history, d)
  <2>1. Threshold(After(history), d.class_id) = AskedThreshold(history, d.class_id)
    BY ThresholdIsAsked
  <2>2. ~IsReached(After(history))
    BY DEF IsReached, counter
  <2>3. d.class_id \notin After(history).excluded
          <=> CallsFor(history, "exclude_objects", d.class_id) = {}
    <3>1. Excludes(After(history), history, Len(history))
      BY AfterIsSettled DEF IsSettled
    <3>2. CallsFor(history, "exclude_objects", d.class_id)
            = {i \in 1..Len(history) : IsFor(history[i], "exclude_objects", d.class_id)}
      <4>1. DOMAIN history = 1..Len(history)
        BY DEF IsHistory
      <4>. QED  BY <4>1 DEF CallsFor, CallsOf, IsFor
    <3>. QED  BY <3>1, <3>2 DEF Excludes
  <2>. QED  BY <2>1, <2>2, <2>3 DEF IsDrawn, IsWanted
<1>2. {d \in Range(detections) : IsDrawn(After(history), d)}
        = {d \in Range(detections) : IsWanted(history, d)}
  BY <1>1
<1>. QED  BY <1>2, Zenon DEF Drawn
=============================================================================
