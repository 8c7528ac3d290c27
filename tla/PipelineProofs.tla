--------------------------- MODULE PipelineProofs ---------------------------
(***************************************************************************)
(* The way of a frame, for any videos, any messages of other senders, any  *)
(* command lines and any bounds: types, what is left unacknowledged, whose *)
(* picture an answer shows, and the order in which the client reads its    *)
(* results.  The pipeline implements the abstract queues (SourceQueues).   *)
(***************************************************************************)
EXTENDS Pipeline, AnswerProofs

(***************************************************************************)
(* A way is a sequence of places, each with the numbers that are there;    *)
(* the numbers of the set own move from a place to the one before it.      *)
(***************************************************************************)
Ascending(own, s) ==
  \A i, j \in 1..Len(s) : (i < j /\ s[i] \in own /\ s[j] \in own) => s[i] < s[j]

Before(own, s, t) ==
  \A a, b \in own : (Has(s, a) /\ Has(t, b)) => a < b

Places == 1..6

Sorted(own, way) ==
  /\ \A k \in Places : Ascending(own, way[k])
  /\ \A k, l \in Places : k < l => Before(own, way[k], way[l])

IsWay(way) == way \in [Places -> Seq(Nat)]

(* The empty place.                                                        *)
LEMMA SortedEmpty ==
  ASSUME NEW own, NEW t
  PROVE  Ascending(own, << >>) /\ Before(own, << >>, t) /\ Before(own, t, << >>)
BY HasEmpty DEF Ascending, Before

(* The rest of a place is sorted, and above what was first.                *)
LEMMA SortedTail ==
  ASSUME NEW own, NEW s \in Seq(Nat), s # << >>, Ascending(own, s)
  PROVE  /\ Ascending(own, Tail(s))
         /\ \A b \in own : (Head(s) \in own /\ Has(Tail(s), b)) => Head(s) < b
<1>1. /\ Tail(s) \in Seq(Nat) /\ Len(s) \in Nat /\ Len(Tail(s)) = Len(s) - 1
      /\ \A i \in 1..Len(Tail(s)) : i + 1 \in 1..Len(s) /\ Tail(s)[i] = s[i + 1]
      /\ Head(s) = s[1] /\ 1 \in 1..Len(s)
  BY TailOfQueue
<1>2. Ascending(own, Tail(s))
  <2>. SUFFICES ASSUME NEW i \in 1..Len(Tail(s)), NEW j \in 1..Len(Tail(s)), i < j,
                       Tail(s)[i] \in own, Tail(s)[j] \in own
                PROVE  Tail(s)[i] < Tail(s)[j]
    BY DEF Ascending
  <2>1. /\ i + 1 \in 1..Len(s) /\ j + 1 \in 1..Len(s)
        /\ Tail(s)[i] = s[i + 1] /\ Tail(s)[j] = s[j + 1] /\ i + 1 < j + 1
    BY <1>1
  <2>. QED  BY <2>1 DEF Ascending
<1>3. ASSUME NEW b \in own, Head(s) \in own, Has(Tail(s), b)
      PROVE  Head(s) < b
  <2>1. PICK i \in 1..Len(Tail(s)) : Tail(s)[i] = b
    BY <1>3 DEF Has
  <2>2. i + 1 \in 1..Len(s) /\ s[i + 1] = b /\ 1 < i + 1
    BY <1>1, <2>1
  <2>. QED  BY <1>1, <1>3, <2>2 DEF Ascending
<1>. QED  BY <1>2, <1>3

(* A place with one number more at its end.                                *)
LEMMA SortedAppend ==
  ASSUME NEW own, NEW s \in Seq(Nat), NEW e \in Nat, Ascending(own, s),
         \A a \in own : (Has(s, a) /\ e \in own) => a < e
  PROVE  Ascending(own, Append(s, e))
<1>1. /\ Len(Append(s, e)) = Len(s) + 1 /\ Len(s) \in Nat
      /\ \A i \in 1..Len(s) : Append(s, e)[i] = s[i]
      /\ Append(s, e)[Len(s) + 1] = e
  BY AppendToQueue
<1>. SUFFICES ASSUME NEW i \in 1..(Len(s) + 1), NEW j \in 1..(Len(s) + 1), i < j,
                     Append(s, e)[i] \in own, Append(s, e)[j] \in own
              PROVE  Append(s, e)[i] < Append(s, e)[j]
  BY <1>1 DEF Ascending
<1>2. i \in 1..Len(s) /\ Append(s, e)[i] = s[i]
  BY <1>1
<1>3. CASE j \in 1..Len(s)
  BY <1>1, <1>2, <1>3 DEF Ascending
<1>4. CASE j = Len(s) + 1
  <2>1. Has(s, s[i]) /\ Append(s, e)[j] = e
    BY <1>1, <1>2, <1>4 DEF Has
  <2>. QED  BY <1>2, <2>1
<1>. QED  BY <1>1, <1>3, <1>4

(* Nothing is out of order for what goes away.                             *)
LEMMA SortedLess ==
  ASSUME NEW own, NEW way, IsWay(way), Sorted(own, way), NEW way2, IsWay(way2),
         \A k \in Places : \/ way2[k] = way[k] \/ way2[k] = << >>
                           \/ way[k] # << >> /\ way2[k] = Tail(way[k])
  PROVE  Sorted(own, way2)
<1>1. ASSUME NEW k \in Places
      PROVE  Ascending(own, way2[k]) /\ \A x : Has(way2[k], x) => Has(way[k], x)
  <2>1. way[k] \in Seq(Nat) /\ Ascending(own, way[k])
    BY DEF IsWay, Sorted
  <2>2. CASE way2[k] = way[k]
    BY <2>1, <2>2
  <2>3. CASE way2[k] = << >>
    BY <2>3, SortedEmpty, HasEmpty
  <2>4. CASE way[k] # << >> /\ way2[k] = Tail(way[k])
    <3>1. Ascending(own, Tail(way[k]))
      BY <2>1, <2>4, SortedTail
    <3>2. \A x : Has(Tail(way[k]), x) => Has(way[k], x)
      BY <2>1, <2>4, HasTail
    <3>. QED  BY <2>4, <3>1, <3>2
  <2>. QED  BY <2>2, <2>3, <2>4
<1>2. ASSUME NEW k \in Places, NEW l \in Places, k < l
      PROVE  Before(own, way2[k], way2[l])
  BY <1>1, <1>2 DEF Sorted, Before
<1>. QED  BY <1>1, <1>2 DEF Sorted

(* What is first in its place moves to the end of the place before, and    *)
(* the others stay where they are or are lost.                             *)
Moved(way, way2, k) ==
  /\ way[k + 1] # << >> /\ way2[k] = Append(way[k], Head(way[k + 1]))
  /\ way2[k + 1] = Tail(way[k + 1]) \/ way2[k + 1] = << >>
  /\ \A l \in Places \ {k, k + 1} : way2[l] = way[l]

(* Such a move keeps the order.                                            *)
LEMMA SortedMove ==
  ASSUME NEW own, NEW way, IsWay(way), Sorted(own, way), NEW way2, IsWay(way2),
         NEW k \in 1..5, Moved(way, way2, k)
  PROVE  Sorted(own, way2)
<1>. USE DEF Moved
<1>. DEFINE e == Head(way[k + 1])
<1>0. k \in Places /\ k + 1 \in Places /\ k < k + 1
  BY DEF Places
<1>1. /\ way[k] \in Seq(Nat) /\ way[k + 1] \in Seq(Nat) /\ e \in Nat
      /\ Ascending(own, way[k]) /\ Ascending(own, way[k + 1])
  <2>1. way[k] \in Seq(Nat) /\ way[k + 1] \in Seq(Nat)
    BY <1>0 DEF IsWay
  <2>2. e \in Nat
    BY <2>1, TailOfQueue
  <2>. QED  BY <1>0, <2>1, <2>2 DEF Sorted
<1>2. Has(way[k + 1], e) /\ \A x : Has(Tail(way[k + 1]), x) => Has(way[k + 1], x)
  BY <1>1, HasTail
<1>3. \A x : Has(way2[k + 1], x) => Has(way[k + 1], x) /\ (x \in own /\ e \in own => e < x)
  BY <1>1, <1>2, SortedTail, HasEmpty
<1>4. \A x : Has(way2[k], x) => Has(way[k], x) \/ x = e
  BY <1>1, HasAppend
<1>5. Ascending(own, way2[k + 1])
  BY <1>1, SortedTail, SortedEmpty
<1>6. Ascending(own, way2[k])
  <2>1. \A a \in own : (Has(way[k], a) /\ e \in own) => a < e
    BY <1>0, <1>2 DEF Sorted, Before
  <2>. QED  BY <1>1, <2>1, SortedAppend
<1>. HIDE DEF e
<1>7. \A l \in Places : Ascending(own, way2[l])
  BY <1>5, <1>6 DEF Sorted
<1>8. ASSUME NEW l \in Places, NEW m \in Places, l < m,
             NEW a \in own, NEW b \in own, Has(way2[l], a), Has(way2[m], b)
      PROVE  a < b
  <2>1. CASE l = k + 1
    <3>1. m # k /\ m # k + 1
      BY <1>8, <2>1
    <3>2. Has(way[k + 1], a) /\ Has(way[m], b)
      BY <1>3, <1>8, <2>1, <3>1
    <3>. QED  BY <1>0, <1>8, <2>1, <3>2 DEF Sorted, Before
  <2>2. CASE m = k
    <3>1. l # k /\ l # k + 1
      BY <1>8, <2>2
    <3>2. Has(way[l], a) /\ (Has(way[k], b) \/ b = e)
      BY <1>4, <1>8, <2>2, <3>1
    <3>3. l < k + 1
      BY <1>8, <2>2 DEF Places
    <3>. QED  BY <1>0, <1>2, <1>8, <2>2, <3>2, <3>3 DEF Sorted, Before
  <2>3. CASE l = k /\ m = k + 1
    <3>1. (Has(way[k], a) \/ a = e) /\ Has(way[k + 1], b) /\ (e \in own => e < b)
      BY <1>3, <1>4, <1>8, <2>3
    <3>. QED  BY <1>0, <1>8, <3>1 DEF Sorted, Before
  <2>4. CASE l = k /\ m # k + 1
    <3>1. m # k /\ k + 1 < m
      BY <1>8, <2>4 DEF Places
    <3>2. (Has(way[k], a) \/ a = e) /\ Has(way[m], b)
      BY <1>4, <1>8, <2>4, <3>1
    <3>. QED  BY <1>0, <1>2, <1>8, <2>4, <3>1, <3>2 DEF Sorted, Before
  <2>5. CASE l # k /\ m = k + 1 
    <3>1. l # k + 1
      BY <1>8, <2>5
    <3>2. Has(way[l], a) /\ Has(way[k + 1], b)
      BY <1>3, <1>8, <2>5, <3>1
    <3>. QED  BY <1>0, <1>8, <2>5, <3>2 DEF Sorted, Before
  <2>6. CASE l \notin {k, k + 1} /\ m \notin {k, k + 1}
    BY <1>8, <2>6 DEF Sorted, Before
  <2>. QED  BY <2>1, <2>2, <2>3, <2>4, <2>5, <2>6
<1>. QED  BY <1>7, <1>8 DEF Sorted, Before

(* A number that is not one of them may be put anywhere.                   *)
LEMMA SortedOther ==
  ASSUME NEW own, NEW way, IsWay(way), Sorted(own, way), NEW way2, IsWay(way2),
         NEW k \in Places, NEW e \in Nat \ own, way2[k] = Append(way[k], e),
         \A l \in Places \ {k} : way2[l] = way[l]
  PROVE  Sorted(own, way2)
<1>1. way[k] \in Seq(Nat) /\ Ascending(own, way[k])
  BY DEF IsWay, Sorted
<1>2. Ascending(own, way2[k])
  BY <1>1, SortedAppend
<1>3. \A x : Has(way2[k], x) => Has(way[k], x) \/ x = e
  BY <1>1, HasAppend
<1>4. \A l \in Places, x \in own : Has(way2[l], x) => Has(way[l], x)
  BY <1>3
<1>5. \A l \in Places : Ascending(own, way2[l])
  BY <1>2 DEF Sorted
<1>. QED  BY <1>4, <1>5 DEF Sorted, Before

(* A new number that is above all others enters at the last place.         *)
LEMMA SortedNew ==
  ASSUME NEW own, NEW way, IsWay(way), Sorted(own, way), NEW way2, IsWay(way2),
         NEW e \in Nat, \A k \in Places : \A x : Has(way[k], x) => x < e,
         way2[6] = Append(way[6], e), \A k \in Places \ {6} : way2[k] = way[k]
  PROVE  Sorted(own \cup {e}, way2)
<1>0. 6 \in Places /\ way[6] \in Seq(Nat)
  BY DEF IsWay, Places
<1>1. \A k \in Places : \A x : Has(way[k], x) => x # e
  OBVIOUS
<1>2. ASSUME NEW k \in Places
      PROVE  Ascending(own \cup {e}, way[k])
  <2>1. \A i \in 1..Len(way[k]) : way[k][i] # e
    BY <1>1 DEF Has
  <2>. QED  BY <2>1 DEF Sorted, Ascending
<1>3. \A x : Has(way2[6], x) => Has(way[6], x) \/ x = e
  BY <1>0, HasAppend
<1>4. Ascending(own \cup {e}, way2[6])
  <2>1. \A a \in own \cup {e} : Has(way[6], a) => a < e
    BY <1>0
  <2>. QED  BY <1>0, <1>2, <2>1, SortedAppend
<1>5. \A k \in Places : Ascending(own \cup {e}, way2[k])
  BY <1>2, <1>4
<1>6. ASSUME NEW k \in Places, NEW l \in Places, k < l,
             NEW a \in own \cup {e}, NEW b \in own \cup {e}, Has(way2[k], a), Has(way2[l], b)
      PROVE  a < b
  <2>1. k # 6
    BY <1>6 DEF Places
  <2>2. Has(way[k], a) /\ a # e /\ a < e
    BY <1>1, <1>6, <2>1
  <2>3. Has(way[l], b) \/ b = e
    BY <1>3, <1>6
  <2>. QED  BY <1>1, <1>6, <2>2, <2>3 DEF Sorted, Before
<1>. QED  BY <1>5, <1>6 DEF Sorted, Before

-----------------------------------------------------------------------------
(* A sequence that has one element more than another.                      *)
LEMMA ExtendedSequence ==
  ASSUME NEW a \in Seq(Nat), NEW b \in Seq(Nat), NEW n \in Nat, NEW m \in Nat,
         Len(a) = n + 1, Len(b) = n, \A i \in 1..n : a[i] = b[i], a[n + 1] = m
  PROVE  a = Append(b, m)
<1>1. /\ Append(b, m) \in Seq(Nat) /\ Len(Append(b, m)) = n + 1
      /\ \A i \in 1..n : Append(b, m)[i] = b[i]
      /\ Append(b, m)[n + 1] = m
  BY AppendToQueue
<1>2. \A i \in 1..(n + 1) : a[i] = Append(b, m)[i]
  <2>. TAKE i \in 1..(n + 1)
  <2>1. i \in 1..n \/ i = n + 1
    OBVIOUS
  <2>. QED  BY <1>1, <2>1
<1>. QED  BY <1>1, <1>2, SeqEqual

(* A sequence that lacks the first element of another.                     *)
LEMMA ShortenedSequence ==
  ASSUME NEW a \in Seq(Nat), NEW b \in Seq(Nat), NEW n \in Nat \ {0},
         Len(a) = n - 1, Len(b) = n, \A i \in 1..(n - 1) : a[i] = b[i + 1]
  PROVE  b # << >> /\ a = Tail(b) /\ Head(b) = b[1]
<1>1. b # << >>
  OBVIOUS
<1>2. /\ Tail(b) \in Seq(Nat) /\ Len(Tail(b)) = n - 1
      /\ \A i \in 1..(n - 1) : Tail(b)[i] = b[i + 1]
      /\ Head(b) = b[1]
  BY <1>1, TailOfQueue
<1>3. a = Tail(b)
  BY <1>2, SeqEqual
<1>. QED  BY <1>1, <1>2, <1>3

(* The numbers of the frames in a queue of the detection service, and of   *)
(* the results of SRC after the first n; those of other sources count 0.   *)
Numbers(queue) == [i \in 1..Len(queue) |-> queue[i].kind.message]

Shown(r) == IF r.src = SRC THEN r.message ELSE 0
ShownAfter(n, answers) == [i \in 1..(Len(answers) - n) |-> Shown(answers[n + i])]

(* They are as many as the frames.                                         *)
LEMMA NumbersType ==
  ASSUME NEW F, \A f \in F : f.kind.message \in Nat, NEW queue \in Seq(F)
  PROVE  /\ Numbers(queue) \in Seq(Nat) /\ Len(Numbers(queue)) = Len(queue)
         /\ \A i \in 1..Len(queue) : Numbers(queue)[i] = queue[i].kind.message
<1>1. \A i \in 1..Len(queue) : queue[i] \in F
  OBVIOUS
<1>2. Len(queue) \in Nat
  OBVIOUS
<1>3. \A i \in 1..Len(queue) : queue[i].kind.message \in Nat
  BY <1>1
<1>. QED  BY <1>2, <1>3 DEF Numbers

(* A frame at the end is a number at the end.                              *)
LEMMA NumbersAppend ==
  ASSUME NEW F, \A f \in F : f.kind.message \in Nat, NEW queue \in Seq(F), NEW e \in F
  PROVE  Numbers(Append(queue, e)) = Append(Numbers(queue), e.kind.message)
<1>1. /\ Append(queue, e) \in Seq(F) /\ Len(Append(queue, e)) = Len(queue) + 1
      /\ Len(queue) \in Nat
      /\ \A i \in 1..Len(queue) : Append(queue, e)[i] = queue[i]
      /\ Append(queue, e)[Len(queue) + 1] = e
  BY AppendToQueue
<1>2. e.kind.message \in Nat
  OBVIOUS
<1>3. /\ Numbers(queue) \in Seq(Nat) /\ Len(Numbers(queue)) = Len(queue)
      /\ \A i \in 1..Len(queue) : Numbers(queue)[i] = queue[i].kind.message
  BY NumbersType
<1>4. /\ Numbers(Append(queue, e)) \in Seq(Nat)
      /\ Len(Numbers(Append(queue, e))) = Len(queue) + 1
      /\ \A i \in 1..(Len(queue) + 1) :
            Numbers(Append(queue, e))[i] = Append(queue, e)[i].kind.message
  BY <1>1, NumbersType
<1>5. PICK a, b, n, m : /\ a = Numbers(Append(queue, e)) /\ b = Numbers(queue)
                        /\ n = Len(queue) /\ m = e.kind.message
  OBVIOUS
<1>6. /\ a \in Seq(Nat) /\ b \in Seq(Nat) /\ n \in Nat /\ m \in Nat
      /\ Len(a) = n + 1 /\ Len(b) = n
  BY <1>1, <1>2, <1>3, <1>4, <1>5
<1>7. ASSUME NEW i \in 1..n
      PROVE  a[i] = b[i]
  <2>1. i \in 1..Len(queue) /\ i \in 1..(Len(queue) + 1)
    BY <1>1, <1>5
  <2>2. Append(queue, e)[i].kind.message = queue[i].kind.message
    BY <1>1, <2>1
  <2>. QED  BY <1>3, <1>4, <1>5, <2>1, <2>2
<1>8. a[n + 1] = m
  <2>1. n + 1 \in 1..(Len(queue) + 1) /\ n + 1 = Len(queue) + 1
    BY <1>1, <1>5
  <2>2. Append(queue, e)[n + 1].kind.message = m
    BY <1>1, <1>5, <2>1
  <2>. QED  BY <1>4, <1>5, <2>1, <2>2
<1>9. a = Append(b, m)
  BY <1>6, <1>7, <1>8, ExtendedSequence
<1>. QED  BY <1>5, <1>9

(* The frame that is first has the number that is first.                   *)
LEMMA NumbersTail ==
  ASSUME NEW F, \A f \in F : f.kind.message \in Nat, NEW queue \in Seq(F), queue # << >>
  PROVE  /\ Numbers(queue) # << >> /\ Head(Numbers(queue)) = Head(queue).kind.message
         /\ Numbers(Tail(queue)) = Tail(Numbers(queue))
<1>1. /\ Tail(queue) \in Seq(F) /\ Len(queue) \in Nat /\ Len(Tail(queue)) = Len(queue) - 1
      /\ \A i \in 1..Len(Tail(queue)) : i + 1 \in 1..Len(queue) /\ Tail(queue)[i] = queue[i + 1]
      /\ Head(queue) = queue[1] /\ 1 \in 1..Len(queue)
  BY TailOfQueue
<1>2. /\ Numbers(queue) \in Seq(Nat) /\ Len(Numbers(queue)) = Len(queue)
      /\ \A i \in 1..Len(queue) : Numbers(queue)[i] = queue[i].kind.message
  BY NumbersType
<1>3. /\ Numbers(Tail(queue)) \in Seq(Nat) /\ Len(Numbers(Tail(queue))) = Len(queue) - 1
      /\ \A i \in 1..(Len(queue) - 1) : Numbers(Tail(queue))[i] = Tail(queue)[i].kind.message
  BY <1>1, NumbersType
<1>4. PICK a, b, n : a = Numbers(Tail(queue)) /\ b = Numbers(queue) /\ n = Len(queue)
  OBVIOUS
<1>5. a \in Seq(Nat) /\ b \in Seq(Nat) /\ n \in Nat \ {0} /\ Len(a) = n - 1 /\ Len(b) = n
  <2>1. n \in Nat \ {0}
    <3>1. Len(queue) \in Nat /\ 1 <= Len(queue)
      BY <1>1
    <3>. QED  BY <1>4, <3>1
  <2>2. a \in Seq(Nat) /\ Len(a) = n - 1
    BY <1>3, <1>4, Zenon
  <2>3. b \in Seq(Nat) /\ Len(b) = n
    BY <1>2, <1>4, Zenon
  <2>. QED  BY <2>1, <2>2, <2>3
<1>6. ASSUME NEW i \in 1..(n - 1)
      PROVE  a[i] = b[i + 1]
  <2>1. i \in 1..Len(Tail(queue)) /\ i \in 1..(Len(queue) - 1) /\ i + 1 \in 1..Len(queue)
    BY <1>1, <1>4
  <2>2. Tail(queue)[i].kind.message = queue[i + 1].kind.message
    BY <1>1, <2>1
  <2>. QED  BY <1>2, <1>3, <1>4, <2>1, <2>2
<1>7. b # << >> /\ a = Tail(b) /\ Head(b) = b[1]
  BY <1>5, <1>6, ShortenedSequence
<1>8. b[1] = Head(queue).kind.message
  BY <1>1, <1>2, <1>4
<1>. QED  BY <1>4, <1>7, <1>8

(* They are as many as the results that are left.                          *)
LEMMA ShownType ==
  ASSUME NEW R, \A r \in R : r.message \in Nat, NEW answers \in Seq(R), NEW n \in 0..Len(answers)
  PROVE  /\ ShownAfter(n, answers) \in Seq(Nat)
         /\ Len(ShownAfter(n, answers)) = Len(answers) - n
         /\ \A i \in 1..(Len(answers) - n) :
               ShownAfter(n, answers)[i] = Shown(answers[n + i]) /\ n + i \in 1..Len(answers)
<1>1. \A i \in 1..Len(answers) : answers[i] \in R
  OBVIOUS
<1>2. Len(answers) - n \in Nat /\ \A i \in 1..(Len(answers) - n) : n + i \in 1..Len(answers)
  OBVIOUS
<1>3. \A i \in 1..(Len(answers) - n) : Shown(answers[n + i]) \in Nat
  BY <1>1, <1>2 DEF Shown
<1>. QED  BY <1>2, <1>3 DEF ShownAfter

(* A result more.                                                          *)
LEMMA ShownAppend ==
  ASSUME NEW R, \A r \in R : r.message \in Nat, NEW answers \in Seq(R), NEW n \in 0..Len(answers),
         NEW e \in R
  PROVE  ShownAfter(n, Append(answers, e)) = Append(ShownAfter(n, answers), Shown(e))
<1>1. /\ Append(answers, e) \in Seq(R) /\ Len(Append(answers, e)) = Len(answers) + 1
      /\ Len(answers) \in Nat
      /\ \A i \in 1..Len(answers) : Append(answers, e)[i] = answers[i]
      /\ Append(answers, e)[Len(answers) + 1] = e
  BY AppendToQueue
<1>2. Shown(e) \in Nat
  BY DEF Shown
<1>3. /\ ShownAfter(n, answers) \in Seq(Nat) /\ Len(ShownAfter(n, answers)) = Len(answers) - n
      /\ \A i \in 1..(Len(answers) - n) :
            ShownAfter(n, answers)[i] = Shown(answers[n + i]) /\ n + i \in 1..Len(answers)
  BY ShownType
<1>4. PICK more \in Seq(R) : more = Append(answers, e)
  BY <1>1
<1>5. /\ ShownAfter(n, more) \in Seq(Nat) /\ Len(ShownAfter(n, more)) = Len(more) - n
      /\ \A i \in 1..(Len(more) - n) : ShownAfter(n, more)[i] = Shown(more[n + i])
  <2>1. n \in 0..Len(more)
    BY <1>1, <1>4
  <2>. QED  BY <2>1, ShownType
<1>6. PICK a, b, k, m : /\ a = ShownAfter(n, more) /\ b = ShownAfter(n, answers)
                        /\ k = Len(answers) - n /\ m = Shown(e)
  OBVIOUS
<1>7. k \in Nat /\ Len(more) - n = k + 1 /\ n + (k + 1) = Len(answers) + 1
  BY <1>1, <1>4, <1>6
<1>8. ASSUME NEW i \in 1..k
      PROVE  a[i] = b[i]
  <2>1. i \in 1..(Len(answers) - n) /\ i \in 1..(Len(more) - n) /\ n + i \in 1..Len(answers)
    BY <1>1, <1>6, <1>7
  <2>2. Shown(more[n + i]) = Shown(answers[n + i])
    BY <1>1, <1>4, <2>1
  <2>. QED  BY <1>3, <1>5, <1>6, <2>1, <2>2
<1>9. a[k + 1] = m
  <2>1. k + 1 \in 1..(Len(more) - n)
    BY <1>7
  <2>2. Shown(more[n + (k + 1)]) = m
    BY <1>1, <1>4, <1>6, <1>7
  <2>. QED  BY <1>5, <1>6, <2>1, <2>2
<1>10. /\ a \in Seq(Nat) /\ b \in Seq(Nat) /\ m \in Nat /\ Len(a) = k + 1 /\ Len(b) = k
  BY <1>2, <1>3, <1>5, <1>6, <1>7
<1>11. a = Append(b, m)
  BY <1>7, <1>8, <1>9, <1>10, ExtendedSequence
<1>. QED  BY <1>4, <1>6, <1>11

(* A result less.                                                          *)
LEMMA ShownTail ==
  ASSUME NEW R, \A r \in R : r.message \in Nat, NEW answers \in Seq(R),
         NEW n \in 0..Len(answers), n < Len(answers)
  PROVE  /\ ShownAfter(n, answers) # << >> /\ Head(ShownAfter(n, answers)) = Shown(answers[n + 1])
         /\ ShownAfter(n + 1, answers) = Tail(ShownAfter(n, answers))
<1>0. Len(answers) \in Nat /\ n \in Nat /\ n + 1 \in 0..Len(answers)
  OBVIOUS
<1>1. /\ ShownAfter(n, answers) \in Seq(Nat) /\ Len(ShownAfter(n, answers)) = Len(answers) - n
      /\ \A i \in 1..(Len(answers) - n) : ShownAfter(n, answers)[i] = Shown(answers[n + i])
  BY ShownType
<1>2. /\ ShownAfter(n + 1, answers) \in Seq(Nat)
      /\ Len(ShownAfter(n + 1, answers)) = Len(answers) - (n + 1)
      /\ \A i \in 1..(Len(answers) - (n + 1)) :
            ShownAfter(n + 1, answers)[i] = Shown(answers[(n + 1) + i])
  BY <1>0, ShownType
<1>3. PICK a, b, k : /\ a = ShownAfter(n + 1, answers) /\ b = ShownAfter(n, answers)
                     /\ k = Len(answers) - n
  OBVIOUS
<1>4. /\ k \in Nat \ {0} /\ Len(answers) - (n + 1) = k - 1
      /\ \A i \in 1..(k - 1) : i + 1 \in 1..k /\ (n + 1) + i = n + (i + 1)
  BY <1>0, <1>3
<1>5. \A i \in 1..(k - 1) : a[i] = b[i + 1]
  BY <1>1, <1>2, <1>3, <1>4
<1>6. a \in Seq(Nat) /\ b \in Seq(Nat) /\ Len(a) = k - 1 /\ Len(b) = k
  BY <1>1, <1>2, <1>3, <1>4
<1>7. b # << >> /\ a = Tail(b) /\ Head(b) = b[1]
  BY <1>4, <1>5, <1>6, ShortenedSequence
<1>8. b[1] = Shown(answers[n + 1])
  BY <1>1, <1>3, <1>4
<1>. QED  BY <1>3, <1>7, <1>8

-----------------------------------------------------------------------------
ServicePlaces ==
  {"options", "register", "offer", "sleep", "publisher", "running", "ended", "crashed"}

(* Everything is in the place where it can be.                             *)
ProgramCounters ==
  /\ interrupt \in BOOLEAN /\ alive \in BOOLEAN /\ feedBound \in BOOLEAN
  /\ mainPc \in {"wait", "join_publisher", "join_consumer", "join_img_consumer"}
  /\ publisherPc \in {"announce", "open", "grab", "read", "done"}
  /\ position \in 0..Len(Video)
  /\ consumerPc \in {"declare", "consume", "done"}
  /\ servicePc \in ServicePlaces

(* The source is announced once, before any frame is sent.                 *)
OneAnnouncement ==
  /\ announcements \in 0..1
  /\ publisherPc = "announce" => announcements = 0 /\ outbox = << >>
  /\ \A i \in 1..Len(outbox) : outbox[i] = Announcement => i = 1 /\ announcements = 0

(* Every number that is somewhere is the number of a message.              *)
NumbersKnown ==
  /\ sent \in Seq(Messages) /\ Len(sent) <= MaxSent
  /\ outbox \in Seq(0..Len(sent))
  /\ feed \in Seq(1..Len(sent))
  /\ inbox \in Seq(1..Len(sent))
  /\ received \in Seq(1..Len(sent))
  /\ kept \subseteq 1..Len(sent)
  /\ foreign \subseteq 1..Len(sent)

Answers == UNION {{Answer(c, p) : p \in Usable} : c \in Configurations}
Report == [src : {WarmUp, SRC}, message : 0..MaxSent, detections : Answers]

QueuesFit ==
  /\ Queues!TypeOK
  /\ reports \in Seq(Report) /\ Len(reports) = Len(results)
  /\ processed \in 0..Len(reports)

(* The model is there before the first frame, and stays.                   *)
ServiceIsSet ==
  /\ servicePc \in {"options", "ended"} => DOMAIN pending = {} /\ Len(reports) = 0
  /\ servicePc \notin {"options", "ended"} => configuration \in Configurations

(* The picture that stands for message n in the queue of source s.         *)
IsPictureOf(s, n, picture) ==
  \/ s = WarmUp /\ n = 0 /\ picture = WarmUpPicture(configuration)
  \/ /\ n \in 1..Len(sent) /\ sent[n].srcid = s
     /\ IsOffered(sent[n]) /\ picture = FrameOf(sent[n])

(* Every frame that waits is the picture of its message, which came for    *)
(* this source.                                                            *)
FramesOfTheirMessages ==
  \A s \in DOMAIN pending : \A i \in 1..Len(pending[s]) :
    IsPictureOf(s, pending[s][i].kind.message, pending[s][i].kind.picture)

(* What may be seen of message n when it is detected.                      *)
IsSeenOf(s, n, picture) ==
  \/ s = WarmUp /\ n = 0 /\ picture = WarmUpPicture(configuration)
  \/ /\ n \in 1..Len(sent) /\ sent[n].srcid = s
     /\ IsOffered(sent[n]) /\ picture \in ReadLater(sent[n], FrameOf(sent[n]))

(* Every result is the answer of the loaded model to what may be seen of   *)
(* the message that it is for, and has the source of that message.         *)
IsAnswer(r) ==
  \E picture \in Usable :
    /\ IsSeenOf(r.src, r.message, picture)
    /\ r.detections = Answer(configuration, picture)
AnswersOfTheirPictures == \A j \in 1..Len(reports) : IsAnswer(reports[j])

(* A message that is left unacknowledged has led to no frame.              *)
KeptAreNotOffered == \A n \in kept : ~IsOffered(sent[n])

(* The numbers of the client's own frames, from the results that it has    *)
(* read back to what it is about to send.                                  *)
OwnNumbers == (1..Len(sent)) \ foreign
Waiting == IF SRC \in DOMAIN pending THEN Numbers(pending[SRC]) ELSE << >>
Way == <<received, inbox, ShownAfter(processed, reports), Waiting, feed, outbox>>

PipelineInv ==
  /\ ProgramCounters
  /\ OneAnnouncement
  /\ NumbersKnown
  /\ QueuesFit
  /\ ServiceIsSet
  /\ FramesOfTheirMessages
  /\ AnswersOfTheirPictures
  /\ KeptAreNotOffered
  /\ Sorted(OwnNumbers, Way)

(* The source of the client is not that of the warm-up.                    *)
LEMMA Identifiers == SRC # WarmUp /\ WarmUp = 0 /\ Announcement = 0 /\ MaxSent \in Nat
BY PipelineAssumption DEF WarmUp, Announcement

(* A sequence over a set is one over every larger set.                     *)
LEMMA SequenceOver ==
  ASSUME NEW S, NEW T, S \subseteq T, NEW s \in Seq(S)
  PROVE  s \in Seq(T)
<1>1. \A i \in 1..Len(s) : s[i] \in T
  OBVIOUS
<1>. QED  BY <1>1

-----------------------------------------------------------------------------
(* What a frame in a queue is, and a result.                               *)
LEMMA FrameType ==
  /\ \A f \in Queues!Frame : f.kind.message \in Nat
  /\ \A f \in Queues!Frame : f.kind.message \in 0..MaxSent /\ f.kind.picture \in Pictures
  /\ \A r \in Report : r.message \in Nat
BY Identifiers DEF Queues!Frame, Report

(* The queue of a registered source.                                       *)
LEMMA QueueType ==
  ASSUME Queues!TypeOK, NEW s \in DOMAIN pending
  PROVE  s \in {WarmUp, SRC} /\ pending[s] \in Seq(Queues!Frame)
BY DEF Queues!TypeOK, Queues!IsMap

(* register_source.                                                        *)
LEMMA RegisterEffect ==
  ASSUME Queues!TypeOK, NEW s \in {WarmUp, SRC}, Queues!Register(s)
  PROVE  /\ Queues!TypeOK' /\ results' = results
         /\ s \notin DOMAIN pending /\ DOMAIN pending' = DOMAIN pending \cup {s}
         /\ pending'[s] = << >>
         /\ \A t \in DOMAIN pending : pending'[t] = pending[t]
<1>1. /\ s \notin DOMAIN pending /\ pending' = Queues!Emplace(pending, s, << >>)
      /\ accepted' = accepted /\ results' = results
  BY DEF Queues!Register
<1>2. /\ DOMAIN pending' = DOMAIN pending \cup {s} /\ pending'[s] = << >>
      /\ \A t \in DOMAIN pending : pending'[t] = pending[t]
  BY <1>1 DEF Queues!Emplace
<1>3. << >> \in Seq(Queues!Frame)
  OBVIOUS
<1>4. Queues!IsMap(pending', {WarmUp, SRC}, Seq(Queues!Frame))
  BY <1>1, <1>2, <1>3 DEF Queues!TypeOK, Queues!IsMap, Queues!Emplace
<1>. QED  BY <1>1, <1>2, <1>4 DEF Queues!TypeOK

(* unregister_source.                                                      *)
LEMMA UnregisterEffect ==
  ASSUME Queues!TypeOK, NEW s, Queues!Unregister(s)
  PROVE  /\ Queues!TypeOK' /\ results' = results
         /\ DOMAIN pending' = DOMAIN pending \ {s}
         /\ \A t \in DOMAIN pending' : pending'[t] = pending[t]
<1>1. pending' = Queues!Erase(pending, s) /\ accepted' = accepted /\ results' = results
  BY DEF Queues!Unregister
<1>2. DOMAIN pending' = DOMAIN pending \ {s} /\ \A t \in DOMAIN pending' : pending'[t] = pending[t]
  BY <1>1 DEF Queues!Erase
<1>3. Queues!IsMap(pending', {WarmUp, SRC}, Seq(Queues!Frame))
  BY <1>1, <1>2 DEF Queues!TypeOK, Queues!IsMap, Queues!Erase
<1>. QED  BY <1>1, <1>2, <1>3 DEF Queues!TypeOK

(* try_add_to_queue, when it adds.                                         *)
LEMMA AcceptEffect ==
  ASSUME Queues!TypeOK, NEW s, NEW n \in 0..MaxSent, NEW picture \in Pictures,
         Queues!Accept(s, [message |-> n, picture |-> picture])
  PROVE  /\ Queues!TypeOK' /\ results' = results
         /\ s \in DOMAIN pending /\ DOMAIN pending' = DOMAIN pending
         /\ \E f \in Queues!Frame : /\ f.kind.message = n /\ f.kind.picture = picture
                                    /\ pending'[s] = Append(pending[s], f)
         /\ \A t \in DOMAIN pending \ {s} : pending'[t] = pending[t]
<1>. DEFINE f == [num |-> accepted + 1, kind |-> [message |-> n, picture |-> picture]]
<1>1. /\ s \in DOMAIN pending /\ accepted' = accepted + 1 /\ results' = results
      /\ pending' = [pending EXCEPT ![s] = Append(pending[s], f)]
  BY DEF Queues!Accept
<1>2. f \in Queues!Frame /\ f.kind.message = n /\ f.kind.picture = picture
  BY DEF Queues!TypeOK, Queues!Frame
<1>. HIDE DEF f
<1>3. pending[s] \in Seq(Queues!Frame) /\ Append(pending[s], f) \in Seq(Queues!Frame)
  BY <1>1, <1>2, QueueType, AppendToQueue
<1>4. /\ Queues!IsMap(pending', {WarmUp, SRC}, Seq(Queues!Frame))
      /\ DOMAIN pending' = DOMAIN pending /\ pending'[s] = Append(pending[s], f)
      /\ \A t \in DOMAIN pending \ {s} : pending'[t] = pending[t]
  BY <1>1, <1>3 DEF Queues!TypeOK, Queues!IsMap
<1>5. accepted' \in Nat
  BY <1>1 DEF Queues!TypeOK
<1>. QED  BY <1>1, <1>2, <1>4, <1>5 DEF Queues!TypeOK

(* The round of run() that finds a frame.                                  *)
LEMMA DetectEffect ==
  ASSUME Queues!TypeOK, NEW s \in {WarmUp, SRC}, Queues!Detect(s)
  PROVE  /\ Queues!TypeOK' /\ Len(results') = Len(results) + 1
         /\ s \in DOMAIN pending /\ DOMAIN pending' = DOMAIN pending
         /\ pending[s] # << >> /\ pending'[s] = Tail(pending[s])
         /\ \A t \in DOMAIN pending \ {s} : pending'[t] = pending[t]
<1>1. /\ s \in DOMAIN pending /\ pending[s] # << >> /\ accepted' = accepted
      /\ results' = Append(results, [src |-> s, num |-> Head(pending[s]).num])
      /\ pending' = [pending EXCEPT ![s] = Tail(pending[s])]
  BY DEF Queues!Detect
<1>2. pending[s] \in Seq(Queues!Frame)
  BY <1>1, QueueType
<1>3. Tail(pending[s]) \in Seq(Queues!Frame) /\ Head(pending[s]) \in Queues!Frame
  BY <1>1, <1>2, TailOfQueue
<1>4. /\ Queues!IsMap(pending', {WarmUp, SRC}, Seq(Queues!Frame))
      /\ DOMAIN pending' = DOMAIN pending /\ pending'[s] = Tail(pending[s])
      /\ \A t \in DOMAIN pending \ {s} : pending'[t] = pending[t]
  BY <1>1, <1>3 DEF Queues!TypeOK, Queues!IsMap
<1>5. PICK r \in Queues!Result : results' = Append(results, r)
  <2>1. [src |-> s, num |-> Head(pending[s]).num] \in Queues!Result
    BY <1>3 DEF Queues!Result, Queues!Frame
  <2>. QED  BY <1>1, <2>1
<1>6. results' \in Seq(Queues!Result) /\ Len(results') = Len(results) + 1
  BY <1>5, AppendToQueue DEF Queues!TypeOK
<1>. QED  BY <1>1, <1>4, <1>6 DEF Queues!TypeOK

-----------------------------------------------------------------------------
(* The types of the places.                                                *)
LEMMA PlacesNow ==
  ASSUME NumbersKnown, QueuesFit
  PROVE  /\ received \in Seq(Nat) /\ inbox \in Seq(Nat) /\ feed \in Seq(Nat) /\ outbox \in Seq(Nat)
         /\ ShownAfter(processed, reports) \in Seq(Nat)
         /\ Waiting \in Seq(Nat)
<1>1. Len(sent) \in Nat /\ 1..Len(sent) \subseteq Nat /\ 0..Len(sent) \subseteq Nat
  BY DEF NumbersKnown
<1>2. received \in Seq(Nat) /\ inbox \in Seq(Nat) /\ feed \in Seq(Nat)
  BY <1>1, SequenceOver DEF NumbersKnown
<1>3. outbox \in Seq(Nat)
  BY <1>1, SequenceOver DEF NumbersKnown
<1>4. ShownAfter(processed, reports) \in Seq(Nat)
  BY FrameType, ShownType DEF QueuesFit
<1>5. Waiting \in Seq(Nat)
  <2>1. CASE SRC \in DOMAIN pending
    BY <2>1, QueueType, FrameType, NumbersType DEF QueuesFit, Waiting
  <2>2. CASE SRC \notin DOMAIN pending
    BY <2>2 DEF Waiting
  <2>. QED  BY <2>1, <2>2
<1>. QED  BY <1>2, <1>3, <1>4, <1>5

(* The way before a step.                                                  *)
LEMMA WayNow ==
  ASSUME NumbersKnown, QueuesFit
  PROVE  /\ IsWay(Way)
         /\ Way[1] = received /\ Way[2] = inbox /\ Way[3] = ShownAfter(processed, reports)
         /\ Way[4] = Waiting /\ Way[5] = feed /\ Way[6] = outbox
<1>1. PICK a, b, c, d, e, f : /\ a = received /\ b = inbox /\ c = ShownAfter(processed, reports)
                              /\ d = Waiting /\ e = feed /\ f = outbox
  OBVIOUS
<1>2. /\ a \in Seq(Nat) /\ b \in Seq(Nat) /\ c \in Seq(Nat)
      /\ d \in Seq(Nat) /\ e \in Seq(Nat) /\ f \in Seq(Nat)
  BY <1>1, PlacesNow
<1>3. Way = <<a, b, c, d, e, f>>
  BY <1>1 DEF Way
<1>4. PICK way : way = Way
  OBVIOUS
<1>5. /\ IsWay(way)
      /\ way[1] = a /\ way[2] = b /\ way[3] = c /\ way[4] = d /\ way[5] = e /\ way[6] = f
  <2>1. way = <<a, b, c, d, e, f>>
    BY <1>3, <1>4
  <2>. QED  BY <1>2, <2>1 DEF IsWay, Places
<1>. QED  BY <1>1, <1>4, <1>5, Zenon

(* And after it.                                                           *)
LEMMA WayNext ==
  ASSUME NEW a \in Seq(Nat), NEW b \in Seq(Nat), NEW c \in Seq(Nat),
         NEW d \in Seq(Nat), NEW e \in Seq(Nat), NEW f \in Seq(Nat),
         received' = a, inbox' = b, ShownAfter(processed, reports)' = c, Waiting' = d,
         feed' = e, outbox' = f
  PROVE  /\ IsWay(Way')
         /\ Way'[1] = a /\ Way'[2] = b /\ Way'[3] = c
         /\ Way'[4] = d /\ Way'[5] = e /\ Way'[6] = f
<1>1. Way' = <<a, b, c, d, e, f>>
  BY DEF Way
<1>2. PICK way : way = Way'
  OBVIOUS
<1>3. way = <<a, b, c, d, e, f>>
  BY <1>1, <1>2
<1>4. /\ IsWay(way)
      /\ way[1] = a /\ way[2] = b /\ way[3] = c /\ way[4] = d /\ way[5] = e /\ way[6] = f
  BY <1>3 DEF IsWay, Places
<1>. QED  BY <1>2, <1>4, Zenon

(* The way before a step and after it, when the client's own numbers are   *)
(* then those of the set own.                                              *)
WayStep(own, way, way2) ==
  /\ IsWay(way) /\ IsWay(way2)
  /\ way[1] = received /\ way[2] = inbox /\ way[3] = ShownAfter(processed, reports)
  /\ way[4] = Waiting /\ way[5] = feed /\ way[6] = outbox
  /\ way2[1] = received' /\ way2[2] = inbox' /\ way2[3] = ShownAfter(processed, reports)'
  /\ way2[4] = Waiting' /\ way2[5] = feed' /\ way2[6] = outbox'
  /\ Sorted(OwnNumbers, way)
  /\ Sorted(own, way2) => Sorted(OwnNumbers, Way)'

(* There are such ways when every place keeps its type.                    *)
LEMMA TheWay ==
  ASSUME PipelineInv, NEW own, OwnNumbers' = own,
         received' \in Seq(Nat), inbox' \in Seq(Nat), ShownAfter(processed, reports)' \in Seq(Nat),
         Waiting' \in Seq(Nat), feed' \in Seq(Nat), outbox' \in Seq(Nat)
  PROVE  \E way, way2 : WayStep(own, way, way2)
<1>1. PICK way, way2 : way = Way /\ way2 = Way'
  OBVIOUS
<1>2. /\ IsWay(way)
      /\ way[1] = received /\ way[2] = inbox /\ way[3] = ShownAfter(processed, reports)
      /\ way[4] = Waiting /\ way[5] = feed /\ way[6] = outbox
  BY <1>1, WayNow DEF PipelineInv
<1>3. /\ IsWay(way2)
      /\ way2[1] = received' /\ way2[2] = inbox' /\ way2[3] = ShownAfter(processed, reports)'
      /\ way2[4] = Waiting' /\ way2[5] = feed' /\ way2[6] = outbox'
  BY <1>1, WayNext
<1>4. Sorted(OwnNumbers, way)
  BY <1>1 DEF PipelineInv
<1>5. Sorted(own, way2) => Sorted(OwnNumbers, Way)'
  BY <1>1 DEF Sorted, Ascending, Before, Has
<1>. QED  BY <1>2, <1>3, <1>4, <1>5 DEF WayStep

(* Messages are added only, and the model stays.                           *)
SentGrows == sent' = sent \/ \E m \in Messages : sent' = Append(sent, m)

(* A message that was sent is what it was.                                 *)
LEMMA SentStays ==
  ASSUME NumbersKnown, SentGrows
  PROVE  /\ sent' \in Seq(Messages) /\ 1..Len(sent) \subseteq 1..Len(sent')
         /\ \A n \in 1..Len(sent) : sent'[n] = sent[n]
<1>1. CASE sent' = sent
  BY <1>1 DEF NumbersKnown
<1>2. ASSUME NEW m \in Messages, sent' = Append(sent, m)
      PROVE  /\ sent' \in Seq(Messages) /\ 1..Len(sent) \subseteq 1..Len(sent')
             /\ \A n \in 1..Len(sent) : sent'[n] = sent[n]
  <2>1. /\ sent' \in Seq(Messages) /\ Len(sent') = Len(sent) + 1 /\ Len(sent) \in Nat
        /\ \A n \in 1..Len(sent) : sent'[n] = sent[n]
    BY <1>2, AppendToQueue DEF NumbersKnown
  <2>. QED  BY <2>1
<1>. QED  BY <1>1, <1>2 DEF SentGrows

(* The picture of a message stays the picture of this message.             *)
LEMMA PictureStays ==
  ASSUME NumbersKnown, SentGrows, configuration' = configuration,
         NEW s, NEW n, NEW picture, IsPictureOf(s, n, picture)
  PROVE  IsPictureOf(s, n, picture)'
<1>1. CASE s = WarmUp /\ n = 0 /\ picture = WarmUpPicture(configuration)
  BY <1>1 DEF IsPictureOf, WarmUp, WarmUpPicture
<1>2. CASE /\ n \in 1..Len(sent) /\ sent[n].srcid = s
           /\ IsOffered(sent[n]) /\ picture = FrameOf(sent[n])
  <2>1. n \in 1..Len(sent') /\ sent'[n] = sent[n]
    BY <1>2, SentStays
  <2>. QED  BY <1>2, <2>1 DEF IsPictureOf
<1>. QED  BY <1>1, <1>2 DEF IsPictureOf

(* Nor does an answer lose what it was detected on.                        *)
LEMMA AnswerStays ==
  ASSUME NumbersKnown, SentGrows, configuration' = configuration, NEW r, IsAnswer(r)
  PROVE  IsAnswer(r)'
<1>1. PICK picture \in Usable : /\ IsSeenOf(r.src, r.message, picture)
                                /\ r.detections = Answer(configuration, picture)
  BY DEF IsAnswer
<1>2. IsSeenOf(r.src, r.message, picture)'
  <2>1. CASE r.src = WarmUp /\ r.message = 0 /\ picture = WarmUpPicture(configuration)
    BY <2>1 DEF IsSeenOf, WarmUp, WarmUpPicture
  <2>2. CASE /\ r.message \in 1..Len(sent) /\ sent[r.message].srcid = r.src
             /\ IsOffered(sent[r.message])
             /\ picture \in ReadLater(sent[r.message], FrameOf(sent[r.message]))
    <3>1. r.message \in 1..Len(sent') /\ sent'[r.message] = sent[r.message]
      BY <2>2, SentStays
    <3>. QED  BY <2>2, <3>1 DEF IsSeenOf
  <2>. QED  BY <1>1, <2>1, <2>2 DEF IsSeenOf
<1>. QED  BY <1>1, <1>2 DEF IsAnswer

(* The queues when only frames move that were there.                       *)
LEMMA FramesStay ==
  ASSUME NumbersKnown, SentGrows, configuration' = configuration, FramesOfTheirMessages,
         \A s \in DOMAIN pending' : \A i \in 1..Len(pending'[s]) :
           \/ s \in DOMAIN pending /\ \E j \in 1..Len(pending[s]) : pending'[s][i] = pending[s][j]
           \/ IsPictureOf(s, pending'[s][i].kind.message, pending'[s][i].kind.picture)
  PROVE  FramesOfTheirMessages'
<1>. SUFFICES ASSUME NEW s \in DOMAIN pending', NEW i \in 1..Len(pending'[s])
              PROVE  IsPictureOf(s, pending[s][i].kind.message, pending[s][i].kind.picture)'
  BY DEF FramesOfTheirMessages
<1>. PICK n, picture : n = pending'[s][i].kind.message /\ picture = pending'[s][i].kind.picture
  OBVIOUS
<1>1. IsPictureOf(s, n, picture)
  BY DEF FramesOfTheirMessages
<1>2. IsPictureOf(s, n, picture)'
  BY <1>1, PictureStays
<1>. QED  BY <1>2 DEF IsPictureOf

(* The results that are there stay answers.                                *)
LEMMA AnswersStay ==
  ASSUME NumbersKnown, SentGrows, configuration' = configuration, AnswersOfTheirPictures,
         reports' = reports
  PROVE  AnswersOfTheirPictures'
<1>. SUFFICES ASSUME NEW j \in 1..Len(reports)
              PROVE  IsAnswer(reports[j])'
  BY DEF AnswersOfTheirPictures
<1>. PICK r : r = reports[j]
  OBVIOUS
<1>1. IsAnswer(r)'
  BY AnswerStays DEF AnswersOfTheirPictures
<1>. QED  BY <1>1

(* A step that the detection does not notice.                              *)
LEMMA QueuesStay ==
  ASSUME PipelineInv, SentGrows, UNCHANGED <<serviceVars, queueVars, processed>>
  PROVE  QueuesFit' /\ ServiceIsSet' /\ FramesOfTheirMessages' /\ AnswersOfTheirPictures'
<1>1. QueuesFit'
  BY DEF PipelineInv, QueuesFit, queueVars, Queues!TypeOK, Report, WarmUp
<1>2. ServiceIsSet'
  BY DEF PipelineInv, ServiceIsSet, queueVars, serviceVars
<1>3. NumbersKnown /\ configuration' = configuration /\ pending' = pending /\ reports' = reports
  BY DEF PipelineInv, queueVars, serviceVars
<1>4. FramesOfTheirMessages'
  BY <1>3, FramesStay DEF PipelineInv
<1>5. AnswersOfTheirPictures'
  BY <1>3, AnswersStay DEF PipelineInv
<1>. QED  BY <1>1, <1>2, <1>4, <1>5

(* What is left unacknowledged stays without a frame.                      *)
LEMMA KeptStay ==
  ASSUME NumbersKnown, SentGrows, KeptAreNotOffered, kept' = kept
  PROVE  KeptAreNotOffered'
BY SentStays DEF NumbersKnown, KeptAreNotOffered

(* The part of the way in the detection service stays.                     *)
LEMMA WayStays ==
  ASSUME UNCHANGED <<queueVars, processed>>
  PROVE  ShownAfter(processed, reports)' = ShownAfter(processed, reports) /\ Waiting' = Waiting
BY DEF queueVars, Waiting

-----------------------------------------------------------------------------
(* Steps of the client that send and read nothing.                         *)
Skip == Read /\ UNCHANGED <<sent, outbox>>
Quiet == OpenVideo \/ Grab \/ Skip \/ BindResults \/ Join \/ PressKey

(* They move only the counters of the client.                              *)
LEMMA QuietInv ==
  ASSUME PipelineInv, Quiet, ServiceUnchanged
  PROVE  PipelineInv'
<1>1. /\ sent' = sent /\ outbox' = outbox /\ inbox' = inbox /\ received' = received
      /\ UNCHANGED <<serviceVars, queueVars, processed>>
      /\ announcements' = announcements /\ feed' = feed /\ kept' = kept /\ foreign' = foreign
      /\ feedBound' = feedBound /\ servicePc' = servicePc
  BY DEF Quiet, OpenVideo, Grab, Skip, Read, BindResults, Join, PressKey, ServiceUnchanged, brokerVars,
         publisherVars, consumerVars, serviceVars
<1>2. QueuesFit' /\ ServiceIsSet' /\ FramesOfTheirMessages' /\ AnswersOfTheirPictures'
  BY <1>1, QueuesStay DEF SentGrows
<1>3. KeptAreNotOffered'
  BY <1>1, KeptStay DEF PipelineInv, SentGrows
<1>4. ProgramCounters' /\ (publisherPc' = "announce" => publisherPc = "announce")
  <2>1. Len(Video) \in Nat
    BY PipelineAssumption
  <2>2. ProgramCounters
    BY DEF PipelineInv
  <2>3. CASE OpenVideo
    BY <1>1, <2>1, <2>2, <2>3 DEF ProgramCounters, OpenVideo, consumerVars
  <2>4. CASE Grab
    BY <1>1, <2>1, <2>2, <2>4 DEF ProgramCounters, Grab, consumerVars
  <2>5. CASE BindResults
    BY <1>1, <2>2, <2>5 DEF ProgramCounters, BindResults, publisherVars
  <2>6. CASE Join
    BY <1>1, <2>2, <2>6 DEF ProgramCounters, Join, publisherVars, consumerVars
  <2>7. CASE PressKey
    BY <1>1, <2>2, <2>7 DEF ProgramCounters, PressKey, publisherVars, consumerVars
  <2>8. CASE Skip
    BY <1>1, <2>1, <2>2, <2>8 DEF ProgramCounters, Skip, Read, consumerVars
  <2>. QED  BY <2>3, <2>4, <2>5, <2>6, <2>7, <2>8 DEF Quiet
<1>5. OneAnnouncement'
  BY <1>1, <1>4 DEF PipelineInv, OneAnnouncement, Announcement
<1>6. NumbersKnown'
  BY <1>1 DEF PipelineInv, NumbersKnown, Messages, RawMessage
<1>7. Sorted(OwnNumbers, Way)'
  <2>1. Way' = Way /\ OwnNumbers' = OwnNumbers
    BY <1>1, WayStays DEF Way, OwnNumbers
  <2>. QED  BY <2>1 DEF PipelineInv, Sorted, Ascending, Before, Has
<1>. QED  BY <1>2, <1>3, <1>4, <1>5, <1>6, <1>7 DEF PipelineInv

(* What has not been sent or not been read is lost.                        *)
Losing == CannotOpenVideo \/ StopPublisher

(* Less is on the way after it.                                            *)
LEMMA LosingInv ==
  ASSUME PipelineInv, Losing, ServiceUnchanged
  PROVE  PipelineInv'
<1>1. /\ sent' = sent /\ outbox' = << >> /\ (inbox' = << >> \/ inbox' = inbox)
      /\ received' = received
      /\ UNCHANGED <<serviceVars, queueVars, processed>>
      /\ announcements' = announcements /\ feed' = feed /\ kept' = kept /\ foreign' = foreign
      /\ feedBound' = feedBound /\ servicePc' = servicePc
  BY DEF Losing, CannotOpenVideo, StopPublisher, ServiceUnchanged, brokerVars, consumerVars,
         serviceVars
<1>2. QueuesFit' /\ ServiceIsSet' /\ FramesOfTheirMessages' /\ AnswersOfTheirPictures'
  BY <1>1, QueuesStay DEF SentGrows
<1>3. KeptAreNotOffered'
  BY <1>1, KeptStay DEF PipelineInv, SentGrows
<1>4. ProgramCounters' /\ (publisherPc' = "announce" => publisherPc = "announce")
  <2>1. ProgramCounters
    BY DEF PipelineInv
  <2>2. CASE CannotOpenVideo
    BY <1>1, <2>1, <2>2 DEF ProgramCounters, CannotOpenVideo
  <2>3. CASE StopPublisher
    BY <1>1, <2>1, <2>3 DEF ProgramCounters, StopPublisher, consumerVars
  <2>. QED  BY <2>2, <2>3 DEF Losing
<1>5. OneAnnouncement'
  BY <1>1, <1>4 DEF PipelineInv, OneAnnouncement, Announcement
<1>6. NumbersKnown'
  <2>1. << >> \in Seq(0..Len(sent)) /\ << >> \in Seq(1..Len(sent))
    OBVIOUS
  <2>. QED  BY <1>1, <2>1 DEF PipelineInv, NumbersKnown, Messages, RawMessage
<1>7. Sorted(OwnNumbers, Way)'
  <2>1. /\ ShownAfter(processed, reports)' = ShownAfter(processed, reports)
        /\ Waiting' = Waiting /\ OwnNumbers' = OwnNumbers
    BY <1>1, WayStays DEF OwnNumbers
  <2>2. << >> \in Seq(Nat)
    OBVIOUS
  <2>3. PICK way, way2 : WayStep(OwnNumbers, way, way2)
    <3>1. /\ received' \in Seq(Nat) /\ inbox' \in Seq(Nat) /\ feed' \in Seq(Nat)
          /\ outbox' \in Seq(Nat) /\ ShownAfter(processed, reports)' \in Seq(Nat)
          /\ Waiting' \in Seq(Nat)
      BY <1>1, <2>1, <2>2, PlacesNow DEF PipelineInv
    <3>. QED  BY <2>1, <3>1, TheWay
  <2>4. \A k \in Places : way2[k] = way[k] \/ way2[k] = << >>
    BY <1>1, <2>1, <2>3 DEF Places, WayStep
  <2>5. Sorted(OwnNumbers, way2)
    BY <2>3, <2>4, SortedLess DEF WayStep
  <2>. QED  BY <2>3, <2>5 DEF WayStep
<1>. QED  BY <1>2, <1>3, <1>4, <1>5, <1>6, <1>7 DEF PipelineInv

(* The announcement of the source.                                         *)
LEMMA AnnounceInv ==
  ASSUME PipelineInv, Announce, ServiceUnchanged
  PROVE  PipelineInv'
<1>1. /\ sent' = sent /\ inbox' = inbox /\ received' = received
      /\ publisherPc = "announce" /\ publisherPc' = "open"
      /\ UNCHANGED <<serviceVars, queueVars, processed>>
      /\ announcements' = announcements /\ feed' = feed /\ kept' = kept /\ foreign' = foreign
      /\ feedBound' = feedBound /\ servicePc' = servicePc
  BY DEF Announce, ServiceUnchanged, brokerVars, consumerVars, serviceVars
<1>2. outbox = << >> /\ outbox' = Append(outbox, 0) /\ announcements = 0
  BY Identifiers DEF Announce, PipelineInv, OneAnnouncement
<1>3. QueuesFit' /\ ServiceIsSet' /\ FramesOfTheirMessages' /\ AnswersOfTheirPictures'
  BY <1>1, QueuesStay DEF SentGrows
<1>4. KeptAreNotOffered'
  BY <1>1, KeptStay DEF PipelineInv, SentGrows
<1>5. ProgramCounters'
  BY <1>1 DEF PipelineInv, ProgramCounters, Announce, consumerVars
<1>6. Len(outbox') = 1 /\ outbox'[1] = 0
  BY <1>2
<1>7. OneAnnouncement'
  BY <1>1, <1>2, <1>6 DEF OneAnnouncement
<1>8. NumbersKnown'
  <2>1. 0 \in 0..Len(sent)
    BY DEF PipelineInv, NumbersKnown
  <2>2. outbox' \in Seq(0..Len(sent))
    BY <1>2, <2>1, AppendToQueue DEF PipelineInv, NumbersKnown
  <2>. QED  BY <1>1, <2>2 DEF PipelineInv, NumbersKnown, Messages, RawMessage
<1>9. Sorted(OwnNumbers, Way)'
  <2>1. /\ ShownAfter(processed, reports)' = ShownAfter(processed, reports)
        /\ Waiting' = Waiting /\ OwnNumbers' = OwnNumbers
    BY <1>1, WayStays DEF OwnNumbers
  <2>2. outbox \in Seq(Nat) /\ outbox' \in Seq(Nat)
    BY <1>2, PlacesNow, AppendToQueue DEF PipelineInv
  <2>3. PICK way, way2 : WayStep(OwnNumbers, way, way2)
    <3>1. /\ received' \in Seq(Nat) /\ inbox' \in Seq(Nat) /\ feed' \in Seq(Nat)
          /\ ShownAfter(processed, reports)' \in Seq(Nat) /\ Waiting' \in Seq(Nat)
      BY <1>1, <2>1, PlacesNow DEF PipelineInv
    <3>. QED  BY <2>1, <2>2, <3>1, TheWay
  <2>4. way2[6] = Append(way[6], 0) /\ \A k \in Places \ {6} : way2[k] = way[k]
    BY <1>1, <1>2, <2>1, <2>3 DEF Places, WayStep
  <2>5. 0 \in Nat \ OwnNumbers /\ 6 \in Places
    BY DEF OwnNumbers, Places
  <2>6. Sorted(OwnNumbers, way2)
    BY <2>3, <2>4, <2>5, SortedOther DEF WayStep
  <2>. QED  BY <2>3, <2>6 DEF WayStep
<1>. QED  BY <1>3, <1>4, <1>5, <1>7, <1>8, <1>9 DEF PipelineInv

(* A message more is known after it was sent.                              *)
LEMMA NumbersGrow ==
  ASSUME NumbersKnown, NEW m \in Messages, Len(sent) < MaxSent, sent' = Append(sent, m)
  PROVE  /\ sent' \in Seq(Messages) /\ Len(sent') = Len(sent) + 1 /\ Len(sent') <= MaxSent
         /\ Len(sent) \in Nat /\ sent'[Len(sent) + 1] = m
         /\ 0..Len(sent) \subseteq 0..Len(sent') /\ 1..Len(sent) \subseteq 1..Len(sent')
         /\ outbox \in Seq(0..Len(sent')) /\ feed \in Seq(1..Len(sent'))
         /\ inbox \in Seq(1..Len(sent')) /\ received \in Seq(1..Len(sent'))
         /\ kept \subseteq 1..Len(sent') /\ foreign \subseteq 1..Len(sent')
<1>1. /\ sent' \in Seq(Messages) /\ Len(sent') = Len(sent) + 1 /\ Len(sent) \in Nat
      /\ sent'[Len(sent) + 1] = m
  BY AppendToQueue DEF NumbersKnown
<1>2. Len(sent') <= MaxSent
  BY <1>1, Identifiers
<1>3. PICK n, n2 : n = Len(sent) /\ n2 = Len(sent')
  OBVIOUS
<1>4. 0..n \subseteq 0..n2 /\ 1..n \subseteq 1..n2
  BY <1>1, <1>3
<1>5. outbox \in Seq(0..n2)
  BY <1>3, <1>4, SequenceOver DEF NumbersKnown
<1>6. feed \in Seq(1..n2) /\ inbox \in Seq(1..n2) /\ received \in Seq(1..n2)
  BY <1>3, <1>4, SequenceOver DEF NumbersKnown
<1>7. kept \subseteq 1..n2 /\ foreign \subseteq 1..n2
  BY <1>3, <1>4 DEF NumbersKnown
<1>. QED  BY <1>1, <1>2, <1>3, <1>4, <1>5, <1>6, <1>7

(* All numbers on the way are those of messages.                           *)
LEMMA OnTheWay ==
  ASSUME NumbersKnown, QueuesFit, FramesOfTheirMessages, AnswersOfTheirPictures,
         NEW x, \/ Has(received, x) \/ Has(inbox, x) \/ Has(ShownAfter(processed, reports), x)
                \/ Has(Waiting, x) \/ Has(feed, x) \/ Has(outbox, x)
  PROVE  x \in 0..Len(sent)
<1>0. Len(sent) \in Nat
  BY DEF NumbersKnown
<1>1. ASSUME NEW s, s \in Seq(1..Len(sent)) \/ s \in Seq(0..Len(sent)), Has(s, x)
      PROVE  x \in 0..Len(sent)
  <2>1. PICK i \in 1..Len(s) : s[i] = x
    BY <1>1 DEF Has
  <2>. QED  BY <1>0, <1>1, <2>1
<1>2. CASE Has(received, x) \/ Has(inbox, x) \/ Has(feed, x) \/ Has(outbox, x)
  BY <1>1, <1>2 DEF NumbersKnown
<1>3. ASSUME NEW s, NEW n, NEW picture, IsPictureOf(s, n, picture)
      PROVE  n \in 0..Len(sent)
  BY <1>0, <1>3 DEF IsPictureOf
<1>4. CASE Has(ShownAfter(processed, reports), x)
  <2>1. /\ Len(ShownAfter(processed, reports)) = Len(reports) - processed
        /\ \A i \in 1..(Len(reports) - processed) :
              /\ ShownAfter(processed, reports)[i] = Shown(reports[processed + i])
              /\ processed + i \in 1..Len(reports)
    BY FrameType, ShownType DEF QueuesFit
  <2>2. PICK j \in 1..Len(reports) : x = Shown(reports[j])
    <3>1. PICK i \in 1..(Len(reports) - processed) : ShownAfter(processed, reports)[i] = x
      BY <1>4, <2>1 DEF Has
    <3>. QED  BY <2>1, <3>1
  <2>3. reports[j].message \in 0..Len(sent)
    BY <1>0 DEF AnswersOfTheirPictures, IsAnswer, IsSeenOf
  <2>. QED  BY <1>0, <2>2, <2>3 DEF Shown
<1>5. CASE Has(Waiting, x)
  <2>1. SRC \in DOMAIN pending /\ Waiting = Numbers(pending[SRC])
    BY <1>5, HasEmpty DEF Waiting
  <2>2. /\ Len(Numbers(pending[SRC])) = Len(pending[SRC])
        /\ \A i \in 1..Len(pending[SRC]) : Numbers(pending[SRC])[i] = pending[SRC][i].kind.message
    BY <2>1, QueueType, FrameType, NumbersType DEF QueuesFit
  <2>3. PICK i \in 1..Len(pending[SRC]) : pending[SRC][i].kind.message = x
    BY <1>5, <2>1, <2>2 DEF Has
  <2>. QED  BY <1>3, <2>1, <2>3 DEF FramesOfTheirMessages
<1>. QED  BY <1>2, <1>4, <1>5

(* A frame is sent: its number is above all that are on the way.           *)
LEMMA ReadInv ==
  ASSUME PipelineInv, Read, ~Skip, ServiceUnchanged
  PROVE  PipelineInv'
<1>. DEFINE e == Len(sent) + 1
<1>0. NumbersKnown /\ QueuesFit
  BY DEF PipelineInv
<1>1. /\ inbox' = inbox /\ received' = received
      /\ publisherPc = "read" /\ publisherPc' = "grab"
      /\ UNCHANGED <<serviceVars, queueVars, processed>>
      /\ announcements' = announcements /\ feed' = feed /\ kept' = kept /\ foreign' = foreign
      /\ feedBound' = feedBound /\ servicePc' = servicePc
      /\ position < Len(Video) /\ position' = position + 1
      /\ Len(sent) < MaxSent
  BY DEF Read, Skip, ServiceUnchanged, brokerVars, consumerVars, serviceVars
<1>2. PICK m \in Messages : sent' = Append(sent, m)
  <2>1. Len(Video) \in Nat /\ position' \in 1..Len(Video)
    BY <1>1, PipelineAssumption DEF PipelineInv, ProgramCounters
  <2>2. Video[position'] \in Range(Video)
    BY <2>1, PipelineAssumption DEF Range
  <2>3. RawMessage(Video[position']) \in Messages
    BY <2>2 DEF Messages
  <2>4. sent' = Append(sent, RawMessage(Video[position']))
    BY <1>1 DEF Read, Publish
  <2>. QED  BY <2>3, <2>4
<1>3. /\ sent' \in Seq(Messages) /\ Len(sent') = Len(sent) + 1 /\ Len(sent') <= MaxSent
      /\ Len(sent) \in Nat
      /\ outbox \in Seq(0..Len(sent')) /\ feed \in Seq(1..Len(sent'))
      /\ inbox \in Seq(1..Len(sent')) /\ received \in Seq(1..Len(sent'))
      /\ kept \subseteq 1..Len(sent') /\ foreign \subseteq 1..Len(sent')
  BY <1>0, <1>1, <1>2, NumbersGrow
<1>4. outbox' = Append(outbox, e) /\ e \in Nat \ {0}
  BY <1>1, <1>3 DEF Read, Publish
<1>. HIDE DEF e
<1>5. QueuesFit' /\ ServiceIsSet' /\ FramesOfTheirMessages' /\ AnswersOfTheirPictures'
  BY <1>1, <1>2, QueuesStay DEF SentGrows
<1>6. KeptAreNotOffered'
  BY <1>1, <1>2, KeptStay DEF PipelineInv, SentGrows
<1>7. ProgramCounters'
  <2>1. Len(Video) \in Nat
    BY PipelineAssumption
  <2>. QED  BY <1>1, <2>1 DEF PipelineInv, ProgramCounters, Read, consumerVars
<1>8. OneAnnouncement'
  <2>1. /\ Len(outbox') = Len(outbox) + 1 /\ Len(outbox) \in Nat
        /\ \A i \in 1..Len(outbox) : outbox'[i] = outbox[i]
        /\ outbox'[Len(outbox) + 1] = e
    <3>1. outbox \in Seq(Nat) /\ e \in Nat
      BY <1>0, <1>4, PlacesNow
    <3>. QED  BY <1>4, <3>1, AppendToQueue
  <2>2. \A i \in 1..Len(outbox') : outbox'[i] = 0 => i \in 1..Len(outbox) /\ outbox[i] = 0
    BY <1>4, <2>1
  <2>. QED  BY <1>1, <2>2 DEF PipelineInv, OneAnnouncement, Announcement
<1>9. NumbersKnown'
  <2>1. e \in 0..Len(sent')
    BY <1>3 DEF e
  <2>2. outbox' \in Seq(0..Len(sent'))
    BY <1>3, <1>4, <2>1, AppendToQueue
  <2>. QED  BY <1>1, <1>3, <2>2 DEF NumbersKnown, Messages, RawMessage
<1>10. Sorted(OwnNumbers, Way)'
  <2>1. ShownAfter(processed, reports)' = ShownAfter(processed, reports) /\ Waiting' = Waiting
    BY <1>1, WayStays
  <2>2. outbox \in Seq(Nat) /\ outbox' \in Seq(Nat)
    BY <1>0, <1>4, PlacesNow, AppendToQueue
  <2>3. OwnNumbers' = OwnNumbers \cup {e}
    <3>1. e \notin foreign
      BY <1>0, <1>3 DEF NumbersKnown, e
    <3>2. 1..Len(sent') = (1..Len(sent)) \cup {e}
      BY <1>3 DEF e
    <3>. QED  BY <1>1, <3>1, <3>2 DEF OwnNumbers
  <2>4. PICK way, way2 : WayStep(OwnNumbers \cup {e}, way, way2)
    <3>1. /\ received' \in Seq(Nat) /\ inbox' \in Seq(Nat) /\ feed' \in Seq(Nat)
          /\ ShownAfter(processed, reports)' \in Seq(Nat) /\ Waiting' \in Seq(Nat)
      BY <1>0, <1>1, <2>1, PlacesNow
    <3>. QED  BY <2>2, <2>3, <3>1, TheWay
  <2>5. way2[6] = Append(way[6], e) /\ \A k \in Places \ {6} : way2[k] = way[k]
    BY <1>1, <1>4, <2>1, <2>4 DEF Places, WayStep
  <2>6. \A k \in Places : \A x : Has(way[k], x) => x < e
    <3>. SUFFICES ASSUME NEW k \in Places, NEW x, Has(way[k], x)
                  PROVE  x < e
      OBVIOUS
    <3>1. k = 1 \/ k = 2 \/ k = 3 \/ k = 4 \/ k = 5 \/ k = 6
      BY DEF Places
    <3>2. \/ Has(received, x) \/ Has(inbox, x) \/ Has(ShownAfter(processed, reports), x)
          \/ Has(Waiting, x) \/ Has(feed, x) \/ Has(outbox, x)
      BY <2>4, <3>1 DEF WayStep
    <3>3. x \in 0..Len(sent)
      BY <3>2, OnTheWay DEF PipelineInv
    <3>. QED  BY <1>3, <3>3 DEF e
  <2>7. Sorted(OwnNumbers \cup {e}, way2)
    BY <1>4, <2>4, <2>5, <2>6, SortedNew DEF WayStep
  <2>. QED  BY <2>4, <2>7 DEF WayStep
<1>. QED  BY <1>5, <1>6, <1>7, <1>8, <1>9, <1>10 DEF PipelineInv

(* A result is read, and perhaps it is the last one.                       *)
LEMMA ReceiveResultInv ==
  ASSUME PipelineInv, ReceiveResult, ServiceUnchanged
  PROVE  PipelineInv'
<1>0. NumbersKnown /\ QueuesFit
  BY DEF PipelineInv
<1>1. /\ sent' = sent /\ outbox' = outbox /\ publisherPc' = publisherPc
      /\ UNCHANGED <<serviceVars, queueVars, processed>>
      /\ announcements' = announcements /\ feed' = feed /\ kept' = kept /\ foreign' = foreign
      /\ feedBound' = feedBound /\ servicePc' = servicePc
  BY DEF ReceiveResult, ServiceUnchanged, brokerVars, publisherVars, serviceVars
<1>2. inbox # << >> /\ received' = Append(received, Head(inbox))
      /\ (inbox' = Tail(inbox) \/ inbox' = << >>)
  BY DEF ReceiveResult
<1>3. QueuesFit' /\ ServiceIsSet' /\ FramesOfTheirMessages' /\ AnswersOfTheirPictures'
  BY <1>1, QueuesStay DEF SentGrows
<1>4. KeptAreNotOffered'
  BY <1>1, KeptStay DEF PipelineInv, SentGrows
<1>5. ProgramCounters'
  BY <1>1 DEF PipelineInv, ProgramCounters, ReceiveResult, publisherVars
<1>6. OneAnnouncement'
  BY <1>1 DEF PipelineInv, OneAnnouncement, Announcement
<1>7. received' \in Seq(1..Len(sent)) /\ inbox' \in Seq(1..Len(sent))
  <2>1. Head(inbox) \in 1..Len(sent) /\ Tail(inbox) \in Seq(1..Len(sent))
    BY <1>0, <1>2, TailOfQueue DEF NumbersKnown
  <2>2. received' \in Seq(1..Len(sent))
    BY <1>0, <1>2, <2>1, AppendToQueue DEF NumbersKnown
  <2>3. << >> \in Seq(1..Len(sent))
    OBVIOUS
  <2>. QED  BY <1>2, <2>1, <2>2, <2>3
<1>8. NumbersKnown'
  BY <1>0, <1>1, <1>7 DEF NumbersKnown, Messages, RawMessage
<1>9. Sorted(OwnNumbers, Way)'
  <2>1. /\ ShownAfter(processed, reports)' = ShownAfter(processed, reports)
        /\ Waiting' = Waiting /\ OwnNumbers' = OwnNumbers
    BY <1>1, WayStays DEF OwnNumbers
  <2>2. received' \in Seq(Nat) /\ inbox' \in Seq(Nat)
    <3>1. 1..Len(sent) \subseteq Nat
      BY <1>0 DEF NumbersKnown
    <3>. QED  BY <1>7, <3>1, SequenceOver
  <2>3. PICK way, way2 : WayStep(OwnNumbers, way, way2)
    <3>1. /\ feed' \in Seq(Nat) /\ outbox' \in Seq(Nat)
          /\ ShownAfter(processed, reports)' \in Seq(Nat) /\ Waiting' \in Seq(Nat)
      BY <1>0, <1>1, <2>1, PlacesNow
    <3>. QED  BY <2>1, <2>2, <3>1, TheWay
  <2>4. Moved(way, way2, 1)
    <3>1. /\ way[2] # << >> /\ way2[1] = Append(way[1], Head(way[2]))
          /\ way2[2] = Tail(way[2]) \/ way2[2] = << >>
          /\ \A k \in Places \ {1, 2} : way2[k] = way[k]
      BY <1>1, <1>2, <2>1, <2>3 DEF Places, WayStep
    <3>. QED  BY <3>1 DEF Moved
  <2>5. Sorted(OwnNumbers, way2)
    BY <2>3, <2>4, SortedMove DEF WayStep
  <2>. QED  BY <2>3, <2>5 DEF WayStep
<1>. QED  BY <1>3, <1>4, <1>5, <1>6, <1>8, <1>9 DEF PipelineInv

(* All steps of the client.                                                *)
LEMMA ClientInv ==
  ASSUME PipelineInv, Client, ServiceUnchanged
  PROVE  PipelineInv'
BY QuietInv, LosingInv, AnnounceInv, ReadInv, ReceiveResultInv
   DEF Client, Publisher, Consumer, Quiet, Losing

-----------------------------------------------------------------------------
(* What the broker does: a frame or the announcement is taken from the     *)
(* client.                                                                 *)
LEMMA BrokerTakesInv ==
  ASSUME PipelineInv, BrokerTakes
  PROVE  PipelineInv'
<1>0. NumbersKnown /\ QueuesFit
  BY DEF PipelineInv
<1>1. /\ sent' = sent /\ inbox' = inbox /\ received' = received
      /\ UNCHANGED <<serviceVars, queueVars, processed>>
      /\ kept' = kept /\ foreign' = foreign /\ feedBound' = feedBound /\ servicePc' = servicePc
      /\ publisherPc' = publisherPc /\ consumerPc' = consumerPc
      /\ outbox # << >> /\ outbox' = Tail(outbox)
  BY DEF BrokerTakes, consumerVars, serviceVars
<1>2. QueuesFit' /\ ServiceIsSet' /\ FramesOfTheirMessages' /\ AnswersOfTheirPictures'
  BY <1>1, QueuesStay DEF SentGrows
<1>3. KeptAreNotOffered'
  BY <1>1, KeptStay DEF PipelineInv, SentGrows
<1>4. ProgramCounters'
  BY <1>1 DEF PipelineInv, ProgramCounters, BrokerTakes, consumerVars
<1>5. /\ Tail(outbox) \in Seq(0..Len(sent)) /\ Len(Tail(outbox)) = Len(outbox) - 1
      /\ \A i \in 1..Len(Tail(outbox)) : i + 1 \in 1..Len(outbox) /\ Tail(outbox)[i] = outbox[i + 1]
      /\ Head(outbox) = outbox[1] /\ Head(outbox) \in 0..Len(sent) /\ 1 \in 1..Len(outbox)
  BY <1>0, <1>1, TailOfQueue DEF NumbersKnown
<1>6. OneAnnouncement'
  <2>1. \A i \in 1..Len(outbox') : outbox'[i] # Announcement
    <3>. SUFFICES ASSUME NEW i \in 1..Len(outbox')
                  PROVE  outbox'[i] # Announcement
      OBVIOUS
    <3>1. i + 1 \in 1..Len(outbox) /\ outbox'[i] = outbox[i + 1] /\ i + 1 # 1
      BY <1>1, <1>5
    <3>. QED  BY <3>1 DEF PipelineInv, OneAnnouncement
  <2>2. publisherPc # "announce"
    BY <1>1 DEF PipelineInv, OneAnnouncement
  <2>3. announcements' \in 0..1
    <3>1. announcements \in 0..1 /\ (Head(outbox) = Announcement => announcements = 0)
      BY <1>5 DEF PipelineInv, OneAnnouncement
    <3>2. \/ announcements' = announcements
          \/ Head(outbox) = Announcement /\ announcements' = announcements + 1
      BY DEF BrokerTakes
    <3>. QED  BY <3>1, <3>2
  <2>. QED  BY <1>1, <2>1, <2>2, <2>3 DEF OneAnnouncement, Announcement
<1>7. \/ feed' = feed
      \/ feed' = Append(feed, Head(outbox)) /\ Head(outbox) # Announcement
  BY DEF BrokerTakes, Copied
<1>8. feed' \in Seq(1..Len(sent))
  <2>1. CASE feed' = feed
    BY <1>0, <2>1 DEF NumbersKnown
  <2>2. CASE feed' = Append(feed, Head(outbox)) /\ Head(outbox) # Announcement
    <3>1. Head(outbox) \in 1..Len(sent)
      BY <1>5, <2>2 DEF Announcement
    <3>. QED  BY <1>0, <2>2, <3>1, AppendToQueue DEF NumbersKnown
  <2>. QED  BY <1>7, <2>1, <2>2
<1>9. NumbersKnown'
  BY <1>0, <1>1, <1>5, <1>8 DEF NumbersKnown, Messages, RawMessage
<1>10. Sorted(OwnNumbers, Way)'
  <2>1. /\ ShownAfter(processed, reports)' = ShownAfter(processed, reports)
        /\ Waiting' = Waiting /\ OwnNumbers' = OwnNumbers
    BY <1>1, WayStays DEF OwnNumbers
  <2>2. feed' \in Seq(Nat) /\ outbox' \in Seq(Nat)
    <3>1. 1..Len(sent) \subseteq Nat /\ 0..Len(sent) \subseteq Nat
      BY <1>0 DEF NumbersKnown
    <3>. QED  BY <1>1, <1>5, <1>8, <3>1, SequenceOver
  <2>3. PICK way, way2 : WayStep(OwnNumbers, way, way2)
    <3>1. /\ received' \in Seq(Nat) /\ inbox' \in Seq(Nat)
          /\ ShownAfter(processed, reports)' \in Seq(Nat) /\ Waiting' \in Seq(Nat)
      BY <1>0, <1>1, <2>1, PlacesNow
    <3>. QED  BY <2>1, <2>2, <3>1, TheWay
  <2>4. CASE feed' = feed
    <3>1. /\ way[6] # << >> /\ way2[6] = Tail(way[6])
          /\ \A k \in Places \ {6} : way2[k] = way[k]
      BY <1>1, <2>1, <2>3, <2>4 DEF Places, WayStep
    <3>2. \A k \in Places : way2[k] = way[k] \/ (way[k] # << >> /\ way2[k] = Tail(way[k]))
      BY <3>1, Zenon
    <3>3. Sorted(OwnNumbers, way2)
      BY <2>3, <3>2, SortedLess DEF WayStep
    <3>. QED  BY <2>3, <3>3 DEF WayStep
  <2>5. CASE feed' = Append(feed, Head(outbox))
    <3>1. /\ way[6] # << >> /\ way2[5] = Append(way[5], Head(way[6]))
          /\ way2[6] = Tail(way[6])
          /\ \A k \in Places \ {5, 6} : way2[k] = way[k]
      BY <1>1, <2>1, <2>3, <2>5 DEF Places, WayStep
    <3>2. Moved(way, way2, 5)
      BY <3>1 DEF Moved
    <3>3. Sorted(OwnNumbers, way2)
      BY <2>3, <3>2, SortedMove DEF WayStep
    <3>. QED  BY <2>3, <3>3 DEF WayStep
  <2>. QED  BY <1>7, <2>4, <2>5
<1>. QED  BY <1>2, <1>3, <1>4, <1>6, <1>9, <1>10 DEF PipelineInv

(* Another program sends: its number is not one of the client's.           *)
LEMMA OtherSendsInv ==
  ASSUME PipelineInv, NEW m \in OtherMessages, OtherSends(m)
  PROVE  PipelineInv'
<1>. DEFINE e == Len(sent) + 1
<1>0. NumbersKnown /\ QueuesFit
  BY DEF PipelineInv
<1>1. /\ outbox' = outbox /\ inbox' = inbox /\ received' = received
      /\ UNCHANGED <<serviceVars, queueVars, processed>>
      /\ announcements' = announcements /\ kept' = kept
      /\ feedBound' = feedBound /\ servicePc' = servicePc
      /\ publisherPc' = publisherPc /\ consumerPc' = consumerPc
      /\ sent' = Append(sent, m) /\ Len(sent) < MaxSent
      /\ foreign' = foreign \cup {Len(sent')}
      /\ (feed' = feed \/ feed' = Append(feed, Len(sent')))
  BY DEF OtherSends, Copied, consumerVars, serviceVars
<1>2. m \in Messages
  BY DEF Messages
<1>3. /\ sent' \in Seq(Messages) /\ Len(sent') = e /\ Len(sent') <= MaxSent
      /\ Len(sent) \in Nat
      /\ outbox \in Seq(0..Len(sent')) /\ feed \in Seq(1..Len(sent'))
      /\ inbox \in Seq(1..Len(sent')) /\ received \in Seq(1..Len(sent'))
      /\ kept \subseteq 1..Len(sent') /\ foreign \subseteq 1..Len(sent')
  BY <1>0, <1>1, <1>2, NumbersGrow
<1>4. e \in Nat \ {0} /\ e \in 1..Len(sent')
  BY <1>3
<1>5. QueuesFit' /\ ServiceIsSet' /\ FramesOfTheirMessages' /\ AnswersOfTheirPictures'
  BY <1>1, <1>2, QueuesStay DEF SentGrows
<1>6. KeptAreNotOffered'
  BY <1>1, <1>2, KeptStay DEF PipelineInv, SentGrows
<1>7. ProgramCounters'
  BY <1>1 DEF PipelineInv, ProgramCounters, OtherSends, consumerVars
<1>8. OneAnnouncement'
  BY <1>1 DEF PipelineInv, OneAnnouncement, Announcement
<1>9. OwnNumbers' = OwnNumbers
  <2>1. 1..Len(sent') = (1..Len(sent)) \cup {e}
    BY <1>3
  <2>2. e \notin 1..Len(sent)
    BY <1>3
  <2>. QED  BY <1>1, <1>3, <2>1, <2>2 DEF OwnNumbers
<1>10. e \notin OwnNumbers
  BY <1>3 DEF OwnNumbers
<1>. HIDE DEF e
<1>11. feed' \in Seq(1..Len(sent'))
  <2>1. Append(feed, Len(sent')) \in Seq(1..Len(sent'))
    BY <1>3, <1>4, AppendToQueue
  <2>. QED  BY <1>1, <1>3, <2>1
<1>12. NumbersKnown'
  BY <1>1, <1>3, <1>4, <1>11 DEF NumbersKnown, Messages, RawMessage
<1>13. Sorted(OwnNumbers, Way)'
  <2>1. ShownAfter(processed, reports)' = ShownAfter(processed, reports) /\ Waiting' = Waiting
    BY <1>1, WayStays
  <2>2. feed' \in Seq(Nat)
    <3>1. 1..Len(sent') \subseteq Nat
      BY <1>3, <1>4
    <3>. QED  BY <1>11, <3>1, SequenceOver
  <2>3. PICK way, way2 : WayStep(OwnNumbers, way, way2)
    <3>1. /\ received' \in Seq(Nat) /\ inbox' \in Seq(Nat) /\ outbox' \in Seq(Nat)
          /\ ShownAfter(processed, reports)' \in Seq(Nat) /\ Waiting' \in Seq(Nat)
      BY <1>0, <1>1, <2>1, PlacesNow
    <3>. QED  BY <1>9, <2>2, <3>1, TheWay
  <2>4. CASE feed' = feed
    <3>1. \A k \in Places : way2[k] = way[k]
      BY <1>1, <2>1, <2>3, <2>4 DEF Places, WayStep
    <3>2. Sorted(OwnNumbers, way2)
      BY <2>3, <3>1, SortedLess DEF WayStep
    <3>. QED  BY <2>3, <3>2 DEF WayStep
  <2>5. CASE feed' = Append(feed, Len(sent'))
    <3>1. way2[5] = Append(way[5], e) /\ \A k \in Places \ {5} : way2[k] = way[k]
      BY <1>1, <1>3, <2>1, <2>3, <2>5 DEF Places, WayStep
    <3>2. e \in Nat \ OwnNumbers /\ 5 \in Places
      BY <1>4, <1>10 DEF Places
    <3>3. Sorted(OwnNumbers, way2)
      BY <2>3, <3>1, <3>2, SortedOther DEF WayStep
    <3>. QED  BY <2>3, <3>3 DEF WayStep
  <2>. QED  BY <1>1, <2>4, <2>5
<1>. QED  BY <1>5, <1>6, <1>7, <1>8, <1>12, <1>13 DEF PipelineInv

(* The queue of the service is bound.                                      *)
LEMMA BindFeedInv ==
  ASSUME PipelineInv, BindFeed
  PROVE  PipelineInv'
<1>1. /\ UNCHANGED <<clientVars, serviceVars, queueVars, processed>>
      /\ sent' = sent /\ kept' = kept /\ foreign' = foreign /\ feed' = feed
      /\ received' = received /\ inbox' = inbox /\ outbox' = outbox
      /\ announcements' = announcements
  BY DEF BindFeed, clientVars, publisherVars, consumerVars
<1>2. QueuesFit' /\ ServiceIsSet' /\ FramesOfTheirMessages' /\ AnswersOfTheirPictures'
  BY <1>1, QueuesStay DEF SentGrows
<1>3. KeptAreNotOffered'
  BY <1>1, KeptStay DEF PipelineInv, SentGrows
<1>4. ProgramCounters' /\ OneAnnouncement' /\ NumbersKnown'
  BY <1>1 DEF PipelineInv, ProgramCounters, OneAnnouncement, NumbersKnown, BindFeed,
              Announcement, Messages, RawMessage,
              clientVars, publisherVars, consumerVars, serviceVars
<1>5. Sorted(OwnNumbers, Way)'
  <2>1. Way' = Way /\ OwnNumbers' = OwnNumbers
    BY <1>1, WayStays DEF Way, OwnNumbers
  <2>. QED  BY <2>1 DEF PipelineInv, Sorted, Ascending, Before, Has
<1>. QED  BY <1>2, <1>3, <1>4, <1>5 DEF PipelineInv

-----------------------------------------------------------------------------
(* Steps of the service leave the client where it is.                      *)
LEMMA ClientStays ==
  ASSUME PipelineInv, UNCHANGED clientVars,
         feedBound' = feedBound, foreign' = foreign,
         servicePc' \in ServicePlaces,
         \/ announcements' = announcements
         \/ announcements > 0 /\ announcements' = announcements - 1
  PROVE  /\ ProgramCounters' /\ OneAnnouncement'
         /\ sent' = sent /\ outbox' = outbox /\ inbox' = inbox /\ received' = received
         /\ SentGrows /\ OwnNumbers' = OwnNumbers
<1>1. ProgramCounters'
  BY DEF PipelineInv, ProgramCounters, clientVars, publisherVars, consumerVars
<1>2. announcements' \in 0..1 /\ (announcements = 0 => announcements' = 0)
  BY DEF PipelineInv, OneAnnouncement
<1>3. OneAnnouncement'
  BY <1>2 DEF PipelineInv, OneAnnouncement, Announcement, clientVars, publisherVars
<1>. QED
  BY <1>1, <1>3 DEF clientVars, publisherVars, consumerVars, SentGrows, OwnNumbers

(* The queue of the client's source stays.                                 *)
LEMMA WaitingSame ==
  ASSUME (SRC \in DOMAIN pending') <=> (SRC \in DOMAIN pending),
         SRC \in DOMAIN pending => pending'[SRC] = pending[SRC]
  PROVE  Waiting' = Waiting
BY DEF Waiting

(* main() starts the service, or ends.                                     *)
LEMMA ReadOptionsInv ==
  ASSUME PipelineInv, ReadOptions
  PROVE  PipelineInv'
<1>1. /\ UNCHANGED <<clientVars, queueVars, processed>>
      /\ kept' = kept /\ foreign' = foreign /\ feed' = feed /\ feedBound' = feedBound
      /\ announcements' = announcements
      /\ servicePc = "options"
      /\ \/ servicePc' = "register" /\ configuration' \in Configurations
         \/ servicePc' = "ended"
  <2>1. PICK start \in Starts :
          IF Outcome(start[1], start[2]) = "running"
          THEN servicePc' = "register" /\ configuration' = Configuration(start[1], start[2])
          ELSE servicePc' = "ended" /\ UNCHANGED configuration
    BY DEF ReadOptions
  <2>2. CASE Outcome(start[1], start[2]) = "running"
    <3>1. start \in {s \in Starts : Outcome(s[1], s[2]) = "running"}
      BY <2>2
    <3>2. Configuration(start[1], start[2]) \in Configurations
      BY <3>1 DEF Configurations
    <3>. QED  BY <2>1, <2>2, <3>2 DEF ReadOptions, brokerVars
  <2>3. CASE Outcome(start[1], start[2]) # "running"
    BY <2>1, <2>3 DEF ReadOptions, brokerVars
  <2>. QED  BY <2>2, <2>3
<1>2. /\ ProgramCounters' /\ OneAnnouncement'
      /\ sent' = sent /\ outbox' = outbox /\ inbox' = inbox /\ received' = received
      /\ SentGrows /\ OwnNumbers' = OwnNumbers
  BY <1>1, ClientStays DEF ServicePlaces
<1>3. DOMAIN pending = {} /\ Len(reports) = 0
  BY <1>1 DEF PipelineInv, ServiceIsSet
<1>4. pending' = pending /\ reports' = reports
  BY <1>1 DEF queueVars
<1>5. FramesOfTheirMessages' /\ AnswersOfTheirPictures'
  BY <1>3, <1>4 DEF FramesOfTheirMessages, AnswersOfTheirPictures
<1>6. QueuesFit'
  BY <1>1 DEF PipelineInv, QueuesFit, queueVars, Queues!TypeOK, Report, WarmUp
<1>7. ServiceIsSet'
  BY <1>1, <1>3, <1>4 DEF ServiceIsSet
<1>8. NumbersKnown' /\ KeptAreNotOffered'
  BY <1>1, <1>2, KeptStay DEF PipelineInv, NumbersKnown, Messages, RawMessage
<1>9. Sorted(OwnNumbers, Way)'
  <2>1. Way' = Way
    BY <1>1, <1>2, WayStays DEF Way
  <2>. QED  BY <1>2, <2>1 DEF PipelineInv, Sorted, Ascending, Before, Has
<1>. QED  BY <1>2, <1>5, <1>6, <1>7, <1>8, <1>9 DEF PipelineInv

(* register_source and unregister_source of the warm-up, its frame, and    *)
(* set_publisher.                                                          *)
LEMMA WarmUpInv ==
  ASSUME PipelineInv, RegisterWarmUp \/ OfferWarmUp \/ EndWarmUp \/ SetUp
  PROVE  PipelineInv'
<1>0. NumbersKnown /\ QueuesFit /\ Queues!TypeOK /\ configuration \in Configurations
  BY DEF PipelineInv, QueuesFit, ServiceIsSet, RegisterWarmUp, OfferWarmUp, EndWarmUp, SetUp
<1>1. /\ UNCHANGED clientVars
      /\ configuration' = configuration /\ reports' = reports /\ processed' = processed
      /\ kept' = kept /\ foreign' = foreign /\ feed' = feed /\ feedBound' = feedBound
      /\ announcements' = announcements
      /\ servicePc' \in {"offer", "sleep", "publisher", "running"}
  BY DEF RegisterWarmUp, OfferWarmUp, EndWarmUp, SetUp, brokerVars, queueVars
<1>2. /\ ProgramCounters' /\ OneAnnouncement'
      /\ sent' = sent /\ outbox' = outbox /\ inbox' = inbox /\ received' = received
      /\ SentGrows /\ OwnNumbers' = OwnNumbers
  BY <1>1, ClientStays DEF ServicePlaces
<1>3. /\ Queues!TypeOK' /\ results' = results
      /\ \A t \in DOMAIN pending \cup DOMAIN pending' :
            t # WarmUp => t \in DOMAIN pending /\ t \in DOMAIN pending' /\ pending'[t] = pending[t]
      /\ WarmUp \in DOMAIN pending' => \A i \in 1..Len(pending'[WarmUp]) :
            \/ WarmUp \in DOMAIN pending
               /\ \E j \in 1..Len(pending[WarmUp]) : pending'[WarmUp][i] = pending[WarmUp][j]
            \/ IsPictureOf(WarmUp, pending'[WarmUp][i].kind.message,
                           pending'[WarmUp][i].kind.picture)
  <2>1. CASE RegisterWarmUp
    <3>1. Queues!Register(WarmUp)
      BY <2>1 DEF RegisterWarmUp
    <3>. QED  BY <1>0, <3>1, RegisterEffect
  <2>2. CASE OfferWarmUp
    <3>1. PICK picture \in Pictures : picture = WarmUpPicture(configuration)
      BY <1>0 DEF Pictures
    <3>2. Queues!Accept(WarmUp, [message |-> 0, picture |-> picture])
      BY <2>2, <3>1 DEF OfferWarmUp
    <3>3. 0 \in 0..MaxSent
      BY Identifiers
    <3>4. /\ Queues!TypeOK' /\ results' = results
          /\ WarmUp \in DOMAIN pending /\ DOMAIN pending' = DOMAIN pending
          /\ \E f \in Queues!Frame : /\ f.kind.message = 0 /\ f.kind.picture = picture
                                     /\ pending'[WarmUp] = Append(pending[WarmUp], f)
          /\ \A t \in DOMAIN pending \ {WarmUp} : pending'[t] = pending[t]
      BY <1>0, <3>2, <3>3, AcceptEffect
    <3>5. PICK f \in Queues!Frame : /\ f.kind.message = 0 /\ f.kind.picture = picture
                                    /\ pending'[WarmUp] = Append(pending[WarmUp], f)
      BY <3>4
    <3>6. IsPictureOf(WarmUp, f.kind.message, f.kind.picture)
      BY <3>1, <3>5 DEF IsPictureOf
    <3>7. /\ Len(pending'[WarmUp]) = Len(pending[WarmUp]) + 1 /\ Len(pending[WarmUp]) \in Nat
          /\ \A i \in 1..Len(pending[WarmUp]) : pending'[WarmUp][i] = pending[WarmUp][i]
          /\ pending'[WarmUp][Len(pending[WarmUp]) + 1] = f
      BY <1>0, <3>4, <3>5, QueueType, AppendToQueue
    <3>8. \A i \in 1..Len(pending'[WarmUp]) :
            i \in 1..Len(pending[WarmUp]) \/ i = Len(pending[WarmUp]) + 1
      BY <3>7
    <3>. QED  BY <3>4, <3>6, <3>7, <3>8
  <2>3. CASE EndWarmUp
    <3>1. Queues!Unregister(WarmUp)
      BY <2>3 DEF EndWarmUp
    <3>2. /\ Queues!TypeOK' /\ results' = results
          /\ DOMAIN pending' = DOMAIN pending \ {WarmUp}
          /\ \A t \in DOMAIN pending' : pending'[t] = pending[t]
      BY <1>0, <3>1, UnregisterEffect
    <3>. QED  BY <3>2
  <2>4. CASE SetUp
    <3>1. pending' = pending /\ accepted' = accepted /\ results' = results
      BY <2>4 DEF SetUp, queueVars
    <3>2. Queues!TypeOK'
      BY <1>0, <3>1 DEF Queues!TypeOK
    <3>. QED  BY <3>1, <3>2
  <2>. QED  BY <2>1, <2>2, <2>3, <2>4
<1>4. FramesOfTheirMessages'
  <2>1. \A s \in DOMAIN pending' : \A i \in 1..Len(pending'[s]) :
           \/ s \in DOMAIN pending /\ \E j \in 1..Len(pending[s]) : pending'[s][i] = pending[s][j]
           \/ IsPictureOf(s, pending'[s][i].kind.message, pending'[s][i].kind.picture)
    BY <1>3
  <2>. QED  BY <1>0, <1>1, <1>2, <2>1, FramesStay DEF PipelineInv
<1>5. AnswersOfTheirPictures'
  BY <1>0, <1>1, <1>2, AnswersStay DEF PipelineInv
<1>6. QueuesFit'
  BY <1>0, <1>1, <1>3 DEF QueuesFit, Report, WarmUp
<1>7. ServiceIsSet'
  BY <1>0, <1>1 DEF ServiceIsSet
<1>8. NumbersKnown' /\ KeptAreNotOffered'
  BY <1>1, <1>2, KeptStay DEF PipelineInv, NumbersKnown, Messages, RawMessage
<1>9. Sorted(OwnNumbers, Way)'
  <2>1. Waiting' = Waiting
    BY <1>3, Identifiers, WaitingSame
  <2>2. Way' = Way
    BY <1>1, <1>2, <2>1 DEF Way
  <2>. QED  BY <1>2, <2>2 DEF PipelineInv, Sorted, Ascending, Before, Has
<1>. QED  BY <1>2, <1>4, <1>5, <1>6, <1>7, <1>8, <1>9 DEF PipelineInv

(* The source of the client is registered, if it is not yet.               *)
LEMMA ReadAnnouncementInv ==
  ASSUME PipelineInv, ReadAnnouncement
  PROVE  PipelineInv'
<1>0. NumbersKnown /\ QueuesFit /\ Queues!TypeOK /\ configuration \in Configurations
  BY DEF PipelineInv, QueuesFit, ServiceIsSet, ReadAnnouncement
<1>1. /\ UNCHANGED <<clientVars, serviceVars>> /\ servicePc' = servicePc
      /\ configuration' = configuration /\ reports' = reports /\ processed' = processed
      /\ kept' = kept /\ foreign' = foreign /\ feed' = feed /\ feedBound' = feedBound
      /\ announcements > 0 /\ announcements' = announcements - 1
      /\ servicePc = "running" /\ Queues!Register(SRC)
  BY DEF ReadAnnouncement, serviceVars
<1>2. /\ ProgramCounters' /\ OneAnnouncement'
      /\ sent' = sent /\ outbox' = outbox /\ inbox' = inbox /\ received' = received
      /\ SentGrows /\ OwnNumbers' = OwnNumbers
  BY <1>1, ClientStays DEF ServicePlaces
<1>3. /\ Queues!TypeOK' /\ results' = results
      /\ SRC \notin DOMAIN pending /\ DOMAIN pending' = DOMAIN pending \cup {SRC}
      /\ pending'[SRC] = << >>
      /\ \A t \in DOMAIN pending : pending'[t] = pending[t]
  BY <1>0, <1>1, RegisterEffect
<1>4. FramesOfTheirMessages'
  <2>1. \A s \in DOMAIN pending' : \A i \in 1..Len(pending'[s]) :
           \/ s \in DOMAIN pending /\ \E j \in 1..Len(pending[s]) : pending'[s][i] = pending[s][j]
           \/ IsPictureOf(s, pending'[s][i].kind.message, pending'[s][i].kind.picture)
    BY <1>3
  <2>. QED  BY <1>0, <1>1, <1>2, <2>1, FramesStay DEF PipelineInv
<1>5. AnswersOfTheirPictures'
  BY <1>0, <1>1, <1>2, AnswersStay DEF PipelineInv
<1>6. QueuesFit'
  BY <1>0, <1>1, <1>3 DEF QueuesFit, Report, WarmUp
<1>7. ServiceIsSet'
  BY <1>0, <1>1 DEF ServiceIsSet
<1>8. NumbersKnown' /\ KeptAreNotOffered'
  BY <1>1, <1>2, KeptStay DEF PipelineInv, NumbersKnown, Messages, RawMessage
<1>9. Sorted(OwnNumbers, Way)'
  <2>1. Waiting' = Waiting
    BY <1>3 DEF Waiting, Numbers
  <2>2. Way' = Way
    BY <1>1, <1>2, <2>1 DEF Way
  <2>. QED  BY <1>2, <2>2 DEF PipelineInv, Sorted, Ascending, Before, Has
<1>. QED  BY <1>2, <1>4, <1>5, <1>6, <1>7, <1>8, <1>9 DEF PipelineInv

-----------------------------------------------------------------------------
(* A frame leaves the queue of the broker: it is queued by the service,    *)
(* or dropped; its message is acknowledged, or kept.                       *)
Queued(n) ==
  /\ IsOffered(sent[n]) /\ HasRoom(sent[n].srcid)
  /\ Queues!Accept(sent[n].srcid, [message |-> n, picture |-> FrameOf(sent[n])])

(* What happens in the queues when a frame is accepted.                    *)
LEMMA QueuedEffect ==
  ASSUME NumbersKnown, QueuesFit, NEW n \in 1..Len(sent), Queued(n)
  PROVE  /\ Queues!TypeOK' /\ results' = results
         /\ sent[n].srcid \in DOMAIN pending /\ DOMAIN pending' = DOMAIN pending
         /\ \E f \in Queues!Frame :
              /\ f.kind.message = n /\ IsPictureOf(sent[n].srcid, f.kind.message, f.kind.picture)
              /\ pending'[sent[n].srcid] = Append(pending[sent[n].srcid], f)
         /\ \A t \in DOMAIN pending \ {sent[n].srcid} : pending'[t] = pending[t]
<1>1. n \in 0..MaxSent /\ sent[n] \in Messages
  BY Identifiers DEF NumbersKnown
<1>2. PICK picture : picture = FrameOf(sent[n])
  OBVIOUS
<1>3. picture \in Pictures
  <2>1. sent[n] \in {m \in Messages : IsOffered(m)}
    BY <1>1 DEF Queued
  <2>. QED  BY <1>2, <2>1 DEF Pictures
<1>4. IsPictureOf(sent[n].srcid, n, picture)
  BY <1>2 DEF IsPictureOf, Queued
<1>5. PICK s : s = sent[n].srcid
  OBVIOUS
<1>6. Queues!Accept(s, [message |-> n, picture |-> picture])
  BY <1>2, <1>5 DEF Queued
<1>7. /\ Queues!TypeOK' /\ results' = results
      /\ s \in DOMAIN pending /\ DOMAIN pending' = DOMAIN pending
      /\ \E f \in Queues!Frame : /\ f.kind.message = n /\ f.kind.picture = picture
                                 /\ pending'[s] = Append(pending[s], f)
      /\ \A t \in DOMAIN pending \ {s} : pending'[t] = pending[t]
  BY <1>1, <1>3, <1>6, AcceptEffect DEF QueuesFit
<1>. QED  BY <1>4, <1>5, <1>7

(* A frame more in a queue is the picture of its message.                  *)
LEMMA QueuedFrames ==
  ASSUME NumbersKnown, QueuesFit, FramesOfTheirMessages, sent' = sent,
         configuration' = configuration, NEW n \in 1..Len(sent), Queued(n)
  PROVE  FramesOfTheirMessages'
<1>1. PICK s : s = sent[n].srcid
  OBVIOUS
<1>2. /\ s \in DOMAIN pending /\ DOMAIN pending' = DOMAIN pending
      /\ \A t \in DOMAIN pending \ {s} : pending'[t] = pending[t]
  BY <1>1, QueuedEffect
<1>3. PICK f \in Queues!Frame : /\ IsPictureOf(s, f.kind.message, f.kind.picture)
                                /\ pending'[s] = Append(pending[s], f)
  BY <1>1, QueuedEffect
<1>4. /\ Len(pending'[s]) = Len(pending[s]) + 1 /\ Len(pending[s]) \in Nat
      /\ \A i \in 1..Len(pending[s]) : pending'[s][i] = pending[s][i]
      /\ pending'[s][Len(pending[s]) + 1] = f
  BY <1>2, <1>3, QueueType, AppendToQueue DEF QueuesFit
<1>5. \A i \in 1..Len(pending'[s]) : i \in 1..Len(pending[s]) \/ i = Len(pending[s]) + 1
  BY <1>4
<1>6. \A t \in DOMAIN pending' : \A i \in 1..Len(pending'[t]) :
         \/ t \in DOMAIN pending /\ \E j \in 1..Len(pending[t]) : pending'[t][i] = pending[t][j]
         \/ IsPictureOf(t, pending'[t][i].kind.message, pending'[t][i].kind.picture)
  BY <1>2, <1>3, <1>4, <1>5
<1>. QED  BY <1>6, FramesStay DEF SentGrows

(* The number of the frame comes to the end of the numbers that wait.      *)
LEMMA QueuedWaits ==
  ASSUME NumbersKnown, QueuesFit, NEW n \in 1..Len(sent), Queued(n)
  PROVE  Waiting' = IF sent[n].srcid = SRC THEN Append(Waiting, n) ELSE Waiting
<1>1. CASE sent[n].srcid = SRC
  <2>1. /\ SRC \in DOMAIN pending /\ DOMAIN pending' = DOMAIN pending
        /\ \E f \in Queues!Frame : f.kind.message = n /\ pending'[SRC] = Append(pending[SRC], f)
    BY <1>1, QueuedEffect
  <2>2. PICK f \in Queues!Frame : f.kind.message = n /\ pending'[SRC] = Append(pending[SRC], f)
    BY <2>1
  <2>3. PICK queue, queue2 : queue = pending[SRC] /\ queue2 = pending'[SRC]
    OBVIOUS
  <2>4. queue \in Seq(Queues!Frame)
    BY <2>1, <2>3, QueueType DEF QueuesFit
  <2>5. Numbers(queue2) = Append(Numbers(queue), n)
    BY <2>2, <2>3, <2>4, FrameType, NumbersAppend
  <2>6. Waiting = Numbers(queue)
    BY <2>1, <2>3 DEF Waiting
  <2>7. Waiting' = Numbers(queue2)
    BY <2>1, <2>3 DEF Waiting, Numbers
  <2>. QED  BY <1>1, <2>5, <2>6, <2>7
<1>2. CASE sent[n].srcid # SRC
  <2>1. (SRC \in DOMAIN pending') <=> (SRC \in DOMAIN pending)
    BY QueuedEffect
  <2>2. SRC \in DOMAIN pending => pending'[SRC] = pending[SRC]
    BY <1>2, QueuedEffect
  <2>. QED  BY <1>2, <2>1, <2>2, WaitingSame
<1>. QED  BY <1>1, <1>2

(* Either way the number leaves the last place but one.                    *)
LEMMA FrameArrivesInv ==
  ASSUME PipelineInv, FrameArrives
  PROVE  PipelineInv'
<1>0. NumbersKnown /\ QueuesFit /\ FramesOfTheirMessages
  BY DEF PipelineInv
<1>1. /\ UNCHANGED <<clientVars, serviceVars>> /\ servicePc' = servicePc
      /\ configuration' = configuration /\ reports' = reports /\ processed' = processed
      /\ foreign' = foreign /\ feedBound' = feedBound /\ announcements' = announcements
      /\ feed # << >> /\ feed' = Tail(feed)
  BY DEF FrameArrives, serviceVars
<1>2. PICK n : n = Head(feed)
  OBVIOUS
<1>3. n \in 1..Len(sent) /\ feed' \in Seq(1..Len(sent))
  BY <1>0, <1>1, <1>2, TailOfQueue DEF NumbersKnown
<1>4. /\ Queued(n) \/ UNCHANGED <<pending, accepted, results>>
      /\ kept' = kept \/ (kept' = kept \cup {n} /\ ~IsAcked(sent[n]))
  BY <1>2 DEF FrameArrives, Queued
<1>5. /\ ProgramCounters' /\ OneAnnouncement'
      /\ sent' = sent /\ outbox' = outbox /\ inbox' = inbox /\ received' = received
      /\ SentGrows /\ OwnNumbers' = OwnNumbers
  <2>1. servicePc' \in ServicePlaces
    BY <1>1 DEF PipelineInv, ProgramCounters
  <2>. QED  BY <1>1, <2>1, ClientStays
<1>6. Queues!TypeOK' /\ results' = results /\ DOMAIN pending' = DOMAIN pending
  <2>1. CASE Queued(n)
    BY <1>0, <1>3, <2>1, QueuedEffect
  <2>2. CASE UNCHANGED <<pending, accepted, results>>
    BY <1>0, <2>2 DEF QueuesFit, Queues!TypeOK
  <2>. QED  BY <1>4, <2>1, <2>2
<1>7. FramesOfTheirMessages'
  <2>1. CASE Queued(n)
    BY <1>0, <1>1, <1>3, <1>5, <2>1, QueuedFrames
  <2>2. CASE UNCHANGED <<pending, accepted, results>>
    BY <1>0, <1>1, <1>5, <2>2, FramesStay
  <2>. QED  BY <1>4, <2>1, <2>2
<1>8. AnswersOfTheirPictures'
  BY <1>0, <1>1, <1>5, AnswersStay DEF PipelineInv
<1>9. QueuesFit'
  BY <1>0, <1>1, <1>6 DEF QueuesFit, Report, WarmUp
<1>10. ServiceIsSet'
  BY <1>1, <1>6 DEF PipelineInv, ServiceIsSet
<1>11. KeptAreNotOffered'
  <2>1. ~IsAcked(sent[n]) => ~IsOffered(sent[n])
    BY DEF IsAcked
  <2>. QED  BY <1>4, <1>5, <2>1 DEF PipelineInv, KeptAreNotOffered
<1>12. NumbersKnown'
  BY <1>0, <1>1, <1>3, <1>4, <1>5 DEF NumbersKnown, Messages, RawMessage
<1>13. Sorted(OwnNumbers, Way)'
  <2>1. Waiting' = Waiting \/ Waiting' = Append(Waiting, n)
    <3>1. CASE Queued(n)
      BY <1>0, <1>3, <3>1, QueuedWaits
    <3>2. CASE UNCHANGED <<pending, accepted, results>>
      BY <3>2, WaitingSame
    <3>. QED  BY <1>4, <3>1, <3>2
  <2>2. n \in Nat /\ feed' \in Seq(Nat)
    <3>1. 1..Len(sent) \subseteq Nat
      BY <1>0 DEF NumbersKnown
    <3>. QED  BY <1>3, <3>1, SequenceOver
  <2>3. Waiting' \in Seq(Nat)
    <3>1. Waiting \in Seq(Nat)
      BY <1>0, PlacesNow
    <3>2. Append(Waiting, n) \in Seq(Nat)
      BY <2>2, <3>1, AppendToQueue
    <3>. QED  BY <2>1, <3>1, <3>2
  <2>4. ShownAfter(processed, reports)' = ShownAfter(processed, reports)
    BY <1>1
  <2>5. PICK way, way2 : WayStep(OwnNumbers, way, way2)
    <3>1. /\ received' \in Seq(Nat) /\ inbox' \in Seq(Nat) /\ outbox' \in Seq(Nat)
          /\ ShownAfter(processed, reports)' \in Seq(Nat)
      BY <1>0, <1>5, <2>4, PlacesNow
    <3>. QED  BY <1>5, <2>2, <2>3, <3>1, TheWay
  <2>6. CASE Waiting' = Waiting
    <3>1. /\ way[5] # << >> /\ way2[5] = Tail(way[5])
          /\ \A k \in Places \ {5} : way2[k] = way[k]
      BY <1>1, <1>5, <2>4, <2>5, <2>6 DEF Places, WayStep
    <3>2. \A k \in Places : way2[k] = way[k] \/ (way[k] # << >> /\ way2[k] = Tail(way[k]))
      BY <3>1, Zenon
    <3>3. Sorted(OwnNumbers, way2)
      BY <2>5, <3>2, SortedLess DEF WayStep
    <3>. QED  BY <2>5, <3>3 DEF WayStep
  <2>7. CASE Waiting' = Append(Waiting, n)
    <3>1. /\ way[5] # << >> /\ way2[4] = Append(way[4], Head(way[5]))
          /\ way2[5] = Tail(way[5])
          /\ \A k \in Places \ {4, 5} : way2[k] = way[k]
      BY <1>1, <1>2, <1>5, <2>4, <2>5, <2>7 DEF Places, WayStep
    <3>2. Moved(way, way2, 4)
      BY <3>1 DEF Moved
    <3>3. Sorted(OwnNumbers, way2)
      BY <2>5, <3>2, SortedMove DEF WayStep
    <3>. QED  BY <2>5, <3>3 DEF WayStep
  <2>. QED  BY <2>1, <2>6, <2>7
<1>. QED  BY <1>5, <1>7, <1>8, <1>9, <1>10, <1>11, <1>12, <1>13 DEF PipelineInv

(* What the detection thread sees of a frame.                              *)
LEMMA SeenIsView ==
  ASSUME NumbersKnown, configuration \in Configurations, NEW s, NEW kind,
         IsPictureOf(s, kind.message, kind.picture), NEW picture \in Seen(kind)
  PROVE  IsSeenOf(s, kind.message, picture) /\ picture \in Views
<1>1. CASE s = WarmUp /\ kind.message = 0 /\ kind.picture = WarmUpPicture(configuration)
  <2>1. picture = WarmUpPicture(configuration)
    BY <1>1 DEF Seen
  <2>2. picture \in {WarmUpPicture(c) : c \in Configurations}
    BY <2>1
  <2>. QED  BY <1>1, <2>1, <2>2 DEF IsSeenOf, Views
<1>2. CASE /\ kind.message \in 1..Len(sent) /\ sent[kind.message].srcid = s
           /\ IsOffered(sent[kind.message]) /\ kind.picture = FrameOf(sent[kind.message])
  <2>1. sent[kind.message] \in Messages /\ kind.message # 0
    BY <1>2 DEF NumbersKnown
  <2>2. picture \in ReadLater(sent[kind.message], FrameOf(sent[kind.message]))
    BY <1>2, <2>1 DEF Seen
  <2>. QED  BY <1>2, <2>1, <2>2 DEF IsSeenOf, Views
<1>. QED  BY <1>1, <1>2 DEF IsPictureOf

(* A frame is answered.                                                    *)
LEMMA DetectInv ==
  ASSUME PipelineInv, NEW s \in {WarmUp, SRC}, Detect(s)
  PROVE  PipelineInv'
<1>. DEFINE f == Head(pending[s])
<1>seen. PICK picture \in Seen(f.kind) :
       /\ ~ModelThrows(picture)
       /\ reports' = Append(reports, [src |-> s, message |-> f.kind.message,
                       detections |-> Answer(configuration, picture)])
  BY DEF Detect
<1>. DEFINE r == [src |-> s, message |-> f.kind.message,
                  detections |-> Answer(configuration, picture)]
<1>0. NumbersKnown /\ QueuesFit /\ Queues!TypeOK
  BY DEF PipelineInv, QueuesFit
<1>1. /\ UNCHANGED <<clientVars, serviceVars>> /\ servicePc' = servicePc
      /\ configuration' = configuration /\ processed' = processed
      /\ kept' = kept /\ feed' = feed
      /\ foreign' = foreign /\ feedBound' = feedBound /\ announcements' = announcements
  BY DEF Detect, serviceVars, brokerVars
<1>2. ~ModelThrows(picture) /\ reports' = Append(reports, r)
  BY <1>seen
<1>3. /\ Queues!TypeOK' /\ Len(results') = Len(results) + 1
      /\ s \in DOMAIN pending /\ DOMAIN pending' = DOMAIN pending
      /\ pending[s] # << >> /\ pending'[s] = Tail(pending[s])
      /\ \A t \in DOMAIN pending \ {s} : pending'[t] = pending[t]
  BY <1>0, DetectEffect DEF Detect
<1>4. /\ pending[s] \in Seq(Queues!Frame) /\ f \in Queues!Frame
      /\ Len(pending'[s]) = Len(pending[s]) - 1
      /\ \A i \in 1..Len(pending'[s]) : i + 1 \in 1..Len(pending[s])
                                        /\ pending'[s][i] = pending[s][i + 1]
      /\ f = pending[s][1] /\ 1 \in 1..Len(pending[s])
  BY <1>0, <1>3, QueueType, TailOfQueue
<1>5. configuration \in Configurations
  BY <1>3 DEF PipelineInv, ServiceIsSet
<1>. HIDE DEF f
<1>6. /\ f.kind.message \in 0..MaxSent /\ picture \in Usable
      /\ IsSeenOf(s, f.kind.message, picture)
  <2>1. IsPictureOf(s, f.kind.message, f.kind.picture)
    BY <1>3, <1>4 DEF PipelineInv, FramesOfTheirMessages
  <2>2. f.kind.message \in 0..MaxSent
    BY <1>4, FrameType
  <2>3. IsSeenOf(s, f.kind.message, picture) /\ picture \in Views
    BY <1>0, <1>5, <1>seen, <2>1, SeenIsView
  <2>. QED  BY <1>2, <2>2, <2>3 DEF Usable
<1>7. r \in Report
  <2>1. Answer(configuration, picture) \in Answers
    BY <1>5, <1>6 DEF Answers
  <2>. QED  BY <1>6, <2>1 DEF Report
<1>8. IsAnswer(r)
  BY <1>6 DEF IsAnswer
<1>9. r.src = s /\ r.message = f.kind.message
  OBVIOUS
<1>. HIDE DEF r
<1>10. /\ reports' \in Seq(Report) /\ Len(reports') = Len(reports) + 1
       /\ \A j \in 1..Len(reports) : reports'[j] = reports[j]
       /\ reports'[Len(reports) + 1] = r /\ Len(reports) \in Nat
  BY <1>0, <1>2, <1>7, AppendToQueue DEF QueuesFit
<1>11. /\ ProgramCounters' /\ OneAnnouncement'
       /\ sent' = sent /\ outbox' = outbox /\ inbox' = inbox /\ received' = received
       /\ SentGrows /\ OwnNumbers' = OwnNumbers
  <2>1. servicePc' \in ServicePlaces
    BY <1>1 DEF PipelineInv, ProgramCounters
  <2>. QED  BY <1>1, <2>1, ClientStays
<1>12. FramesOfTheirMessages'
  <2>1. \A t \in DOMAIN pending' : \A i \in 1..Len(pending'[t]) :
           t \in DOMAIN pending /\ \E j \in 1..Len(pending[t]) : pending'[t][i] = pending[t][j]
    BY <1>3, <1>4
  <2>. QED  BY <1>0, <1>1, <1>11, <2>1, FramesStay DEF PipelineInv
<1>13. AnswersOfTheirPictures'
  <2>. SUFFICES ASSUME NEW j \in 1..Len(reports')
                PROVE  IsAnswer(reports[j])'
    BY DEF AnswersOfTheirPictures
  <2>. PICK q : q = reports'[j]
    OBVIOUS
  <2>1. IsAnswer(q)
    <3>1. CASE j \in 1..Len(reports)
      BY <1>10, <3>1 DEF PipelineInv, AnswersOfTheirPictures
    <3>2. CASE j = Len(reports) + 1
      BY <1>8, <1>10, <3>2
    <3>. QED  BY <1>10, <3>1, <3>2
  <2>2. IsAnswer(q)'
    BY <1>0, <1>1, <1>11, <2>1, AnswerStays
  <2>. QED  BY <2>2
<1>14. QueuesFit'
  <2>1. Report' = Report
    BY DEF Report, WarmUp
  <2>2. processed' \in 0..Len(reports')
    BY <1>0, <1>1, <1>10 DEF QueuesFit
  <2>. QED  BY <1>0, <1>3, <1>10, <2>1, <2>2 DEF QueuesFit
<1>15. ServiceIsSet'
  BY <1>1, <1>3, <1>5 DEF PipelineInv, ServiceIsSet
<1>16. NumbersKnown' /\ KeptAreNotOffered'
  BY <1>1, <1>11, KeptStay DEF PipelineInv, NumbersKnown, Messages, RawMessage
<1>17. Sorted(OwnNumbers, Way)'
  <2>1. ShownAfter(processed, reports)' = Append(ShownAfter(processed, reports), Shown(r))
    BY <1>0, <1>1, <1>2, <1>7, FrameType, ShownAppend DEF QueuesFit
  <2>2. Shown(r) \in Nat
    BY <1>7, FrameType DEF Shown
  <2>3. ShownAfter(processed, reports)' \in Seq(Nat)
    BY <1>0, <2>1, <2>2, PlacesNow, AppendToQueue
  <2>4. CASE s = SRC
    <3>1. /\ Waiting = Numbers(pending[SRC]) /\ Waiting' = Numbers(Tail(pending[SRC]))
      BY <1>3, <2>4 DEF Waiting, Numbers
    <3>2. PICK queue \in Seq(Queues!Frame) : queue = pending[SRC] /\ queue # << >>
      BY <1>3, <1>4, <2>4
    <3>3. /\ Numbers(queue) # << >> /\ Head(Numbers(queue)) = Head(queue).kind.message
          /\ Numbers(Tail(queue)) = Tail(Numbers(queue))
      BY <3>2, FrameType, NumbersTail
    <3>4. Waiting # << >> /\ Head(Waiting) = Shown(r) /\ Waiting' = Tail(Waiting)
      BY <1>9, <2>4, <3>1, <3>2, <3>3 DEF Shown, f
    <3>5. Waiting' \in Seq(Nat)
      BY <1>0, <3>4, PlacesNow, TailOfQueue
    <3>6. PICK way, way2 : WayStep(OwnNumbers, way, way2)
      <4>1. /\ received' \in Seq(Nat) /\ inbox' \in Seq(Nat) /\ outbox' \in Seq(Nat)
            /\ feed' \in Seq(Nat)
        BY <1>0, <1>1, <1>11, PlacesNow
      <4>. QED  BY <1>11, <2>3, <3>5, <4>1, TheWay
    <3>7. /\ way[4] # << >> /\ way2[3] = Append(way[3], Head(way[4]))
          /\ way2[4] = Tail(way[4])
          /\ \A k \in Places \ {3, 4} : way2[k] = way[k]
      BY <1>1, <1>11, <2>1, <3>4, <3>6 DEF Places, WayStep
    <3>8. Moved(way, way2, 3)
      BY <3>7 DEF Moved
    <3>9. Sorted(OwnNumbers, way2)
      BY <3>6, <3>8, SortedMove DEF WayStep
    <3>. QED  BY <3>6, <3>9 DEF WayStep
  <2>5. CASE s # SRC
    <3>1. Waiting' = Waiting
      BY <1>3, <2>5, WaitingSame
    <3>2. Shown(r) = 0
      BY <1>9, <2>5 DEF Shown
    <3>3. PICK way, way2 : WayStep(OwnNumbers, way, way2)
      <4>1. /\ received' \in Seq(Nat) /\ inbox' \in Seq(Nat) /\ outbox' \in Seq(Nat)
            /\ feed' \in Seq(Nat) /\ Waiting' \in Seq(Nat)
        BY <1>0, <1>1, <1>11, <3>1, PlacesNow
      <4>. QED  BY <1>11, <2>3, <4>1, TheWay
    <3>4. way2[3] = Append(way[3], 0) /\ \A k \in Places \ {3} : way2[k] = way[k]
      BY <1>1, <1>11, <2>1, <3>1, <3>2, <3>3 DEF Places, WayStep
    <3>5. 0 \in Nat \ OwnNumbers /\ 3 \in Places
      BY DEF OwnNumbers, Places
    <3>6. Sorted(OwnNumbers, way2)
      BY <3>3, <3>4, <3>5, SortedOther DEF WayStep
    <3>. QED  BY <3>3, <3>6 DEF WayStep
  <2>. QED  BY <2>4, <2>5
<1>. QED  BY <1>11, <1>12, <1>13, <1>14, <1>15, <1>16, <1>17 DEF PipelineInv

(* The service reads freed memory and ends, and its queue with it.         *)
LEMMA CrashInv ==
  ASSUME PipelineInv, NEW s \in {WarmUp, SRC}, Crash(s)
  PROVE  PipelineInv'
<1>0. NumbersKnown /\ QueuesFit
  BY DEF PipelineInv
<1>1. /\ UNCHANGED <<clientVars, queueVars, processed>>
      /\ configuration' = configuration /\ announcements' = announcements
      /\ foreign' = foreign /\ servicePc' = "crashed" /\ feedBound' = FALSE
      /\ feed' = << >> /\ kept' = {} /\ s \in DOMAIN pending
  BY DEF Crash
<1>2. /\ sent' = sent /\ outbox' = outbox /\ inbox' = inbox /\ received' = received
      /\ SentGrows /\ OwnNumbers' = OwnNumbers
      /\ pending' = pending /\ reports' = reports
  BY <1>1 DEF clientVars, publisherVars, consumerVars, queueVars, SentGrows, OwnNumbers
<1>3. ProgramCounters'
  BY <1>1 DEF PipelineInv, ProgramCounters, ServicePlaces, clientVars, publisherVars, consumerVars
<1>4. OneAnnouncement'
  BY <1>1 DEF PipelineInv, OneAnnouncement, Announcement, clientVars, publisherVars
<1>5. QueuesFit'
  BY <1>0, <1>1 DEF QueuesFit, queueVars, Queues!TypeOK, Report, WarmUp
<1>6. ServiceIsSet'
  BY <1>1, <1>2 DEF PipelineInv, ServiceIsSet
<1>7. FramesOfTheirMessages' /\ AnswersOfTheirPictures'
  BY <1>0, <1>1, <1>2, FramesStay, AnswersStay DEF PipelineInv
<1>8. NumbersKnown' /\ KeptAreNotOffered'
  BY <1>0, <1>1, <1>2 DEF NumbersKnown, KeptAreNotOffered, Messages, RawMessage
<1>9. Sorted(OwnNumbers, Way)'
  <2>1. ShownAfter(processed, reports)' = ShownAfter(processed, reports) /\ Waiting' = Waiting
    BY <1>1, WayStays
  <2>2. PICK way, way2 : WayStep(OwnNumbers, way, way2)
    <3>1. /\ received' \in Seq(Nat) /\ inbox' \in Seq(Nat) /\ outbox' \in Seq(Nat)
          /\ ShownAfter(processed, reports)' \in Seq(Nat) /\ Waiting' \in Seq(Nat)
      BY <1>0, <1>2, <2>1, PlacesNow
    <3>2. feed' \in Seq(Nat)
      BY <1>1
    <3>. QED  BY <1>2, <3>1, <3>2, TheWay
  <2>3. \A k \in Places : way2[k] = way[k] \/ way2[k] = << >>
    BY <1>1, <1>2, <2>1, <2>2 DEF Places, WayStep
  <2>4. Sorted(OwnNumbers, way2)
    BY <2>2, <2>3, SortedLess DEF WayStep
  <2>. QED  BY <2>2, <2>4 DEF WayStep
<1>. QED  BY <1>3, <1>4, <1>5, <1>6, <1>7, <1>8, <1>9 DEF PipelineInv

(* The processing service removes a result, and the client may get it.     *)
LEMMA ProcessResultInv ==
  ASSUME PipelineInv, ProcessResult
  PROVE  PipelineInv'
<1>0. NumbersKnown /\ QueuesFit
  BY DEF PipelineInv
<1>1. /\ sent' = sent /\ outbox' = outbox /\ received' = received
      /\ UNCHANGED <<serviceVars, brokerVars, queueVars>>
      /\ servicePc' = servicePc /\ configuration' = configuration
      /\ kept' = kept /\ foreign' = foreign /\ feed' = feed
      /\ announcements' = announcements /\ publisherPc' = publisherPc
      /\ reports' = reports /\ pending' = pending
      /\ processed < Len(reports) /\ processed' = processed + 1
  BY DEF ProcessResult, HasResult, brokerVars, publisherVars, serviceVars, queueVars
<1>2. processed + 1 \in 1..Len(reports) /\ reports[processed + 1] \in Report
      /\ processed' \in 0..Len(reports)
  BY <1>0, <1>1 DEF QueuesFit
<1>3. PICK r \in Report : r = reports[processed + 1]
  BY <1>2
<1>4. \/ inbox' = inbox
      \/ r.src = SRC /\ inbox' = Append(inbox, r.message)
  BY <1>3 DEF ProcessResult, HasResult, NextReport
<1>5. r.src = SRC => r.message \in 1..Len(sent)
  <2>1. IsAnswer(r)
    BY <1>2, <1>3 DEF PipelineInv, AnswersOfTheirPictures
  <2>. QED  BY <2>1, Identifiers DEF IsAnswer, IsSeenOf
<1>6. inbox' \in Seq(1..Len(sent))
  <2>1. CASE inbox' = inbox
    BY <1>0, <2>1 DEF NumbersKnown
  <2>2. CASE r.src = SRC /\ inbox' = Append(inbox, r.message)
    BY <1>0, <1>5, <2>2, AppendToQueue DEF NumbersKnown
  <2>. QED  BY <1>4, <2>1, <2>2
<1>7. QueuesFit'
  <2>1. Report' = Report
    BY DEF Report, WarmUp
  <2>2. Queues!TypeOK'
    BY <1>0, <1>1 DEF QueuesFit, Queues!TypeOK, queueVars
  <2>3. results' = results
    BY <1>1 DEF queueVars
  <2>. QED  BY <1>0, <1>1, <1>2, <2>1, <2>2, <2>3 DEF QueuesFit
<1>8. ServiceIsSet'
  BY <1>1 DEF PipelineInv, ServiceIsSet
<1>9. FramesOfTheirMessages' /\ AnswersOfTheirPictures' /\ KeptAreNotOffered'
  <2>1. SentGrows
    BY <1>1 DEF SentGrows
  <2>2. FramesOfTheirMessages'
    BY <1>0, <1>1, <2>1, FramesStay DEF PipelineInv
  <2>. QED  BY <1>0, <1>1, <2>1, <2>2, AnswersStay, KeptStay DEF PipelineInv
<1>10. ProgramCounters'
  BY <1>1 DEF PipelineInv, ProgramCounters, ProcessResult, publisherVars, brokerVars
<1>11. OneAnnouncement'
  BY <1>1 DEF PipelineInv, OneAnnouncement, Announcement
<1>12. NumbersKnown'
  BY <1>0, <1>1, <1>6 DEF NumbersKnown, Messages, RawMessage
<1>13. Sorted(OwnNumbers, Way)'
  <2>1. /\ ShownAfter(processed, reports) # << >>
        /\ Head(ShownAfter(processed, reports)) = Shown(r)
        /\ ShownAfter(processed, reports)' = Tail(ShownAfter(processed, reports))
    <3>1. /\ ShownAfter(processed, reports) # << >>
          /\ Head(ShownAfter(processed, reports)) = Shown(reports[processed + 1])
          /\ ShownAfter(processed + 1, reports) = Tail(ShownAfter(processed, reports))
      BY <1>0, <1>1, FrameType, ShownTail DEF QueuesFit
    <3>2. ShownAfter(processed, reports)' = ShownAfter(processed + 1, reports)
      BY <1>1
    <3>. QED  BY <1>3, <3>1, <3>2
  <2>2. Waiting' = Waiting /\ OwnNumbers' = OwnNumbers
    BY <1>1, WaitingSame DEF OwnNumbers
  <2>3. ShownAfter(processed, reports)' \in Seq(Nat) /\ inbox' \in Seq(Nat)
    <3>1. 1..Len(sent) \subseteq Nat
      BY <1>0 DEF NumbersKnown
    <3>2. inbox' \in Seq(Nat)
      BY <1>6, <3>1, SequenceOver
    <3>3. ShownAfter(processed, reports)' \in Seq(Nat)
      BY <1>0, <2>1, PlacesNow, TailOfQueue
    <3>. QED  BY <3>2, <3>3
  <2>4. PICK way, way2 : WayStep(OwnNumbers, way, way2)
    <3>1. /\ received' \in Seq(Nat) /\ outbox' \in Seq(Nat) /\ feed' \in Seq(Nat)
          /\ Waiting' \in Seq(Nat)
      BY <1>0, <1>1, <2>2, PlacesNow
    <3>. QED  BY <2>2, <2>3, <3>1, TheWay
  <2>5. CASE inbox' = inbox
    <3>1. /\ way[3] # << >> /\ way2[3] = Tail(way[3])
          /\ \A k \in Places \ {3} : way2[k] = way[k]
      BY <1>1, <2>1, <2>2, <2>4, <2>5 DEF Places, WayStep
    <3>2. \A k \in Places : way2[k] = way[k] \/ (way[k] # << >> /\ way2[k] = Tail(way[k]))
      BY <3>1, Zenon
    <3>3. Sorted(OwnNumbers, way2)
      BY <2>4, <3>2, SortedLess DEF WayStep
    <3>. QED  BY <2>4, <3>3 DEF WayStep
  <2>6. CASE r.src = SRC /\ inbox' = Append(inbox, r.message)
    <3>0. inbox' = Append(inbox, Shown(r))
      BY <2>6 DEF Shown
    <3>1. /\ way[3] # << >> /\ way2[2] = Append(way[2], Head(way[3]))
          /\ way2[3] = Tail(way[3])
          /\ \A k \in Places \ {2, 3} : way2[k] = way[k]
      BY <1>1, <2>1, <2>2, <2>4, <3>0 DEF Places, WayStep
    <3>2. Moved(way, way2, 2)
      BY <3>1 DEF Moved
    <3>3. Sorted(OwnNumbers, way2)
      BY <2>4, <3>2, SortedMove DEF WayStep
    <3>. QED  BY <2>4, <3>3 DEF WayStep
  <2>. QED  BY <1>4, <2>5, <2>6
<1>. QED  BY <1>7, <1>8, <1>9, <1>10, <1>11, <1>12, <1>13 DEF PipelineInv

-----------------------------------------------------------------------------
(* Nothing is anywhere in the beginning.                                   *)
LEMMA InitPipelineInv ==
  ASSUME Init
  PROVE  PipelineInv
<1>1. /\ sent = << >> /\ outbox = << >> /\ feed = << >> /\ inbox = << >> /\ received = << >>
      /\ kept = {} /\ foreign = {} /\ announcements = 0 /\ servicePc = "options"
      /\ pending = << >> /\ accepted = 0 /\ results = << >> /\ reports = << >> /\ processed = 0
  BY DEF Init, ClientInit, Queues!Init
<1>2. Len(sent) = 0 /\ Len(reports) = 0 /\ Len(results) = 0 /\ Len(outbox) = 0
      /\ DOMAIN pending = {}
  BY <1>1
<1>3. ProgramCounters
  <2>1. 0 \in 0..Len(Video)
    BY PipelineAssumption
  <2>2. /\ interrupt = FALSE /\ mainPc = "wait" /\ alive = TRUE /\ feedBound = FALSE
        /\ publisherPc = "announce" /\ position = 0 /\ consumerPc = "declare"
    BY DEF Init, ClientInit
  <2>. QED  BY <1>1, <2>1, <2>2 DEF ProgramCounters, ServicePlaces
<1>4. OneAnnouncement
  BY <1>1, <1>2 DEF OneAnnouncement
<1>5. NumbersKnown
  <2>1. \A S : << >> \in Seq(S)
    OBVIOUS
  <2>. QED  BY <1>1, <1>2, <2>1, Identifiers DEF NumbersKnown
<1>6. QueuesFit
  <2>1. \A S : << >> \in Seq(S)
    OBVIOUS
  <2>2. Queues!TypeOK
    BY <1>1, <1>2, <2>1 DEF Queues!TypeOK, Queues!IsMap
  <2>. QED  BY <1>1, <1>2, <2>1, <2>2 DEF QueuesFit
<1>7. ServiceIsSet /\ FramesOfTheirMessages /\ AnswersOfTheirPictures /\ KeptAreNotOffered
  BY <1>1, <1>2 DEF ServiceIsSet, FramesOfTheirMessages, AnswersOfTheirPictures,
                    KeptAreNotOffered
<1>8. Sorted(OwnNumbers, Way)
  <2>1. ShownAfter(processed, reports) = << >>
    <3>1. << >> \in Seq(Report) /\ 0 \in 0..Len(<< >>) /\ Len(<< >>) - 0 = 0
      OBVIOUS
    <3>2. /\ ShownAfter(0, << >>) \in Seq(Nat)
          /\ Len(ShownAfter(0, << >>)) = 0
      BY <3>1, FrameType, ShownType
    <3>. QED  BY <1>1, <3>2
  <2>2. Waiting = << >>
    BY <1>2 DEF Waiting
  <2>3. Way = << << >>, << >>, << >>, << >>, << >>, << >> >>
    BY <1>1, <2>1, <2>2 DEF Way
  <2>4. PICK way : way = Way
    OBVIOUS
  <2>5. \A k \in Places : way[k] = << >>
    BY <2>3, <2>4 DEF Places
  <2>. QED  BY <2>4, <2>5, SortedEmpty DEF Sorted
<1>. QED  BY <1>3, <1>4, <1>5, <1>6, <1>7, <1>8 DEF PipelineInv

(* A step that changes nothing.                                            *)
LEMMA StutterInv ==
  ASSUME PipelineInv, UNCHANGED vars
  PROVE  PipelineInv'
<1>1. /\ UNCHANGED <<clientVars, serviceVars, brokerVars, queueVars, processed>>
      /\ sent' = sent /\ outbox' = outbox /\ inbox' = inbox /\ received' = received
      /\ feed' = feed /\ kept' = kept /\ foreign' = foreign /\ announcements' = announcements
      /\ publisherPc' = publisherPc
  BY DEF vars, brokerVars, clientVars, publisherVars, consumerVars
<1>2. QueuesFit' /\ ServiceIsSet' /\ FramesOfTheirMessages' /\ AnswersOfTheirPictures'
  BY <1>1, QueuesStay DEF SentGrows
<1>3. KeptAreNotOffered'
  BY <1>1, KeptStay DEF PipelineInv, SentGrows
<1>4. ProgramCounters'
  BY <1>1 DEF PipelineInv, ProgramCounters, clientVars, publisherVars, consumerVars,
              serviceVars, brokerVars
<1>5. OneAnnouncement' /\ NumbersKnown'
  BY <1>1 DEF PipelineInv, OneAnnouncement, NumbersKnown, Announcement, Messages, RawMessage
<1>6. Sorted(OwnNumbers, Way)'
  <2>1. Way' = Way /\ OwnNumbers' = OwnNumbers
    BY <1>1, WayStays DEF Way, OwnNumbers
  <2>. QED  BY <2>1 DEF PipelineInv, Sorted, Ascending, Before, Has
<1>. QED  BY <1>2, <1>3, <1>4, <1>5, <1>6 DEF PipelineInv

(* Every step keeps the invariant.                                         *)
LEMMA NextInv ==
  ASSUME PipelineInv, [Next]_vars
  PROVE  PipelineInv'
<1>1. CASE Client /\ ServiceUnchanged
  BY <1>1, ClientInv
<1>2. CASE Main
  BY <1>2, ReadOptionsInv, WarmUpInv DEF Main
<1>3. CASE BrokerTakes \/ BindFeed
  BY <1>3, BrokerTakesInv, BindFeedInv
<1>4. CASE \E message \in OtherMessages : OtherSends(message)
  BY <1>4, OtherSendsInv
<1>5. CASE ReadAnnouncement \/ FrameArrives
  BY <1>5, ReadAnnouncementInv, FrameArrivesInv
<1>6. CASE \E s \in {WarmUp, SRC} : Detect(s) \/ Crash(s)
  BY <1>6, DetectInv, CrashInv
<1>7. CASE ProcessResult
  BY <1>7, ProcessResultInv
<1>8. CASE UNCHANGED vars
  BY <1>8, StutterInv
<1>. QED  BY <1>1, <1>2, <1>3, <1>4, <1>5, <1>6, <1>7, <1>8 DEF Next

-----------------------------------------------------------------------------
(* The invariant holds whatever the video, the messages of others, the     *)
(* command lines and the bounds are.                                       *)
THEOREM PipelineInvariance == Spec => []PipelineInv
<1>1. Init => PipelineInv
  BY InitPipelineInv
<1>2. PipelineInv /\ [Next]_vars => PipelineInv'
  BY NextInv
<1>. QED  BY <1>1, <1>2, PTL DEF Spec

(* The types: counters of places, numbers of messages, queues, results.    *)
THEOREM PipelineTypeCorrect == Spec => []PipelineTypeOK
<1>1. PipelineInv => PipelineTypeOK
  <2>. SUFFICES ASSUME PipelineInv
                PROVE  PipelineTypeOK
    OBVIOUS
  <2>1. Range(outbox) \subseteq 0..Len(sent) /\ Len(sent) <= MaxSent
    BY DEF PipelineInv, NumbersKnown, Range
  <2>2. Range(feed) \cup kept \cup Range(inbox) \cup Range(received) \subseteq DOMAIN sent
    <3>1. DOMAIN sent = 1..Len(sent) /\ kept \subseteq 1..Len(sent)
      BY DEF PipelineInv, NumbersKnown
    <3>2. ASSUME NEW s \in Seq(1..Len(sent))
          PROVE  Range(s) \subseteq 1..Len(sent)
      BY DEF Range
    <3>3. Range(feed) \subseteq 1..Len(sent) /\ Range(inbox) \subseteq 1..Len(sent)
      BY <3>2 DEF PipelineInv, NumbersKnown
    <3>4. Range(received) \subseteq 1..Len(sent)
      BY <3>2 DEF PipelineInv, NumbersKnown
    <3>. QED  BY <3>1, <3>3, <3>4
  <2>3. Queues!TypeOK /\ Len(reports) = Len(results) /\ processed \in 0..Len(reports)
    BY DEF PipelineInv, QueuesFit
  <2>. QED  BY <2>1, <2>2, <2>3
            DEF PipelineInv, ProgramCounters, ServicePlaces, OneAnnouncement, PipelineTypeOK
<1>. QED  BY <1>1, PipelineInvariance, PTL

(* What stays unacknowledged is neither waiting nor answered.              *)
THEOREM KeptAreUnanswered == Spec => []KeptAreNotAnswered
<1>1. PipelineInv => KeptAreNotAnswered
  <2>. SUFFICES ASSUME PipelineInv, NEW n \in kept
                PROVE  ~IsWaiting(n) /\ \A i \in DOMAIN reports : reports[i].message # n
    BY DEF KeptAreNotAnswered
  <2>1. n # 0 /\ ~IsOffered(sent[n])
    BY DEF PipelineInv, NumbersKnown, KeptAreNotOffered
  <2>2. ~IsWaiting(n)
    <3>1. ASSUME SRC \in DOMAIN pending, NEW i \in DOMAIN pending[SRC],
                 pending[SRC][i].kind.message = n
          PROVE  FALSE
      <4>1. i \in 1..Len(pending[SRC])
        BY <3>1, QueueType DEF PipelineInv, QueuesFit
      <4>. QED  BY <2>1, <3>1, <4>1 DEF PipelineInv, FramesOfTheirMessages, IsPictureOf
    <3>. QED  BY <3>1 DEF IsWaiting
  <2>3. ASSUME NEW i \in DOMAIN reports
        PROVE  reports[i].message # n
    <3>1. IsAnswer(reports[i])
      BY DEF PipelineInv, QueuesFit, AnswersOfTheirPictures
    <3>. QED  BY <2>1, <3>1 DEF IsAnswer, IsSeenOf
  <2>. QED  BY <2>2, <2>3
<1>. QED  BY <1>1, PipelineInvariance, PTL

(* Every result is the answer of the loaded model to what may be seen of   *)
(* its message, and carries the source of this message: the picture itself *)
(* when it was decoded, the bytes under its header when it was raw.        *)
THEOREM AnswersFitPictures == Spec => []AnswersOfTheirPictures
<1>1. PipelineInv => AnswersOfTheirPictures
  BY DEF PipelineInv
<1>. QED  BY <1>1, PipelineInvariance, PTL

(* The client reads the results of its own frames in the order in which it *)
(* sent them, and none twice.                                              *)
THEOREM ReceivingInOrder == Spec => []ReceivedInOrder
<1>1. PipelineInv => ReceivedInOrder
  <2>. SUFFICES ASSUME PipelineInv, NEW i \in DOMAIN received, NEW j \in DOMAIN received,
                       i < j, IsOwn(received[i]), IsOwn(received[j])
                PROVE  received[i] < received[j]
    BY DEF ReceivedInOrder
  <2>1. i \in 1..Len(received) /\ j \in 1..Len(received)
    BY DEF PipelineInv, NumbersKnown
  <2>2. received[i] \in 1..Len(sent) /\ received[j] \in 1..Len(sent)
    BY <2>1 DEF PipelineInv, NumbersKnown
  <2>3. received[i] \in OwnNumbers /\ received[j] \in OwnNumbers
    BY <2>2 DEF IsOwn, OwnNumbers
  <2>4. Ascending(OwnNumbers, received)
    <3>1. PICK way : way = Way
      OBVIOUS
    <3>2. Sorted(OwnNumbers, way) /\ way[1] = received /\ 1 \in Places
      BY <3>1, WayNow DEF PipelineInv, Places
    <3>. QED  BY <3>2 DEF Sorted
  <2>. QED  BY <2>1, <2>3, <2>4 DEF Ascending
<1>. QED  BY <1>1, PipelineInvariance, PTL

-----------------------------------------------------------------------------
(* What main() makes of a command line does not depend on the environment, *)
(* if a model can be loaded at all.                                        *)
LEMMA SameModel ==
  ASSUME NEW line, NEW env, NEW other, Outcome(line, other) = "running"
  PROVE  /\ Configuration(line, other).version = Configuration(line, env).version
         /\ Configuration(line, other).shape = Configuration(line, env).shape
<1>1. CASE line.error # "none"
  <2>1. Options(line) = << >> /\ \A o : o \notin DOMAIN << >>
    BY <1>1 DEF Options
  <2>2. ValueOr(Options(line), "path", "") = "" /\ ValueOr(Options(line), "model", "") = ""
    BY <2>1 DEF ValueOr
  <2>. QED  BY <2>2, NamelessFile DEF Outcome
<1>2. CASE line.error = "none"
  <2>1. "shape" \in DOMAIN Options(line)
    BY <1>2 DEF Options, WithDefaults, Default
  <2>. QED  BY <2>1 DEF Configuration, ModelShape
<1>. QED  BY <1>1, <1>2

(* The environment variables of the model decide nothing.                  *)
THEOREM EnvironmentIsIgnored == Spec => []EnvironmentNeverDecides
<1>1. EnvironmentNeverDecides
  BY SameModel DEF EnvironmentNeverDecides
<1>. QED  BY <1>1, PTL

-----------------------------------------------------------------------------
(* The configuration of a running service has a model with a shape.        *)
LEMMA RunningModel ==
  ASSUME NEW c \in Configurations
  PROVE  IsModel(c)
<1>1. PICK start \in Starts : Outcome(start[1], start[2]) = "running" /\ c = Configuration(start[1], start[2])
  BY DEF Configurations
<1>. DEFINE line == start[1]
            env == start[2]
            shape == ModelShape(Options(line), env)
<1>2. /\ ~EnvThrows(Options(line), env, "shape")
      /\ ~(shape.cols <= 0 \/ shape.rows <= 0)
  BY <1>1 DEF Outcome
<1>3. shape.cols \in Int /\ shape.rows \in Int
  <2>1. CASE "shape" \in DOMAIN Options(line)
    <3>1. line.error = "none" /\ Options(line) = WithDefaults(line)
      BY <2>1 DEF Options
    <3>2. shape = IF "shape" \in DOMAIN line.given THEN line.given["shape"] ELSE Default["shape"]
      BY <2>1, <3>1 DEF ModelShape, WithDefaults
    <3>. QED  BY <3>2, StartsAssumption DEF Default
  <2>2. CASE "shape" \notin DOMAIN Options(line)
    <3>1. "model_shape" \in DOMAIN env /\ shape = env["model_shape"]
      BY <1>2, <2>2 DEF EnvThrows, VariableOf, ModelShape
    <3>. QED  BY <3>1, StartsAssumption
  <2>. QED  BY <2>1, <2>2
<1>4. c.shape = shape
  BY <1>1 DEF Configuration
<1>. HIDE DEF shape
<1>. QED  BY <1>2, <1>3, <1>4 DEF IsModel

(* A picture that can be shown to a model.                                 *)
IsShown(picture) ==
  /\ IsView(picture)
  /\ picture = [cols |-> picture.cols, rows |-> picture.rows, channels |-> picture.channels,
                objects |-> picture.objects]

(* What a message has in it.                                               *)
LEMMA MessageType ==
  ASSUME NEW m \in Messages
  PROVE  /\ m.imgtype \in Int /\ m.width \in Int /\ m.height \in Int
         /\ m.body.picture \in Picture /\ IsShown(m.body.picture)
<1>1. m.imgtype \in Int /\ m.width \in Int /\ m.height \in Int /\ m.body.picture \in Picture
  <2>1. CASE m \in OtherMessages
    BY <2>1, MessagesAssumption
  <2>2. CASE m \in {RawMessage(picture) : picture \in Range(Video)}
    <3>1. PICK i \in DOMAIN Video : m = RawMessage(Video[i])
      BY <2>2 DEF Range
    <3>2. Video[i] \in Picture
      BY PipelineAssumption
    <3>3. Video[i].cols \in Int /\ Video[i].rows \in Int /\ Video[i].channels \in Int
      BY <3>2 DEF Picture
    <3>. QED  BY <3>1, <3>2, <3>3 DEF RawMessage, TypeOf
  <2>. QED  BY <2>1, <2>2 DEF Messages
<1>2. ASSUME NEW picture \in Picture
      PROVE  IsShown(picture)
  BY DEF Picture, IsShown, IsView
<1>. QED  BY <1>1, <1>2

(* What may be seen of a frame can be shown to a model, and the frame of a *)
(* message that is not raw is what it was decoded to, or blank.            *)
LEMMA FrameIsShown ==
  ASSUME NEW m \in Messages, NEW picture \in ReadLater(m, FrameOf(m))
  PROVE  /\ IsShown(picture)
         /\ ~IsRaw(m) => /\ picture = FrameOf(m)
                         /\ Range(picture.objects) \subseteq Range(m.body.picture.objects)
<1>0. << >> \in Seq(Object) /\ Range(<< >>) = {}
  BY DEF Range
<1>1. CASE IsRaw(m)
  <2>1. PICK pixels \in PixelsOf(m) : picture = [Overlaid(m) EXCEPT !.objects = pixels]
    BY <1>1 DEF ReadLater, FrameOf
  <2>2. pixels \in Seq(Object)
    <3>1. m.body.picture.objects \in Seq(Object)
      BY MessageType DEF IsShown, IsView
    <3>. QED  BY <1>0, <3>1, PipelineAssumption DEF PixelsOf
  <2>3. m.width \in Nat \ {0} /\ m.height \in Nat \ {0}
    <3>1. m.width \in Int /\ m.height \in Int
      BY MessageType
    <3>2. m.width > 0 /\ m.height > 0
      BY <1>1 DEF IsRaw
    <3>. QED  BY <3>1, <3>2
  <2>4. picture = [cols |-> m.width, rows |-> m.height, channels |-> ChannelsOf(m.imgtype),
                   objects |-> pixels]
    BY <2>1 DEF Overlaid
  <2>5. IsShown(picture)
    BY <2>2, <2>3, <2>4 DEF IsShown, IsView
  <2>. QED  BY <1>1, <2>5
<1>2. CASE ~IsRaw(m)
  <2>1. picture = FrameOf(m)
    BY <1>2 DEF ReadLater
  <2>2. CASE CanDecode(m.body)
    BY <1>2, <2>1, <2>2, MessageType DEF FrameOf
  <2>3. CASE ~CanDecode(m.body)
    BY <1>0, <1>2, <2>1, <2>3 DEF FrameOf, BlankFrame, Blank, IsShown, IsView
  <2>. QED  BY <2>1, <2>2, <2>3
<1>. QED  BY <1>1, <1>2

(* An answer has been detected on a picture that could be shown to the     *)
(* model, and that could be seen of its message.                           *)
LEMMA AnswerIsDetected ==
  ASSUME PipelineInv, NEW i \in DOMAIN reports
  PROVE  \E picture :
           /\ IsModel(configuration) /\ IsShown(picture)
           /\ reports[i].detections = ObjectDetection(configuration, picture)
           /\ \/ reports[i].message = 0
              \/ /\ reports[i].message \in 1..Len(sent)
                 /\ sent[reports[i].message] \in Messages
                 /\ picture \in ReadLater(sent[reports[i].message], FrameOf(sent[reports[i].message]))
<1>0. i \in 1..Len(reports)
  BY DEF PipelineInv, QueuesFit
<1>1. PICK picture \in Usable :
        /\ IsSeenOf(reports[i].src, reports[i].message, picture)
        /\ reports[i].detections = Answer(configuration, picture)
  BY <1>0 DEF PipelineInv, AnswersOfTheirPictures, IsAnswer
<1>2. configuration \in Configurations
  BY <1>0 DEF PipelineInv, ServiceIsSet
<1>3. IsModel(configuration)
  BY <1>2, RunningModel
<1>4. Answer(configuration, picture) = ObjectDetection(configuration, picture)
  BY <1>1, <1>2, Zenon DEF Answer, Detections
<1>5. CASE reports[i].message = 0 /\ picture = WarmUpPicture(configuration)
  <2>1. IsShown(picture)
    BY <1>3, <1>5 DEF WarmUpPicture, Blank, IsShown, IsView, IsModel
  <2>. QED  BY <1>1, <1>3, <1>4, <1>5, <2>1
<1>6. CASE /\ reports[i].message \in 1..Len(sent)
           /\ picture \in ReadLater(sent[reports[i].message], FrameOf(sent[reports[i].message]))
  <2>1. sent[reports[i].message] \in Messages
    BY <1>6 DEF PipelineInv, NumbersKnown
  <2>2. IsShown(picture)
    BY <1>6, <2>1, FrameIsShown
  <2>. QED  BY <1>1, <1>3, <1>4, <1>6, <2>1, <2>2
<1>. QED  BY <1>1, <1>5, <1>6 DEF IsSeenOf

(* Every detection in the answer to a frame that is not raw is an object   *)
(* on the picture of its message, at its place, with its class.            *)
THEOREM AnswersAreOfThePicture == Spec => []AnswersShowThePicture
<1>1. PipelineInv => AnswersShowThePicture
  <2>. SUFFICES ASSUME PipelineInv, NEW i \in DOMAIN reports, reports[i].message # 0,
                       ~IsRaw(sent[reports[i].message]), NEW d \in Range(reports[i].detections)
                PROVE  /\ d.confidence > modelScoreThreshold
                       /\ \E o \in ObjectsOf(reports[i].message) :
                            /\ d.box = Rectangle(o)
                            /\ \A c \in DOMAIN o.scores : o.scores[c] <= o.scores[d.class_id]
    BY DEF AnswersShowThePicture
  <2>0. PICK n : n = reports[i].message
    OBVIOUS
  <2>1. PICK picture :
           /\ IsModel(configuration) /\ IsShown(picture)
           /\ reports[i].detections = ObjectDetection(configuration, picture)
           /\ n \in 1..Len(sent) /\ sent[n] \in Messages
           /\ picture \in ReadLater(sent[n], FrameOf(sent[n]))
    BY <2>0, AnswerIsDetected
  <2>2. d \in Range(ObjectDetection(configuration, picture))
    BY <2>1
  <2>3. /\ d.confidence > modelScoreThreshold
        /\ \E o \in Range(picture.objects) :
             /\ d.box = Place(o)
             /\ \A c \in DOMAIN o.scores : o.scores[c] <= o.scores[d.class_id]
    BY <2>1, <2>2, PipelineAssumption, DetectionsAreObjects DEF IsShown
  <2>4. PICK o \in Range(picture.objects) :
          /\ d.box = Place(o)
          /\ \A c \in DOMAIN o.scores : o.scores[c] <= o.scores[d.class_id]
    BY <2>3
  <2>5. o \in ObjectsOf(reports[i].message)
    BY <2>0, <2>1, FrameIsShown DEF ObjectsOf
  <2>6. d.box = Rectangle(o)
    BY <2>4 DEF Place, Rectangle
  <2>. QED  BY <2>3, <2>4, <2>5, <2>6
<1>. QED  BY <1>1, PipelineInvariance, PTL

(* A sure object of a colour picture that was decoded is in the answer, or *)
(* a box over it that is at least as sure.                                 *)
THEOREM ObjectsAreAnswered == Spec => []ClearObjectsAreAnswered
<1>1. PipelineInv => ClearObjectsAreAnswered
  <2>. SUFFICES ASSUME PipelineInv, NEW i \in DOMAIN reports, reports[i].message # 0,
                       ShowsItsPicture(sent[reports[i].message]),
                       NEW o \in ObjectsOf(reports[i].message), IsSure(o.confidence),
                       NEW c \in DOMAIN o.scores, IsSure(o.scores[c])
                PROVE  \E d \in Range(reports[i].detections) :
                         /\ d.box = Rectangle(o) \/ Overlap(d.box, Rectangle(o))
                         /\ d.confidence >= Confidence(configuration, o)
    BY DEF ClearObjectsAreAnswered
  <2>0. PICK n : n = reports[i].message
    OBVIOUS
  <2>1. PICK picture :
           /\ IsModel(configuration) /\ IsShown(picture)
           /\ reports[i].detections = ObjectDetection(configuration, picture)
           /\ n \in 1..Len(sent) /\ sent[n] \in Messages
           /\ picture \in ReadLater(sent[n], FrameOf(sent[n]))
    BY <2>0, AnswerIsDetected
  <2>2. o \in Range(picture.objects)
    BY <2>0, <2>1, FrameIsShown DEF ShowsItsPicture, FrameOf, ObjectsOf
  <2>3. \E d \in Range(ObjectDetection(configuration, picture)) :
           /\ d.box = Place(o) \/ Overlap(d.box, Place(o))
           /\ d.confidence >= Confidence(configuration, o)
    BY <2>1, <2>2, PipelineAssumption, SureObjectsAreDetected DEF IsShown, IsSure
  <2>4. Rectangle(o) = Place(o)
    BY DEF Rectangle, Place
  <2>. QED  BY <2>1, <2>3, <2>4
<1>. QED  BY <1>1, PipelineInvariance, PTL

(* apply_results would draw of an answer what the calls ask for.           *)
THEOREM FilterObeysCalls == Spec => []FilterFollowsCalls
<1>1. ASSUME NEW history \in Histories
      PROVE  IsHistory(history)
  <2>1. PICK n \in 0..2 : history \in [1..n -> SetterCalls]
    BY DEF Histories
  <2>2. history \in Seq(Range(history))
    BY <2>1 DEF Range
  <2>3. \A call \in Range(history) : call \in SetterCalls
    BY <2>1 DEF Range
  <2>4. \A call \in Range(history) : IsCall(call)
    BY <2>3, SetterAssumption DEF IsCall
  <2>. QED  BY <2>2, <2>4 DEF IsHistory
<1>2. FilterFollowsCalls
  <2>1. ASSUME NEW history \in Histories, NEW detections
        PROVE  Drawn(After(history), detections)
                 = Selected(detections, {d \in Range(detections) : IsWanted(history, d)})
    BY <1>1, DrawnAsAsked
  <2>. QED  BY <2>1, Zenon DEF FilterFollowsCalls
<1>. QED  BY <1>2, PTL

-----------------------------------------------------------------------------
(* The pipeline uses the detection service as SourceQueues allows: what    *)
(* the proofs about the service promise is promised here.                  *)
THEOREM QueuesImplementation == Spec => Queues!Spec
<1>1. Init => Queues!Init
  BY DEF Init
<1>2. PipelineInv /\ [Next]_vars => [Queues!Next]_(Queues!vars)
  <2>. SUFFICES ASSUME PipelineInv, [Next]_vars
                PROVE  Queues!Next \/ UNCHANGED Queues!vars
    OBVIOUS
  <2>0. NumbersKnown /\ QueuesFit
    BY DEF PipelineInv
  <2>1. CASE (Client /\ ServiceUnchanged) \/ BrokerTakes \/ BindFeed \/ ProcessResult
             \/ UNCHANGED vars \/ SetUp \/ ReadOptions \/ Crash(WarmUp) \/ Crash(SRC)
    BY <2>1 DEF ServiceUnchanged, BrokerTakes, BindFeed, ProcessResult, vars, SetUp, ReadOptions,
                Crash, queueVars, Queues!vars
  <2>2. CASE \E message \in OtherMessages : OtherSends(message)
    BY <2>2 DEF OtherSends, queueVars, Queues!vars
  <2>3. CASE RegisterWarmUp \/ EndWarmUp \/ ReadAnnouncement
    BY <2>3 DEF RegisterWarmUp, EndWarmUp, ReadAnnouncement, Queues!Next
  <2>4. CASE OfferWarmUp
    <3>1. configuration \in Configurations
      BY <2>4 DEF PipelineInv, ServiceIsSet, OfferWarmUp
    <3>2. WarmUpPicture(configuration) \in Pictures /\ 0 \in 0..MaxSent
      BY <3>1, Identifiers DEF Pictures
    <3>. QED  BY <2>4, <3>2 DEF OfferWarmUp, Queues!Next
  <2>5. CASE FrameArrives
    <3>1. PICK n : n = Head(feed)
      OBVIOUS
    <3>2. n \in 1..Len(sent)
      BY <2>0, <2>5, <3>1, TailOfQueue DEF NumbersKnown, FrameArrives
    <3>3. Queued(n) \/ UNCHANGED <<pending, accepted, results>>
      BY <2>5, <3>1 DEF FrameArrives, Queued
    <3>4. CASE Queued(n)
      <4>1. sent[n].srcid \in {WarmUp, SRC}
        BY <2>0, <3>4, QueueType DEF Queued, HasRoom, QueuesFit
      <4>2. n \in 0..MaxSent /\ sent[n] \in Messages
        BY <2>0, <3>2, Identifiers DEF NumbersKnown
      <4>3. FrameOf(sent[n]) \in Pictures
        BY <3>4, <4>2 DEF Pictures, Queued
      <4>. QED  BY <3>4, <4>1, <4>2, <4>3 DEF Queued, Queues!Next
    <3>. QED  BY <3>3, <3>4 DEF Queues!vars
  <2>6. CASE \E s \in {WarmUp, SRC} : Detect(s)
    BY <2>6 DEF Detect, Queues!Next
  <2>. QED  BY <2>1, <2>2, <2>3, <2>4, <2>5, <2>6 DEF Next, Main
<1>. QED  BY <1>1, <1>2, PipelineInvariance, PTL DEF Spec, Queues!Spec

Promises == INSTANCE SourceQueuesProofs WITH
              Sources <- {WarmUp, SRC},
              FrameKinds <- [message : 0..MaxSent, picture : Pictures]

(* No frame is answered twice, the answers of a source come in the order   *)
(* of its frames, and what waits is newer than what was answered.          *)
THEOREM AnsweredInOrderOnce == Spec => [](Queues!InOrderOnce /\ Queues!PendingIsNewer)
<1>1. Queues!Init => Promises!Init
  BY DEF Queues!Init, Promises!Init
<1>2. Queues!Next => Promises!Next
  BY DEF Queues!Next, Queues!Register, Queues!Unregister, Queues!Accept, Queues!Detect,
         Queues!Emplace, Queues!Erase,
         Promises!Next, Promises!Register, Promises!Unregister, Promises!Accept, Promises!Detect,
         Promises!Emplace, Promises!Erase
<1>3. UNCHANGED Queues!vars => UNCHANGED Promises!vars
  BY DEF Queues!vars, Promises!vars
<1>4. Queues!Spec => Promises!Spec
  BY <1>1, <1>2, <1>3, PTL DEF Queues!Spec, Promises!Spec
<1>5. Promises!Spec => []Promises!Inv
  BY Promises!Safety
<1>6. Promises!Inv => Queues!InOrderOnce /\ Queues!PendingIsNewer
  BY DEF Promises!Inv, Promises!InOrderOnce, Promises!PendingIsNewer,
         Queues!InOrderOnce, Queues!PendingIsNewer
<1>. QED  BY <1>4, <1>5, <1>6, QueuesImplementation, PTL
=============================================================================
