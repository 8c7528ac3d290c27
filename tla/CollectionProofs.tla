-------------------------- MODULE CollectionProofs --------------------------
(***************************************************************************)
(* Facts about collections, for the proofs about the components: maps,     *)
(* first-in first-out queues kept as sequences, and what Selected takes    *)
(* of a sequence.  What is proved by induction rests on the least number   *)
(* principle.                                                              *)
(***************************************************************************)
EXTENDS StdMap, Selection, Integers, SequenceTheorems, FiniteSetTheorems,
        WellFoundedInduction, TLAPS

(* An assignment through the subscript of a key that is present.           *)
LEMMA AssignMap ==
  ASSUME NEW Keys, NEW Values, NEW map, IsMap(map, Keys, Values),
         NEW key \in DOMAIN map, NEW value \in Values
  PROVE  /\ IsMap([map EXCEPT ![key] = value], Keys, Values)
         /\ DOMAIN [map EXCEPT ![key] = value] = DOMAIN map
         /\ [map EXCEPT ![key] = value][key] = value
         /\ \A k \in DOMAIN map : k # key => [map EXCEPT ![key] = value][k] = map[k]
  BY DEF IsMap

(* pop() moves every frame one place to the front and loses the first.     *)
LEMMA TailOfQueue ==
  ASSUME NEW S, NEW queue \in Seq(S), queue # << >>
  PROVE  /\ Tail(queue) \in Seq(S)
         /\ Len(Tail(queue)) = Len(queue) - 1
         /\ \A i \in 1..Len(Tail(queue)) :
               /\ i + 1 \in 1..Len(queue)
               /\ Tail(queue)[i] = queue[i + 1]
         /\ Head(queue) = queue[1]
         /\ Head(queue) \in S
         /\ 1 \in 1..Len(queue)
  OBVIOUS

(* push() keeps every frame in its place and adds one at the back.         *)
LEMMA AppendToQueue ==
  ASSUME NEW S, NEW queue \in Seq(S), NEW e \in S
  PROVE  /\ Append(queue, e) \in Seq(S)
         /\ Append(queue, e) # << >>
         /\ Len(Append(queue, e)) = Len(queue) + 1
         /\ \A i \in 1..Len(queue) : Append(queue, e)[i] = queue[i]
         /\ Append(queue, e)[Len(queue) + 1] = e
         /\ queue # << >> => Head(Append(queue, e)) = Head(queue)
<1>1. /\ Append(queue, e) \in Seq(S)
      /\ Len(Append(queue, e)) = Len(queue) + 1
      /\ \A i \in 1..Len(queue) : Append(queue, e)[i] = queue[i]
      /\ Append(queue, e)[Len(queue) + 1] = e
  OBVIOUS
<1>2. Append(queue, e) # << >>
  BY <1>1
<1>3. queue # << >> => Head(Append(queue, e)) = Head(queue)
  <2>. SUFFICES ASSUME queue # << >>
                PROVE  Append(queue, e)[1] = queue[1]
    BY <1>1, <1>2
  <2>. QED  BY <1>1
<1>. QED  BY <1>1, <1>2, <1>3

(* A push at the back and a pop at the front do not disturb each other.    *)
LEMMA TailOfAppend ==
  ASSUME NEW S, NEW queue \in Seq(S), NEW e \in S, queue # << >>
  PROVE  Tail(Append(queue, e)) = Append(Tail(queue), e)
  OBVIOUS

-----------------------------------------------------------------------------
(* A set of natural numbers that is not empty has a least element.         *)
LEMMA LeastNumber ==
  ASSUME NEW T, T \subseteq Nat, T # {}
  PROVE  \E n \in T : \A m \in T : n <= m
<1>1. \E n \in T : \A m \in T : ~ (<<m, n>> \in OpToRel(<, Nat))
  BY NatLessThanWellFounded, WFMin
<1>2. PICK n \in T : \A m \in T : ~ (<<m, n>> \in OpToRel(<, Nat))
  BY <1>1
<1>3. \A m \in T : ~(m < n)
  BY <1>2 DEF OpToRel
<1>. QED  BY <1>3

(* Induction up to a bound, for a property given as a set.                 *)
LEMMA UpTo ==
  ASSUME NEW N \in Nat, NEW Good,
         0 \in Good, \A n \in 1..N : n - 1 \in Good => n \in Good
  PROVE  0..N \subseteq Good
<1>. SUFFICES ASSUME (0..N) \ Good # {}
              PROVE  FALSE
  OBVIOUS
<1>. DEFINE Bad == (0..N) \ Good
<1>0. Bad \subseteq Nat /\ Bad # {}
  OBVIOUS
<1>1. PICK n \in Bad : \A m \in Bad : n <= m
  <2>. HIDE DEF Bad
  <2>. QED  BY <1>0, LeastNumber
<1>2. n \in 1..N
  OBVIOUS
<1>3. n - 1 \in 0..N /\ ~(n <= n - 1)
  BY <1>2
<1>. QED  BY <1>1, <1>2, <1>3

-----------------------------------------------------------------------------
(* One step of the recursion, and a function that follows it up to n.      *)
Step(s, S, n, before) == IF s[n] \in S THEN Append(before, s[n]) ELSE before

Follows(t, s, S, n) ==
  t = [i \in 0..n |-> IF i = 0 THEN << >> ELSE Step(s, S, i, t[i - 1])]

(* There is such a function for every n.                                   *)
LEMMA FollowerExists ==
  ASSUME NEW S, NEW T, NEW s \in Seq(T), NEW n \in 0..Len(s)
  PROVE  \E t : Follows(t, s, S, n)
<1>. DEFINE Good == {k \in 0..Len(s) : \E t : Follows(t, s, S, k)}
<1>1. 0 \in Good
  <2>. DEFINE t == [i \in 0..0 |-> << >>]
  <2>1. t = [i \in 0..0 |-> IF i = 0 THEN << >> ELSE Step(s, S, i, t[i - 1])]
    OBVIOUS
  <2>2. Follows(t, s, S, 0) /\ 0 \in 0..Len(s)
    BY <2>1 DEF Follows
  <2>. HIDE DEF t
  <2>. QED  BY <2>2
<1>2. ASSUME NEW k \in 1..Len(s), k - 1 \in Good
      PROVE  k \in Good
  <2>1. PICK t : Follows(t, s, S, k - 1)
    BY <1>2
  <2>. DEFINE u == [i \in 0..k |-> IF i = k THEN Step(s, S, k, t[k - 1]) ELSE t[i]]
  <2>2. ASSUME NEW i \in 0..k
        PROVE  u[i] = IF i = 0 THEN << >> ELSE Step(s, S, i, u[i - 1])
    <3>1. CASE i = k
      BY <3>1, k - 1 \in 0..k, k # k - 1
    <3>2. CASE i # k /\ i # 0
      <4>1. i \in 0..(k - 1) /\ i - 1 \in 0..k /\ i - 1 # k
        BY <3>2
      <4>2. t[i] = Step(s, S, i, t[i - 1])
        BY <2>1, <3>2, <4>1 DEF Follows
      <4>. QED  BY <3>2, <4>1, <4>2
    <3>3. CASE i = 0
      <4>1. 0 \in 0..(k - 1) /\ 0 # k
        OBVIOUS
      <4>. QED  BY <2>1, <3>3, <4>1 DEF Follows
    <3>. QED  BY <3>1, <3>2, <3>3
  <2>3. Follows(u, s, S, k)
    BY <2>2 DEF Follows
  <2>. QED  BY <2>3
<1>. HIDE DEF Good
<1>3. 0..Len(s) \subseteq Good
  BY <1>1, <1>2, UpTo, LenProperties
<1>. QED  BY <1>3 DEF Good

(* Two of them agree where both are defined, also when the sequences go on *)
(* differently after n.                                                    *)
LEMMA FollowersAgree ==
  ASSUME NEW S, NEW T, NEW r \in Seq(T), NEW s \in Seq(T), NEW t, NEW u,
         Follows(t, r, S, Len(r)), Follows(u, s, S, Len(s)),
         NEW n \in Nat, n <= Len(r), n <= Len(s), \A i \in 1..n : r[i] = s[i]
  PROVE  t[n] = u[n]
<1>. DEFINE Good == {k \in 0..n : t[k] = u[k]}
<1>0. Len(r) \in Nat /\ Len(s) \in Nat
  OBVIOUS
<1>1. 0 \in Good
  BY <1>0 DEF Follows
<1>2. ASSUME NEW k \in 1..n, k - 1 \in Good
      PROVE  k \in Good
  <2>1. k \in 0..Len(r) /\ k \in 0..Len(s) /\ k # 0
    BY <1>0
  <2>2. t[k] = Step(r, S, k, t[k - 1]) /\ u[k] = Step(s, S, k, u[k - 1])
    BY <2>1 DEF Follows
  <2>3. r[k] = s[k] /\ t[k - 1] = u[k - 1]
    BY <1>2
  <2>. QED  BY <2>2, <2>3 DEF Step
<1>. HIDE DEF Good
<1>3. 0..n \subseteq Good
  BY <1>1, <1>2, UpTo
<1>. QED  BY <1>3 DEF Good

(* What Selected is the last value of.                                     *)
LEMMA SelectedFollows ==
  ASSUME NEW S, NEW T, NEW s \in Seq(T)
  PROVE  \E t : Follows(t, s, S, Len(s)) /\ Selected(s, S) = t[Len(s)]
<1>. DEFINE t == CHOOSE u : Follows(u, s, S, Len(s))
<1>1. Follows(t, s, S, Len(s))
  <2>1. Len(s) \in 0..Len(s)
    OBVIOUS
  <2>2. \E u : Follows(u, s, S, Len(s))
    BY <2>1, FollowerExists
  <2>. QED  BY <2>2, Zenon
<1>2. Selected(s, S) = t[Len(s)]
  BY Zenon DEF Selected, Follows, Step
<1>. QED  BY <1>1, <1>2, Zenon

(* The types of the values on the way.                                     *)
LEMMA SelectedType ==
  ASSUME NEW S, NEW T, NEW s \in Seq(T)
  PROVE  Selected(s, S) \in Seq(T \cap S)
<1>1. PICK t : Follows(t, s, S, Len(s)) /\ Selected(s, S) = t[Len(s)]
  BY SelectedFollows
<1>. DEFINE Good == {k \in 0..Len(s) : t[k] \in Seq(T \cap S)}
<1>2. 0 \in Good
  BY <1>1 DEF Follows
<1>3. ASSUME NEW k \in 1..Len(s), k - 1 \in Good
      PROVE  k \in Good
  <2>1. k \in 0..Len(s) /\ k # 0 /\ s[k] \in T
    OBVIOUS
  <2>2. t[k] = Step(s, S, k, t[k - 1])
    BY <1>1, <2>1 DEF Follows
  <2>3. t[k - 1] \in Seq(T \cap S)
    BY <1>3
  <2>4. s[k] \in S => Append(t[k - 1], s[k]) \in Seq(T \cap S)
    BY <2>1, <2>3, AppendProperties
  <2>. QED  BY <2>1, <2>2, <2>3, <2>4 DEF Step
<1>. HIDE DEF Good
<1>4. Len(s) \in Nat /\ Len(s) \in 0..Len(s)
  OBVIOUS
<1>5. 0..Len(s) \subseteq Good
  BY <1>2, <1>3, <1>4, UpTo
<1>. QED  BY <1>1, <1>4, <1>5 DEF Good

(* The selection is a sequence over the same set.                          *)
LEMMA SelectedIn ==
  ASSUME NEW S, NEW T, NEW s \in Seq(T)
  PROVE  Selected(s, S) \in Seq(T)
<1>1. Selected(s, S) \in Seq(T \cap S)
  BY SelectedType
<1>2. T \cap S \subseteq T
  OBVIOUS
<1>. QED  BY <1>1, <1>2, SeqMonotonic, Zenon

(* Nothing is selected from the empty sequence.                            *)
LEMMA SelectedEmpty ==
  ASSUME NEW S
  PROVE  Selected(<< >>, S) = << >>
<1>1. << >> \in Seq({}) /\ Len(<< >>) = 0
  OBVIOUS
<1>2. PICK t : Follows(t, << >>, S, Len(<< >>)) /\ Selected(<< >>, S) = t[Len(<< >>)]
  BY <1>1, SelectedFollows, Zenon
<1>. QED  BY <1>1, <1>2 DEF Follows

(* An element more at the end.                                             *)
LEMMA SelectedAppend ==
  ASSUME NEW S, NEW T, NEW s \in Seq(T), NEW e \in T
  PROVE  Selected(Append(s, e), S)
           = IF e \in S THEN Append(Selected(s, S), e) ELSE Selected(s, S)
<1>. DEFINE r == Append(s, e)
            n == Len(s)
<1>1. /\ r \in Seq(T) /\ Len(r) = n + 1 /\ n \in Nat
      /\ r[n + 1] = e /\ \A i \in 1..n : r[i] = s[i]
  BY AppendProperties
<1>2. PICK t : Follows(t, s, S, n) /\ Selected(s, S) = t[n]
  BY SelectedFollows
<1>3. PICK u : Follows(u, r, S, Len(r)) /\ Selected(r, S) = u[Len(r)]
  BY <1>1, SelectedFollows
<1>. HIDE DEF r
<1>4. u[n] = t[n]
  <2>1. n <= Len(r) /\ n <= Len(s) /\ n = Len(s)
    BY <1>1
  <2>2. /\ Follows(u, r, S, Len(r)) /\ Follows(t, s, S, Len(s))
        /\ r \in Seq(T) /\ s \in Seq(T) /\ n \in Nat
        /\ \A i \in 1..n : r[i] = s[i]
    BY <1>1, <1>2, <1>3
  <2>. HIDE DEF n
  <2>. QED  BY <2>1, <2>2, FollowersAgree, SMTT(30)
<1>5. u[n + 1] = Step(r, S, n + 1, u[n])
  BY <1>1, <1>3 DEF Follows
<1>. QED  BY <1>1, <1>2, <1>3, <1>4, <1>5 DEF Step, r

(* Concatenation under a name, which a proof step can leave unexpanded.    *)
Joined(a, b) == a \o b

(* An element at the end of a concatenation is at the end of its second    *)
(* part.                                                                   *)
LEMMA JoinedAppend ==
  ASSUME NEW T, NEW a \in Seq(T), NEW b \in Seq(T), NEW c \in T
  PROVE  Joined(a, b) \in Seq(T) /\ Joined(a, Append(b, c)) = Append(Joined(a, b), c)
BY DEF Joined

(* Nothing is added by the empty sequence.                                 *)
LEMMA JoinedEmpty ==
  ASSUME NEW T, NEW a \in Seq(T)
  PROVE  Joined(a, << >>) = a
BY DEF Joined

(* The selection of a concatenation, up to an element more in its second   *)
(* part.                                                                   *)
LEMMA SelectedGrows ==
  ASSUME NEW S, NEW T, NEW s \in Seq(T), NEW f \in Seq(T), NEW e \in T,
         Selected(Joined(s, f), S) = Joined(Selected(s, S), Selected(f, S))
  PROVE  Selected(Joined(s, Append(f, e)), S) = Joined(Selected(s, S), Selected(Append(f, e), S))
<1>1. Joined(s, f) \in Seq(T) /\ Joined(s, Append(f, e)) = Append(Joined(s, f), e)
  BY JoinedAppend
<1>2. Selected(s, S) \in Seq(T) /\ Selected(f, S) \in Seq(T)
  BY SelectedIn, Zenon
<1>3. Joined(Selected(s, S), Append(Selected(f, S), e))
        = Append(Joined(Selected(s, S), Selected(f, S)), e)
  BY <1>2, JoinedAppend
<1>4. Selected(Append(f, e), S)
        = IF e \in S THEN Append(Selected(f, S), e) ELSE Selected(f, S)
  BY SelectedAppend, Zenon
<1>5. Selected(Append(Joined(s, f), e), S)
        = IF e \in S THEN Append(Selected(Joined(s, f), S), e) ELSE Selected(Joined(s, f), S)
  BY <1>1, SelectedAppend, Zenon
<1>. QED  BY <1>1, <1>3, <1>4, <1>5, Zenon

(* The selection of a concatenation.                                       *)
LEMMA SelectedConcat ==
  ASSUME NEW S, NEW T, NEW s \in Seq(T), NEW r \in Seq(T)
  PROVE  Selected(s \o r, S) = Selected(s, S) \o Selected(r, S)
<1>. DEFINE first(k) == SubSeq(r, 1, k)
            Good == {k \in 0..Len(r) :
                       Selected(Joined(s, first(k)), S) = Joined(Selected(s, S), Selected(first(k), S))}
<1>0. Len(r) \in Nat /\ first(Len(r)) = r /\ first(0) = << >>
  OBVIOUS
<1>1. 0 \in Good
  <2>1. Joined(s, << >>) = s /\ Joined(Selected(s, S), << >>) = Selected(s, S)
    BY SelectedIn, JoinedEmpty, Zenon
  <2>2. Selected(Joined(s, first(0)), S) = Joined(Selected(s, S), Selected(first(0), S))
    BY <1>0, <2>1, SelectedEmpty, Zenon
  <2>. QED  BY <1>0, <2>2
<1>2. ASSUME NEW k \in 1..Len(r), k - 1 \in Good
      PROVE  k \in Good
  <2>. DEFINE f == first(k - 1)
              e == r[k]
  <2>1. f \in Seq(T) /\ e \in T /\ first(k) = Append(f, e)
    OBVIOUS
  <2>2. Selected(Joined(s, f), S) = Joined(Selected(s, S), Selected(f, S))
    BY <1>2
  <2>. HIDE DEF f, e
  <2>3. Selected(Joined(s, Append(f, e)), S) = Joined(Selected(s, S), Selected(Append(f, e), S))
    BY <2>1, <2>2, SelectedGrows, Zenon
  <2>4. Selected(Joined(s, first(k)), S) = Joined(Selected(s, S), Selected(first(k), S))
    BY <2>1, <2>3, Zenon
  <2>. HIDE DEF first
  <2>. QED  BY <2>4
<1>3. 0..Len(r) \subseteq Good
  <2>. HIDE DEF Good
  <2>. QED  BY <1>0, <1>1, <1>2, UpTo
<1>4. Len(r) \in Good
  <2>. HIDE DEF Good
  <2>. QED  BY <1>0, <1>3
<1>5. Selected(Joined(s, first(Len(r))), S) = Joined(Selected(s, S), Selected(first(Len(r)), S))
  BY <1>4
<1>. HIDE DEF first
<1>. QED  BY <1>0, <1>5, Zenon DEF Joined

(* The selection of a single element.                                      *)
LEMMA SelectedOne ==
  ASSUME NEW S, NEW e
  PROVE  Selected(<<e>>, S) = IF e \in S THEN <<e>> ELSE << >>
<1>1. << >> \in Seq({e}) /\ e \in {e} /\ Append(<< >>, e) = <<e>>
  OBVIOUS
<1>2. Selected(Append(<< >>, e), S)
        = IF e \in S THEN Append(Selected(<< >>, S), e) ELSE Selected(<< >>, S)
  BY <1>1, SelectedAppend
<1>. QED  BY <1>1, <1>2, SelectedEmpty

(* Taking the first element away.                                          *)
LEMMA SelectedTail ==
  ASSUME NEW S, NEW T, NEW s \in Seq(T), s # << >>
  PROVE  /\ Head(s) \in S => /\ Selected(s, S) # << >>
                             /\ Head(Selected(s, S)) = Head(s)
                             /\ Selected(Tail(s), S) = Tail(Selected(s, S))
                             /\ Len(Selected(Tail(s), S)) = Len(Selected(s, S)) - 1
         /\ Head(s) \notin S => Selected(Tail(s), S) = Selected(s, S)
<1>. DEFINE e == Head(s)
            r == Tail(s)
<1>1. e \in T /\ r \in Seq(T) /\ <<e>> \in Seq(T) /\ s = <<e>> \o r
  <2>1. e \in T /\ r \in Seq(T) /\ <<e>> \in Seq(T)
    BY HeadTailProperties
  <2>2. s = <<e>> \o r
    <3>1. /\ <<e>> \o r \in Seq(T)
          /\ Len(<<e>> \o r) = Len(s)
          /\ \A i \in 1..Len(s) : (<<e>> \o r)[i] = s[i]
      OBVIOUS
    <3>. QED  BY <3>1, SeqEqual
  <2>. QED  BY <2>1, <2>2
<1>2. Selected(r, S) \in Seq(T)
  BY <1>1, SelectedIn, Zenon
<1>. HIDE DEF e, r
<1>3. Selected(s, S) = Selected(<<e>>, S) \o Selected(r, S)
  BY <1>1, SelectedConcat
<1>4. CASE e \in S
  <2>1. Selected(s, S) = <<e>> \o Selected(r, S)
    BY <1>3, <1>4, SelectedOne
  <2>2. /\ <<e>> \o Selected(r, S) # << >>
        /\ Head(<<e>> \o Selected(r, S)) = e
        /\ Tail(<<e>> \o Selected(r, S)) = Selected(r, S)
        /\ Len(<<e>> \o Selected(r, S)) = Len(Selected(r, S)) + 1
        /\ Len(Selected(r, S)) \in Nat
    BY <1>1, <1>2
  <2>. QED  BY <1>4, <2>1, <2>2 DEF e, r
<1>5. CASE e \notin S
  <2>1. Selected(s, S) = << >> \o Selected(r, S)
    BY <1>3, <1>5, SelectedOne
  <2>. QED  BY <1>2, <1>5, <2>1, ConcatEmptySeq DEF e, r
<1>. QED  BY <1>4, <1>5 DEF e

(* An element of the set that is in the sequence is selected, and what is  *)
(* selected was in the sequence.                                           *)
LEMMA SelectedElements ==
  ASSUME NEW S, NEW T, NEW s \in Seq(T)
  PROVE  /\ \A i \in 1..Len(s) : s[i] \in S => Selected(s, S) # << >>
         /\ (\A i \in 1..Len(s) : s[i] \notin S) => Selected(s, S) = << >>
<1>. DEFINE first(k) == SubSeq(s, 1, k)
            Good == {k \in 0..Len(s) : Selected(first(k), S) = << >>
                                          <=> \A i \in 1..k : s[i] \notin S}
<1>0. Len(s) \in Nat /\ first(Len(s)) = s /\ first(0) = << >>
  OBVIOUS
<1>1. 0 \in Good
  <2>1. Selected(first(0), S) = << >>
    BY <1>0, SelectedEmpty, Zenon
  <2>. HIDE DEF first
  <2>. QED  BY <1>0, <2>1
<1>2. ASSUME NEW k \in 1..Len(s), k - 1 \in Good
      PROVE  k \in Good
  <2>. DEFINE f == first(k - 1)
  <2>1. f \in Seq(T) /\ s[k] \in T /\ first(k) = Append(f, s[k])
    OBVIOUS
  <2>2. Selected(f, S) = << >> <=> \A i \in 1..(k - 1) : s[i] \notin S
    BY <1>2
  <2>. HIDE DEF f
  <2>3. Selected(Append(f, s[k]), S)
          = IF s[k] \in S THEN Append(Selected(f, S), s[k]) ELSE Selected(f, S)
    BY <2>1, SelectedAppend
  <2>4. Append(Selected(f, S), s[k]) # << >>
    <3>1. Selected(f, S) \in Seq(T)
      BY <2>1, SelectedIn, Zenon
    <3>. QED  BY <2>1, <3>1, AppendProperties
  <2>5. \A i \in 1..k : i \in 1..(k - 1) \/ i = k
    OBVIOUS
  <2>6. 1..(k - 1) \subseteq 1..k /\ k \in 1..k
    OBVIOUS
  <2>7. Selected(Append(f, s[k]), S) = << >> <=> \A i \in 1..k : s[i] \notin S
    BY <2>2, <2>3, <2>4, <2>5, <2>6
  <2>8. Selected(first(k), S) = << >> <=> \A i \in 1..k : s[i] \notin S
    BY <2>1, <2>7, Zenon
  <2>. HIDE DEF first
  <2>. QED  BY <2>8
<1>3. 0..Len(s) \subseteq Good
  <2>. HIDE DEF Good
  <2>. QED  BY <1>0, <1>1, <1>2, UpTo
<1>4. Len(s) \in Good
  <2>. HIDE DEF Good
  <2>. QED  BY <1>0, <1>3
<1>5. Selected(first(Len(s)), S) = << >> <=> \A i \in 1..Len(s) : s[i] \notin S
  BY <1>4
<1>6. Selected(s, S) = << >> <=> \A i \in 1..Len(s) : s[i] \notin S
  BY <1>0, <1>5, Zenon
<1>. QED  BY <1>6

-----------------------------------------------------------------------------
(* An element of a sequence, and how many elements are in a set.           *)
Has(s, x) == \E i \in 1..Len(s) : s[i] = x

Count(s, S) == Len(Selected(s, S))

(* The empty sequence has no element.                                      *)
LEMMA HasEmpty == \A x : ~Has(<< >>, x)
BY DEF Has

(* A sequence of one element.                                              *)
LEMMA HasOne ==
  ASSUME NEW e, NEW x
  PROVE  Has(<<e>>, x) <=> x = e
<1>1. Len(<<e>>) = 1 /\ <<e>>[1] = e
  OBVIOUS
<1>2. \A i \in 1..Len(<<e>>) : i = 1
  OBVIOUS
<1>3. 1 \in 1..Len(<<e>>)
  OBVIOUS
<1>. QED  BY <1>1, <1>2, <1>3, Zenon DEF Has

(* A sequence of two elements.                                             *)
LEMMA HasTwo ==
  ASSUME NEW d, NEW e, NEW x
  PROVE  Has(<<d, e>>, x) <=> (x = d \/ x = e)
<1>1. Len(<<d, e>>) = 2 /\ <<d, e>>[1] = d /\ <<d, e>>[2] = e
  OBVIOUS
<1>2. \A i \in 1..Len(<<d, e>>) : i = 1 \/ i = 2
  OBVIOUS
<1>3. 1 \in 1..Len(<<d, e>>) /\ 2 \in 1..Len(<<d, e>>)
  OBVIOUS
<1>. QED  BY <1>1, <1>2, <1>3, Zenon DEF Has

(* The elements of a concatenation.                                        *)
LEMMA HasConcat ==
  ASSUME NEW T, NEW s \in Seq(T), NEW r \in Seq(T), NEW x
  PROVE  Has(s \o r, x) <=> (Has(s, x) \/ Has(r, x))
<1>1. /\ Len(s \o r) = Len(s) + Len(r)
      /\ \A i \in 1..(Len(s) + Len(r)) :
            (s \o r)[i] = IF i <= Len(s) THEN s[i] ELSE r[i - Len(s)]
      /\ Len(s) \in Nat /\ Len(r) \in Nat
  BY ConcatProperties
<1>2. ASSUME Has(s, x)
      PROVE  Has(s \o r, x)
  <2>1. PICK i \in 1..Len(s) : s[i] = x
    BY <1>2 DEF Has
  <2>. QED  BY <1>1, <2>1 DEF Has
<1>3. ASSUME Has(r, x)
      PROVE  Has(s \o r, x)
  <2>1. PICK i \in 1..Len(r) : r[i] = x
    BY <1>3 DEF Has
  <2>2. /\ i + Len(s) \in 1..(Len(s) + Len(r)) /\ ~(i + Len(s) <= Len(s))
        /\ (i + Len(s)) - Len(s) = i
    BY <1>1
  <2>. QED  BY <1>1, <2>1, <2>2 DEF Has
<1>4. ASSUME Has(s \o r, x)
      PROVE  Has(s, x) \/ Has(r, x)
  <2>1. PICK i \in 1..(Len(s) + Len(r)) : (s \o r)[i] = x
    BY <1>1, <1>4 DEF Has
  <2>2. CASE i <= Len(s)
    BY <1>1, <2>1, <2>2 DEF Has
  <2>3. CASE ~(i <= Len(s))
    <3>1. i - Len(s) \in 1..Len(r)
      BY <1>1, <2>3
    <3>. QED  BY <1>1, <2>1, <2>3, <3>1 DEF Has
  <2>. QED  BY <2>2, <2>3
<1>. QED  BY <1>2, <1>3, <1>4

(* An element more at the end.                                             *)
LEMMA HasAppend ==
  ASSUME NEW T, NEW s \in Seq(T), NEW e \in T, NEW x
  PROVE  Has(Append(s, e), x) <=> (Has(s, x) \/ x = e)
<1>1. <<e>> \in Seq(T) /\ Append(s, e) = s \o <<e>>
  BY AppendIsConcat
<1>. QED  BY <1>1, HasConcat, HasOne

(* The first element, and the others.                                      *)
LEMMA HasTail ==
  ASSUME NEW T, NEW s \in Seq(T), s # << >>, NEW x
  PROVE  Has(s, x) <=> (x = Head(s) \/ Has(Tail(s), x))
<1>1. /\ Len(Tail(s)) = Len(s) - 1 /\ Len(s) \in Nat \ {0}
      /\ \A i \in 1..Len(Tail(s)) : Tail(s)[i] = s[i + 1]
      /\ Head(s) = s[1]
  BY HeadTailProperties
<1>2. ASSUME Has(s, x), x # Head(s)
      PROVE  Has(Tail(s), x)
  <2>1. PICK i \in 1..Len(s) : s[i] = x
    BY <1>2 DEF Has
  <2>2. i - 1 \in 1..Len(Tail(s)) /\ (i - 1) + 1 = i
    BY <1>1, <1>2, <2>1
  <2>. QED  BY <1>1, <2>1, <2>2 DEF Has
<1>3. ASSUME Has(Tail(s), x)
      PROVE  Has(s, x)
  <2>1. PICK i \in 1..Len(Tail(s)) : Tail(s)[i] = x
    BY <1>3 DEF Has
  <2>2. i + 1 \in 1..Len(s)
    BY <1>1
  <2>. QED  BY <1>1, <2>1, <2>2 DEF Has
<1>4. Has(s, Head(s))
  BY <1>1 DEF Has
<1>. QED  BY <1>2, <1>3, <1>4

(* Selected elements are elements.                                         *)
LEMMA SelectedHas ==
  ASSUME NEW S, NEW T, NEW s \in Seq(T), NEW x
  PROVE  Has(Selected(s, S), x) <=> (Has(s, x) /\ x \in S)
<1>. DEFINE first(k) == SubSeq(s, 1, k)
            Good == {k \in 0..Len(s) :
                       Has(Selected(first(k), S), x) <=> (Has(first(k), x) /\ x \in S)}
<1>0. Len(s) \in Nat /\ first(Len(s)) = s /\ first(0) = << >>
  OBVIOUS
<1>1. 0 \in Good
  <2>1. Has(Selected(first(0), S), x) <=> (Has(first(0), x) /\ x \in S)
    BY <1>0, SelectedEmpty, HasEmpty, Zenon
  <2>. HIDE DEF first
  <2>. QED  BY <1>0, <2>1
<1>2. ASSUME NEW k \in 1..Len(s), k - 1 \in Good
      PROVE  k \in Good
  <2>. DEFINE f == first(k - 1)
              e == s[k]
  <2>1. f \in Seq(T) /\ e \in T /\ first(k) = Append(f, e)
    OBVIOUS
  <2>2. Has(Selected(f, S), x) <=> (Has(f, x) /\ x \in S)
    BY <1>2
  <2>. HIDE DEF f, e
  <2>3. Selected(f, S) \in Seq(T)
    BY <2>1, SelectedIn, Zenon
  <2>4. Selected(Append(f, e), S)
          = IF e \in S THEN Append(Selected(f, S), e) ELSE Selected(f, S)
    BY <2>1, SelectedAppend
  <2>5. /\ Has(Append(f, e), x) <=> (Has(f, x) \/ x = e)
        /\ Has(Append(Selected(f, S), e), x) <=> (Has(Selected(f, S), x) \/ x = e)
    BY <2>1, <2>3, HasAppend
  <2>6. Has(Selected(Append(f, e), S), x) <=> (Has(Append(f, e), x) /\ x \in S)
    BY <2>2, <2>4, <2>5, Zenon
  <2>7. Has(Selected(first(k), S), x) <=> (Has(first(k), x) /\ x \in S)
    BY <2>1, <2>6, Zenon
  <2>. HIDE DEF first
  <2>. QED  BY <2>7
<1>3. 0..Len(s) \subseteq Good
  <2>. HIDE DEF Good
  <2>. QED  BY <1>0, <1>1, <1>2, UpTo
<1>4. Has(Selected(first(Len(s)), S), x) <=> (Has(first(Len(s)), x) /\ x \in S)
  BY <1>0, <1>3
<1>. QED  BY <1>0, <1>4, Zenon

-----------------------------------------------------------------------------
(* Nothing is counted in the empty sequence.                               *)
LEMMA CountEmpty == \A S : Count(<< >>, S) = 0
BY SelectedEmpty DEF Count

(* Of a single element.                                                    *)
LEMMA CountOne ==
  ASSUME NEW S, NEW e
  PROVE  Count(<<e>>, S) = IF e \in S THEN 1 ELSE 0
<1>1. Selected(<<e>>, S) = IF e \in S THEN <<e>> ELSE << >>
  BY SelectedOne, Zenon
<1>2. Len(<<e>>) = 1 /\ Len(<< >>) = 0
  OBVIOUS
<1>. QED  BY <1>1, <1>2 DEF Count

(* A number, of any sequence.                                              *)
LEMMA CountType ==
  ASSUME NEW S, NEW T, NEW s \in Seq(T)
  PROVE  Count(s, S) \in Nat
BY SelectedIn, LenProperties DEF Count

(* A concatenation has what both parts have.                               *)
LEMMA CountConcat ==
  ASSUME NEW S, NEW T, NEW s \in Seq(T), NEW r \in Seq(T)
  PROVE  Count(s \o r, S) = Count(s, S) + Count(r, S)
<1>1. Selected(s, S) \in Seq(T) /\ Selected(r, S) \in Seq(T)
  BY SelectedIn
<1>2. Selected(s \o r, S) = Selected(s, S) \o Selected(r, S)
  BY SelectedConcat
<1>. QED  BY <1>1, <1>2, ConcatProperties DEF Count

(* One more at the end.                                                    *)
LEMMA CountAppend ==
  ASSUME NEW S, NEW T, NEW s \in Seq(T), NEW e \in T
  PROVE  Count(Append(s, e), S) = Count(s, S) + (IF e \in S THEN 1 ELSE 0)
<1>1. <<e>> \in Seq(T) /\ Append(s, e) = s \o <<e>>
  BY AppendIsConcat
<1>2. Count(s \o <<e>>, S) = Count(s, S) + Count(<<e>>, S)
  BY <1>1, CountConcat
<1>. QED  BY <1>1, <1>2, CountOne

(* One less at the front.                                                  *)
LEMMA CountTail ==
  ASSUME NEW S, NEW T, NEW s \in Seq(T), s # << >>
  PROVE  Count(s, S) = Count(Tail(s), S) + (IF Head(s) \in S THEN 1 ELSE 0)
<1>1. Count(s, S) \in Nat
  BY CountType
<1>. QED  BY <1>1, SelectedTail DEF Count

(* Taking the first element away, for a single element that is counted.    *)
LEMMA CountOfOne ==
  ASSUME NEW T, NEW s \in Seq(T), s # << >>, NEW x
  PROVE  /\ Head(s) = x => Count(s, {x}) = Count(Tail(s), {x}) + 1
         /\ Head(s) # x => Count(s, {x}) = Count(Tail(s), {x})
<1>1. Count(s, {x}) = Count(Tail(s), {x}) + (IF Head(s) \in {x} THEN 1 ELSE 0)
  BY CountTail
<1>2. Count(Tail(s), {x}) \in Nat
  BY HeadTailProperties, CountType
<1>. QED  BY <1>1, <1>2

(* Something is counted exactly when it is there.                          *)
LEMMA CountPositive ==
  ASSUME NEW T, NEW s \in Seq(T), NEW x
  PROVE  Has(s, x) <=> Count(s, {x}) # 0
<1>1. Selected(s, {x}) = << >> <=> ~Has(s, x)
  BY SelectedElements DEF Has
<1>2. Selected(s, {x}) \in Seq(T)
  BY SelectedIn
<1>3. \A r \in Seq(T) : r = << >> <=> Len(r) = 0
  OBVIOUS
<1>. QED  BY <1>1, <1>2, <1>3 DEF Count

(* Counting with Cardinality gives the same.                               *)
LEMMA CountCardinality ==
  ASSUME NEW S, NEW T, NEW s \in Seq(T)
  PROVE  /\ IsFiniteSet({i \in 1..Len(s) : s[i] \in S})
         /\ Count(s, S) = Cardinality({i \in 1..Len(s) : s[i] \in S})
<1>. DEFINE at(k) == {i \in 1..k : s[i] \in S}
            first(k) == SubSeq(s, 1, k)
            Fits(k) == IsFiniteSet(at(k)) /\ Count(first(k), S) = Cardinality(at(k))
            Good == {k \in 0..Len(s) : Fits(k)}
<1>0. Len(s) \in Nat /\ first(Len(s)) = s /\ first(0) = << >>
  OBVIOUS
<1>1. 0 \in Good
  <2>1. at(0) = {}
    OBVIOUS
  <2>2. Count(first(0), S) = 0
    BY <1>0, CountEmpty, Zenon
  <2>3. IsFiniteSet(at(0)) /\ Cardinality(at(0)) = 0
    BY <2>1, FS_EmptySet
  <2>. QED  BY <1>0, <2>2, <2>3
<1>2. ASSUME NEW k \in 1..Len(s), k - 1 \in Good
      PROVE  k \in Good
  <2>1. first(k - 1) \in Seq(T) /\ s[k] \in T /\ first(k) = Append(first(k - 1), s[k])
    OBVIOUS
  <2>2. IsFiniteSet(at(k - 1)) /\ Count(first(k - 1), S) = Cardinality(at(k - 1))
    BY <1>2
  <2>. HIDE DEF first, Fits
  <2>3. Count(first(k), S) = Count(first(k - 1), S) + (IF s[k] \in S THEN 1 ELSE 0)
    BY <2>1, CountAppend
  <2>4. CASE s[k] \in S
    <3>1. at(k) = at(k - 1) \cup {k} /\ k \notin at(k - 1)
      BY <2>4
    <3>2. IsFiniteSet(at(k)) /\ Cardinality(at(k)) = Cardinality(at(k - 1)) + 1
      BY <2>2, <3>1, FS_AddElement
    <3>. QED  BY <2>2, <2>3, <2>4, <3>2 DEF Fits
  <2>5. CASE s[k] \notin S
    <3>1. at(k) = at(k - 1)
      BY <2>5
    <3>. HIDE DEF at
    <3>2. Cardinality(at(k)) \in Nat
      BY <2>2, <3>1, FS_CardinalityType
    <3>3. Count(first(k), S) = Cardinality(at(k)) + 0
      BY <2>2, <2>3, <2>5, <3>1
    <3>. QED  BY <2>2, <3>1, <3>2, <3>3 DEF Fits
  <2>. QED  BY <2>4, <2>5
<1>3. 0..Len(s) \subseteq Good
  <2>. HIDE DEF Good
  <2>. QED  BY <1>0, <1>1, <1>2, UpTo
<1>4. Fits(Len(s))
  <2>. HIDE DEF Fits
  <2>. QED  BY <1>0, <1>3
<1>. QED  BY <1>0, <1>4

(* Taking one element out from anywhere.                                   *)
LEMMA CountWithout ==
  ASSUME NEW T, NEW s \in Seq(T), NEW k \in 1..Len(s), NEW S
  PROVE  /\ SubSeq(s, 1, k - 1) \o SubSeq(s, k + 1, Len(s)) \in Seq(T)
         /\ Count(s, S) = Count(SubSeq(s, 1, k - 1) \o SubSeq(s, k + 1, Len(s)), S)
                            + (IF s[k] \in S THEN 1 ELSE 0)
<1>. DEFINE a == SubSeq(s, 1, k - 1)
            b == SubSeq(s, k + 1, Len(s))
            e == <<s[k]>>
<1>1. a \in Seq(T) /\ b \in Seq(T) /\ e \in Seq(T) /\ s[k] \in T
  OBVIOUS
<1>2. s = a \o (e \o b)
  <2>1. /\ 1 \in 1..Len(s) + 1 /\ k - 1 \in (1 - 1)..Len(s) /\ Len(s) \in (k - 1)..Len(s)
        /\ Len(s) \in k..Len(s) /\ (k - 1) + 1 = k
    OBVIOUS
  <2>2. a \o SubSeq(s, (k - 1) + 1, Len(s)) = SubSeq(s, 1, Len(s))
    BY <2>1, ConcatAdjacentSubSeq
  <2>3. SubSeq(s, k, Len(s)) = e \o b
    BY <2>1, SubSeqRecursiveFirst
  <2>4. SubSeq(s, 1, Len(s)) = s
    BY SubSeqFull
  <2>. QED  BY <2>1, <2>2, <2>3, <2>4
<1>. HIDE DEF a, b, e
<1>3. e \o b \in Seq(T) /\ a \o b \in Seq(T)
  BY <1>1, ConcatProperties
<1>4. /\ Count(s, S) = Count(a, S) + Count(e \o b, S)
      /\ Count(e \o b, S) = Count(e, S) + Count(b, S)
      /\ Count(a \o b, S) = Count(a, S) + Count(b, S)
  BY <1>1, <1>2, <1>3, CountConcat
<1>5. /\ Count(e, S) = IF s[k] \in S THEN 1 ELSE 0
      /\ Count(a, S) \in Nat /\ Count(b, S) \in Nat
  BY <1>1, CountOne, CountType DEF e
<1>. QED  BY <1>3, <1>4, <1>5 DEF a, b
=============================================================================
