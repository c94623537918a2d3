------------------------------ MODULE TextsProofs ------------------------------
(***************************************************************************)
(* What is done with texts, drawers and rooms on their way in and out of a *)
(* palace, for a text, an export, a palace and a map of any size: chunks,  *)
(* the paging of compress, the story of the memory layers, the walk over   *)
(* the palace graph, what is found in a document, what a word is           *)
(* corrected to, and which files of a project are read.                    *)
(***************************************************************************)
EXTENDS Chunking, Compressing, Layers, PalaceGraph, EntityDetection, Spelling, ScanRules,
        FiniteSetTheorems, WellFoundedInduction, TLAPS

-----------------------------------------------------------------------------
(* Numbers, sets and sequences.                                            *)

\* A set of numbers that is not empty has a least one.
LEMMA LeastOf ==
  ASSUME NEW S \in SUBSET Nat, S # {}
  PROVE  \E k \in S : \A m \in Nat : m < k => m \notin S
<1>1. PICK k \in S : \A m \in S : ~(<<m, k>> \in OpToRel(<, Nat))
  BY NatLessThanWellFounded, WFMin
<1> QED BY <1>1 DEF OpToRel

\* A set that is part of another one, or of another one and one of so many more.
LEMMA NoMore ==
  ASSUME NEW S, NEW T, IsFiniteSet(T), S \subseteq T, NEW n \in Nat, Cardinality(T) <= n
  PROVE  IsFiniteSet(S) /\ Cardinality(S) <= n
<1>1. IsFiniteSet(S) /\ Cardinality(S) <= Cardinality(T)
  BY FS_Subset
<1>2. Cardinality(S) \in Nat /\ Cardinality(T) \in Nat
  BY <1>1, FS_CardinalityType
<1> QED BY <1>1, <1>2

\* A set that is part of two others together has no more members than they have.
LEMMA NoMoreThanSum ==
  ASSUME NEW S, NEW T, NEW U, IsFiniteSet(T), IsFiniteSet(U), S \subseteq T \cup U,
         NEW n \in Nat, NEW m \in Nat, Cardinality(T) <= n, Cardinality(U) <= m
  PROVE  IsFiniteSet(S) /\ Cardinality(S) <= n + m
<1>1. /\ IsFiniteSet(T \cup U)
      /\ Cardinality(T \cup U) = Cardinality(T) + Cardinality(U) - Cardinality(T \cap U)
  BY FS_Union
<1>2. IsFiniteSet(T \cap U)
  BY FS_Subset
<1>3. Cardinality(T) \in Nat /\ Cardinality(U) \in Nat /\ Cardinality(T \cap U) \in Nat
      /\ Cardinality(T \cup U) \in Nat
  BY <1>1, <1>2, FS_CardinalityType
<1>4. Cardinality(T \cup U) <= n + m
  BY <1>1, <1>3
<1>5. n + m \in Nat
  OBVIOUS
<1> QED BY <1>1, <1>4, <1>5, NoMore

\* What a sequence holds with one more at its end, and without its first.
LEMMA RangeOfAppend ==
  ASSUME NEW S, NEW s \in Seq(S), NEW x \in S
  PROVE  Range(Append(s, x)) = Range(s) \cup {x}
<1>1. /\ DOMAIN Append(s, x) = 1..(Len(s) + 1) /\ DOMAIN s = 1..Len(s) /\ Len(s) \in Nat
      /\ Append(s, x)[Len(s) + 1] = x
      /\ \A k \in 1..Len(s) : Append(s, x)[k] = s[k]
  OBVIOUS
<1>2. 1..(Len(s) + 1) = 1..Len(s) \cup {Len(s) + 1}
  BY <1>1
<1> QED BY <1>1, <1>2 DEF Range

\* What a sequence holds is its first element and what the rest holds.
LEMMA RangeOfTail ==
  ASSUME NEW S, NEW s \in Seq(S), s # <<>>
  PROVE  /\ Tail(s) \in Seq(S) /\ s[1] \in S /\ Len(s) \in Nat \ {0} /\ 1 \in DOMAIN s
         /\ Len(Tail(s)) = Len(s) - 1
         /\ \A k \in DOMAIN Tail(s) : Tail(s)[k] = s[k + 1] /\ k + 1 \in DOMAIN s
         /\ Range(s) = {s[1]} \cup Range(Tail(s))
<1>1. /\ Tail(s) \in Seq(S) /\ s[1] \in S /\ Len(s) \in Nat \ {0} /\ 1 \in DOMAIN s
      /\ Len(Tail(s)) = Len(s) - 1
      /\ \A k \in DOMAIN Tail(s) : Tail(s)[k] = s[k + 1] /\ k + 1 \in DOMAIN s
  OBVIOUS
<1>2. \A k \in DOMAIN s : k = 1 \/ (k - 1 \in DOMAIN Tail(s) /\ s[k] = Tail(s)[k - 1])
  BY <1>1
<1>3. \A x : x \in Range(s) <=> \E k \in DOMAIN s : x = s[k]
  BY DEF Range
<1>4. \A x : x \in Range(Tail(s)) <=> \E k \in DOMAIN Tail(s) : x = Tail(s)[k]
  BY DEF Range
<1>5. ASSUME NEW x \in Range(s) PROVE x = s[1] \/ x \in Range(Tail(s))
  <2>1. PICK k \in DOMAIN s : x = s[k]
    BY <1>3
  <2>2. k = 1 \/ (k - 1 \in DOMAIN Tail(s) /\ x = Tail(s)[k - 1])
    BY <1>2, <2>1
  <2> QED BY <2>1, <2>2, <1>4
<1>6. \A x : x = s[1] \/ x \in Range(Tail(s)) => x \in Range(s)
  BY <1>1, <1>3, <1>4
<1>7. Range(s) = {s[1]} \cup Range(Tail(s))
  BY <1>5, <1>6
<1> QED BY <1>1, <1>7

\* What a queue is made of once its head is taken and others are put behind it.
LEMMA QueueBehind ==
  ASSUME NEW S, NEW s \in Seq(S), s # <<>>, NEW t \in Seq(S), NEW q, q = Tail(s) \o t
  PROVE  /\ q \in Seq(S)
         /\ \A i \in DOMAIN q : i \in Nat
         /\ \A i \in DOMAIN q : \/ i + 1 \in DOMAIN s /\ q[i] = s[i + 1] /\ i < Len(s)
                                \/ i - (Len(s) - 1) \in DOMAIN t /\ q[i] = t[i - (Len(s) - 1)] /\ i >= Len(s)
         /\ \A i \in DOMAIN s : i # 1 => i - 1 \in DOMAIN q /\ q[i - 1] = s[i]
         /\ \A i \in DOMAIN t : i + (Len(s) - 1) \in DOMAIN q /\ q[i + (Len(s) - 1)] = t[i]
         /\ Len(s) \in Nat \ {0} /\ 1 \in DOMAIN s /\ s[1] \in S
<1>1. /\ Len(s) \in Nat \ {0} /\ Len(t) \in Nat /\ DOMAIN s = 1..Len(s) /\ DOMAIN t = 1..Len(t)
      /\ Tail(s) \in Seq(S) /\ Len(Tail(s)) = Len(s) - 1
      /\ \A i \in 1..(Len(s) - 1) : Tail(s)[i] = s[i + 1]
  OBVIOUS
<1>2. PICK h : h = Tail(s)
  OBVIOUS
<1>3. /\ q = h \o t /\ h \in Seq(S) /\ Len(h) = Len(s) - 1
      /\ \A i \in 1..(Len(s) - 1) : h[i] = s[i + 1]
  BY <1>1, <1>2
<1>4. /\ q \in Seq(S) /\ DOMAIN q = 1..(Len(h) + Len(t))
      /\ \A i \in 1..(Len(h) + Len(t)) : q[i] = IF i <= Len(h) THEN h[i] ELSE t[i - Len(h)]
  BY <1>3
<1>5. \A i \in DOMAIN q : i \in Nat
  BY <1>1, <1>3, <1>4
<1>6. ASSUME NEW i \in DOMAIN q
      PROVE  \/ i + 1 \in DOMAIN s /\ q[i] = s[i + 1] /\ i < Len(s)
             \/ i - (Len(s) - 1) \in DOMAIN t /\ q[i] = t[i - (Len(s) - 1)] /\ i >= Len(s)
  BY <1>1, <1>3, <1>4
<1>7. ASSUME NEW i \in DOMAIN s, i # 1 PROVE i - 1 \in DOMAIN q /\ q[i - 1] = s[i]
  <2>1. i - 1 \in 1..(Len(s) - 1) /\ i - 1 <= Len(h) /\ (i - 1) + 1 = i
    BY <1>1, <1>3, <1>7
  <2> QED BY <1>1, <1>3, <1>4, <2>1
<1>8. ASSUME NEW i \in DOMAIN t
      PROVE  i + (Len(s) - 1) \in DOMAIN q /\ q[i + (Len(s) - 1)] = t[i]
  <2>1. i + (Len(s) - 1) \in 1..(Len(h) + Len(t)) /\ ~(i + (Len(s) - 1) <= Len(h))
    BY <1>1, <1>3
  <2>2. (i + (Len(s) - 1)) - Len(h) = i
    BY <1>1, <1>3
  <2> QED BY <1>4, <2>1, <2>2
<1> QED BY <1>1, <1>4, <1>5, <1>6, <1>7, <1>8

\* The first n elements of a sequence.
LEMMA FirstPart ==
  ASSUME NEW S, NEW s \in Seq(S), NEW n \in 1..Len(s)
  PROVE  /\ SubSeq(s, 1, n) \in Seq(S) /\ Len(SubSeq(s, 1, n)) = n
         /\ DOMAIN SubSeq(s, 1, n) = 1..n
         /\ \A i \in 1..n : SubSeq(s, 1, n)[i] = s[i] /\ s[i] \in S
<1>1. Len(s) \in Nat /\ n \in Nat /\ n <= Len(s)
  OBVIOUS
<1>2. \A i \in 1..n : s[i] \in S
  BY <1>1
<1>3. SubSeq(s, 1, n) = [i \in 1..n |-> s[i]]
  BY <1>1
<1> QED BY <1>1, <1>2, <1>3

\* An order of a finite set has all of it.
LEMMA OrderIsOnto ==
  ASSUME NEW S, IsFiniteSet(S), NEW order \in SetToSeqs(S)
  PROVE  /\ order \in Seq(S) /\ DOMAIN order = 1..Len(order) /\ Len(order) \in Nat
         /\ \A s \in S : \E i \in DOMAIN order : order[i] = s
<1>1. PICK n : n = Cardinality(S)
  OBVIOUS
<1>2. n \in Nat
  BY <1>1, FS_CardinalityType
<1>3. order \in [1..n -> S] /\ \A i, j \in 1..n : i # j => order[i] # order[j]
  BY <1>1 DEF SetToSeqs
<1>4. order \in Injection(1..n, S)
  BY <1>3 DEF Injection, IsInjective
<1>5. Cardinality(1..n) = n
  BY <1>2, FS_Interval
<1>6. order \in Surjection(1..n, S)
  BY <1>1, <1>4, <1>5, FS_Injection
<1> QED BY <1>2, <1>3, <1>6 DEF Surjection

-----------------------------------------------------------------------------
(* Finite orders: the place of a member, and the first so many.            *)

Orders(S, R) ==
    /\ \A i \in S : <<i, i>> \notin R
    /\ \A i, j \in S : i = j \/ <<i, j>> \in R \/ <<j, i>> \in R
    /\ \A i, j, k \in S : <<i, j>> \in R /\ <<j, k>> \in R => <<i, k>> \in R

NotAfter(S, R, i) == {j \in S : j = i \/ <<j, i>> \in R}
Place(S, R, i) == Cardinality(NotAfter(S, R, i))
FirstOf(S, R, n) == {i \in S : Place(S, R, i) <= n}

\* The place of a member in an order is how many are not after it.
LEMMA PlaceGoesUp ==
  ASSUME NEW S, NEW R, IsFiniteSet(S), Orders(S, R), NEW i \in S
  PROVE  /\ Place(S, R, i) \in 1..Cardinality(S)
         /\ \A j \in S : <<j, i>> \in R => Place(S, R, j) < Place(S, R, i)
<1>1. ASSUME NEW k \in S
      PROVE  /\ IsFiniteSet(NotAfter(S, R, k)) /\ Place(S, R, k) \in Nat
             /\ Place(S, R, k) <= Cardinality(S) /\ Place(S, R, k) > 0
  <2>1. NotAfter(S, R, k) \subseteq S /\ k \in NotAfter(S, R, k)
    BY DEF NotAfter
  <2>2. IsFiniteSet(NotAfter(S, R, k)) /\ Cardinality(NotAfter(S, R, k)) <= Cardinality(S)
    BY <2>1, FS_Subset
  <2>3. Cardinality(NotAfter(S, R, k)) \in Nat /\ Cardinality(NotAfter(S, R, k)) # 0
    BY <2>1, <2>2, FS_CardinalityType, FS_EmptySet
  <2> QED BY <2>2, <2>3 DEF Place
<1>2. ASSUME NEW j \in S, <<j, i>> \in R PROVE Place(S, R, j) < Place(S, R, i)
  <2>1. NotAfter(S, R, j) \subseteq NotAfter(S, R, i)
    BY <1>2 DEF NotAfter, Orders
  <2>2. i \in NotAfter(S, R, i) /\ i \notin NotAfter(S, R, j)
    BY <1>2 DEF NotAfter, Orders
  <2>3. /\ Place(S, R, j) <= Place(S, R, i)
        /\ Place(S, R, j) = Place(S, R, i) => NotAfter(S, R, j) = NotAfter(S, R, i)
    BY <1>1, <2>1, FS_Subset DEF Place
  <2>4. Place(S, R, j) \in Nat /\ Place(S, R, i) \in Nat /\ Place(S, R, j) # Place(S, R, i)
    BY <1>1, <2>2, <2>3
  <2> QED BY <2>3, <2>4
<1>3. Cardinality(S) \in Nat
  BY FS_CardinalityType
<1>4. Place(S, R, i) \in 1..Cardinality(S)
  <2>1. Place(S, R, i) \in Nat /\ Place(S, R, i) <= Cardinality(S) /\ Place(S, R, i) > 0
    BY <1>1
  <2> QED BY <2>1, <1>3
<1> QED BY <1>2, <1>4

\* Every place is taken, by one member.
LEMMA PlacesAreTaken ==
  ASSUME NEW S, NEW R, IsFiniteSet(S), Orders(S, R)
  PROVE  [i \in S |-> Place(S, R, i)] \in Bijection(S, 1..Cardinality(S))
<1> DEFINE T == 1..Cardinality(S)
           f == [i \in S |-> Place(S, R, i)]
<1>1. Cardinality(S) \in Nat
  BY FS_CardinalityType
<1>2. IsFiniteSet(T) /\ Cardinality(T) = Cardinality(S)
  <2>1. /\ IsFiniteSet(T)
        /\ Cardinality(T) = IF 1 > Cardinality(S) THEN 0 ELSE Cardinality(S) - 1 + 1
    BY <1>1, FS_Interval
  <2> QED BY <2>1, <1>1
<1>3. f \in [S -> T]
  BY PlaceGoesUp
<1>4. ASSUME NEW i \in S, NEW j \in S, i # j PROVE f[i] # f[j]
  <2>1. Place(S, R, i) \in 1..Cardinality(S) /\ Place(S, R, j) \in 1..Cardinality(S)
    BY PlaceGoesUp
  <2>2. <<i, j>> \in R \/ <<j, i>> \in R
    BY <1>4 DEF Orders
  <2>3. Place(S, R, i) < Place(S, R, j) \/ Place(S, R, j) < Place(S, R, i)
    BY <2>2, PlaceGoesUp
  <2> QED BY <2>1, <2>3, <1>1
<1>5. f \in Injection(S, T)
  BY <1>3, <1>4 DEF Injection, IsInjective
<1> HIDE DEF f, T
<1>6. f \in Surjection(S, T)
  BY <1>2, <1>5, FS_Injection
<1> QED BY <1>5, <1>6 DEF Bijection, f, T

\* The first n are n, unless there are not as many.
LEMMA FirstOfSize ==
  ASSUME NEW S, NEW R, IsFiniteSet(S), Orders(S, R), NEW n \in Nat
  PROVE  /\ IsFiniteSet(FirstOf(S, R, n)) /\ FirstOf(S, R, n) \subseteq S
         /\ Cardinality(FirstOf(S, R, n)) <= n
         /\ Cardinality(FirstOf(S, R, n)) = n \/ FirstOf(S, R, n) = S
         /\ Cardinality(S) <= n => FirstOf(S, R, n) = S
         /\ n <= Cardinality(S) => Cardinality(FirstOf(S, R, n)) = n
<1> DEFINE F == FirstOf(S, R, n)
           f == [i \in F |-> Place(S, R, i)]
           g == [i \in S |-> Place(S, R, i)]
<1>1. F \subseteq S /\ IsFiniteSet(F)
  BY FS_Subset DEF FirstOf
<1>2. Cardinality(S) \in Nat /\ Cardinality(F) \in Nat
  BY <1>1, FS_CardinalityType
<1>3. \A i \in S : Place(S, R, i) \in 1..Cardinality(S)
  BY PlaceGoesUp
<1>4. g \in Bijection(S, 1..Cardinality(S))
  BY PlacesAreTaken
<1>5. CASE Cardinality(S) <= n
  <2>1. \A i \in S : Place(S, R, i) <= n
    BY <1>2, <1>3, <1>5
  <2>2. F = S
    BY <2>1 DEF FirstOf
  <2> QED BY <2>2, <1>1, <1>2, <1>5
<1>6. CASE n < Cardinality(S)
  <2>1. ASSUME NEW i \in F PROVE Place(S, R, i) \in 1..n
    BY <1>2, <1>3, <2>1 DEF FirstOf
  <2>2. f \in Injection(F, 1..n)
    BY <2>1, <1>1, <1>4 DEF Bijection, Injection, IsInjective
  <2>3. ASSUME NEW k \in 1..n PROVE \E i \in F : f[i] = k
    <3>1. k \in 1..Cardinality(S)
      BY <1>2, <1>6
    <3>2. PICK i \in S : g[i] = k
      BY <3>1, <1>4 DEF Bijection, Surjection
    <3>3. Place(S, R, i) = k
      BY <3>2
    <3>4. i \in F
      BY <3>3 DEF FirstOf
    <3> QED BY <3>3, <3>4
  <2>4. f \in Bijection(F, 1..n)
    BY <2>2, <2>3 DEF Bijection, Surjection, Injection
  <2>5. Cardinality(1..n) = Cardinality(F)
    BY <2>4, <1>1, FS_Bijection DEF ExistsBijection
  <2>6. Cardinality(1..n) = n
    BY FS_Interval
  <2> QED BY <2>5, <2>6, <1>1, <1>2, <1>6
<1> QED BY <1>2, <1>5, <1>6

\* When members come, no more leave the first n than came; when members go, no
\* more enter the first n than went.
LEMMA FewLeaveTheFirst ==
  ASSUME NEW S, NEW T, NEW R, IsFiniteSet(T), Orders(T, R), S \subseteq T, NEW n \in Nat
  PROVE  /\ IsFiniteSet(FirstOf(S, R, n) \ FirstOf(T, R, n))
         /\ Cardinality(FirstOf(S, R, n) \ FirstOf(T, R, n)) <= Cardinality(T \ S)
         /\ S \cap FirstOf(T, R, n) \subseteq FirstOf(S, R, n)
<1> DEFINE A == FirstOf(S, R, n)
           B == FirstOf(T, R, n)
<1>1. IsFiniteSet(S) /\ Orders(S, R) /\ IsFiniteSet(T \ S)
  BY FS_Subset, FS_Difference DEF Orders
<1>2. /\ IsFiniteSet(A) /\ A \subseteq S /\ Cardinality(A) <= n /\ Cardinality(A) \in Nat
      /\ IsFiniteSet(B) /\ B \subseteq T /\ Cardinality(B) \in Nat /\ (Cardinality(B) = n \/ B = T)
  BY <1>1, FirstOfSize, FS_CardinalityType
<1>3. S \cap B \subseteq A
  <2> SUFFICES ASSUME NEW i \in S, i \in B PROVE i \in A
    OBVIOUS
  <2>1. NotAfter(S, R, i) \subseteq NotAfter(T, R, i) /\ NotAfter(T, R, i) \subseteq T
    BY DEF NotAfter
  <2>2. IsFiniteSet(NotAfter(T, R, i))
    BY <2>1, FS_Subset
  <2>3. Place(S, R, i) <= Place(T, R, i)
    BY <2>1, <2>2, FS_Subset DEF Place
  <2>4. Place(S, R, i) \in Nat /\ Place(T, R, i) \in Nat /\ Place(T, R, i) <= n
    <3>1. IsFiniteSet(NotAfter(S, R, i))
      BY <2>1, <2>2, FS_Subset
    <3> QED BY <2>2, <3>1, FS_CardinalityType DEF Place, FirstOf
  <2> QED BY <2>3, <2>4 DEF FirstOf
<1> HIDE DEF A, B
<1>4. /\ IsFiniteSet(A \ B) /\ Cardinality(A \ B) = Cardinality(A) - Cardinality(A \cap B)
      /\ IsFiniteSet(B \ A) /\ Cardinality(B \ A) = Cardinality(B) - Cardinality(A \cap B)
      /\ Cardinality(A \cap B) \in Nat
  <2>1. B \cap A = A \cap B
    OBVIOUS
  <2>2. IsFiniteSet(A \cap B)
    BY <1>2, FS_Subset
  <2>3. IsFiniteSet(A \ B) /\ Cardinality(A \ B) = Cardinality(A) - Cardinality(A \cap B)
    BY <1>2, FS_Difference
  <2>4. IsFiniteSet(B \ A) /\ Cardinality(B \ A) = Cardinality(B) - Cardinality(B \cap A)
    BY <1>2, FS_Difference
  <2>5. Cardinality(A \cap B) \in Nat
    BY <2>2, FS_CardinalityType
  <2> QED BY <2>1, <2>3, <2>4, <2>5
<1>5. B \ A \subseteq T \ S
  BY <1>2, <1>3
<1>6. Cardinality(B \ A) <= Cardinality(T \ S)
  BY <1>1, <1>5, FS_Subset
<1>7. Cardinality(T \ S) \in Nat
  BY <1>1, FS_CardinalityType
<1>8. CASE B = T
  <2>1. A \ B = {}
    BY <1>2, <1>8
  <2>2. Cardinality(A \ B) = 0
    BY <2>1, FS_EmptySet
  <2> QED BY <1>3, <1>4, <1>7, <2>2 DEF A, B
<1>9. CASE Cardinality(B) = n
  <2>1. Cardinality(A \ B) <= Cardinality(B \ A)
    BY <1>2, <1>4, <1>9
  <2>2. Cardinality(A \ B) <= Cardinality(T \ S)
    BY <2>1, <1>2, <1>4, <1>6, <1>7
  <2> QED BY <1>3, <1>4, <2>2 DEF A, B
<1> QED BY <1>2, <1>8, <1>9

\* The members at the places behind n, as many as k.
LEMMA NextOnes ==
  ASSUME NEW S, NEW R, IsFiniteSet(S), Orders(S, R), NEW n \in Nat, NEW k \in Nat,
         NEW P, P \subseteq S,
         \A i \in S : i \in P <=> n < Place(S, R, i) /\ Place(S, R, i) <= n + k
  PROVE  /\ IsFiniteSet(P) /\ Cardinality(P) \in 0..k
         /\ \A i \in P : i \notin FirstOf(S, R, n)
         /\ FirstOf(S, R, n + Cardinality(P)) = FirstOf(S, R, n) \cup P
         /\ Cardinality(P) < k => FirstOf(S, R, n + Cardinality(P)) = S
<1> DEFINE A == FirstOf(S, R, n)
           B == FirstOf(S, R, n + k)
<1>1. \A i \in S : Place(S, R, i) \in Nat
  <2>1. \A i \in S : Place(S, R, i) \in 1..Cardinality(S)
    BY PlaceGoesUp
  <2> QED BY <2>1, FS_CardinalityType
<1>2. P = B \ A /\ A \subseteq B
  BY <1>1 DEF FirstOf
<1>3. n + k \in Nat /\ Cardinality(S) \in Nat
  BY FS_CardinalityType
<1>4. /\ IsFiniteSet(A) /\ A \subseteq S /\ Cardinality(A) <= n
      /\ Cardinality(S) <= n => A = S
      /\ n <= Cardinality(S) => Cardinality(A) = n
      /\ IsFiniteSet(B) /\ B \subseteq S
      /\ Cardinality(S) <= n + k => B = S
      /\ n + k <= Cardinality(S) => Cardinality(B) = n + k
  BY <1>3, FirstOfSize
<1>5. /\ IsFiniteSet(P) /\ Cardinality(P) = Cardinality(B) - Cardinality(A) /\ Cardinality(P) \in Nat
  <2>1. B \cap A = A
    BY <1>2
  <2>2. IsFiniteSet(B \ A) /\ Cardinality(B \ A) = Cardinality(B) - Cardinality(B \cap A)
    BY <1>4, FS_Difference
  <2>3. Cardinality(B \ A) \in Nat
    BY <2>2, FS_CardinalityType
  <2> QED BY <1>2, <2>1, <2>2, <2>3
<1>6. Cardinality(A) \in Nat /\ Cardinality(B) \in Nat
  BY <1>4, FS_CardinalityType
<1> DEFINE m == n + Cardinality(P)
<1>7. m \in Nat
  BY <1>5
<1>8. CASE n + k <= Cardinality(S)
  <2>1. Cardinality(P) = k
    BY <1>3, <1>4, <1>5, <1>6, <1>8
  <2>2. FirstOf(S, R, m) = A \cup P
    BY <2>1, <1>2
  <2>3. Cardinality(P) \in 0..k /\ ~(Cardinality(P) < k)
    BY <2>1
  <2> QED BY <1>2, <1>5, <2>2, <2>3
<1>9. CASE Cardinality(S) < n + k /\ n <= Cardinality(S)
  <2>1. B = S /\ Cardinality(P) = Cardinality(S) - n
    BY <1>3, <1>4, <1>5, <1>6, <1>9
  <2>2. m = Cardinality(S) /\ Cardinality(P) < k
    BY <2>1, <1>3, <1>9
  <2>3. FirstOf(S, R, m) = S
    BY <2>2, <1>7, FirstOfSize
  <2>4. S = A \cup P
    BY <2>1, <1>2
  <2>5. Cardinality(P) \in 0..k
    BY <2>2, <1>5
  <2>6. \A i \in P : i \notin A
    BY <1>2
  <2> QED BY <1>5, <2>2, <2>3, <2>4, <2>5, <2>6
<1>10. CASE Cardinality(S) < n
  <2>1. A = S
    BY <1>3, <1>4, <1>10
  <2>2. P = {}
    BY <2>1, <1>2, <1>4
  <2>3. Cardinality(P) = 0
    BY <2>2, FS_EmptySet
  <2>4. Cardinality(P) \in 0..k /\ n + Cardinality(P) = n
    BY <2>3
  <2>5. FirstOf(S, R, n + Cardinality(P)) = A
    BY <2>4
  <2> QED BY <1>5, <2>1, <2>2, <2>4, <2>5
<1> QED BY <1>3, <1>8, <1>9, <1>10

-----------------------------------------------------------------------------
(* Chunking: a cut ends behind the overlap of the one before, so no letter *)
(* falls between two windows.                                              *)

PieceOrder ==
    \A n \in DOMAIN pieces :
        \/ pieces[n].from <= start + 1
        \/ /\ pieces[n].from <= end /\ Letter(pieces[n].from)
           /\ \A i \in (start + 1)..(pieces[n].from - 1) : ~Letter(i)

ChunkInv ==
    /\ ChunkTypeOK
    /\ (end > 0 /\ end < Len(content)) => start + ChunkOverlap = end
    /\ end = Len(content) => start = end
    /\ end = 0 => pieces = <<>>
    /\ StretchesAreWhole /\ ChunksAreBounded /\ PieceOrder

\* The overlap is at most half a chunk, so that a window always moves on.
LEMMA HalfIsEnough ==
    /\ ChunkSize \in Nat \ {0} /\ ChunkOverlap \in Nat
    /\ ChunkOverlap <= ChunkSize \div 2 /\ ChunkSize \div 2 \in Nat
BY ChunkAssumption DEF ChunkAssumption

\* A window ends behind its start, and unless it is the last one behind its
\* overlap.
LEMMA WindowMoves ==
    ASSUME ChunkTypeOK, MoreText, NEW e \in start..Len(content), EndsWindow(e)
    PROVE  /\ e > start /\ e <= start + ChunkSize
           /\ e < Len(content) => e > start + ChunkOverlap
<1>1. /\ start \in Nat /\ Len(content) \in Nat /\ start < Len(content) /\ e \in Nat
  BY DEF ChunkTypeOK, MoreText
<1>2. /\ FullEnd \in Nat /\ FullEnd <= start + ChunkSize /\ FullEnd <= Len(content)
      /\ FullEnd > start /\ (FullEnd < Len(content) => FullEnd = start + ChunkSize)
  BY <1>1, HalfIsEnough DEF FullEnd
<1>3. CASE e = FullEnd
  <2>1. ChunkOverlap < ChunkSize
    BY ChunkAssumption DEF ChunkAssumption
  <2> QED BY <1>1, <1>2, <1>3, <2>1, HalfIsEnough
<1>4. CASE \E double \in BOOLEAN : e + 1 \in Breaks(double)
  <2>1. /\ e + 1 >= start + (ChunkSize \div 2) + 2 /\ e + 1 <= FullEnd
    BY <1>1, <1>2, <1>4, HalfIsEnough DEF Breaks
  <2> QED BY <1>1, <1>2, <2>1, HalfIsEnough
<1> QED BY <1>3, <1>4 DEF EndsWindow, IsLast

\* A cut keeps every letter in a piece, and the pieces in order.
LEMMA ChunkStep == ChunkInv /\ CutChunk => ChunkInv'
<1> SUFFICES ASSUME ChunkInv, CutChunk PROVE ChunkInv'
  OBVIOUS
<1>0. PICK e \in start..Len(content) :
        /\ EndsWindow(e) /\ end' = e /\ start' = NextStart(e)
        /\ \E from, to \in start..(e + 1) :
             /\ IsTrimmed([from |-> from, to |-> to], e)
             /\ pieces' = Append(pieces, [from |-> from, to |-> to])
  BY DEF CutChunk
<1>a. PICK from \in start..(e + 1), to \in start..(e + 1) :
        /\ IsTrimmed([from |-> from, to |-> to], e)
        /\ pieces' = Append(pieces, [from |-> from, to |-> to])
  BY <1>0
<1>1. /\ EndsWindow(e) /\ end' = e /\ start' = NextStart(e)
      /\ IsTrimmed([from |-> from, to |-> to], e)
      /\ pieces' = Append(pieces, [from |-> from, to |-> to])
  BY <1>0, <1>a
<1>2. content' = content /\ MoreText /\ ChunkTypeOK
  BY DEF CutChunk, ChunkInv
<1>3. /\ e > start /\ e <= start + ChunkSize /\ e <= Len(content)
      /\ e < Len(content) => e > start + ChunkOverlap
  BY <1>1, <1>2, WindowMoves
<1>4. /\ start \in Nat /\ end \in Nat /\ start <= end /\ end <= Len(content) /\ Len(content) \in Nat
      /\ e \in Nat /\ from \in Nat /\ to \in Nat /\ start < Len(content)
  BY <1>2 DEF ChunkTypeOK, MoreText
<1>5. /\ start' \in Nat /\ start' > start /\ start' <= e
      /\ e < Len(content) => start' + ChunkOverlap = e
      /\ e = Len(content) => start' = e
  BY <1>1, <1>3, <1>4, HalfIsEnough DEF NextStart
<1>b. PICK next \in Nat : start' = next /\ next > start /\ next <= e
  BY <1>5
<1>6. /\ end < Len(content) /\ end <= e
      /\ end > 0 => start + ChunkOverlap = end
      /\ end = 0 => start = 0 /\ pieces = <<>>
  BY <1>2, <1>3, <1>4, HalfIsEnough DEF ChunkInv, MoreText
<1> DEFINE c == [from |-> from, to |-> to]
           new == Len(pieces) + 1
<1>7. pieces \in Seq(Interval) /\ c \in Interval /\ c.from = from /\ c.to = to
  BY <1>2, <1>4 DEF ChunkTypeOK, Interval
<1>8. /\ pieces' \in Seq(Interval) /\ DOMAIN pieces' = DOMAIN pieces \cup {new}
      /\ \A n \in DOMAIN pieces : pieces'[n] = pieces[n] /\ n < new /\ n \in Nat
      /\ pieces'[new] = c /\ new \in Nat
  BY <1>1, <1>7
<1>9. ChunkTypeOK'
  BY <1>1, <1>2, <1>3, <1>4, <1>5, <1>8 DEF ChunkTypeOK
<1>10. /\ \A i \in (start + 1)..e : Letter(i) => from <= i /\ i <= to
       /\ \/ from = start + 1 /\ to = start
          \/ from \in (start + 1)..e /\ to \in (start + 1)..e /\ Letter(from)
       /\ (\E i \in (start + 1)..e : Letter(i)) => Letter(from)
  BY <1>1, <1>7 DEF IsTrimmed, Within
<1>11. StretchesAreWhole'
  <2> SUFFICES ASSUME NEW i \in 1..e, NEW k \in 1..e, i <= k, k - i <= ChunkOverlap,
                      Letter(i), Letter(k)
               PROVE  \E n \in DOMAIN pieces' : Within(i, pieces'[n]) /\ Within(k, pieces'[n])
    BY <1>1, <1>2 DEF StretchesAreWhole, Letter
  <2>1. CASE k <= end
    <3>1. i \in 1..end /\ k \in 1..end
      BY <1>4, <2>1
    <3>2. PICK n \in DOMAIN pieces : Within(i, pieces[n]) /\ Within(k, pieces[n])
      BY <3>1 DEF ChunkInv, StretchesAreWhole
    <3> QED BY <3>2, <1>8
  <2>2. CASE k > end
    <3>1. i >= start + 1
      BY <1>4, <1>6, <2>2, HalfIsEnough
    <3>2. Within(i, c) /\ Within(k, c)
      BY <3>1, <1>4, <1>7, <1>10 DEF Within
    <3> QED BY <3>2, <1>8
  <2> QED BY <2>1, <2>2, <1>4
<1>12. \A n \in DOMAIN pieces : pieces[n].from <= from /\ pieces[n].from \in Int
  <2> SUFFICES ASSUME NEW n \in DOMAIN pieces PROVE pieces[n].from <= from /\ pieces[n].from \in Int
    OBVIOUS
  <2>1. pieces[n] \in Interval
    BY <1>7
  <2>a. pieces[n].from \in Int
    BY <2>1 DEF Interval
  <2>2. \/ pieces[n].from <= start + 1
        \/ /\ pieces[n].from <= end /\ Letter(pieces[n].from)
           /\ \A i \in (start + 1)..(pieces[n].from - 1) : ~Letter(i)
    BY DEF ChunkInv, PieceOrder
  <2>3. CASE pieces[n].from <= start + 1
    BY <2>a, <2>3, <1>10, <1>4
  <2>4. CASE ~(pieces[n].from <= start + 1)
    <3>1. pieces[n].from \in (start + 1)..e /\ Letter(pieces[n].from)
      BY <2>a, <2>2, <2>4, <1>4, <1>6
    <3>2. Letter(from) /\ from >= start + 1
      BY <3>1, <1>10, <1>4
    <3> QED BY <3>2, <2>a, <2>2, <2>4, <1>4
  <2> QED BY <2>a, <2>3, <2>4
<1>13. ChunksAreBounded'
  <2>1. to - from + 1 <= ChunkSize
    BY <1>3, <1>4, <1>10, HalfIsEnough
  <2>2. \A n \in DOMAIN pieces' : pieces'[n].to - pieces'[n].from + 1 <= ChunkSize
    BY <2>1, <1>7, <1>8 DEF ChunkInv, ChunksAreBounded
  <2>3. \A m, n \in DOMAIN pieces' : m < n => pieces'[m].from <= pieces'[n].from
    <3> SUFFICES ASSUME NEW m \in DOMAIN pieces', NEW n \in DOMAIN pieces', m < n
                 PROVE  pieces'[m].from <= pieces'[n].from
      OBVIOUS
    <3>1. m \in DOMAIN pieces
      BY <1>8
    <3>2. CASE n = new
      BY <3>1, <3>2, <1>7, <1>8, <1>12
    <3>3. CASE n \in DOMAIN pieces
      BY <3>1, <3>3, <1>8 DEF ChunkInv, ChunksAreBounded
    <3> QED BY <3>2, <3>3, <1>8
  <2> QED BY <2>2, <2>3 DEF ChunksAreBounded
<1>14. PieceOrder'
  <2> SUFFICES ASSUME NEW n \in DOMAIN pieces'
               PROVE  \/ pieces'[n].from <= next + 1
                      \/ /\ pieces'[n].from <= e /\ Letter(pieces'[n].from)
                         /\ \A i \in (next + 1)..(pieces'[n].from - 1) : ~Letter(i)
    BY <1>1, <1>2, <1>b DEF PieceOrder, Letter
  <2>1. CASE n \in DOMAIN pieces
    <3>1. pieces[n].from \in Int /\ pieces'[n].from = pieces[n].from
      BY <2>1, <1>8, <1>12
    <3>2. \/ pieces[n].from <= start + 1
          \/ /\ pieces[n].from <= end /\ Letter(pieces[n].from)
             /\ \A i \in (start + 1)..(pieces[n].from - 1) : ~Letter(i)
      BY <2>1 DEF ChunkInv, PieceOrder
    <3>3. CASE pieces[n].from <= start + 1
      BY <3>1, <3>3, <1>4, <1>b
    <3>4. CASE ~(pieces[n].from <= start + 1)
      <4>1. ASSUME NEW i \in (next + 1)..(pieces[n].from - 1) PROVE ~Letter(i)
        <5>1. i \in (start + 1)..(pieces[n].from - 1)
          BY <3>1, <1>4, <1>b
        <5> QED BY <5>1, <3>2, <3>4
      <4> QED BY <3>1, <3>2, <3>4, <4>1, <1>4, <1>6
    <3> QED BY <3>3, <3>4
  <2>2. CASE n = new
    <3>1. pieces'[n].from = from
      BY <2>2, <1>7, <1>8
    <3>2. CASE from = start + 1
      BY <3>1, <3>2, <1>4, <1>b
    <3>3. CASE from \in (start + 1)..e /\ Letter(from)
      <4>1. ASSUME NEW i \in (next + 1)..(from - 1) PROVE ~Letter(i)
        <5>1. i \in (start + 1)..e /\ i \in Int /\ ~(from <= i)
          BY <3>3, <1>4, <1>b
        <5> QED BY <5>1, <1>10
      <4> QED BY <3>1, <3>3, <4>1, <1>4
    <3> QED BY <3>2, <3>3, <1>10
  <2> QED BY <2>1, <2>2, <1>8
<1> QED BY <1>1, <1>2, <1>3, <1>4, <1>5, <1>9, <1>11, <1>13, <1>14 DEF ChunkInv

\* Whatever is cut, the pieces of a text hold all of its letters, in order, and
\* none is longer than a chunk (chunker.go:28-72).
THEOREM ChunkedTextIsInPieces == ChunkSpec => []TextIsInPieces
<1>1. ChunkInit => ChunkInv
  <2> SUFFICES ASSUME ChunkInit PROVE ChunkInv
    OBVIOUS
  <2>1. content \in Seq(Characters) /\ start = 0 /\ end = 0 /\ pieces = <<>>
    BY ChunkAssumption DEF ChunkInit, ChunkAssumption
  <2>2. Len(content) \in Nat
    BY <2>1
  <2>3. ChunkTypeOK
    BY <2>1, <2>2 DEF ChunkTypeOK
  <2> QED BY <2>1, <2>2, <2>3 DEF ChunkInv, StretchesAreWhole, ChunksAreBounded, PieceOrder
<1>2. ChunkInv /\ [CutChunk]_chunkVars => ChunkInv'
  <2>1. ASSUME ChunkInv, UNCHANGED chunkVars PROVE ChunkInv'
    BY <2>1 DEF ChunkInv, ChunkTypeOK, StretchesAreWhole, ChunksAreBounded, PieceOrder, Letter, Within, chunkVars
  <2> QED BY <2>1, ChunkStep
<1>3. ChunkInv => TextIsInPieces
  BY DEF ChunkInv, TextIsInPieces
<1> QED BY <1>1, <1>2, <1>3, PTL DEF ChunkSpec

-----------------------------------------------------------------------------
(* Compressing: what the paging misses and doubles is counted against what *)
(* others delete and file.                                                 *)

Rising == {r \in Nat \X Nat : r[1] < r[2]}
There == DOMAIN palace
Passed == FirstOf(There, Rising, offset + Cardinality(DOMAIN page))

\* How often d is summarised once the page in hand is written.
Times(d) == IF d \in DOMAIN page THEN (IF page[d] = 0 THEN 1 ELSE 2) ELSE palace[d]

Unsummarised == {d \in kept : Times(d) = 0}
Missed == {d \in Unsummarised : d \in Passed}
Doubled == {d \in kept : Times(d) = 2 \/ (Times(d) = 1 /\ d \notin Passed)}

CountsRight ==
    stage # "ended" =>
        /\ Cardinality(Missed) <= left /\ Cardinality(Doubled) <= arrived
        /\ Cardinality(DOMAIN page) < PageSize /\ stage = "write" =>
              Cardinality(Unsummarised) <= left

CompressInv ==
    /\ CompressingTypeOK
    /\ There = DOMAIN palace /\ stage \in {"read", "write", "ended"} /\ failed \in BOOLEAN
    /\ offset \in Nat /\ arrived \in Nat /\ left \in Nat
    /\ \A d \in DOMAIN page : page[d] \in 0..2
    /\ stage # "write" => DOMAIN page = {}
    /\ stage = "write" => DOMAIN page # {}
    /\ \A d \in kept \cap DOMAIN page : page[d] = palace[d]
    /\ CountsRight /\ MissedWentDoubledCame

\* Drawers are paged by rising rowid.
LEMMA RisingOrders == ASSUME NEW S \in SUBSET Slots PROVE IsFiniteSet(S) /\ Orders(S, Rising)
<1>1. IsFiniteSet(S) /\ S \subseteq Nat
  BY CompressingAssumption, FS_Subset DEF CompressingAssumption
<1> QED BY <1>1 DEF Orders, Rising

\* What the counts are over is finite.
LEMMA CompressTyped ==
  ASSUME CompressInv
  PROVE  /\ There \in SUBSET Slots /\ IsFiniteSet(There) /\ Orders(There, Rising)
         /\ IsFiniteSet(kept) /\ kept \subseteq There
         /\ DOMAIN page \in SUBSET Slots /\ IsFiniteSet(DOMAIN page)
         /\ Cardinality(DOMAIN page) \in Nat
<1>1. There \in SUBSET Slots /\ kept \subseteq There /\ DOMAIN page \in SUBSET Slots
  BY DEF CompressInv, CompressingTypeOK, There
<1>2. IsFiniteSet(There) /\ Orders(There, Rising) /\ IsFiniteSet(DOMAIN page)
  BY <1>1, RisingOrders
<1> QED BY <1>1, <1>2, FS_Subset, FS_CardinalityType

\* The page in hand is read: what is behind it was passed before, and it is not.
LEMMA ReadPageStep == CompressInv /\ ReadPage => CompressInv'
<1> SUFFICES ASSUME CompressInv, ReadPage PROVE CompressInv'
  OBVIOUS
<1> DEFINE F == FirstOf(There, Rising, offset)
<1>a. PICK P : P = PageAt(offset)
  OBVIOUS
<1>1. /\ stage = "read" /\ page' = [d \in P |-> palace[d]]
      /\ stage' = IF P = {} THEN "ended" ELSE "write"
      /\ UNCHANGED <<palace, offset, failed, kept, arrived, left>>
  BY <1>a DEF ReadPage
<1>2. /\ There \in SUBSET Slots /\ IsFiniteSet(There) /\ Orders(There, Rising)
      /\ IsFiniteSet(kept) /\ kept \subseteq There /\ There' = There
  BY <1>1, CompressTyped DEF There
<1>3. There \subseteq Nat
  BY <1>2, CompressingAssumption DEF CompressingAssumption
<1>4. \A d \in There : Place(There, Rising, d) = Cardinality({e \in There : e <= d})
  <2> SUFFICES ASSUME NEW d \in There
               PROVE  NotAfter(There, Rising, d) = {e \in There : e <= d}
    BY DEF Place
  <2>1. ASSUME NEW e \in There PROVE (e = d \/ <<e, d>> \in Rising) <=> e <= d
    <3>1. e \in Nat /\ d \in Nat
      BY <1>3
    <3> QED BY <3>1 DEF Rising
  <2> QED BY <2>1 DEF NotAfter
<1>5. /\ P \subseteq There
      /\ \A d \in There : d \in P <=> /\ offset < Place(There, Rising, d)
                                      /\ Place(There, Rising, d) <= offset + PageSize
  BY <1>4, <1>a DEF PageAt, There
<1>6. offset \in Nat /\ PageSize \in Nat /\ PageSize > 0 /\ arrived \in Nat /\ left \in Nat
  BY CompressingAssumption DEF CompressInv, CompressingAssumption
<1> DEFINE m == offset + Cardinality(P)
<1>7. /\ IsFiniteSet(P) /\ Cardinality(P) \in 0..PageSize
      /\ \A i \in P : i \notin F
      /\ FirstOf(There, Rising, m) = F \cup P
      /\ Cardinality(P) < PageSize => FirstOf(There, Rising, m) = There
  <2>1. PICK S, n, k : S = There /\ n = offset /\ k = PageSize
    OBVIOUS
  <2>2. IsFiniteSet(S) /\ Orders(S, Rising) /\ n \in Nat /\ k \in Nat /\ P \subseteq S
    BY <1>2, <1>5, <1>6, <2>1
  <2>3. \A i \in S : i \in P <=> n < Place(S, Rising, i) /\ Place(S, Rising, i) <= n + k
    BY <1>5, <2>1
  <2>4. /\ IsFiniteSet(P) /\ Cardinality(P) \in 0..k
        /\ \A i \in P : i \notin FirstOf(S, Rising, n)
        /\ FirstOf(S, Rising, n + Cardinality(P)) = FirstOf(S, Rising, n) \cup P
        /\ Cardinality(P) < k => FirstOf(S, Rising, n + Cardinality(P)) = S
    BY <2>2, <2>3, NextOnes
  <2> QED BY <2>1, <2>4
<1>8. P \subseteq There /\ DOMAIN page' = P /\ \A d \in P : page'[d] = palace[d]
  BY <1>1, <1>5
<1> HIDE DEF F
<1>9. /\ DOMAIN page = {} /\ \A d \in There : palace[d] \in 0..2
      /\ DOMAIN page' \subseteq Slots
  BY <1>1, <1>2, <1>8 DEF CompressInv, CompressingTypeOK, There
<1>10. Passed = F /\ Passed' = F \cup P
  <2>1. Cardinality(DOMAIN page) = 0 /\ offset + 0 = offset
    BY <1>6, <1>9, FS_EmptySet
  <2>2. Passed = F
    BY <2>1 DEF Passed, F
  <2>3. Passed' = FirstOf(There, Rising, m)
    BY <1>1, <1>2, <1>8 DEF Passed
  <2> QED BY <1>7, <2>2, <2>3
<1>11. \A d \in kept : /\ Times(d) = palace[d]
                       /\ Times(d)' = IF d \in P THEN (IF palace[d] = 0 THEN 1 ELSE 2) ELSE palace[d]
  BY <1>1, <1>8, <1>9 DEF Times
<1>12. kept' = kept
  BY <1>1
<1>13. Missed' \subseteq Missed /\ Unsummarised' \subseteq Unsummarised
  BY <1>10, <1>11, <1>12 DEF Missed, Unsummarised
<1>14. Doubled' \subseteq Doubled
  <2> SUFFICES ASSUME NEW d \in kept, d \in Doubled' PROVE d \in Doubled
    BY <1>12 DEF Doubled
  <2>1. Times(d)' = 2 \/ (Times(d)' = 1 /\ d \notin Passed')
    BY DEF Doubled
  <2>2. palace[d] \in 0..2
    BY <1>2, <1>9
  <2>3. CASE d \in P
    <3>1. palace[d] # 0 /\ d \notin F
      BY <2>1, <2>3, <1>7, <1>10, <1>11
    <3> QED BY <3>1, <2>2, <1>10, <1>11 DEF Doubled
  <2>4. CASE d \notin P
    BY <2>1, <2>4, <1>10, <1>11 DEF Doubled
  <2> QED BY <2>3, <2>4
<1>15. /\ Cardinality(Missed) <= left /\ Cardinality(Doubled) <= arrived
       /\ IsFiniteSet(Missed) /\ IsFiniteSet(Doubled)
  <2>1. Missed \subseteq kept /\ Doubled \subseteq kept
    BY DEF Missed, Unsummarised, Doubled
  <2> QED BY <1>1, <1>2, <2>1, FS_Subset DEF CompressInv, CountsRight
<1>16. Cardinality(Missed') <= left /\ Cardinality(Doubled') <= arrived
  BY <1>6, <1>13, <1>14, <1>15, NoMore
<1>17. ASSUME Cardinality(P) < PageSize PROVE Unsummarised' \subseteq Missed
  <2>1. There = F \cup P
    BY <1>7, <1>17
  <2>2. Unsummarised' \subseteq F
    BY <1>2, <1>11, <1>12, <2>1 DEF Unsummarised
  <2> QED BY <1>10, <1>13, <2>2 DEF Missed, Unsummarised
<1>18. Cardinality(P) < PageSize => Cardinality(Unsummarised') <= left
  BY <1>6, <1>15, <1>17, NoMore
<1>19. CountsRight'
  BY <1>1, <1>8, <1>16, <1>18 DEF CountsRight
<1>20. MissedWentDoubledCame'
  <2> SUFFICES ASSUME P = {}
               PROVE  /\ Cardinality({d \in kept : palace[d] = 0}) <= left
                      /\ Cardinality({d \in kept : palace[d] > 1}) <= arrived
    BY <1>1 DEF MissedWentDoubledCame
  <2>1. Cardinality(P) < PageSize
    BY <1>6, FS_EmptySet
  <2>2. {d \in kept : palace[d] = 0} = Unsummarised'
    BY <1>11, <1>12 DEF Unsummarised
  <2>3. {d \in kept : palace[d] > 1} \subseteq Doubled
    <3>1. ASSUME NEW d \in kept, palace[d] > 1 PROVE Times(d) = 2
      BY <1>2, <1>9, <1>11, <3>1
    <3> QED BY <3>1 DEF Doubled
  <2> QED BY <2>1, <2>2, <2>3, <1>6, <1>15, <1>18, NoMore
<1>21. CompressingTypeOK'
  <2>1. (stage' = "write") = (page' # <<>>)
    <3>1. CASE P = {}
      <4>1. page' = <<>>
        BY <1>1, <3>1
      <4> QED BY <4>1, <3>1, <1>1
    <3>2. CASE P # {}
      <4>1. page' # <<>>
        BY <1>8, <3>2
      <4> QED BY <4>1, <3>2, <1>1
    <3> QED BY <3>1, <3>2
  <2>2. Cardinality(DOMAIN page') <= PageSize
    BY <1>6, <1>7, <1>8
  <2> QED BY <1>1, <1>9, <2>1, <2>2 DEF CompressInv, CompressingTypeOK
<1>22. \A d \in DOMAIN page' : page'[d] \in 0..2
  BY <1>8, <1>9
<1> QED BY <1>1, <1>8, <1>19, <1>20, <1>21, <1>22 DEF CompressInv, There

\* Summaries are counted up to two.
LEMMA MinWithTwo ==
  ASSUME NEW n \in 0..2 PROVE Min({n + 1, 2}) = IF n = 0 THEN 1 ELSE 2
<1>1. CASE n = 0
  <2>1. \A x \in {1, 2} : (\A y \in {1, 2} : x <= y) <=> x = 1
    OBVIOUS
  <2>2. {n + 1, 2} = {1, 2} /\ 1 \in {1, 2}
    BY <1>1
  <2> QED BY <1>1, <2>1, <2>2 DEF Min
<1>2. CASE n # 0
  <2>1. \A x \in {n + 1, 2} : (\A y \in {n + 1, 2} : x <= y) <=> x = 2
    BY <1>2
  <2>2. 2 \in {n + 1, 2}
    OBVIOUS
  <2> QED BY <1>2, <2>1, <2>2 DEF Min
<1> QED BY <1>1, <1>2

\* The write, and what another process files, put drawers among those that were
\* passed, and push as many of them out.
LEMMA ComingStep ==
  ASSUME CompressInv, stage # "ended", stage' # "ended" \/ stage = "write", failed' = failed,
         There \subseteq There', There' \in SUBSET Slots,
         kept' = kept, left' = left,
         \A d \in kept : Times(d)' = Times(d),
         offset' + Cardinality(DOMAIN page') = offset + Cardinality(DOMAIN page),
         arrived' = arrived + Cardinality(There' \ There)
  PROVE  /\ Cardinality(Missed') <= left' /\ Cardinality(Doubled') <= arrived'
         /\ IsFiniteSet(Doubled')
         /\ stage = "write" /\ Cardinality(DOMAIN page) < PageSize =>
               Cardinality(Unsummarised') <= left'
<1>1. PICK T, n : T = There' /\ n = offset + Cardinality(DOMAIN page)
  OBVIOUS
<1>2. /\ There \in SUBSET Slots /\ IsFiniteSet(There) /\ Orders(There, Rising)
      /\ IsFiniteSet(kept) /\ kept \subseteq There
      /\ Cardinality(DOMAIN page) \in Nat
  BY CompressTyped
<1>3. T \in SUBSET Slots /\ IsFiniteSet(T) /\ Orders(T, Rising) /\ There \subseteq T
  BY <1>1, RisingOrders
<1>4. offset \in Nat /\ arrived \in Nat /\ left \in Nat /\ n \in Nat
  BY <1>1, <1>2 DEF CompressInv
<1> DEFINE F == FirstOf(There, Rising, n)
           G == FirstOf(T, Rising, n)
<1>5. /\ IsFiniteSet(F \ G) /\ Cardinality(F \ G) <= Cardinality(T \ There)
      /\ There \cap G \subseteq F
  BY <1>3, <1>4, FewLeaveTheFirst
<1> HIDE DEF F, G
<1>6. Passed = F /\ Passed' = G
  BY <1>1 DEF Passed, F, G
<1>7. IsFiniteSet(T \ There) /\ Cardinality(T \ There) \in Nat
  BY <1>3, FS_Difference, FS_CardinalityType
<1>8. Unsummarised' = Unsummarised
  BY DEF Unsummarised
<1>9. Missed' \subseteq Missed
  BY <1>2, <1>5, <1>6, <1>8 DEF Missed, Unsummarised
<1>10. Doubled' \subseteq Doubled \cup (F \ G)
  <2> SUFFICES ASSUME NEW d \in kept, Times(d)' = 2 \/ (Times(d)' = 1 /\ d \notin Passed')
               PROVE  d \in Doubled \cup (F \ G)
    BY DEF Doubled
  <2> QED BY <1>6 DEF Doubled
<1>11. /\ Cardinality(Missed) <= left /\ Cardinality(Doubled) <= arrived
       /\ IsFiniteSet(Missed) /\ IsFiniteSet(Doubled)
  <2>1. Missed \subseteq kept /\ Doubled \subseteq kept
    BY DEF Missed, Unsummarised, Doubled
  <2> QED BY <1>2, <2>1, FS_Subset DEF CompressInv, CountsRight
<1>12. Cardinality(Missed') <= left'
  BY <1>4, <1>9, <1>11, NoMore
<1>13. IsFiniteSet(Doubled') /\ Cardinality(Doubled') <= arrived'
  BY <1>1, <1>4, <1>5, <1>7, <1>10, <1>11, NoMoreThanSum
<1>14. stage = "write" /\ Cardinality(DOMAIN page) < PageSize => Cardinality(Unsummarised') <= left'
  BY <1>8 DEF CompressInv, CountsRight
<1> QED BY <1>12, <1>13, <1>14

\* A write files the summaries of the page: the drawers that are read next are
\* behind as many more as are new.
LEMMA WritePageStep == CompressInv /\ WritePage => CompressInv'
<1> SUFFICES ASSUME CompressInv, WritePage PROVE CompressInv'
  OBVIOUS
<1>1. /\ stage = "write"
      /\ palace' = [d \in DOMAIN palace \cup DOMAIN page |->
                     IF d \in DOMAIN page THEN Min({page[d] + 1, 2}) ELSE palace[d]]
      /\ arrived' = arrived + Cardinality(DOMAIN page \ DOMAIN palace)
      /\ offset' = offset + Cardinality(DOMAIN page)
      /\ stage' = IF Cardinality(DOMAIN page) < PageSize THEN "ended" ELSE "read"
      /\ page' = <<>> /\ UNCHANGED <<failed, kept, left>>
  BY DEF WritePage, NextOffset
<1>2. /\ There \in SUBSET Slots /\ kept \subseteq There /\ DOMAIN page \in SUBSET Slots
      /\ IsFiniteSet(There) /\ IsFiniteSet(kept) /\ IsFiniteSet(DOMAIN page)
      /\ Cardinality(DOMAIN page) \in Nat
  BY CompressTyped
<1>3. There' = There \cup DOMAIN page /\ There' \in SUBSET Slots /\ DOMAIN page' = {}
  BY <1>1, <1>2 DEF There
<1>4. ASSUME NEW d \in DOMAIN page PROVE palace'[d] = IF page[d] = 0 THEN 1 ELSE 2
  <2>1. page[d] \in 0..2
    BY DEF CompressInv
  <2>2. palace'[d] = Min({page[d] + 1, 2})
    BY <1>1
  <2> QED BY <2>1, <2>2, MinWithTwo
<1>5. \A d \in There \ DOMAIN page : palace'[d] = palace[d]
  BY <1>1 DEF There
<1>6. \A d \in kept : Times(d)' = Times(d) /\ Times(d)' = palace'[d]
  BY <1>2, <1>3, <1>4, <1>5 DEF Times
<1>7. /\ offset \in Nat /\ arrived \in Nat /\ left \in Nat
  BY DEF CompressInv
<1>8. /\ There' \ There = DOMAIN page \ DOMAIN palace
      /\ offset' + Cardinality(DOMAIN page') = offset + Cardinality(DOMAIN page)
  <2>1. Cardinality(DOMAIN page') = 0
    BY <1>3, FS_EmptySet
  <2> QED BY <1>1, <1>2, <1>3, <1>7, <2>1 DEF There
<1>9. offset' \in Nat /\ arrived' \in Nat
  <2>1. IsFiniteSet(DOMAIN page \ DOMAIN palace)
    BY <1>2, FS_Subset
  <2>2. Cardinality(DOMAIN page \ DOMAIN palace) \in Nat
    BY <2>1, FS_CardinalityType
  <2> QED BY <1>1, <1>2, <1>7, <2>2
<1>10. /\ Cardinality(Missed') <= left' /\ Cardinality(Doubled') <= arrived'
       /\ IsFiniteSet(Doubled')
       /\ Cardinality(DOMAIN page) < PageSize => Cardinality(Unsummarised') <= left'
  <2>1. There \subseteq There' /\ stage # "ended"
    BY <1>1, <1>3
  <2>2. arrived' = arrived + Cardinality(There' \ There)
    BY <1>1, <1>8
  <2> QED BY <1>1, <1>3, <1>6, <1>8, <2>1, <2>2, ComingStep
<1>11. CountsRight'
  BY <1>1, <1>10 DEF CountsRight
<1>12. MissedWentDoubledCame'
  <2> SUFFICES ASSUME Cardinality(DOMAIN page) < PageSize
               PROVE  /\ Cardinality({d \in kept : palace'[d] = 0}) <= left'
                      /\ Cardinality({d \in kept : palace'[d] > 1}) <= arrived'
    BY <1>1 DEF MissedWentDoubledCame
  <2>1. {d \in kept : palace'[d] = 0} = Unsummarised'
    BY <1>1, <1>6 DEF Unsummarised
  <2>2. {d \in kept : palace'[d] > 1} \subseteq Doubled'
    <3>1. ASSUME NEW d \in kept, palace'[d] > 1 PROVE Times(d)' = 2
      <4>1. palace[d] \in 0..2
        BY <1>2 DEF CompressInv, CompressingTypeOK, There
      <4> QED BY <4>1, <3>1, <1>2, <1>4, <1>5, <1>6
    <3> QED BY <3>1, <1>1 DEF Doubled
  <2> QED BY <1>9, <1>10, <2>1, <2>2, NoMore
<1>13. CompressingTypeOK'
  <2>1. \A d \in DOMAIN palace' : palace'[d] \in 0..2
    <3> SUFFICES ASSUME NEW d \in DOMAIN palace' PROVE palace'[d] \in 0..2
      OBVIOUS
    <3>1. CASE d \in DOMAIN page
      BY <3>1, <1>4
    <3>2. CASE d \notin DOMAIN page
      BY <3>2, <1>3, <1>5 DEF CompressInv, CompressingTypeOK, There
    <3> QED BY <3>1, <3>2
  <2>2. Cardinality(DOMAIN page') <= PageSize
    <3>1. Cardinality(DOMAIN page') = 0
      BY <1>3, FS_EmptySet
    <3> QED BY <3>1, CompressingAssumption DEF CompressingAssumption
  <2>3. kept' \subseteq DOMAIN palace' /\ DOMAIN palace' \subseteq Slots
    BY <1>1, <1>2, <1>3 DEF There
  <2> QED BY <1>1, <1>3, <2>1, <2>2, <2>3 DEF CompressingTypeOK
<1> QED BY <1>1, <1>3, <1>7, <1>9, <1>11, <1>12, <1>13 DEF CompressInv, There

\* What another process files may push one that was passed out of the pages.
LEMMA FileStep == CompressInv /\ File => CompressInv'
<1> SUFFICES ASSUME CompressInv, File PROVE CompressInv'
  OBVIOUS
<1>1. PICK x \in Slots \ There : palace' = [e \in There \cup {x} |-> IF e = x THEN 0 ELSE palace[e]]
  BY DEF File, There
<1>2. /\ stage # "ended" /\ arrived' = arrived + 1
      /\ UNCHANGED <<offset, page, stage, failed, kept, left>>
  BY DEF File
<1>3. /\ There \in SUBSET Slots /\ kept \subseteq There /\ IsFiniteSet(kept)
  BY CompressTyped
<1>4. There' = There \cup {x} /\ There' \in SUBSET Slots /\ There \subseteq There'
  BY <1>1, <1>3 DEF There
<1>5. /\ palace'[x] = 0 /\ \A d \in There : palace'[d] = palace[d]
  BY <1>1
<1>6. \A d \in kept : Times(d)' = Times(d)
  BY <1>2, <1>3, <1>5 DEF Times
<1>7. There' \ There = {x}
  BY <1>4
<1>8. Cardinality(There' \ There) = 1
  BY <1>7, FS_Singleton
<1>9. /\ Cardinality(Missed') <= left' /\ Cardinality(Doubled') <= arrived'
      /\ stage = "write" /\ Cardinality(DOMAIN page) < PageSize =>
           Cardinality(Unsummarised') <= left'
  BY <1>2, <1>3, <1>4, <1>6, <1>8, ComingStep
<1>10. CountsRight' /\ MissedWentDoubledCame'
  BY <1>2, <1>9 DEF CountsRight, MissedWentDoubledCame
<1>11. CompressingTypeOK'
  <2>1. \A d \in DOMAIN palace' : palace'[d] \in 0..2
    BY <1>4, <1>5 DEF CompressInv, CompressingTypeOK, There
  <2> QED BY <1>2, <1>3, <1>4, <2>1 DEF CompressInv, CompressingTypeOK, There
<1>12. \A d \in kept \cap DOMAIN page : page[d] = palace'[d]
  BY <1>3, <1>5 DEF CompressInv
<1> QED BY <1>2, <1>10, <1>11, <1>12 DEF CompressInv, There

\* When a drawer goes, one that was behind the pages that were read may get among
\* them, unread.
LEMMA DeleteStep == CompressInv /\ Delete => CompressInv'
<1> SUFFICES ASSUME CompressInv, Delete PROVE CompressInv'
  OBVIOUS
<1>1. PICK x \in There : /\ palace' = [e \in There \ {x} |-> palace[e]]
                         /\ kept' = kept \ {x}
  BY DEF Delete, There
<1>2. /\ stage # "ended" /\ left' = left + 1
      /\ UNCHANGED <<offset, page, stage, failed, arrived>>
  BY DEF Delete
<1>3. /\ There \in SUBSET Slots /\ IsFiniteSet(There) /\ Orders(There, Rising)
      /\ IsFiniteSet(kept) /\ kept \subseteq There /\ Cardinality(DOMAIN page) \in Nat
  BY CompressTyped
<1>4. PICK S, n : S = There' /\ n = offset + Cardinality(DOMAIN page)
  OBVIOUS
<1>5. S = There \ {x}
  BY <1>1, <1>4 DEF There
<1>6. offset \in Nat /\ arrived \in Nat /\ left \in Nat /\ n \in Nat
  BY <1>3, <1>4 DEF CompressInv
<1> DEFINE F == FirstOf(S, Rising, n)
           G == FirstOf(There, Rising, n)
<1>7. /\ IsFiniteSet(F \ G) /\ Cardinality(F \ G) <= Cardinality(There \ S)
      /\ S \cap G \subseteq F
  BY <1>3, <1>5, <1>6, FewLeaveTheFirst
<1>8. Cardinality(There \ S) = 1
  <2>1. There \ S = {x}
    BY <1>5
  <2> QED BY <2>1, FS_Singleton
<1> HIDE DEF F, G
<1>9. Passed = G /\ Passed' = F
  BY <1>2, <1>4 DEF Passed, F, G
<1>10. /\ \A d \in There \ {x} : palace'[d] = palace[d]
       /\ \A d \in kept' : Times(d)' = Times(d) /\ d \in S
  BY <1>1, <1>2, <1>3, <1>5 DEF Times
<1>11. Unsummarised' \subseteq Unsummarised
  BY <1>1, <1>10 DEF Unsummarised
<1>12. Missed' \subseteq Missed \cup (F \ G)
  BY <1>9, <1>11 DEF Missed
<1>13. Doubled' \subseteq Doubled
  <2> SUFFICES ASSUME NEW d \in kept', Times(d)' = 2 \/ (Times(d)' = 1 /\ d \notin Passed')
               PROVE  d \in Doubled
    BY DEF Doubled
  <2> QED BY <1>1, <1>7, <1>9, <1>10 DEF Doubled
<1>14. /\ Cardinality(Missed) <= left /\ Cardinality(Doubled) <= arrived
       /\ Cardinality(DOMAIN page) < PageSize /\ stage = "write" => Cardinality(Unsummarised) <= left
       /\ IsFiniteSet(Missed) /\ IsFiniteSet(Doubled) /\ IsFiniteSet(Unsummarised)
  <2>1. Missed \subseteq kept /\ Doubled \subseteq kept /\ Unsummarised \subseteq kept
    BY DEF Missed, Unsummarised, Doubled
  <2> QED BY <1>2, <1>3, <2>1, FS_Subset DEF CompressInv, CountsRight
<1>15. Cardinality(Missed') <= left'
  <2>1. Cardinality(F \ G) <= 1
    BY <1>7, <1>8
  <2> QED BY <1>2, <1>6, <1>7, <1>12, <1>14, <2>1, NoMoreThanSum
<1>16. Cardinality(Doubled') <= arrived'
  BY <1>2, <1>6, <1>13, <1>14, NoMore
<1>17. Cardinality(DOMAIN page) < PageSize /\ stage = "write" => Cardinality(Unsummarised') <= left'
  <2> SUFFICES ASSUME Cardinality(DOMAIN page) < PageSize, stage = "write"
               PROVE  Cardinality(Unsummarised') <= left'
    OBVIOUS
  <2>1. Cardinality(Unsummarised') <= left
    BY <1>6, <1>11, <1>14, NoMore
  <2>2. IsFiniteSet(Unsummarised')
    BY <1>11, <1>14, FS_Subset
  <2>3. Cardinality(Unsummarised') \in Nat
    BY <2>2, FS_CardinalityType
  <2> QED BY <1>2, <1>6, <2>1, <2>3
<1>18. CountsRight' /\ MissedWentDoubledCame'
  BY <1>2, <1>15, <1>16, <1>17 DEF CountsRight, MissedWentDoubledCame
<1>19. CompressingTypeOK'
  <2>1. \A d \in DOMAIN palace' : palace'[d] \in 0..2
    BY <1>1, <1>10 DEF CompressInv, CompressingTypeOK, There
  <2>2. DOMAIN palace' = There \ {x}
    BY <1>1
  <2> QED BY <1>1, <1>2, <1>3, <2>1, <2>2 DEF CompressInv, CompressingTypeOK, There
<1>20. \A d \in kept' \cap DOMAIN page : page[d] = palace'[d]
  BY <1>1, <1>3, <1>10 DEF CompressInv
<1> QED BY <1>2, <1>6, <1>18, <1>19, <1>20 DEF CompressInv, There

\* Whatever other processes file and delete while compress pages on, it leaves
\* out no more drawers than were deleted under it, and summarises no more of
\* them twice than came (main.go:744-800).
THEOREM CompressLoopIsOffByOthersOnly == CompressingSpec => []LoopIsOffByOthersOnly
<1>1. CompressingInit => CompressInv
  <2> SUFFICES ASSUME CompressingInit PROVE CompressInv
    OBVIOUS
  <2>1. PICK D \in SUBSET Slots : palace \in [D -> {0}]
    BY DEF CompressingInit
  <2>2. /\ kept = DOMAIN palace /\ DOMAIN palace = D /\ \A d \in D : palace[d] = 0
        /\ offset = 0 /\ page = <<>> /\ stage = "read" /\ failed = FALSE /\ arrived = 0 /\ left = 0
    BY <2>1 DEF CompressingInit
  <2>3. DOMAIN page = {} /\ Cardinality(DOMAIN page) = 0
    BY <2>2, FS_EmptySet
  <2>4. CompressingTypeOK
    <3>1. Cardinality(DOMAIN page) <= PageSize
      BY <2>3, CompressingAssumption DEF CompressingAssumption
    <3>2. \A d \in DOMAIN palace : palace[d] \in 0..2
      BY <2>2
    <3>3. (stage = "write") = (page # <<>>)
      BY <2>2
    <3> QED BY <2>2, <2>3, <3>1, <3>2, <3>3 DEF CompressingTypeOK
  <2>5. Passed = {}
    <3>1. Passed = {d \in D : Place(D, Rising, d) <= 0}
      BY <2>2, <2>3 DEF Passed, There, FirstOf
    <3>2. ASSUME NEW d \in D PROVE ~(Place(D, Rising, d) <= 0)
      <4>1. Place(D, Rising, d) \in 1..Cardinality(D) /\ Cardinality(D) \in Nat
        BY RisingOrders, PlaceGoesUp, FS_CardinalityType
      <4> QED BY <4>1
    <3> QED BY <3>1, <3>2
  <2>6. Missed = {} /\ Doubled = {}
    <3>1. \A d \in kept : Times(d) = 0
      BY <2>2, <2>3 DEF Times
    <3> QED BY <2>5, <3>1 DEF Missed, Doubled
  <2>7. CountsRight /\ MissedWentDoubledCame
    BY <2>2, <2>6, FS_EmptySet DEF CountsRight, MissedWentDoubledCame
  <2> QED BY <2>2, <2>3, <2>4, <2>7 DEF CompressInv, There
<1>2. CompressInv /\ [CompressingNext]_compressVars => CompressInv'
  <2> SUFFICES ASSUME CompressInv, [CompressingNext]_compressVars PROVE CompressInv'
    OBVIOUS
  <2>1. CASE Fail
    <3>1. /\ stage' = "ended" /\ page' = <<>> /\ failed' = TRUE /\ DOMAIN page' = {}
          /\ UNCHANGED <<palace, offset, kept, arrived, left>>
      BY <2>1 DEF Fail
    <3>2. Cardinality(DOMAIN page') <= PageSize
      <4>1. Cardinality(DOMAIN page') = 0
        BY <3>1, FS_EmptySet
      <4> QED BY <4>1, CompressingAssumption DEF CompressingAssumption
    <3>3. CompressingTypeOK'
      BY <3>1, <3>2 DEF CompressInv, CompressingTypeOK
    <3> QED BY <3>1, <3>3 DEF CompressInv, CountsRight, MissedWentDoubledCame, There
  <2>2. CASE UNCHANGED compressVars
    BY <2>2 DEF CompressInv, CompressingTypeOK, CountsRight, MissedWentDoubledCame, There,
       Missed, Doubled, Unsummarised, Times, Passed, compressVars
  <2> QED BY <2>1, <2>2, ReadPageStep, WritePageStep, FileStep, DeleteStep DEF CompressingNext
<1>3. CompressInv => LoopIsOffByOthersOnly
  BY DEF CompressInv, LoopIsOffByOthersOnly
<1> QED BY <1>1, <1>2, <1>3, PTL DEF CompressingSpec

-----------------------------------------------------------------------------
(* Layers: the wake-up story.                                              *)

InFiling == {r \in Drawer \X Drawer : r[1].slot < r[2].slot}
Behind == FirstOf(stored, InFiling, Len(held))

\* What lies behind the offset and was not read, and what was read twice or will be.
Skipping == {d \in stayed : d \in Behind /\ d \notin Range(held)}
Again ==
    {d \in stayed :
        \/ \E i, j \in DOMAIN held : i # j /\ held[i] = d /\ held[j] = d
        \/ d \in Range(held) /\ d \notin Behind}

PagesInv ==
    /\ reading \in {"pages", "done", "lost"} /\ held \in Seq(Drawer)
    /\ IsFiniteSet(stored) /\ stored \subseteq Drawer /\ stayed \subseteq stored
    /\ \A d, e \in stored : d.slot = e.slot => d = e
    /\ came \in Nat /\ Cardinality(Again) <= came
    /\ went \in Nat /\ Cardinality(Skipping) <= went
    /\ reading = "done" => stayed \subseteq Behind

\* The drawers of a palace are in order by their slots.
LEMMA DrawersAreOrdered ==
  ASSUME NEW S, S \subseteq Drawer, \A d, e \in S : d.slot = e.slot => d = e
  PROVE  Orders(S, InFiling)
<1>1. \A d \in S : d \in Drawer /\ d.slot \in Nat
  BY DEF Drawer
<1>2. \A d, e \in S : <<d, e>> \in InFiling <=> d.slot < e.slot
  <2> SUFFICES ASSUME NEW d \in S, NEW e \in S PROVE <<d, e>> \in InFiling <=> d.slot < e.slot
    OBVIOUS
  <2>1. <<d, e>> \in Drawer \X Drawer
    BY <1>1
  <2> QED BY <2>1 DEF InFiling
<1>3. \A d \in S : <<d, d>> \notin InFiling
  BY <1>1, <1>2
<1>4. ASSUME NEW d \in S, NEW e \in S
      PROVE  d = e \/ <<d, e>> \in InFiling \/ <<e, d>> \in InFiling
  <2>1. PICK m \in Nat, n \in Nat : m = d.slot /\ n = e.slot
    BY <1>1
  <2>2. m = n \/ m < n \/ n < m
    OBVIOUS
  <2>3. CASE m = n
    <3>1. d.slot = e.slot
      BY <2>1, <2>3
    <3> QED BY <3>1
  <2>4. CASE m < n \/ n < m
    BY <2>1, <2>4, <1>2
  <2> QED BY <2>2, <2>3, <2>4
<1>5. \A d, e, f \in S : <<d, e>> \in InFiling /\ <<e, f>> \in InFiling => <<d, f>> \in InFiling
  <2> SUFFICES ASSUME NEW d \in S, NEW e \in S, NEW f \in S, d.slot < e.slot, e.slot < f.slot
               PROVE  d.slot < f.slot
    BY <1>2
  <2> QED BY <1>1
<1> QED BY <1>3, <1>4, <1>5 DEF Orders

\* The palace at the start of a run.
LEMMA PagesStart == LayersInit => PagesInv
<1> SUFFICES ASSUME LayersInit PROVE PagesInv
  OBVIOUS
<1>1. /\ IsFiniteSet(stored) /\ stored \subseteq Drawer /\ stayed = stored
      /\ \A d, e \in stored : d.slot = e.slot => d = e
      /\ came = 0 /\ went = 0 /\ reading = "pages" /\ held = <<>>
  BY LayersAssumption DEF LayersInit, LayersAssumption
<1>2. DOMAIN held = {} /\ Range(held) = {} /\ Len(held) = 0 /\ held \in Seq(Drawer)
  BY <1>1 DEF Range
<1>3. Behind = {}
  <2>1. ASSUME NEW d \in stored PROVE ~(Place(stored, InFiling, d) <= 0)
    <3>1. Place(stored, InFiling, d) \in 1..Cardinality(stored) /\ Cardinality(stored) \in Nat
      BY <1>1, DrawersAreOrdered, PlaceGoesUp, FS_CardinalityType
    <3> QED BY <3>1
  <2> QED BY <2>1, <1>2 DEF Behind, FirstOf
<1>4. Skipping = {} /\ Again = {}
  BY <1>2, <1>3 DEF Skipping, Again
<1> QED BY <1>1, <1>2, <1>4, FS_EmptySet DEF PagesInv

\* Nothing changes in what was read while it is told.
LEMMA PagesStay ==
  ASSUME PagesInv, UNCHANGED <<palaceVars, reading, held>>
  PROVE  PagesInv'
BY DEF PagesInv, palaceVars, Again, Skipping, Behind

\* A sequence of the members of a set has all of them.
LEMMA AllAreListed ==
  ASSUME NEW S, IsFiniteSet(S), NEW order \in SetToSeqs(S)
  PROVE  /\ order \in Seq(S) /\ Range(order) = S /\ Len(order) = Cardinality(S)
         /\ \A i, j \in DOMAIN order : i # j => order[i] # order[j]
<1>1. PICK n \in Nat : n = Cardinality(S)
  BY FS_CardinalityType
<1>2. order \in [1..n -> S] /\ \A i, j \in 1..n : i # j => order[i] # order[j]
  BY <1>1 DEF SetToSeqs
<1>3. order \in Seq(S) /\ DOMAIN order = 1..n /\ Len(order) = n
  BY <1>2
<1>4. order \in Injection(1..n, S)
  BY <1>2 DEF Injection, IsInjective
<1>5. Cardinality(1..n) = n
  BY FS_Interval
<1>6. order \in Surjection(1..n, S)
  BY <1>1, <1>4, <1>5, FS_Injection
<1> QED BY <1>1, <1>2, <1>3, <1>6 DEF Surjection, Range

\* A page is what comes behind the offset: what it has was not passed before.
LEMMA ReadBatchStep == PagesInv /\ ReadBatch => PagesInv'
<1> SUFFICES ASSUME PagesInv, ReadBatch PROVE PagesInv'
  OBVIOUS
<1>1. PICK P, n : P = BatchAt(n) /\ n = Len(held)
  OBVIOUS
<1>2. PICK batch \in SetToSeqs(P) :
        /\ held' = held \o batch
        /\ reading' = IF Len(batch) < BatchSize THEN "done" ELSE "pages"
  BY <1>1 DEF ReadBatch
<1>3. UNCHANGED palaceVars /\ held \in Seq(Drawer) /\ n \in Nat /\ BatchSize \in Nat
  BY <1>1, LayersAssumption DEF ReadBatch, PagesInv, LayersAssumption
<1>4. IsFiniteSet(stored) /\ stored \subseteq Drawer /\ Orders(stored, InFiling)
  BY DrawersAreOrdered DEF PagesInv
<1>5. \A d \in stored : Standing(d) = Place(stored, InFiling, d)
  <2> SUFFICES ASSUME NEW d \in stored PROVE {e \in stored : e.slot <= d.slot} = NotAfter(stored, InFiling, d)
    BY DEF Standing, Place
  <2>1. ASSUME NEW e \in stored PROVE e.slot <= d.slot <=> (e = d \/ <<e, d>> \in InFiling)
    <3>1. e \in Drawer /\ d \in Drawer /\ <<e, d>> \in Drawer \X Drawer
      BY <1>4
    <3>2. e.slot \in Nat /\ d.slot \in Nat /\ (e.slot = d.slot => e = d)
      BY <3>1 DEF Drawer, PagesInv
    <3> QED BY <3>1, <3>2 DEF InFiling
  <2> QED BY <2>1 DEF NotAfter
<1>6. /\ IsFiniteSet(P) /\ Cardinality(P) \in 0..BatchSize /\ P \subseteq stored
      /\ \A d \in P : d \notin Behind
      /\ FirstOf(stored, InFiling, n + Cardinality(P)) = Behind \cup P
      /\ Cardinality(P) < BatchSize => Behind \cup P = stored
  <2>1. /\ P \subseteq stored
        /\ \A d \in stored : d \in P <=> /\ n < Place(stored, InFiling, d)
                                       /\ Place(stored, InFiling, d) <= n + BatchSize
    BY <1>1, <1>5 DEF BatchAt
  <2>2. PICK S, R, k : S = stored /\ R = InFiling /\ k = BatchSize
    OBVIOUS
  <2>3. /\ k \in Nat /\ IsFiniteSet(S) /\ Orders(S, R) /\ P \subseteq S
        /\ \A d \in S : d \in P <=> n < Place(S, R, d) /\ Place(S, R, d) <= n + k
    BY <2>1, <2>2, <1>3, <1>4
  <2>4. /\ IsFiniteSet(P) /\ Cardinality(P) \in 0..k
        /\ \A d \in P : d \notin FirstOf(S, R, n)
        /\ FirstOf(S, R, n + Cardinality(P)) = FirstOf(S, R, n) \cup P
        /\ Cardinality(P) < k => FirstOf(S, R, n + Cardinality(P)) = S
    BY <2>3, <1>3, NextOnes
  <2> QED BY <2>1, <2>2, <2>4, <1>1 DEF Behind
<1>7. /\ batch \in Seq(P) /\ Range(batch) = P /\ Len(batch) = Cardinality(P)
      /\ \A i, j \in DOMAIN batch : i # j => batch[i] # batch[j]
  BY <1>2, <1>6, AllAreListed
<1>8. batch \in Seq(Drawer)
  <2>1. \A i \in 1..Len(batch) : batch[i] \in Drawer
    BY <1>4, <1>6, <1>7
  <2> QED BY <2>1, <1>7
<1>9. /\ held' \in Seq(Drawer) /\ Len(held') = n + Cardinality(P)
      /\ DOMAIN held = 1..n /\ DOMAIN held' = 1..(n + Cardinality(P))
      /\ \A i \in 1..n : held'[i] = held[i]
      /\ \A i \in DOMAIN held' : i \notin 1..n => i - n \in DOMAIN batch /\ held'[i] = batch[i - n]
      /\ \A i \in DOMAIN batch : n + i \in DOMAIN held' /\ held'[n + i] = batch[i]
  <2>1. PICK k \in Nat : k = Len(batch)
    BY <1>8
  <2>2. /\ held' \in Seq(Drawer) /\ Len(held') = n + k /\ DOMAIN held = 1..n /\ DOMAIN batch = 1..k
        /\ DOMAIN held' = 1..(n + k)
        /\ \A i \in 1..n : held'[i] = held[i]
        /\ \A i \in 1..k : held'[n + i] = batch[i]
    BY <1>1, <1>2, <1>3, <1>8, <2>1
  <2>3. \A i \in 1..(n + k) : i \notin 1..n => i - n \in 1..k /\ n + (i - n) = i
    BY <1>3
  <2>4. \A i \in 1..k : n + i \in 1..(n + k)
    BY <1>3
  <2> QED BY <2>1, <2>2, <2>3, <2>4, <1>7
<1>10. Range(held') = Range(held) \cup P /\ Behind' = Behind \cup P
  <2>1. ASSUME NEW i \in DOMAIN held' PROVE held'[i] \in Range(held) \cup P
    BY <1>7, <1>9 DEF Range
  <2>2. ASSUME NEW i \in DOMAIN held PROVE held[i] \in Range(held')
    <3>1. i \in DOMAIN held' /\ held'[i] = held[i]
      BY <1>3, <1>6, <1>9
    <3> QED BY <3>1 DEF Range
  <2>3. ASSUME NEW i \in DOMAIN batch PROVE batch[i] \in Range(held')
    BY <1>9 DEF Range
  <2>4. Range(held') = Range(held) \cup P
    BY <2>1, <2>2, <2>3, <1>7 DEF Range
  <2>5. stored' = stored
    BY <1>3 DEF palaceVars
  <2> QED BY <2>4, <2>5, <1>6, <1>9 DEF Behind
<1>11. stayed' = stayed /\ stored' = stored /\ came' = came /\ went' = went /\ stayed \subseteq stored
  BY <1>3 DEF palaceVars, PagesInv
<1>12. Skipping' \subseteq Skipping
  BY <1>10, <1>11 DEF Skipping
<1>13. Again' \subseteq Again
  <2> SUFFICES ASSUME NEW d \in Again' PROVE d \in Again
    OBVIOUS
  <2>1. d \in stayed
    BY <1>11 DEF Again
  <2>2. CASE \E i, j \in DOMAIN held' : i # j /\ held'[i] = d /\ held'[j] = d
    <3>1. PICK i \in DOMAIN held', j \in DOMAIN held' : i # j /\ held'[i] = d /\ held'[j] = d
      BY <2>2
    <3>2. i \in Nat /\ j \in Nat
      BY <1>3, <1>9
    <3>3. CASE i \in 1..n /\ j \in 1..n
      BY <3>1, <3>3, <2>1, <1>9 DEF Again
    <3>4. CASE i \notin 1..n /\ j \notin 1..n
      <4>1. /\ i - n \in DOMAIN batch /\ j - n \in DOMAIN batch
            /\ batch[i - n] = d /\ batch[j - n] = d
        BY <3>1, <3>4, <1>9
      <4>2. i - n # j - n
        BY <3>1, <3>2, <1>3
      <4> QED BY <4>1, <4>2, <1>7
    <3>5. ASSUME NEW k \in 1..n, NEW l \in DOMAIN held', l \notin 1..n, held'[k] = d, held'[l] = d
          PROVE  d \in Again
      <4>1. held[k] = d /\ k \in DOMAIN held
        BY <3>5, <1>9
      <4>2. d \in P
        BY <3>5, <1>7, <1>9 DEF Range
      <4> QED BY <4>1, <4>2, <2>1, <1>6 DEF Again, Range
    <3> QED BY <3>1, <3>3, <3>4, <3>5
  <2>3. CASE d \in Range(held') /\ d \notin Behind'
    BY <2>1, <2>3, <1>10 DEF Again
  <2> QED BY <2>2, <2>3 DEF Again
<1>14. Cardinality(Skipping') <= went' /\ Cardinality(Again') <= came'
  <2>1. IsFiniteSet(Skipping) /\ IsFiniteSet(Again)
    BY <1>4, <1>11, FS_Subset DEF Skipping, Again
  <2>2. Cardinality(Skipping) <= went /\ Cardinality(Again) <= came /\ came \in Nat /\ went \in Nat
    BY DEF PagesInv
  <2> QED BY <2>1, <2>2, <1>11, <1>12, <1>13, NoMore
<1>15. reading' \in {"pages", "done", "lost"} /\ (reading' = "done" => stayed' \subseteq Behind')
  BY <1>2, <1>6, <1>7, <1>10, <1>11
<1> QED BY <1>9, <1>11, <1>14, <1>15 DEF PagesInv

\* A newcomer pushes one drawer, at most, out of what is behind the offset.
LEMMA ComeStep == PagesInv /\ Come => PagesInv'
<1> SUFFICES ASSUME PagesInv, Come PROVE PagesInv'
  OBVIOUS
<1>1. PICK d \in Newcomers : (\A e \in stored : e.slot # d.slot) /\ stored' = stored \cup {d}
  BY DEF Come
<1>2. /\ reading = "pages" /\ reading' = reading /\ held' = held /\ stayed' = stayed
      /\ came' = came + 1 /\ went' = went
  BY DEF Come
<1>3. /\ IsFiniteSet(stored) /\ stored \subseteq Drawer /\ stayed \subseteq stored /\ d \in Drawer
      /\ came \in Nat /\ Cardinality(Again) <= came
      /\ went \in Nat /\ Cardinality(Skipping) <= went /\ held \in Seq(Drawer)
  BY LayersAssumption DEF PagesInv, LayersAssumption
<1>4. IsFiniteSet(stored') /\ stored' \subseteq Drawer /\ d \notin stored
      /\ \A x, y \in stored' : x.slot = y.slot => x = y
  BY <1>1, <1>3, FS_AddElement DEF PagesInv
<1>5. Orders(stored', InFiling)
  BY <1>4, DrawersAreOrdered
<1>6. stored' \ stored = {d} /\ Cardinality({d}) = 1 /\ IsFiniteSet({d})
  BY <1>1, <1>4, FS_Singleton
<1>7. /\ IsFiniteSet(Behind \ Behind') /\ Cardinality(Behind \ Behind') <= 1
      /\ stored \cap Behind' \subseteq Behind
  <2>1. PICK S, T, n : S = stored /\ T = stored' /\ n = Len(held)
    OBVIOUS
  <2>2. IsFiniteSet(T) /\ Orders(T, InFiling) /\ S \subseteq T /\ n \in Nat
    BY <2>1, <1>1, <1>3, <1>4, <1>5
  <2>3. /\ IsFiniteSet(FirstOf(S, InFiling, n) \ FirstOf(T, InFiling, n))
        /\ Cardinality(FirstOf(S, InFiling, n) \ FirstOf(T, InFiling, n)) <= Cardinality(T \ S)
        /\ S \cap FirstOf(T, InFiling, n) \subseteq FirstOf(S, InFiling, n)
    BY <2>2, FewLeaveTheFirst
  <2>4. Behind = FirstOf(S, InFiling, n) /\ Behind' = FirstOf(T, InFiling, n)
    BY <2>1, <1>2 DEF Behind
  <2> QED BY <2>1, <2>3, <2>4, <1>6
<1>8. Skipping' \subseteq Skipping /\ Again' \subseteq Again \cup (Behind \ Behind')
  BY <1>2, <1>3, <1>7 DEF Skipping, Again
<1>9. IsFiniteSet(Skipping) /\ IsFiniteSet(Again)
  BY <1>3, FS_Subset DEF Skipping, Again
<1>10. Cardinality(Skipping') <= went'
  BY <1>2, <1>3, <1>8, <1>9, NoMore
<1>11. Cardinality(Again') <= came + 1
  BY <1>3, <1>7, <1>8, <1>9, NoMoreThanSum
<1> QED BY <1>1, <1>2, <1>3, <1>4, <1>10, <1>11 DEF PagesInv

\* One that goes lets one, at most, slip behind the offset.
LEMMA GoStep == PagesInv /\ Go => PagesInv'
<1> SUFFICES ASSUME PagesInv, Go PROVE PagesInv'
  OBVIOUS
<1>1. PICK d \in stored : stored' = stored \ {d} /\ stayed' = stayed \ {d}
  BY DEF Go
<1>2. /\ reading = "pages" /\ reading' = reading /\ held' = held
      /\ came' = came /\ went' = went + 1
  BY DEF Go
<1>3. /\ IsFiniteSet(stored) /\ stored \subseteq Drawer /\ stayed \subseteq stored
      /\ came \in Nat /\ Cardinality(Again) <= came
      /\ went \in Nat /\ Cardinality(Skipping) <= went /\ held \in Seq(Drawer)
      /\ \A x, y \in stored : x.slot = y.slot => x = y
  BY DEF PagesInv
<1>4. IsFiniteSet(stored') /\ stored' \subseteq stored /\ Orders(stored, InFiling)
  BY <1>1, <1>3, FS_Subset, DrawersAreOrdered
<1>5. stored \ stored' = {d} /\ Cardinality({d}) = 1 /\ IsFiniteSet({d})
  BY <1>1, FS_Singleton
<1>6. /\ IsFiniteSet(Behind' \ Behind) /\ Cardinality(Behind' \ Behind) <= 1
      /\ stored' \cap Behind \subseteq Behind'
  <2>1. PICK S, T, n : S = stored' /\ T = stored /\ n = Len(held)
    OBVIOUS
  <2>2. IsFiniteSet(T) /\ Orders(T, InFiling) /\ S \subseteq T /\ n \in Nat
    BY <2>1, <1>3, <1>4
  <2>3. /\ IsFiniteSet(FirstOf(S, InFiling, n) \ FirstOf(T, InFiling, n))
        /\ Cardinality(FirstOf(S, InFiling, n) \ FirstOf(T, InFiling, n)) <= Cardinality(T \ S)
        /\ S \cap FirstOf(T, InFiling, n) \subseteq FirstOf(S, InFiling, n)
    BY <2>2, FewLeaveTheFirst
  <2>4. Behind' = FirstOf(S, InFiling, n) /\ Behind = FirstOf(T, InFiling, n)
    BY <2>1, <1>2 DEF Behind
  <2> QED BY <2>1, <2>3, <2>4, <1>5
<1>7. stayed' \subseteq stored' /\ stayed' \subseteq stayed
  BY <1>1, <1>3
<1>8. Skipping' \subseteq Skipping \cup (Behind' \ Behind) /\ Again' \subseteq Again
  BY <1>2, <1>6, <1>7 DEF Skipping, Again
<1>9. IsFiniteSet(Skipping) /\ IsFiniteSet(Again)
  BY <1>3, FS_Subset DEF Skipping, Again
<1>10. Cardinality(Skipping') <= went + 1
  BY <1>3, <1>6, <1>8, <1>9, NoMoreThanSum
<1>11. Cardinality(Again') <= came'
  BY <1>2, <1>3, <1>8, <1>9, NoMore
<1>12. \A x, y \in stored' : x.slot = y.slot => x = y
  BY <1>3, <1>4
<1> QED BY <1>2, <1>3, <1>4, <1>7, <1>10, <1>11, <1>12 DEF PagesInv

Importance == {r \in Nat \X Nat : Precedes(r[1], r[2])}
Chosen == FirstOf(DOMAIN held, Importance, MaxDrawers)
DueInOrder == \A i, j \in DOMAIN due : i < j => Grouped(due[i], due[j])
ToldInOrder == \A i \in Range(story), j \in Range(due) : Grouped(i, j)

\* What the budget counts, and by how much the text is longer.
SizesRight ==
    /\ used <= MaxChars + (IF told = "cut" THEN RoomLine ELSE 0)
    /\ Len(story) + Len(due) <= MaxDrawers
    /\ long <= used + TitleLine + 2 * Len(story) + (IF told = "cut" THEN MoreLine + 2 ELSE 0)

LayersInv ==
    /\ LayersTypeOK /\ PagesInv
    /\ reading = "pages" => top = {}
    /\ top = {} => due = <<>> /\ story = <<>>
    /\ top # {} => top = Chosen
    /\ due \in Seq(top) /\ story \in Seq(top)
    /\ Range(story) \cup Range(due) = top
    /\ DueInOrder /\ ToldInOrder
    /\ told = "all" => due = <<>> /\ top # {}
    /\ told # "no" => top # {}
    /\ SizesRight

\* Importance orders the drawers: of two of one weight the earlier comes first.
LEMMA HeldIsOrdered ==
  ASSUME held \in Seq(Drawer)
  PROVE  /\ IsFiniteSet(DOMAIN held) /\ Cardinality(DOMAIN held) = Len(held)
         /\ Orders(DOMAIN held, Importance)
         /\ \A i, j \in DOMAIN held : <<i, j>> \in Importance <=> Precedes(i, j)
         /\ \A i, j \in DOMAIN held : Precedes(i, j) => held[i].weight >= held[j].weight
<1>1. DOMAIN held = 1..Len(held) /\ Len(held) \in Nat
  OBVIOUS
<1>2. IsFiniteSet(1..Len(held)) /\ Cardinality(1..Len(held)) = Len(held)
  BY <1>1, FS_Interval
<1>3. \A i \in DOMAIN held : held[i].weight \in Nat /\ i \in Nat
  <2> SUFFICES ASSUME NEW i \in DOMAIN held PROVE held[i].weight \in Nat /\ i \in Nat
    OBVIOUS
  <2>1. held[i] \in Drawer
    OBVIOUS
  <2> QED BY <1>1, <2>1 DEF Drawer
<1>4. \A i, j \in DOMAIN held : <<i, j>> \in Importance <=> Precedes(i, j)
  <2> SUFFICES ASSUME NEW i \in DOMAIN held, NEW j \in DOMAIN held
               PROVE  <<i, j>> \in Importance <=> Precedes(i, j)
    OBVIOUS
  <2>1. i \in Nat /\ j \in Nat
    BY <1>3
  <2> QED BY <2>1 DEF Importance
<1>5. \A i \in DOMAIN held : ~Precedes(i, i)
  BY <1>3 DEF Precedes
<1>6. \A i, j \in DOMAIN held : i = j \/ Precedes(i, j) \/ Precedes(j, i)
  BY <1>3 DEF Precedes
<1>7. ASSUME NEW i \in DOMAIN held, NEW j \in DOMAIN held, NEW k \in DOMAIN held,
             Precedes(i, j), Precedes(j, k)
      PROVE  Precedes(i, k)
  BY <1>3, <1>7 DEF Precedes
<1>8. \A i, j \in DOMAIN held : Precedes(i, j) => held[i].weight >= held[j].weight
  BY <1>3 DEF Precedes
<1> QED BY <1>1, <1>2, <1>4, <1>5, <1>6, <1>7, <1>8 DEF Orders

\* Those that were picked come before those that were not.
LEMMA PickedAreFirst ==
  ASSUME held \in Seq(Drawer)
  PROVE  {i \in DOMAIN held : Cardinality({j \in DOMAIN held : Precedes(j, i)}) < MaxDrawers}
           = Chosen
<1>1. /\ IsFiniteSet(DOMAIN held) /\ Orders(DOMAIN held, Importance)
      /\ \A i, j \in DOMAIN held : <<i, j>> \in Importance <=> Precedes(i, j)
  BY HeldIsOrdered
<1>2. MaxDrawers \in Nat
  BY LayersAssumption DEF LayersAssumption
<1>3. ASSUME NEW i \in DOMAIN held
      PROVE  Cardinality({j \in DOMAIN held : Precedes(j, i)}) < MaxDrawers
               <=> Place(DOMAIN held, Importance, i) <= MaxDrawers
  <2> DEFINE B == {j \in DOMAIN held : Precedes(j, i)}
  <2>1. i \notin B /\ B \subseteq DOMAIN held
    BY <1>1 DEF Orders
  <2>2. NotAfter(DOMAIN held, Importance, i) = B \cup {i}
    BY <1>1 DEF NotAfter
  <2> HIDE DEF B
  <2>3. IsFiniteSet(B) /\ Cardinality(B) \in Nat
    BY <1>1, <2>1, FS_Subset, FS_CardinalityType
  <2>4. Cardinality(B \cup {i}) = Cardinality(B) + 1
    BY <2>1, <2>3, FS_AddElement
  <2>5. Place(DOMAIN held, Importance, i) = Cardinality(B) + 1
    BY <2>2, <2>4 DEF Place
  <2>6. Cardinality(B) < MaxDrawers <=> Place(DOMAIN held, Importance, i) <= MaxDrawers
    BY <1>2, <2>3, <2>5
  <2> QED BY <2>6 DEF B
<1> QED BY <1>3 DEF FirstOf, Chosen

\* None that is left out weighs more than one that was picked.
LEMMA FirstAreBetter ==
  ASSUME held \in Seq(Drawer),
         NEW i \in Chosen,
         NEW j \in DOMAIN held, j \notin Chosen
  PROVE  held[i].weight >= held[j].weight
<1>1. /\ IsFiniteSet(DOMAIN held) /\ Orders(DOMAIN held, Importance)
      /\ \A k, l \in DOMAIN held : <<k, l>> \in Importance <=> Precedes(k, l)
      /\ \A k, l \in DOMAIN held : Precedes(k, l) => held[k].weight >= held[l].weight
  BY HeldIsOrdered
<1>2. i \in DOMAIN held /\ i # j
  BY DEF FirstOf, Chosen
<1>3. CASE <<j, i>> \in Importance
  <2>1. Place(DOMAIN held, Importance, j) < Place(DOMAIN held, Importance, i)
    BY <1>1, <1>2, <1>3, PlaceGoesUp
  <2>2. /\ Place(DOMAIN held, Importance, j) \in 1..Cardinality(DOMAIN held)
        /\ Place(DOMAIN held, Importance, i) \in 1..Cardinality(DOMAIN held)
        /\ Cardinality(DOMAIN held) \in Nat
    BY <1>1, <1>2, PlaceGoesUp, FS_CardinalityType
  <2>3. MaxDrawers \in Nat
    BY LayersAssumption DEF LayersAssumption
  <2>4. Place(DOMAIN held, Importance, i) <= MaxDrawers
    BY DEF FirstOf, Chosen
  <2>5. Place(DOMAIN held, Importance, j) <= MaxDrawers
    BY <2>1, <2>2, <2>3, <2>4
  <2> QED BY <2>5 DEF FirstOf, Chosen
<1> QED BY <1>1, <1>2, <1>3 DEF Orders

\* The drawers are picked and grouped by room.
LEMMA PickTopStep == LayersInv /\ PickTop => LayersInv'
<1> SUFFICES ASSUME LayersInv, PickTop PROVE LayersInv'
  OBVIOUS
<1>1. PICK order \in SetToSeqs(top') :
        /\ \A i, j \in DOMAIN order : i < j => Grouped(order[i], order[j])
        /\ due' = order
  BY DEF PickTop
<1>2. /\ reading # "pages" /\ told = "no" /\ top = {} /\ long' = TitleLine
      /\ UNCHANGED <<palaceVars, reading, held, story, used, told>>
      /\ top' = {i \in DOMAIN held : Cardinality({j \in DOMAIN held : Precedes(j, i)}) < MaxDrawers}
  BY DEF PickTop
<1>3. held \in Seq(Drawer) /\ story = <<>> /\ used \in Nat /\ SizesRight /\ PagesInv
  BY <1>2 DEF LayersInv, LayersTypeOK, PagesInv
<1>4. top' = Chosen /\ top' \subseteq DOMAIN held
  BY <1>2, <1>3, PickedAreFirst
<1>5. IsFiniteSet(top') /\ Cardinality(top') \in Nat
  <2>1. IsFiniteSet(DOMAIN held)
    BY <1>3, HeldIsOrdered
  <2> QED BY <1>4, <2>1, FS_Subset, FS_CardinalityType
<1>6. PICK T, n : T = top' /\ n = Cardinality(T)
  OBVIOUS
<1>7. /\ order \in [1..n -> T] /\ \A i, j \in 1..n : i # j => order[i] # order[j]
      /\ n \in Nat /\ IsFiniteSet(T) /\ n = Cardinality(T)
  BY <1>1, <1>5, <1>6 DEF SetToSeqs
<1>8. order \in Seq(T) /\ DOMAIN order = 1..n
  BY <1>7
<1>9. Range(order) = T
  <2>1. order \in Injection(1..n, T)
    BY <1>7 DEF Injection, IsInjective
  <2>2. Cardinality(1..n) = n
    BY <1>7, FS_Interval
  <2>3. order \in Surjection(1..n, T)
    BY <1>7, <2>1, <2>2, FS_Injection
  <2> QED BY <1>7, <2>3 DEF Surjection, Range
<1>10. Range(story) = {} /\ DOMAIN story = {} /\ story \in Seq(T) /\ story' = story
  BY <1>2, <1>3 DEF Range
<1>11. due' = order /\ top' = T
  BY <1>1, <1>6
<1>12. Range(story') = {} /\ Range(due') = T
  BY <1>9, <1>10, <1>11
<1>13. LayersTypeOK'
  <2>1. TitleLine \in Nat
    BY LayersAssumption DEF LayersAssumption
  <2> QED BY <2>1, <1>2, <1>3, <1>4, <1>10, <1>11, <1>12 DEF LayersInv, LayersTypeOK, palaceVars
<1>14. top' = {} => due' = <<>>
  <2> SUFFICES ASSUME T = {} PROVE order = <<>>
    BY <1>11
  <2>1. n = 0
    BY <1>7, FS_EmptySet
  <2> QED BY <1>8, <2>1
<1>15. Chosen' = Chosen
  BY <1>2 DEF Chosen, Importance, Precedes
<1>16. SizesRight'
  <2>1. n <= MaxDrawers /\ MaxDrawers \in Nat
    <3>1. MaxDrawers \in Nat /\ IsFiniteSet(DOMAIN held) /\ Orders(DOMAIN held, Importance)
      BY <1>3, HeldIsOrdered, LayersAssumption DEF LayersAssumption
    <3> QED BY <3>1, <1>4, <1>6, FirstOfSize DEF Chosen
  <2>2. Len(story') = 0 /\ Len(due') = n
    BY <1>2, <1>3, <1>7, <1>8, <1>11
  <2>3. TitleLine \in Nat /\ used' = used /\ long' = TitleLine /\ told' = "no" /\ told = "no"
    BY <1>2, LayersAssumption DEF LayersAssumption
  <2>4. used' <= MaxChars
    BY <2>3, <1>3, LayersAssumption DEF SizesRight, LayersAssumption
  <2>5. long' <= used' + TitleLine + 2 * Len(story')
    BY <2>2, <2>3, <1>3
  <2>6. Len(story') + Len(due') <= MaxDrawers
    BY <2>1, <2>2, <1>7
  <2> QED BY <2>3, <2>4, <2>5, <2>6, <1>3, LayersAssumption DEF SizesRight, LayersAssumption
<1>17. DueInOrder'
  <2> SUFFICES ASSUME NEW i \in DOMAIN due', NEW j \in DOMAIN due', i < j
               PROVE  Grouped(order[i], order[j])'
    BY <1>1 DEF DueInOrder
  <2>1. Grouped(order[i], order[j])
    BY <1>1
  <2> QED BY <2>1, <1>2 DEF Grouped, Precedes
<1>18. ToldInOrder'
  BY <1>12 DEF ToldInOrder
<1>19. told' = "no"
  BY <1>2
<1>20. PagesInv' /\ reading' # "pages"
  BY <1>2, <1>3, PagesStay
<1> QED BY <1>3, <1>4, <1>2, <1>8, <1>10, <1>11, <1>12, <1>13, <1>14, <1>15, <1>16, <1>17, <1>18, <1>19, <1>20 DEF LayersInv

\* No drawer is grouped before itself.
LEMMA GroupedIsStrict ==
  ASSUME held \in Seq(Drawer), NEW i \in DOMAIN held
  PROVE  ~Grouped(i, i) /\ held[i].size \in Nat
<1>1. held[i] \in Drawer /\ i \in Nat
  OBVIOUS
<1>2. held[i].room \in Nat /\ held[i].weight \in Nat /\ held[i].size \in Nat
  BY <1>1 DEF Drawer
<1> QED BY <1>1, <1>2 DEF Grouped, Precedes

\* A drawer is told, or the story ends before the one that does not fit.
LEMMA TellStep == LayersInv /\ Tell => LayersInv'
<1> SUFFICES ASSUME LayersInv, Tell PROVE LayersInv'
  OBVIOUS
<1>1. told = "no" /\ due # <<>> /\ UNCHANGED <<palaceVars, reading, held, top>>
  BY DEF Tell
<1>2. /\ held \in Seq(Drawer) /\ due \in Seq(top) /\ story \in Seq(top)
      /\ top \subseteq DOMAIN held /\ top = Chosen /\ top # {}
      /\ used \in Nat /\ used <= MaxChars /\ long \in Nat
      /\ Len(story) + Len(due) <= MaxDrawers /\ long <= used + TitleLine + 2 * Len(story)
      /\ PagesInv /\ reading # "pages"
  <2>1. MaxChars \in Nat /\ RoomLine \in Nat /\ MoreLine \in Nat /\ TitleLine \in Nat
    BY LayersAssumption DEF LayersAssumption
  <2>2. used \in Nat /\ long \in Nat /\ SizesRight /\ Len(story) \in Nat
    BY DEF LayersInv, LayersTypeOK
  <2>3. /\ used <= MaxChars /\ Len(story) + Len(due) <= MaxDrawers
        /\ long <= used + TitleLine + 2 * Len(story)
    BY <1>1, <2>1, <2>2 DEF SizesRight
  <2>4. top # {} /\ top = Chosen
    BY <1>1 DEF LayersInv
  <2> QED BY <2>2, <2>3, <2>4 DEF LayersInv, LayersTypeOK, PagesInv
<1>3. PICK x : x = due[1]
  OBVIOUS
<1>4. /\ Tail(due) \in Seq(top) /\ x \in top /\ Len(due) \in Nat \ {0} /\ 1 \in DOMAIN due
      /\ Len(Tail(due)) = Len(due) - 1
      /\ \A k \in DOMAIN Tail(due) : Tail(due)[k] = due[k + 1] /\ k + 1 \in DOMAIN due
      /\ Range(due) = {x} \cup Range(Tail(due))
  BY <1>1, <1>2, <1>3, RangeOfTail
<1>5. ~Grouped(x, x) /\ held[x].size \in Nat
  BY <1>2, <1>4, GroupedIsStrict
<1>6. Chosen' = Chosen
  BY <1>1 DEF Chosen, Importance, Precedes
<1>7. /\ RoomLine \in Nat /\ MaxChars \in Nat /\ TitleLine \in Nat /\ MoreLine \in Nat /\ MaxDrawers \in Nat
      /\ Heading(x) \in 0..RoomLine
  BY LayersAssumption DEF LayersAssumption, Heading
<1>a. PICK g \in Nat : g = (IF IsNewRoom(x) THEN 1 + RoomLine ELSE 0) /\ g <= Heading(x) + 1
  BY <1>7 DEF Heading
<1>b. PagesInv' /\ reading' # "pages"
  BY <1>1, <1>2, PagesStay
<1>8. CASE FitsBudget(x)
  <2>1. /\ story' = Append(story, x) /\ used' = used + Heading(x) + held[x].size
        /\ due' = Tail(due) /\ told' = IF Len(due) = 1 THEN "all" ELSE "no"
        /\ long' = long + g + 1 + held[x].size
    BY <1>3, <1>8, <1>a DEF Tell, Rest
  <2>2. used' <= MaxChars /\ used' \in Nat
    <3>1. PICK h \in Nat, z \in Nat : h = Heading(x) /\ z = held[x].size
      BY <1>5, <1>7
    <3>2. used' = used + h + z
      BY <2>1, <3>1
    <3>3. used + h + z <= MaxChars
      BY <1>8, <3>1 DEF FitsBudget
    <3> QED BY <3>2, <3>3, <1>2
  <2>3. Range(story') = Range(story) \cup {x} /\ story' \in Seq(top)
    BY <2>1, <1>2, <1>4, RangeOfAppend
  <2>4. x \notin Range(story)
    <3>1. \A i \in Range(story) : Grouped(i, x)
      BY <1>4 DEF LayersInv, ToldInOrder
    <3> QED BY <3>1, <1>5
  <2>5. \A i, j \in DOMAIN story' : story'[i] = story'[j] => i = j
    <3>1. /\ DOMAIN story' = 1..(Len(story) + 1) /\ DOMAIN story = 1..Len(story) /\ Len(story) \in Nat
          /\ story'[Len(story) + 1] = x
          /\ \A k \in 1..Len(story) : story'[k] = story[k]
      BY <2>1, <1>2, <1>4
    <3>2. \A k \in 1..Len(story) : story[k] # x
      BY <2>4, <3>1 DEF Range
    <3>3. \A k \in 1..(Len(story) + 1) : k = Len(story) + 1 \/ k \in 1..Len(story)
      BY <3>1
    <3>4. \A i, j \in 1..Len(story) : story[i] = story[j] => i = j
      BY <3>1 DEF LayersInv, LayersTypeOK
    <3> QED BY <3>1, <3>2, <3>3, <3>4
  <2>6. Range(due') \cup Range(story') = top
    BY <2>1, <2>3, <1>4 DEF LayersInv
  <2>7. LayersTypeOK'
    <3>0. PICK z \in Nat : z = held[x].size
      BY <1>5
    <3>1. long' \in Nat
      <4>1. long' = long + g + 1 + z /\ long \in Nat
        BY <3>0, <2>1, <1>2
      <4> QED BY <4>1
    <3> QED BY <3>1, <1>1, <1>2, <2>1, <2>2, <2>5, <2>6 DEF LayersInv, LayersTypeOK, palaceVars
  <2>8. DueInOrder'
    <3> SUFFICES ASSUME NEW i \in DOMAIN Tail(due), NEW j \in DOMAIN Tail(due), i < j
                 PROVE  Grouped(Tail(due)[i], Tail(due)[j])
      BY <1>1, <2>1 DEF DueInOrder, Grouped, Precedes
    <3>1. i \in Nat /\ j \in Nat
      BY <1>4
    <3>2. Grouped(due[i + 1], due[j + 1])
      BY <3>1, <1>4 DEF LayersInv, DueInOrder
    <3> QED BY <3>2, <1>4
  <2>9. ToldInOrder'
    <3> SUFFICES ASSUME NEW i \in Range(story'), NEW j \in Range(due') PROVE Grouped(i, j)
      BY <1>1 DEF ToldInOrder, Grouped, Precedes
    <3>1. j \in Range(due)
      BY <2>1, <1>4
    <3>2. CASE i \in Range(story)
      BY <3>1, <3>2 DEF LayersInv, ToldInOrder
    <3>3. CASE i = x
      <4>1. PICK k \in DOMAIN Tail(due) : j = Tail(due)[k]
        BY <2>1 DEF Range
      <4>2. j = due[k + 1] /\ k + 1 \in DOMAIN due /\ k \in Nat /\ k > 0
        BY <4>1, <1>4
      <4> QED BY <3>3, <4>2, <1>3, <1>4 DEF LayersInv, DueInOrder
    <3> QED BY <2>3, <3>2, <3>3
  <2>10. SizesRight'
    <3>1. PICK h \in Nat, z \in Nat, l \in Nat, k \in Nat :
            h = Heading(x) /\ z = held[x].size /\ l = Len(story) /\ k = Len(due)
      <4>1. PICK h \in Nat : h = Heading(x)
        BY <1>7
      <4>2. Len(story) \in Nat /\ Len(due) \in Nat /\ held[x].size \in Nat
        BY <1>2, <1>5
      <4> QED BY <4>1, <4>2
    <3>2. Len(story') = l + 1 /\ Len(due') = k - 1
      BY <2>1, <3>1, <1>2, <1>4
    <3>3. /\ used' = used + h + z /\ long' = long + g + 1 + z /\ g <= h + 1
          /\ long <= used + TitleLine + 2 * l /\ l + k <= MaxDrawers
      BY <2>1, <3>1, <1>2, <1>a
    <3>4. long' <= used' + TitleLine + 2 * (l + 1) /\ (l + 1) + (k - 1) <= MaxDrawers
      BY <3>3, <1>2, <1>7
    <3>5. told' # "cut"
      BY <2>1
    <3> QED BY <2>2, <3>2, <3>4, <3>5, <1>7 DEF SizesRight
  <2>11. told' = "all" => due' = <<>>
    BY <2>1, <1>4
  <2> QED BY <1>1, <1>2, <1>4, <1>6, <1>b, <2>1, <2>3, <2>6, <2>7, <2>8, <2>9, <2>10, <2>11 DEF LayersInv
<1>9. CASE ~FitsBudget(x)
  <2>1. /\ used' = used + Heading(x) /\ told' = "cut" /\ UNCHANGED <<story, due>>
        /\ long' = long + g + 1 + MoreLine
    BY <1>3, <1>9, <1>a DEF Tell
  <2>2. /\ used' \in Nat /\ used' <= MaxChars + RoomLine /\ long' \in Nat
        /\ long' <= used' + TitleLine + 2 * Len(story') + (MoreLine + 2)
    <3>1. PICK h \in Nat, l \in Nat : h = Heading(x) /\ l = Len(story)
      BY <1>2, <1>7
    <3>2. /\ used' = used + h /\ long' = long + g + 1 + MoreLine /\ g <= h + 1 /\ h <= RoomLine
          /\ long <= used + TitleLine + 2 * l /\ Len(story') = l
      BY <2>1, <3>1, <1>2, <1>7, <1>a
    <3>3. used + h <= MaxChars + RoomLine /\ long + g + 1 + MoreLine <= (used + h) + TitleLine + 2 * l + (MoreLine + 2)
      BY <3>2, <1>2, <1>7
    <3> QED BY <3>2, <3>3, <1>2, <1>7
  <2>3. LayersTypeOK'
    BY <1>1, <2>1, <2>2 DEF LayersInv, LayersTypeOK, palaceVars
  <2>4. DueInOrder' /\ ToldInOrder'
    BY <1>1, <2>1 DEF LayersInv, DueInOrder, ToldInOrder, Grouped, Precedes
  <2>5. SizesRight'
    BY <2>1, <2>2, <1>2 DEF SizesRight
  <2> QED BY <1>1, <1>2, <1>6, <1>b, <2>1, <2>3, <2>4, <2>5 DEF LayersInv
<1> QED BY <1>8, <1>9

\* While the palace is read nothing is picked or told.
LEMMA ReadingStep ==
  ASSUME LayersInv, ReadBatch \/ LoseBatch \/ Come \/ Go
  PROVE  LayersInv'
<1>1. reading = "pages" /\ top = {} /\ due = <<>> /\ story = <<>> /\ told = "no" /\ PagesInv
  BY DEF LayersInv, ReadBatch, LoseBatch, Come, Go
<1>2. UNCHANGED storyVars
  BY DEF ReadBatch, LoseBatch, Come, Go
<1>3. PagesInv'
  <2>1. ASSUME LoseBatch PROVE PagesInv'
    BY <2>1, <1>1 DEF LoseBatch, PagesInv, palaceVars, Again, Skipping, Behind
  <2> QED BY <2>1, <1>1, ReadBatchStep, ComeStep, GoStep
<1>4. top' = {} /\ due' = <<>> /\ story' = <<>> /\ told' = "no" /\ used' = used /\ long' = long
  BY <1>1, <1>2 DEF storyVars
<1>5. DOMAIN story' = {} /\ DOMAIN due' = {} /\ Range(story') = {} /\ Range(due') = {}
  BY <1>4 DEF Range
<1>6. LayersTypeOK'
  BY <1>3, <1>4, <1>5 DEF LayersInv, LayersTypeOK, PagesInv
<1>7. SizesRight'
  BY <1>1, <1>4 DEF LayersInv, SizesRight
<1>8. DueInOrder' /\ ToldInOrder' /\ due' \in Seq(top') /\ story' \in Seq(top')
  BY <1>4, <1>5 DEF DueInOrder, ToldInOrder
<1> QED BY <1>3, <1>4, <1>5, <1>6, <1>7, <1>8 DEF LayersInv

\* What is missing was passed over, and what is there twice was read again.
LEMMA PagesAreRight == PagesInv => PagesAreOffByOthersOnly
<1> SUFFICES ASSUME PagesInv PROVE PagesAreOffByOthersOnly
  OBVIOUS
<1> DEFINE T == {d \in stayed : \E i, j \in DOMAIN held : i # j /\ held[i] = d /\ held[j] = d}
<1>1. IsFiniteSet(Skipping) /\ IsFiniteSet(Again)
  BY FS_Subset DEF PagesInv, Skipping, Again
<1>2. Cardinality(T) <= came
  <2>1. T \subseteq Again
    BY DEF Again
  <2> HIDE DEF T
  <2> QED BY <2>1, <1>1, NoMore DEF PagesInv
<1>3. ASSUME reading = "done" PROVE Cardinality(stayed \ Range(held)) <= went
  <2>1. stayed \ Range(held) \subseteq Skipping
    BY <1>3 DEF PagesInv, Skipping
  <2> QED BY <2>1, <1>1, NoMore DEF PagesInv
<1> QED BY <1>2, <1>3 DEF PagesAreOffByOthersOnly

\* So the story is of the best, in the order of the rooms, as far as it fits.
LEMMA StoryOfTheBest == LayersInv => StoryIsOfTheBest
<1> SUFFICES ASSUME LayersInv PROVE StoryIsOfTheBest
  OBVIOUS
<1>1. /\ held \in Seq(Drawer) /\ story \in Seq(top) /\ top \subseteq DOMAIN held
      /\ top # {} => top = Chosen
      /\ Range(story) \cup Range(due) = top
      /\ PagesInv /\ PagesAreOffByOthersOnly
  BY PagesAreRight DEF LayersInv, LayersTypeOK, PagesInv
<1>2. ASSUME NEW i \in Range(story), NEW j \in DOMAIN held, j \notin top
      PROVE  held[i].weight >= held[j].weight
  <2>1. i \in Chosen /\ j \notin Chosen
    BY <1>1, <1>2
  <2> QED BY <1>1, <2>1, FirstAreBetter
<1>3. RoomsShowTheirBest
  <2> SUFFICES ASSUME NEW i \in Range(story), NEW j \in DOMAIN held \ Range(story),
                      held[i].room = held[j].room
               PROVE  held[i].weight >= held[j].weight
    BY DEF RoomsShowTheirBest
  <2>1. CASE j \in Range(due)
    <3>1. Grouped(i, j)
      BY <2>1 DEF LayersInv, ToldInOrder
    <3>2. i \in DOMAIN held /\ held[i] \in Drawer
      BY <1>1
    <3>3. held[i].room \in Nat
      BY <3>2 DEF Drawer
    <3>4. Precedes(i, j)
      BY <3>1, <3>3 DEF Grouped
    <3> QED BY <3>2, <3>4, <1>1, HeldIsOrdered
  <2>2. CASE j \notin Range(due)
    BY <2>2, <1>1, <1>2
  <2> QED BY <2>1, <2>2
<1>4. StoryIsTheTop
  <2> SUFFICES ASSUME told = "all"
               PROVE  /\ Len(story) = Min({MaxDrawers, Len(held)})
                      /\ \A i \in Range(story) :
                           /\ \A j \in DOMAIN held \ Range(story) : held[i].weight >= held[j].weight
                           /\ reading = "done" /\ went = 0 =>
                                \A d \in stayed \ {held[j] : j \in Range(story)} :
                                   held[i].weight >= d.weight
    BY DEF StoryIsTheTop
  <2>1. due = <<>> /\ top = Chosen
    BY <1>1 DEF LayersInv
  <2>2. Range(story) = top
    BY <1>1, <2>1 DEF Range
  <2>3. /\ IsFiniteSet(DOMAIN held) /\ Orders(DOMAIN held, Importance)
        /\ Cardinality(DOMAIN held) = Len(held) /\ MaxDrawers \in Nat /\ Len(held) \in Nat
    BY <1>1, HeldIsOrdered, LayersAssumption DEF LayersAssumption
  <2>4. /\ IsFiniteSet(top)
        /\ Len(held) <= MaxDrawers => Cardinality(top) = Len(held)
        /\ MaxDrawers <= Len(held) => Cardinality(top) = MaxDrawers
    BY <2>1, <2>3, FirstOfSize DEF Chosen
  <2>5. PICK n : n = Len(story)
    OBVIOUS
  <2>6. /\ story \in [1..n -> top] /\ n \in Nat
        /\ \A i, j \in 1..n : story[i] = story[j] => i = j
        /\ \A i \in top : \E k \in 1..n : story[k] = i
    <3>1. story \in [1..n -> top] /\ n \in Nat /\ DOMAIN story = 1..n
      BY <1>1, <2>5
    <3>2. \A i, j \in 1..n : story[i] = story[j] => i = j
      BY <3>1 DEF LayersInv, LayersTypeOK
    <3>3. \A i \in top : \E k \in 1..n : story[k] = i
      BY <2>2, <3>1 DEF Range
    <3> QED BY <3>1, <3>2, <3>3
  <2>7. story \in Bijection(1..n, top)
    BY <2>6 DEF Bijection, Injection, IsInjective, Surjection
  <2>8. IsFiniteSet(1..n) /\ Cardinality(1..n) = n
    BY <2>6, FS_Interval
  <2>9. Cardinality(top) = n
    BY <2>7, <2>8, FS_Bijection DEF ExistsBijection
  <2>10. Len(held) <= MaxDrawers => n = Len(held)
    BY <2>4, <2>9
  <2>11. MaxDrawers <= Len(held) => n = MaxDrawers
    BY <2>4, <2>9
  <2>12. Min({MaxDrawers, Len(held)}) = n
    <3>1. n \in {MaxDrawers, Len(held)} /\ \A y \in {MaxDrawers, Len(held)} : n <= y
      BY <2>3, <2>6, <2>10, <2>11
    <3>2. \A x \in {MaxDrawers, Len(held)} :
            (\A y \in {MaxDrawers, Len(held)} : x <= y) => x = n
      BY <2>3, <2>6, <3>1
    <3> QED BY <3>1, <3>2 DEF Min
  <2>13. ASSUME NEW i \in Range(story), reading = "done", went = 0,
                NEW d \in stayed \ {held[j] : j \in Range(story)}
         PROVE  held[i].weight >= d.weight
    <3>1. stayed \ Range(held) = {}
      <4>1. IsFiniteSet(stayed \ Range(held)) /\ Cardinality(stayed \ Range(held)) <= 0
        BY <2>13, <1>1, FS_Subset DEF PagesInv, PagesAreOffByOthersOnly
      <4>2. Cardinality(stayed \ Range(held)) = 0
        BY <4>1, FS_CardinalityType
      <4> QED BY <4>1, <4>2, FS_EmptySet
    <3>2. PICK j \in DOMAIN held : held[j] = d
      BY <3>1, <2>13 DEF Range
    <3>3. j \notin Range(story)
      BY <3>2, <2>13
    <3> QED BY <3>2, <3>3, <2>2, <2>13, <1>2
  <2> QED BY <2>2, <2>5, <2>12, <2>13, <1>2
<1>5. StoryFits
  <2>1. SizesRight /\ used \in Nat /\ Len(story) \in Nat /\ Len(due) \in Nat /\ long \in Nat
    BY DEF LayersInv, LayersTypeOK
  <2>2. /\ MaxChars \in Nat /\ RoomLine \in Nat /\ TitleLine \in Nat /\ MoreLine \in Nat
        /\ MaxDrawers \in Nat
    BY LayersAssumption DEF LayersAssumption
  <2>3. CASE told = "cut"
    BY <2>1, <2>2, <2>3 DEF SizesRight, StoryFits
  <2>4. CASE told # "cut"
    BY <2>1, <2>2, <2>4 DEF SizesRight, StoryFits
  <2> QED BY <2>3, <2>4
<1> QED BY <1>1, <1>3, <1>4, <1>5 DEF LayersInv, StoryIsOfTheBest

\* Whatever the palace, and whatever others file and delete while it is read, what
\* wakes a model up is told of the weightiest of the drawers that were read, by
\* room, as far as the characters go; and no more drawers are missing from these
\* than went, and no more are there twice than came (layers.go:67-168).
THEOREM WakeUpStoryIsOfTheBest == LayersSpec => []StoryIsOfTheBest
<1>1. LayersInit => LayersInv
  <2> SUFFICES ASSUME LayersInit PROVE LayersInv
    OBVIOUS
  <2>1. /\ held = <<>> /\ top = {} /\ due = <<>> /\ story = <<>> /\ used = 0 /\ long = 0
        /\ told = "no" /\ reading = "pages" /\ stayed = stored
    BY DEF LayersInit
  <2>2. DOMAIN story = {} /\ DOMAIN due = {} /\ Range(story) = {} /\ Range(due) = {}
    BY <2>1 DEF Range
  <2>3. LayersTypeOK /\ DueInOrder /\ ToldInOrder
    BY <2>1, <2>2 DEF LayersTypeOK, DueInOrder, ToldInOrder
  <2>4. SizesRight
    BY <2>1, LayersAssumption DEF SizesRight, LayersAssumption
  <2> QED BY <2>1, <2>2, <2>3, <2>4, PagesStart DEF LayersInv
<1>2. LayersInv /\ [LayersNext]_layersVars => LayersInv'
  <2>1. ASSUME LayersInv, UNCHANGED layersVars PROVE LayersInv'
    <3>1. PagesInv'
      BY <2>1, PagesStay DEF LayersInv, layersVars, palaceVars
    <3> QED BY <2>1, <3>1 DEF LayersInv, LayersTypeOK, SizesRight, DueInOrder, ToldInOrder, Chosen,
               Importance, Grouped, Precedes, layersVars
  <2> QED BY <2>1, ReadingStep, PickTopStep, TellStep DEF LayersNext
<1> QED BY <1>1, <1>2, StoryOfTheBest, PTL DEF LayersSpec

-----------------------------------------------------------------------------
(* PalaceGraph: a breadth-first walk.                                      *)

NextRooms(T) == {s \in Nodes : \E r \in T : Share(r, s)}
IsWalk(f, k) == f = [n \in 0..k |-> IF n = 0 THEN {StartRoom} ELSE NextRooms(f[n - 1])]

\* The recursion that a ball is defined by has a value.
LEMMA WalksAre == ASSUME NEW k \in Nat PROVE \E f : IsWalk(f, k)
<1> DEFINE Bad == {n \in Nat : ~ \E f : IsWalk(f, n)}
<1>1. SUFFICES Bad = {}
  OBVIOUS
<1>2. SUFFICES ASSUME Bad # {} PROVE FALSE
  OBVIOUS
<1>3. PICK n \in Bad : \A m \in Nat : m < n => m \notin Bad
  BY <1>2, LeastOf
<1>4. CASE n = 0
  <2>1. IsWalk([m \in 0..0 |-> {StartRoom}], 0)
    BY DEF IsWalk
  <2> QED BY <1>4, <2>1
<1>5. CASE n # 0
  <2>1. n - 1 \in Nat /\ n - 1 < n
    BY <1>5
  <2>2. PICK f : IsWalk(f, n - 1)
    BY <1>3, <2>1
  <2> DEFINE g == [m \in 0..n |-> IF m = n THEN NextRooms(f[n - 1]) ELSE f[m]]
  <2>3. \A m \in 0..(n - 1) : g[m] = f[m]
    BY <1>5
  <2>4. g[n] = NextRooms(g[n - 1])
    BY <2>1, <2>3
  <2>5. ASSUME NEW m \in 0..n
        PROVE  g[m] = IF m = 0 THEN {StartRoom} ELSE NextRooms(g[m - 1])
    <3>1. CASE m = n
      BY <3>1, <2>4, <1>5
    <3>2. CASE m # n
      <4>1. m \in 0..(n - 1) /\ (m # 0 => m - 1 \in 0..(n - 1))
        BY <3>2
      <4>2. f[m] = IF m = 0 THEN {StartRoom} ELSE NextRooms(f[m - 1])
        BY <4>1, <2>2 DEF IsWalk
      <4> QED BY <4>1, <4>2, <2>3
    <3> QED BY <3>1, <3>2
  <2>6. IsWalk(g, n)
    BY <2>5 DEF IsWalk
  <2> QED BY <2>6
<1> QED BY <1>4, <1>5

\* A ball is what that recursion comes to.
LEMMA BallIsWalk == ASSUME NEW k \in Nat PROVE \E f : IsWalk(f, k) /\ Ball(k) = f[k]
<1>1. \E f : IsWalk(f, k)
  BY WalksAre
<1> QED BY <1>1 DEF Ball, IsWalk, NextRooms

\* One step of it.
LEMMA WalkAt ==
  ASSUME NEW k \in Nat, NEW f, IsWalk(f, k), NEW m \in 0..k
  PROVE  f[m] = IF m = 0 THEN {StartRoom} ELSE NextRooms(f[m - 1])
<1>1. PICK w : w = [n \in 0..k |-> IF n = 0 THEN {StartRoom} ELSE NextRooms(f[n - 1])]
  OBVIOUS
<1>2. w[m] = IF m = 0 THEN {StartRoom} ELSE NextRooms(f[m - 1])
  BY <1>1
<1> QED BY <1>1, <1>2 DEF IsWalk

\* Two recursions of different lengths agree as far as both go.
LEMMA WalksAgree ==
  ASSUME NEW k \in Nat, NEW l \in Nat, NEW f, NEW g, IsWalk(f, k), IsWalk(g, l),
         NEW n \in Nat, n <= k, n <= l
  PROVE  f[n] = g[n]
<1> DEFINE Bad == {m \in Nat : m <= k /\ m <= l /\ f[m] # g[m]}
<1>1. SUFFICES ASSUME Bad # {} PROVE FALSE
  OBVIOUS
<1>2. PICK m \in Bad : \A i \in Nat : i < m => i \notin Bad
  BY <1>1, LeastOf
<1>3. /\ f[m] = IF m = 0 THEN {StartRoom} ELSE NextRooms(f[m - 1])
      /\ g[m] = IF m = 0 THEN {StartRoom} ELSE NextRooms(g[m - 1])
  <2>1. m \in 0..k /\ m \in 0..l
    OBVIOUS
  <2> QED BY <2>1, WalkAt
<1>4. CASE m = 0
  BY <1>3, <1>4
<1>5. CASE m # 0
  <2>1. m - 1 \in Nat /\ m - 1 < m /\ m - 1 <= k /\ m - 1 <= l
    BY <1>5
  <2>2. f[m - 1] = g[m - 1]
    BY <1>2, <2>1
  <2> QED BY <1>3, <1>5, <2>2
<1> QED BY <1>4, <1>5

\* So a ball is the start, or what shares a wing with a smaller ball.
LEMMA BallGrows ==
  /\ Ball(0) = {StartRoom}
  /\ \A k \in Nat : Ball(k + 1) = {s \in Nodes : \E r \in Ball(k) : Share(r, s)}
<1>1. Ball(0) = {StartRoom}
  <2>1. PICK f : IsWalk(f, 0) /\ Ball(0) = f[0]
    BY BallIsWalk
  <2> QED BY <2>1 DEF IsWalk
<1>2. ASSUME NEW k \in Nat PROVE Ball(k + 1) = NextRooms(Ball(k))
  <2>1. PICK f : IsWalk(f, k) /\ Ball(k) = f[k]
    BY BallIsWalk
  <2>2. PICK g : IsWalk(g, k + 1) /\ Ball(k + 1) = g[k + 1]
    BY BallIsWalk
  <2>3. f[k] = g[k]
    BY <2>1, <2>2, WalksAgree
  <2>4. g[k + 1] = NextRooms(g[k])
    <3>1. k + 1 \in 0..(k + 1) /\ k + 1 # 0 /\ (k + 1) - 1 = k /\ k + 1 \in Nat
      OBVIOUS
    <3>2. g[k + 1] = IF k + 1 = 0 THEN {StartRoom} ELSE NextRooms(g[(k + 1) - 1])
      BY <2>2, <3>1, WalkAt
    <3> QED BY <3>1, <3>2
  <2> QED BY <2>1, <2>2, <2>3, <2>4
<1> QED BY <1>1, <1>2 DEF NextRooms

Queued == {queue[i][1] : i \in DOMAIN queue}

HopsAreHops ==
    \A r \in Visited : hop[r] \in 0..maxHops /\ \A k \in Nat : k = hop[r] => r \in Ball(k)

QueueIsRight ==
    /\ queue \in Seq(Rooms \X (0..maxHops))
    /\ \A i \in DOMAIN queue : queue[i][1] \in Visited /\ queue[i][2] = hop[queue[i][1]]
    /\ \A i, j \in DOMAIN queue : i < j => queue[i][2] <= queue[j][2]
    /\ queue # <<>> => \A r \in Visited : hop[r] <= queue[1][2] + 1

\* The neighbours of what was taken from the queue are visited, one hop further
\* at most.
TakenIsDone ==
    \A r \in Visited \ Queued : hop[r] < maxHops =>
        \A s \in Nodes : Share(r, s) => s \in Visited /\ hop[s] <= hop[r] + 1

WalkInv ==
    /\ wingsOf \in [Rooms -> SUBSET Wings] /\ maxHops \in Nat
    /\ Visited \subseteq Nodes
    /\ Visited # {} => StartRoom \in Visited /\ hop[StartRoom] = 0
    /\ HopsAreHops /\ QueueIsRight /\ TakenIsDone
    /\ shown # <<>> => queue = <<>>
    /\ Range(shown) \subseteq Visited /\ Len(shown) <= MaxResults
    /\ NearestAreShown

\* A walk starts with its first room in the queue, or nowhere.
LEMMA WalkInit == GraphInit => WalkInv
<1> SUFFICES ASSUME GraphInit PROVE WalkInv
  OBVIOUS
<1>1. /\ wingsOf \in [Rooms -> SUBSET Wings] /\ maxHops \in Nat /\ shown = <<>>
      /\ hop = [r \in {StartRoom} \cap Nodes |-> 0]
      /\ queue = IF StartRoom \in Nodes THEN <<<<StartRoom, 0>>>> ELSE <<>>
  BY GraphAssumption DEF GraphInit, GraphAssumption
<1>2. Visited = {StartRoom} \cap Nodes /\ \A r \in Visited : hop[r] = 0 /\ r = StartRoom
  BY <1>1 DEF Visited
<1>3. HopsAreHops
  BY <1>1, <1>2, BallGrows DEF HopsAreHops
<1>4. Range(shown) = {} /\ Len(shown) = 0
  BY <1>1 DEF Range
<1>5. NearestAreShown
  BY <1>1 DEF NearestAreShown
<1>6. CASE StartRoom \in Nodes
  <2>1. queue = <<<<StartRoom, 0>>>> /\ DOMAIN queue = {1} /\ queue[1] = <<StartRoom, 0>>
    BY <1>1, <1>6
  <2>2. StartRoom \in Rooms /\ 0 \in 0..maxHops
    BY <1>1, <1>6 DEF Nodes
  <2>3. queue \in Seq(Rooms \X (0..maxHops))
    BY <2>1, <2>2
  <2>4. Visited = {StartRoom} /\ queue[1][1] = StartRoom /\ queue[1][2] = 0
    BY <1>2, <1>6, <2>1
  <2>5. QueueIsRight
    BY <1>2, <2>1, <2>3, <2>4 DEF QueueIsRight
  <2>6. Queued = {StartRoom}
    BY <2>1, <2>4 DEF Queued
  <2>7. TakenIsDone
    BY <2>4, <2>6 DEF TakenIsDone
  <2> QED BY <1>1, <1>2, <1>3, <1>4, <1>5, <2>5, <2>7, GraphAssumption DEF WalkInv, GraphAssumption
<1>7. CASE StartRoom \notin Nodes
  <2>1. queue = <<>> /\ Visited = {} /\ DOMAIN queue = {}
    BY <1>1, <1>2, <1>7
  <2>2. QueueIsRight /\ TakenIsDone
    BY <2>1 DEF QueueIsRight, TakenIsDone
  <2> QED BY <1>1, <1>3, <1>4, <1>5, <2>1, <2>2, GraphAssumption DEF WalkInv, GraphAssumption
<1> QED BY <1>6, <1>7

\* A palace has finitely many rooms.
LEMMA NodesAreFinite == \A S : S \subseteq Nodes => IsFiniteSet(S)
<1>1. Nodes \subseteq Rooms /\ IsFiniteSet(Rooms)
  BY GraphAssumption DEF GraphAssumption, Nodes
<1> QED BY <1>1, FS_Subset

\* Balls do not change while rooms keep their wings.
LEMMA BallStays ==
  ASSUME UNCHANGED wingsOf, NEW k PROVE Ball(k)' = Ball(k)
BY DEF Ball, Nodes, Share

\* A room is taken from the queue and its neighbours are put behind it: the
\* queue goes by distance and spans two distances at most.
LEMMA VisitStep == WalkInv /\ Visit => WalkInv'
<1> SUFFICES ASSUME WalkInv, Visit PROVE WalkInv'
  OBVIOUS
<1>1. PICK room, depth, new :
        /\ room = queue[1][1] /\ depth = queue[1][2]
        /\ new = IF IsFar(depth) THEN {} ELSE Unvisited(room)
  OBVIOUS
<1>2. /\ queue # <<>> /\ UNCHANGED <<wingsOf, maxHops, shown>>
      /\ hop' = [r \in Visited \cup new |-> IF r \in new THEN depth + 1 ELSE hop[r]]
      /\ \E order \in SetToSeqs(new) :
           queue' = Tail(queue) \o IF depth + 1 < maxHops
                                     THEN [i \in DOMAIN order |-> <<order[i], depth + 1>>]
                                     ELSE <<>>
  BY <1>1 DEF Visit
<1>b. PICK order \in SetToSeqs(new) :
        queue' = Tail(queue) \o
          (IF depth + 1 < maxHops THEN [i \in DOMAIN order |-> <<order[i], depth + 1>>] ELSE <<>>)
  BY <1>2
<1>3. PICK add :
        /\ add = IF depth + 1 < maxHops THEN [i \in DOMAIN order |-> <<order[i], depth + 1>>] ELSE <<>>
        /\ queue' = Tail(queue) \o add /\ order \in SetToSeqs(new)
  BY <1>b

<1>4. /\ maxHops \in Nat /\ Visited \subseteq Nodes /\ shown = <<>> /\ QueueIsRight
      /\ Nodes \subseteq Rooms
  BY <1>2 DEF WalkInv, Nodes
<1>5. PICK P : P = Rooms \X (0..maxHops)
  OBVIOUS
<1>6. /\ queue \in Seq(P) /\ 1 \in DOMAIN queue /\ queue[1] \in P
      /\ room \in Visited /\ depth = hop[room] /\ depth \in 0..maxHops
      /\ \A r \in Visited : hop[r] <= depth + 1
  BY <1>1, <1>2, <1>4, <1>5 DEF QueueIsRight
<1>7. /\ new \subseteq Nodes \ Visited /\ \A s \in new : Share(room, s)
      /\ new # {} => depth < maxHops
      /\ depth < maxHops => \A s \in Nodes \ Visited : Share(room, s) => s \in new
  BY <1>1, <1>4, <1>6 DEF IsFar, Unvisited
<1>8. /\ order \in Seq(new) /\ DOMAIN order = 1..Len(order)
      /\ \A i \in DOMAIN order : order[i] \in new
      /\ \A s \in new : \E i \in DOMAIN order : order[i] = s
  <2>1. IsFiniteSet(new)
    BY <1>7, NodesAreFinite
  <2> QED BY <2>1, OrderIsOnto
<1>9. /\ add \in Seq(P)
      /\ \A i \in DOMAIN add : add[i][1] \in new /\ add[i][2] = depth + 1
      /\ depth + 1 < maxHops => \A s \in new : \E i \in DOMAIN add : add[i][1] = s
  <2>1. CASE depth + 1 < maxHops
    <3>1. /\ add = [i \in 1..Len(order) |-> <<order[i], depth + 1>>]
          /\ depth + 1 \in 0..maxHops /\ Len(order) \in Nat
      BY <2>1, <1>3, <1>4, <1>6, <1>8
    <3>2. \A i \in 1..Len(order) : <<order[i], depth + 1>> \in P
      BY <3>1, <1>4, <1>5, <1>7, <1>8
    <3>3. add \in Seq(P) /\ DOMAIN add = 1..Len(order)
      BY <3>1, <3>2
    <3> QED BY <3>1, <3>3, <1>8
  <2>2. CASE ~(depth + 1 < maxHops)
    BY <2>2, <1>3
  <2> QED BY <2>1, <2>2
<1>10. /\ queue' \in Seq(P)
       /\ \A i \in DOMAIN queue' : i \in Nat
       /\ \A i \in DOMAIN queue' :
            \/ i + 1 \in DOMAIN queue /\ queue'[i] = queue[i + 1] /\ i < Len(queue)
            \/ \E k \in DOMAIN add : queue'[i] = add[k] /\ i >= Len(queue)
       /\ \A i \in DOMAIN queue : i # 1 => i - 1 \in DOMAIN queue' /\ queue'[i - 1] = queue[i]
       /\ \A k \in DOMAIN add : \E i \in DOMAIN queue' : queue'[i] = add[k]
       /\ Len(queue) \in Nat \ {0}
  <2>1. PICK q : q = queue'
    OBVIOUS
  <2>2. q = Tail(queue) \o add
    BY <1>3, <2>1
  <2>3. /\ q \in Seq(P)
        /\ \A i \in DOMAIN q : i \in Nat
        /\ \A i \in DOMAIN q :
             \/ i + 1 \in DOMAIN queue /\ q[i] = queue[i + 1] /\ i < Len(queue)
             \/ i - (Len(queue) - 1) \in DOMAIN add /\ q[i] = add[i - (Len(queue) - 1)] /\ i >= Len(queue)
        /\ \A i \in DOMAIN queue : i # 1 => i - 1 \in DOMAIN q /\ q[i - 1] = queue[i]
        /\ \A i \in DOMAIN add : i + (Len(queue) - 1) \in DOMAIN q /\ q[i + (Len(queue) - 1)] = add[i]
        /\ Len(queue) \in Nat \ {0}
    BY <1>2, <1>6, <1>9, <2>2, QueueBehind
  <2> QED BY <2>1, <2>3
<1>11. /\ Visited' = Visited \cup new
       /\ \A r \in Visited : hop'[r] = hop[r] /\ hop[r] \in 0..maxHops
       /\ \A r \in new : hop'[r] = depth + 1
  BY <1>2, <1>7 DEF Visited, WalkInv, HopsAreHops
<1>12. /\ \A k : Ball(k)' = Ball(k)
       /\ Nodes' = Nodes /\ \A r, s : Share(r, s)' = Share(r, s)
  BY <1>2, BallStays DEF Nodes, Share
<1>13. HopsAreHops'
  <2> SUFFICES ASSUME NEW r \in Visited'
               PROVE  hop'[r] \in 0..maxHops /\ \A k \in Nat : k = hop'[r] => r \in Ball(k)
    BY <1>2, <1>12 DEF HopsAreHops
  <2>1. CASE r \in Visited
    BY <2>1, <1>11 DEF WalkInv, HopsAreHops
  <2>2. CASE r \in new
    <3>1. hop'[r] = depth + 1 /\ depth + 1 \in 0..maxHops /\ depth \in Nat
      BY <2>2, <1>4, <1>6, <1>7, <1>11
    <3>2. room \in Ball(depth)
      BY <3>1, <1>6 DEF WalkInv, HopsAreHops
    <3>3. r \in Ball(depth + 1)
      BY <2>2, <3>1, <3>2, <1>7, BallGrows
    <3> QED BY <3>1, <3>3
  <2> QED BY <2>1, <2>2, <1>11
<1>14. \A i \in DOMAIN queue' : /\ queue'[i][1] \in Visited' /\ queue'[i][2] = hop'[queue'[i][1]]
                                /\ queue'[i][2] \in Int /\ queue'[i][2] >= depth
  <2> SUFFICES ASSUME NEW i \in DOMAIN queue'
               PROVE  /\ queue'[i][1] \in Visited' /\ queue'[i][2] = hop'[queue'[i][1]]
                      /\ queue'[i][2] \in Int /\ queue'[i][2] >= depth
    OBVIOUS
  <2>1. CASE i + 1 \in DOMAIN queue /\ queue'[i] = queue[i + 1]
    <3>1. /\ queue[i + 1][1] \in Visited /\ queue[i + 1][2] = hop[queue[i + 1][1]]
      BY <2>1, <1>4 DEF QueueIsRight
    <3>2. 1 < i + 1
      BY <2>1, <1>10, <1>6
    <3>3. depth <= queue[i + 1][2]
      BY <2>1, <3>2, <1>1, <1>4, <1>6 DEF QueueIsRight
    <3> QED BY <2>1, <3>1, <3>3, <1>6, <1>11
  <2>2. CASE \E k \in DOMAIN add : queue'[i] = add[k]
    BY <2>2, <1>6, <1>9, <1>11
  <2> QED BY <2>1, <2>2, <1>10
<1>15. \A i, j \in DOMAIN queue' : i < j => queue'[i][2] <= queue'[j][2]
  <2> SUFFICES ASSUME NEW i \in DOMAIN queue', NEW j \in DOMAIN queue', i < j
               PROVE  queue'[i][2] <= queue'[j][2]
    OBVIOUS
  <2>1. CASE j < Len(queue)
    <3>1. /\ i + 1 \in DOMAIN queue /\ queue'[i] = queue[i + 1]
          /\ j + 1 \in DOMAIN queue /\ queue'[j] = queue[j + 1] /\ i + 1 < j + 1
      BY <2>1, <1>10
    <3> QED BY <3>1, <1>4 DEF QueueIsRight
  <2>2. CASE ~(j < Len(queue))
    <3>1. queue'[j][2] = depth + 1
      BY <2>2, <1>9, <1>10
    <3>2. queue'[i][2] = hop'[queue'[i][1]] /\ queue'[i][1] \in Visited'
      BY <1>14
    <3>3. hop'[queue'[i][1]] <= depth + 1
      BY <3>2, <1>6, <1>11
    <3> QED BY <3>1, <3>2, <3>3
  <2> QED BY <2>1, <2>2
<1>16. queue' # <<>> => \A r \in Visited' : hop'[r] <= queue'[1][2] + 1
  <2> SUFFICES ASSUME queue' # <<>>, NEW r \in Visited' PROVE hop'[r] <= queue'[1][2] + 1
    OBVIOUS
  <2>1. 1 \in DOMAIN queue'
    BY <1>10
  <2>2. hop'[r] <= depth + 1 /\ hop'[r] \in Int
    BY <1>6, <1>11
  <2> QED BY <2>1, <2>2, <1>6, <1>14
<1>17. QueueIsRight'
  BY <1>2, <1>5, <1>10, <1>14, <1>15, <1>16 DEF QueueIsRight
<1>18. TakenIsDone'
  <2> SUFFICES ASSUME NEW r \in Visited' \ Queued', hop'[r] < maxHops, NEW s \in Nodes, Share(r, s)
               PROVE  s \in Visited' /\ hop'[s] <= hop'[r] + 1
    BY <1>2, <1>12 DEF TakenIsDone
  <2>1. r \notin new
    <3> SUFFICES ASSUME r \in new PROVE FALSE
      OBVIOUS
    <3>1. depth + 1 < maxHops
      BY <1>11
    <3>2. PICK k \in DOMAIN add : add[k][1] = r
      BY <3>1, <1>9
    <3>3. PICK i \in DOMAIN queue' : queue'[i] = add[k]
      BY <1>10
    <3> QED BY <3>2, <3>3 DEF Queued
  <2>2. r \in Visited /\ hop'[r] = hop[r]
    BY <2>1, <1>11
  <2>3. CASE r = room
    BY <2>2, <2>3, <1>6, <1>7, <1>11
  <2>4. CASE r # room
    <3>1. r \notin Queued
      <4> SUFFICES ASSUME NEW i \in DOMAIN queue, queue[i][1] = r PROVE FALSE
        BY DEF Queued
      <4>1. i # 1
        BY <2>4, <1>1
      <4>2. i - 1 \in DOMAIN queue' /\ queue'[i - 1][1] = r
        BY <4>1, <1>10
      <4> QED BY <4>2 DEF Queued
    <3>2. s \in Visited /\ hop[s] <= hop[r] + 1
      BY <2>2, <3>1 DEF WalkInv, TakenIsDone
    <3> QED BY <2>2, <3>2, <1>11
  <2> QED BY <2>3, <2>4
<1>19. Visited' # {} => StartRoom \in Visited' /\ hop'[StartRoom] = 0
  BY <1>6, <1>11 DEF WalkInv
<1>20. NearestAreShown' /\ Range(shown') \subseteq Visited'
  BY <1>2, <1>4 DEF NearestAreShown, Range
<1>21. shown' = <<>> /\ Visited' \subseteq Nodes'
  BY <1>2, <1>4, <1>7, <1>11, <1>12
<1> QED BY <1>2, <1>13, <1>17, <1>18, <1>19, <1>20, <1>21 DEF WalkInv

\* What is near is within a larger distance too.
LEMMA BallIsInLarger ==
  ASSUME NEW r \in Nodes, NEW k \in Nat, NEW l \in Nat, k <= l, r \in Ball(k)
  PROVE  r \in Ball(l)
<1> DEFINE Bad == {m \in Nat : k <= m /\ r \notin Ball(m)}
<1>1. SUFFICES ASSUME Bad # {} PROVE FALSE
  OBVIOUS
<1>2. PICK m \in Bad : \A i \in Nat : i < m => i \notin Bad
  BY <1>1, LeastOf
<1>3. m # k /\ m - 1 \in Nat /\ m - 1 < m /\ k <= m - 1 /\ (m - 1) + 1 = m
  BY <1>2
<1>4. r \in Ball(m - 1)
  BY <1>2, <1>3
<1>5. Share(r, r)
  BY DEF Nodes, Share
<1>6. r \in Ball((m - 1) + 1)
  BY <1>3, <1>4, <1>5, BallGrows
<1> QED BY <1>2, <1>3, <1>6

\* When the queue is empty, what can be reached is visited, by as few hops.
LEMMA ReachedIsVisited ==
  ASSUME WalkInv, queue = <<>>, StartRoom \in Visited, NEW k \in Nat, k <= maxHops,
         NEW r \in Ball(k)
  PROVE  r \in Visited /\ hop[r] <= k
<1> DEFINE Bad == {m \in Nat : m <= maxHops /\ \E s \in Ball(m) : ~(s \in Visited /\ hop[s] <= m)}
<1>1. SUFFICES ASSUME Bad # {} PROVE FALSE
  OBVIOUS
<1>2. PICK m \in Bad : \A i \in Nat : i < m => i \notin Bad
  BY <1>1, LeastOf
<1>3. PICK s \in Ball(m) : ~(s \in Visited /\ hop[s] <= m)
  OBVIOUS
<1>4. m # 0
  BY <1>3, BallGrows DEF WalkInv
<1>5. m - 1 \in Nat /\ m - 1 < m /\ m - 1 <= maxHops /\ (m - 1) + 1 = m /\ maxHops \in Nat /\ m <= maxHops
  BY <1>4 DEF WalkInv
<1>6. PICK t \in Ball(m - 1) : s \in Nodes /\ Share(t, s)
  BY <1>3, <1>5, BallGrows
<1>7. t \in Visited /\ hop[t] <= m - 1
  BY <1>2, <1>5
<1>8. hop[t] \in 0..maxHops /\ hop[t] < maxHops
  BY <1>5, <1>7 DEF WalkInv, HopsAreHops
<1>9. Queued = {}
  BY DEF Queued
<1>10. s \in Visited /\ hop[s] <= hop[t] + 1
  BY <1>6, <1>7, <1>8, <1>9 DEF WalkInv, TakenIsDone
<1>11. hop[s] \in 0..maxHops
  BY <1>10 DEF WalkInv, HopsAreHops
<1> QED BY <1>3, <1>5, <1>7, <1>8, <1>10, <1>11

\* The nearest are shown, in the order of their distances.
LEMMA ShowStep == WalkInv /\ Show => WalkInv'
<1> SUFFICES ASSUME WalkInv, Show PROVE WalkInv'
  OBVIOUS
<1>1. queue = <<>> /\ Visited # {} /\ shown = <<>> /\ UNCHANGED <<wingsOf, maxHops, hop, queue>>
  BY DEF Show
<1>2. PICK order \in SetToSeqs(Visited) :
        /\ \A i, j \in DOMAIN order : i < j => ~ComesBefore(order[j], order[i])
        /\ shown' = SubSeq(order, 1, Min({Len(order), MaxResults}))
  BY DEF Show
<1>3. Visited \subseteq Nodes /\ IsFiniteSet(Visited)
  BY NodesAreFinite DEF WalkInv
<1>4. /\ order \in Seq(Visited) /\ DOMAIN order = 1..Len(order) /\ Len(order) \in Nat
      /\ \A r \in Visited : \E i \in DOMAIN order : order[i] = r
  BY <1>3, OrderIsOnto
<1>5. StartRoom \in Visited /\ hop[StartRoom] = 0 /\ MaxResults \in Nat \ {0}
  BY <1>1, GraphAssumption DEF WalkInv, GraphAssumption
<1>6. Len(order) > 0
  BY <1>4, <1>5
<1>7. PICK n : n = Min({Len(order), MaxResults})
  OBVIOUS
<1>8. n \in 1..Len(order) /\ n <= MaxResults /\ (n = Len(order) \/ n = MaxResults)
  <2>1. CASE Len(order) <= MaxResults
    <3>1. \A x \in {Len(order), MaxResults} :
            (\A y \in {Len(order), MaxResults} : x <= y) <=> x = Len(order)
      BY <2>1, <1>4, <1>5
    <3>2. n = Len(order)
      BY <3>1, <1>7 DEF Min
    <3> QED BY <2>1, <3>2, <1>4, <1>6
  <2>2. CASE ~(Len(order) <= MaxResults)
    <3>1. \A x \in {Len(order), MaxResults} :
            (\A y \in {Len(order), MaxResults} : x <= y) <=> x = MaxResults
      BY <2>2, <1>4, <1>5
    <3>2. n = MaxResults
      BY <3>1, <1>7 DEF Min
    <3> QED BY <2>2, <3>2, <1>4, <1>5
  <2> QED BY <2>1, <2>2
<1>a. PICK cut : cut = shown'
  OBVIOUS
<1>9. /\ cut \in Seq(Visited) /\ Len(cut) = n /\ DOMAIN cut = 1..n
      /\ \A i \in 1..n : cut[i] = order[i] /\ order[i] \in Visited
  <2>1. cut = SubSeq(order, 1, n)
    BY <1>2, <1>7, <1>a
  <2> QED BY <2>1, <1>4, <1>8, FirstPart
<1>10. \A r \in Visited : hop[r] \in Nat /\ (hop[r] = 0 => r = StartRoom)
  <2> SUFFICES ASSUME NEW r \in Visited PROVE hop[r] \in Nat /\ (hop[r] = 0 => r = StartRoom)
    OBVIOUS
  <2>1. hop[r] \in Nat /\ \A k \in Nat : k = hop[r] => r \in Ball(k)
    BY DEF WalkInv, HopsAreHops
  <2> QED BY <2>1, BallGrows
<1>11. \A i, j \in DOMAIN order : i < j => hop[order[i]] <= hop[order[j]]
  <2> SUFFICES ASSUME NEW i \in DOMAIN order, NEW j \in DOMAIN order, i < j
               PROVE  hop[order[i]] <= hop[order[j]]
    OBVIOUS
  <2>1. order[i] \in Visited /\ order[j] \in Visited
    BY <1>4
  <2>2. ~(hop[order[j]] < hop[order[i]])
    BY <1>2 DEF ComesBefore
  <2> QED BY <2>1, <2>2, <1>10
<1>12. order[1] = StartRoom
  <2>1. PICK m \in DOMAIN order : order[m] = StartRoom
    BY <1>4, <1>5
  <2>2. 1 \in DOMAIN order /\ order[1] \in Visited
    BY <1>4, <1>6
  <2>3. m = 1 \/ 1 < m
    BY <1>4
  <2>4. hop[order[1]] <= 0 \/ m = 1
    BY <2>1, <2>2, <2>3, <1>5, <1>11
  <2> QED BY <2>1, <2>2, <2>4, <1>10
<1>13. Range(cut) \subseteq Visited
  BY <1>9 DEF Range
<1>14. \A r \in Visited \ Range(cut), i \in DOMAIN cut : hop[cut[i]] <= hop[r]
  <2> SUFFICES ASSUME NEW r \in Visited \ Range(cut), NEW i \in 1..n
               PROVE  hop[order[i]] <= hop[r]
    BY <1>9
  <2>1. PICK j \in DOMAIN order : order[j] = r
    BY <1>4
  <2>2. j \notin 1..n
    BY <2>1, <1>9 DEF Range
  <2>3. i \in DOMAIN order /\ i < j
    <3>1. PICK len : len = Len(order)
      OBVIOUS
    <3>2. DOMAIN order = 1..len /\ n \in 1..len /\ len \in Nat
      BY <3>1, <1>4, <1>8
    <3>3. j \in 1..len /\ i \in 1..n
      BY <2>1, <3>2
    <3>4. i \in 1..len /\ i < j
      BY <2>2, <3>2, <3>3
    <3> QED BY <3>2, <3>4
  <2> QED BY <2>1, <2>3, <1>11
<1>15. NearestAreShown'
  <2>1. cut[1] = StartRoom
    BY <1>8, <1>9, <1>12
  <2> QED BY <2>1, <1>1, <1>a, <1>14 DEF NearestAreShown, Visited
<1>16. Visited' = Visited /\ Nodes' = Nodes /\ \A r, s : Share(r, s)' = Share(r, s)
  BY <1>1 DEF Visited, Nodes, Share
<1>17. \A k : Ball(k)' = Ball(k)
  BY <1>1, BallStays
<1>18. HopsAreHops' /\ QueueIsRight' /\ TakenIsDone'
  BY <1>1, <1>16, <1>17 DEF WalkInv, HopsAreHops, QueueIsRight, TakenIsDone, Queued
<1>19. Range(shown') \subseteq Visited' /\ Len(shown') <= MaxResults
  BY <1>a, <1>8, <1>9, <1>13, <1>16
<1> QED BY <1>1, <1>15, <1>16, <1>18, <1>19 DEF WalkInv

\* A walk that is over has visited what is within reach, and nothing else.
LEMMA WalkedByDistance == WalkInv => WalkGoesByDistance
<1> SUFFICES ASSUME WalkInv PROVE WalkGoesByDistance
  OBVIOUS
<1>1. GraphTypeOK
  <2>1. Visited \subseteq Rooms
    BY DEF WalkInv, Nodes
  <2> QED BY <2>1 DEF WalkInv, HopsAreHops, QueueIsRight, GraphTypeOK
<1>2. HopsAreShortest
  <2> SUFFICES ASSUME queue = <<>>, Visited # {}
               PROVE  /\ Visited = Ball(maxHops)
                      /\ \A r \in Visited : r \in Ball(hop[r]) /\ \A k \in 0..(hop[r] - 1) : r \notin Ball(k)
    BY DEF HopsAreShortest
  <2>1. StartRoom \in Visited /\ maxHops \in Nat /\ Visited \subseteq Nodes
    BY DEF WalkInv
  <2>2. \A r \in Visited : hop[r] \in 0..maxHops /\ r \in Ball(hop[r])
    BY <2>1 DEF WalkInv, HopsAreHops
  <2>3. Visited \subseteq Ball(maxHops)
    <3> SUFFICES ASSUME NEW r \in Visited PROVE r \in Ball(maxHops)
      OBVIOUS
    <3>1. r \in Nodes /\ hop[r] \in Nat /\ hop[r] <= maxHops /\ r \in Ball(hop[r])
      BY <2>1, <2>2
    <3> QED BY <3>1, <2>1, BallIsInLarger
  <2>4. Ball(maxHops) \subseteq Visited
    BY <2>1, ReachedIsVisited
  <2>5. ASSUME NEW r \in Visited, NEW k \in 0..(hop[r] - 1) PROVE r \notin Ball(k)
    <3>1. k \in Nat /\ k <= maxHops /\ ~(hop[r] <= k)
      BY <2>1, <2>2
    <3> QED BY <3>1, <2>1, ReachedIsVisited
  <2> QED BY <2>2, <2>3, <2>4, <2>5
<1> QED BY <1>1, <1>2 DEF WalkInv, WalkGoesByDistance

\* Whatever wings rooms share and in whatever order the map gives them, a walk
\* goes by distance, and so does what is shown of it (graph.go:151-225).
THEOREM TraverseGoesByDistance == GraphSpec => []WalkGoesByDistance
<1>1. WalkInv /\ [GraphNext]_graphVars => WalkInv'
  <2>1. ASSUME WalkInv, UNCHANGED graphVars PROVE WalkInv'
    <3>1. UNCHANGED <<wingsOf, maxHops, hop, queue, shown>>
      BY <2>1 DEF graphVars
    <3>2. \A k : Ball(k)' = Ball(k)
      BY <3>1, BallStays
    <3>3. Visited' = Visited /\ Nodes' = Nodes /\ Queued' = Queued /\ \A r, s : Share(r, s)' = Share(r, s)
      BY <3>1 DEF Visited, Nodes, Queued, Share
    <3>4. HopsAreHops' /\ QueueIsRight' /\ TakenIsDone' /\ NearestAreShown'
      BY <2>1, <3>1, <3>2, <3>3 DEF WalkInv, HopsAreHops, QueueIsRight, TakenIsDone, NearestAreShown
    <3> QED BY <2>1, <3>1, <3>3, <3>4 DEF WalkInv
  <2> QED BY <2>1, VisitStep, ShowStep DEF GraphNext
<1> QED BY <1>1, WalkInit, WalkedByDistance, PTL DEF GraphSpec

-----------------------------------------------------------------------------
(* EntityDetection: passes over a document, each of which takes what is    *)
(* left.                                                                   *)

\* The rule that finds a name has the last rank, and no place is found before it.
RanksKept == pass <= Names => \A e \in entities : RankOf(e.type) < pass

\* What the rules that were tried find is taken.
NoneIsLost ==
    \A p \in 1..Places : p < pass => \A s \in Matches(p) :
        s \in entities \/ \E e \in entities : Overlap(s, e) /\ RankOf(e.type) < p

NamesKept ==
    pass > Names =>
        \A s \in Matches(Names) :
            (/\ \A k \in s.from..s.to : document[k] \notin Stopwords
             /\ ScoreOf(s) # NoSignal) =>
                \E e \in entities : Overlap(s, e) /\ (RankOf(e.type) < Names \/ e.from <= s.from)

DetectInv ==
    /\ document \in Seq(STRING) /\ DetectionTypeOK /\ SpansAreDisjoint
    /\ RanksKept /\ NoneIsLost /\ NamesKept
    /\ TriplesAreSaid /\ (pass <= Names => triples = {})

\* A set of numbers within bounds that is not empty has a largest one.
LEMMA LargestOf ==
  ASSUME NEW b \in Nat, NEW S \in SUBSET (0..b), S # {}
  PROVE  Max(S) \in S /\ \A m \in S : m <= Max(S)
<1> DEFINE T == {m \in Nat : b - m \in S}
<1>1. ASSUME NEW x \in S PROVE b - x \in T /\ x \in Nat
  <2>1. x \in Nat /\ b - x \in Nat /\ b - (b - x) = x
    OBVIOUS
  <2> QED BY <2>1
<1>2. T \in SUBSET Nat /\ T # {}
  BY <1>1
<1>3. PICK k \in T : \A i \in Nat : i < k => i \notin T
  <2> HIDE DEF T
  <2> QED BY <1>2, LeastOf
<1>4. ASSUME NEW m \in S PROVE b - k >= m
  <2>1. ~(b - m < k) /\ b - m \in Nat /\ m \in Nat /\ k \in Nat
    BY <1>1, <1>3
  <2> QED BY <2>1
<1>5. \E x \in S : \A y \in S : x >= y
  BY <1>3, <1>4
<1> QED BY <1>5 DEF Max

\* A set of numbers that is not empty has the least one as its minimum.
LEMMA SmallestOf ==
  ASSUME NEW S \in SUBSET Nat, S # {}
  PROVE  Min(S) \in S /\ \A m \in S : Min(S) <= m
<1>1. PICK n \in S : \A i \in Nat : i < n => i \notin S
  BY LeastOf
<1>2. \A m \in S : n <= m
  BY <1>1
<1> QED BY <1>2 DEF Min

\* A pass has the rank of its type.
LEMMA PassesAreRanked ==
  /\ Len(Passes) \in Nat /\ DOMAIN Passes = 1..Len(Passes)
  /\ \A p \in 1..Len(Passes) : RankOf(Passes[p][1]) = p
  /\ RankOf("place") = Places
<1>1. Passes \in Seq(STRING \X SUBSET STRING)
  BY DetectionAssumption DEF DetectionAssumption
<1>2. Len(Passes) \in Nat /\ DOMAIN Passes = 1..Len(Passes)
  BY <1>1
<1>3. ASSUME NEW p \in 1..Len(Passes) PROVE RankOf(Passes[p][1]) = p
  <2>1. Passes[p][1] # "place" /\ \A q \in DOMAIN Passes : Passes[q][1] = Passes[p][1] => q = p
    BY <1>2, DetectionAssumption DEF DetectionAssumption
  <2>2. p \in DOMAIN Passes
    BY <1>2
  <2>3. (CHOOSE q \in DOMAIN Passes : Passes[q][1] = Passes[p][1]) = p
    BY <2>1, <2>2
  <2> QED BY <2>1, <2>2, <2>3 DEF RankOf
<1> QED BY <1>2, <1>3 DEF RankOf

\* Two runs that overlap are one: each goes on as far as it can.
LEMMA RunsAreApart ==
  ASSUME document \in Seq(STRING), NEW r \in Runs, NEW q \in Runs,
         r[1] <= q[2], q[1] <= r[2]
  PROVE  r = q
<1>1. PICK len \in Nat : len = Len(document) /\ Words = 1..len
  BY DEF Words
<1>2. /\ r \in Words \X Words /\ r[1] <= r[2] /\ IsRun(r[1], r[2])
      /\ q \in Words \X Words /\ q[1] <= q[2] /\ IsRun(q[1], q[2])
  BY DEF Runs
<1>3. PICK a, b, c, d \in 1..len : r = <<a, b>> /\ q = <<c, d>>
  BY <1>1, <1>2
<1>4. /\ \A k \in a..b : document[k] \in Capitalised
      /\ \A k \in c..d : document[k] \in Capitalised
      /\ a - 1 \in 1..len => document[a - 1] \notin Capitalised
      /\ c - 1 \in 1..len => document[c - 1] \notin Capitalised
      /\ b + 1 \in 1..len => document[b + 1] \notin Capitalised
      /\ d + 1 \in 1..len => document[d + 1] \notin Capitalised
      /\ a <= b /\ c <= d /\ a <= d /\ c <= b
  BY <1>1, <1>2, <1>3 DEF IsRun
<1>5. ~(a < c) /\ ~(c < a)
  <2>1. ASSUME a < c PROVE FALSE
    <3>1. c - 1 \in a..b /\ c - 1 \in 1..len
      BY <2>1, <1>4
    <3> QED BY <3>1, <1>4
  <2>2. ASSUME c < a PROVE FALSE
    <3>1. a - 1 \in c..d /\ a - 1 \in 1..len
      BY <2>2, <1>4
    <3> QED BY <3>1, <1>4
  <2> QED BY <2>1, <2>2
<1>6. ~(b < d) /\ ~(d < b)
  <2>1. ASSUME b < d PROVE FALSE
    <3>1. b + 1 \in c..d /\ b + 1 \in 1..len
      BY <2>1, <1>4
    <3> QED BY <3>1, <1>4
  <2>2. ASSUME d < b PROVE FALSE
    <3>1. d + 1 \in a..b /\ d + 1 \in 1..len
      BY <2>2, <1>4
    <3> QED BY <3>1, <1>4
  <2> QED BY <2>1, <2>2
<1> QED BY <1>3, <1>5, <1>6

\* A place is the beginning of one run.
LEMMA PlacesAreInRuns ==
  ASSUME document \in Seq(STRING), NEW s \in PlaceSpans
  PROVE  \E r \in Runs :
           /\ s = Span(r[1], s.to, "place") /\ r[1] \in Words
           /\ s.to \in r[1]..r[2] /\ r[2] \in Words
           /\ (\E k \in (r[1] + 1)..r[2] : document[k] \in PlaceSuffixes) =>
                s.to = Max({k \in (r[1] + 1)..r[2] : document[k] \in PlaceSuffixes})
           /\ ~(\E k \in (r[1] + 1)..r[2] : document[k] \in PlaceSuffixes) => s.to = r[2]
<1> DEFINE EndsOf(r) == {k \in (r[1] + 1)..r[2] : document[k] \in PlaceSuffixes}
<1>1. PICK len \in Nat : len = Len(document) /\ Words = 1..len
  BY DEF Words
<1>2. PICK r \in Runs :
        \/ EndsOf(r) # {} /\ s = Span(r[1], Max(EndsOf(r)), "place")
        \/ EndsOf(r) = {} /\ s = Span(r[1], r[2], "place")
  BY DEF PlaceSpans
<1>3. r[1] \in 1..len /\ r[2] \in 1..len /\ r[1] <= r[2]
  BY <1>1 DEF Runs
<1>4. CASE EndsOf(r) # {}
  <2>1. s = Span(r[1], Max(EndsOf(r)), "place")
    BY <1>2, <1>4
  <2>2. EndsOf(r) \in SUBSET (0..len)
    BY <1>3
  <2>3. Max(EndsOf(r)) \in EndsOf(r)
    BY <1>4, <2>2, LargestOf
  <2>4. s.to = Max(EndsOf(r)) /\ s = Span(r[1], s.to, "place")
    BY <2>1 DEF Span
  <2>5. s.to \in r[1]..r[2]
    BY <2>3, <2>4, <1>3
  <2>6. \E k \in (r[1] + 1)..r[2] : document[k] \in PlaceSuffixes
    BY <1>4
  <2> QED BY <2>4, <2>5, <2>6, <1>1, <1>3
<1>5. CASE EndsOf(r) = {}
  <2>1. s = Span(r[1], r[2], "place")
    BY <1>2, <1>5
  <2>2. s.to = r[2] /\ s = Span(r[1], s.to, "place") /\ s.to \in r[1]..r[2]
    BY <2>1, <1>3 DEF Span
  <2>3. ~ \E k \in (r[1] + 1)..r[2] : document[k] \in PlaceSuffixes
    BY <1>5
  <2> QED BY <2>2, <2>3, <1>1, <1>3
<1> QED BY <1>4, <1>5

\* What a pass looks at are spans of words of the type it is for.
LEMMA MatchesAreSpans ==
  ASSUME document \in Seq(STRING), NEW p \in 1..Names, NEW s \in Matches(p)
  PROVE  /\ s.from \in Words /\ s.to \in s.from..Len(document) /\ Len(document) \in Nat
         /\ s = Span(s.from, s.to, s.type)
         /\ p <= Places => RankOf(s.type) = p
         /\ p = Names => s.type = "name"
<1>1. PICK len \in Nat : len = Len(document) /\ Words = 1..len
  BY DEF Words
<1>2. Len(Passes) \in Nat /\ Places = Len(Passes) + 1 /\ Names = Len(Passes) + 2
  BY PassesAreRanked DEF Places, Names
<1>3. CASE p <= Len(Passes)
  <2>1. Matches(p) = {Span(k, k, Passes[p][1]) : k \in {k \in Words : document[k] \in Passes[p][2]}}
    BY <1>2, <1>3 DEF Matches
  <2>2. PICK k \in Words : s = Span(k, k, Passes[p][1])
    BY <2>1
  <2>3. s.from = k /\ s.to = k /\ s.type = Passes[p][1]
    BY <2>2 DEF Span
  <2>4. RankOf(s.type) = p
    BY <2>3, <1>2, <1>3, PassesAreRanked
  <2> QED BY <2>2, <2>3, <2>4, <1>1, <1>2, <1>3
<1>4. CASE p = Places
  <2>1. s \in PlaceSpans
    BY <1>2, <1>4 DEF Matches
  <2>2. PICK r \in Runs : s = Span(r[1], s.to, "place") /\ r[1] \in Words /\ s.to \in r[1]..r[2] /\ r[2] \in Words
    BY <2>1, PlacesAreInRuns
  <2>3. s.from = r[1] /\ s.type = "place" /\ s.to \in s.from..len
    BY <1>1, <2>2 DEF Span
  <2> QED BY <2>2, <2>3, <1>1, <1>2, <1>4, PassesAreRanked
<1>5. CASE p = Names
  <2>1. s \in MultiWordSpans \cup SingleWordSpans
    BY <1>2, <1>5 DEF Matches
  <2>2. \E a, b \in Words : a <= b /\ s = Span(a, b, "name")
    <3>1. CASE s \in MultiWordSpans
      <4>1. PICK r \in Runs : r[1] < r[2] /\ s = Span(r[1], r[2], "name")
        BY <3>1 DEF MultiWordSpans
      <4> QED BY <4>1, <1>1 DEF Runs
    <3>2. CASE s \in SingleWordSpans
      <4>a. PICK r \in Runs : \E k \in r[1]..r[2] : s = Span(k, k, "name")
        BY <3>2 DEF SingleWordSpans
      <4>1. PICK k \in r[1]..r[2] : s = Span(k, k, "name")
        BY <4>a
      <4>2. k \in Words
        BY <4>1, <1>1 DEF Runs
      <4> QED BY <4>1, <4>2, <1>1
    <3> QED BY <2>1, <3>1, <3>2
  <2>3. PICK a, b \in Words : a <= b /\ s = Span(a, b, "name")
    BY <2>2
  <2>4. s.from = a /\ s.to = b /\ s.type = "name"
    BY <2>3 DEF Span
  <2> QED BY <2>3, <2>4, <1>1, <1>2, <1>5
<1> QED BY <1>2, <1>3, <1>4, <1>5

\* Of two spans of one pass before the names none has a word of the other.
LEMMA MatchesAreApart ==
  ASSUME document \in Seq(STRING), NEW p \in 1..Places, NEW s \in Matches(p), NEW t \in Matches(p),
         Overlap(s, t)
  PROVE  s = t
<1>1. PICK len \in Nat : len = Len(document) /\ Words = 1..len
  BY DEF Words
<1>2. Len(Passes) \in Nat /\ Places = Len(Passes) + 1
  BY PassesAreRanked DEF Places
<1>3. CASE p <= Len(Passes)
  <2>a. p # Places /\ p # Names
    BY <1>2, <1>3 DEF Names
  <2>1. Matches(p) = {Span(k, k, Passes[p][1]) : k \in {k \in Words : document[k] \in Passes[p][2]}}
    BY <2>a, <1>3 DEF Matches
  <2>2. PICK k \in Words : s = Span(k, k, Passes[p][1])
    BY <2>1
  <2>3. PICK l \in Words : t = Span(l, l, Passes[p][1])
    BY <2>1
  <2>4. k <= l /\ l <= k
    BY <2>2, <2>3 DEF Span, Overlap
  <2>5. k = l
    BY <1>1, <2>4
  <2> QED BY <2>2, <2>3, <2>5
<1>4. CASE p = Places
  <2>a. ~(p <= Len(Passes)) /\ p # Names
    BY <1>2, <1>4 DEF Names
  <2>b. Matches(p) = PlaceSpans
    BY <2>a, <1>4 DEF Matches
  <2>1. s \in PlaceSpans /\ t \in PlaceSpans
    BY <2>b
  <2> DEFINE EndsOf(r) == {k \in (r[1] + 1)..r[2] : document[k] \in PlaceSuffixes}
             Open(r) == \E k \in (r[1] + 1)..r[2] : document[k] \in PlaceSuffixes
  <2>2. PICK r \in Runs :
           /\ s = Span(r[1], s.to, "place") /\ r[1] \in Words
           /\ s.to \in r[1]..r[2] /\ r[2] \in Words
           /\ Open(r) => s.to = Max(EndsOf(r))
           /\ ~Open(r) => s.to = r[2]
    BY <2>1, PlacesAreInRuns
  <2>3. PICK q \in Runs :
           /\ t = Span(q[1], t.to, "place") /\ q[1] \in Words
           /\ t.to \in q[1]..q[2] /\ q[2] \in Words
           /\ Open(q) => t.to = Max(EndsOf(q))
           /\ ~Open(q) => t.to = q[2]
    BY <2>1, PlacesAreInRuns
  <2> HIDE DEF EndsOf, Open
  <2>4. s.from = r[1] /\ t.from = q[1] /\ s.from <= t.to /\ t.from <= s.to
    BY <2>2, <2>3 DEF Span, Overlap
  <2>5. r[1] <= q[2] /\ q[1] <= r[2]
    BY <1>1, <2>2, <2>3, <2>4
  <2>6. r = q
    BY <2>5, RunsAreApart
  <2>7. s.to = t.to
    BY <2>2, <2>3, <2>6
  <2> QED BY <2>2, <2>3, <2>6, <2>7
<1> QED BY <1>2, <1>3, <1>4

\* What a document holds before triples are made of it.
LEMMA DetectTyped ==
  ASSUME DetectInv
  PROVE  /\ Len(Passes) \in Nat /\ Places = Len(Passes) + 1 /\ Names = Len(Passes) + 2
         /\ Triples = Len(Passes) + 3
         /\ pass \in 1..(Len(Passes) + 4) /\ Len(document) \in Nat /\ Words = 1..Len(document)
         /\ \A e \in entities : e.from \in Words /\ e.to \in e.from..Len(document)
  BY PassesAreRanked DEF DetectInv, DetectionTypeOK, Places, Names, Triples, Words

\* A pass takes the spans of its type that none before it has.
LEMMA PassStep == DetectInv /\ DetectPass => DetectInv'
<1> SUFFICES ASSUME DetectInv, DetectPass PROVE DetectInv'
  OBVIOUS
<1> DEFINE new == {s \in Matches(pass) : ~IsClaimed(s, entities)}
<1>1. /\ pass <= Places /\ pass' = pass + 1 /\ entities' = entities \cup new
      /\ UNCHANGED <<document, score, verb, triples>>
  BY DEF DetectPass, Claim
<1>2. /\ Len(Passes) \in Nat /\ Places = Len(Passes) + 1 /\ Names = Len(Passes) + 2
      /\ Triples = Len(Passes) + 3
      /\ pass \in 1..(Len(Passes) + 4) /\ Len(document) \in Nat /\ Words = 1..Len(document)
      /\ \A e \in entities : e.from \in Words /\ e.to \in e.from..Len(document)
  BY DetectTyped
<1>3. pass \in 1..Places /\ pass \in 1..Names
  BY <1>1, <1>2
<1>4. \A s \in new : /\ s.from \in Words /\ s.to \in s.from..Len(document)
                     /\ RankOf(s.type) = pass /\ \A e \in entities : ~Overlap(s, e)
  BY <1>1, <1>3, MatchesAreSpans DEF DetectInv, IsClaimed
<1>5. triples = {} /\ triples' = {}
  BY <1>1, <1>2 DEF DetectInv
<1>6. Words' = Words /\ \A p : Matches(p)' = Matches(p)
  BY <1>1 DEF Words, Matches, PlaceSpans, Runs, IsRun, MultiWordSpans, SingleWordSpans
<1>7. DetectionTypeOK'
  BY <1>1, <1>2, <1>4, <1>5, <1>6 DEF DetectInv, DetectionTypeOK, Triples
<1>8. SpansAreDisjoint'
  <2> SUFFICES ASSUME NEW s \in entities \cup new, NEW t \in entities \cup new, Overlap(s, t)
               PROVE  s = t
    BY <1>1 DEF SpansAreDisjoint
  <2>1. CASE s \in entities /\ t \in entities
    BY <2>1 DEF DetectInv, SpansAreDisjoint
  <2>2. CASE s \in new /\ t \in new
    <3>1. s \in Matches(pass) /\ t \in Matches(pass)
      BY <2>2
    <3> QED BY <3>1, <1>3, MatchesAreApart DEF DetectInv
  <2>3. CASE s \in new /\ t \in entities
    BY <2>3, <1>4
  <2>4. CASE t \in new /\ s \in entities
    BY <2>4, <1>4 DEF Overlap
  <2> QED BY <2>1, <2>2, <2>3, <2>4
<1>9. RanksKept'
  <2>1. \A e \in entities' : RankOf(e.type) < pass + 1
    <3>1. \A e \in entities : RankOf(e.type) < pass
      BY <1>1, <1>2 DEF DetectInv, RanksKept
    <3>2. \A e \in entities : RankOf(e.type) \in Nat => RankOf(e.type) < pass + 1
      BY <3>1, <1>2
    <3>3. \A e \in entities : RankOf(e.type) \in Nat
      <4>1. ASSUME NEW t PROVE RankOf(t) \in Nat
        <5>1. CASE \E p \in DOMAIN Passes : Passes[p][1] = t
          BY <5>1, <1>2, PassesAreRanked DEF RankOf
        <5> QED BY <5>1, <1>2 DEF RankOf
      <4> QED BY <4>1
    <3> QED BY <1>1, <1>2, <1>4, <3>2, <3>3
  <2> QED BY <1>1, <2>1 DEF RanksKept
<1>10. NoneIsLost'
  <2> SUFFICES ASSUME NEW p \in 1..Places, p < pass + 1, NEW s \in Matches(p)
               PROVE  s \in entities' \/ \E e \in entities' : Overlap(s, e) /\ RankOf(e.type) < p
    BY <1>1, <1>6 DEF NoneIsLost
  <2>1. CASE p < pass
    BY <2>1, <1>1 DEF DetectInv, NoneIsLost
  <2>2. CASE p = pass
    <3>1. \A e \in entities : RankOf(e.type) < pass
      BY <1>1, <1>2 DEF DetectInv, RanksKept
    <3>2. s \in new \/ \E e \in entities : Overlap(s, e)
      BY <2>2 DEF IsClaimed
    <3> QED BY <1>1, <2>2, <3>1, <3>2
  <2> QED BY <1>2, <2>1, <2>2
<1>11. NamesKept' /\ TriplesAreSaid'
  BY <1>1, <1>2, <1>5 DEF NamesKept, TriplesAreSaid
<1> QED BY <1>1, <1>5, <1>7, <1>8, <1>9, <1>10, <1>11 DEF DetectInv

\* The names taken by the offset k: some of the candidates that start there, no
\* two of which share a word.
TakeAt(T, k) ==
    LET here == {s \in Candidates : s.from = k /\ ~IsClaimed(s, T)}
    IN  T \cup {s \in here : \A t \in here : s.to <= t.to}
IsTaking(f, n) == f = [k \in 0..n |-> IF k = 0 THEN {} ELSE TakeAt(f[k - 1], k)]

TakenRight(T, k) ==
    /\ T \subseteq Candidates /\ \A s \in T : s.from <= k
    /\ \A s, t \in T : Overlap(s, t) => s = t
    /\ \A s \in Candidates : s.from <= k => \E t \in T : Overlap(s, t) /\ t.from <= s.from

\* The recursion over the offsets has a value.
LEMMA TakingsAre == ASSUME NEW n \in Nat PROVE \E f : IsTaking(f, n)
<1> DEFINE Bad == {m \in Nat : ~ \E f : IsTaking(f, m)}
<1>1. SUFFICES ASSUME Bad # {} PROVE FALSE
  OBVIOUS
<1>2. PICK m \in Bad : \A i \in Nat : i < m => i \notin Bad
  BY <1>1, LeastOf
<1>3. CASE m = 0
  <2>1. IsTaking([k \in 0..0 |-> {}], 0)
    BY DEF IsTaking
  <2> QED BY <1>2, <1>3, <2>1
<1>4. CASE m # 0
  <2>1. m - 1 \in Nat /\ m - 1 < m
    BY <1>4
  <2>2. PICK f : IsTaking(f, m - 1)
    BY <1>2, <2>1
  <2> DEFINE g == [k \in 0..m |-> IF k = m THEN TakeAt(f[m - 1], m) ELSE f[k]]
  <2>3. \A k \in 0..(m - 1) : g[k] = f[k]
    BY <1>4
  <2>4. g[m] = TakeAt(g[m - 1], m)
    BY <2>1, <2>3
  <2>5. ASSUME NEW k \in 0..m
        PROVE  g[k] = IF k = 0 THEN {} ELSE TakeAt(g[k - 1], k)
    <3>1. CASE k = m
      BY <3>1, <2>4, <1>4
    <3>2. CASE k # m
      <4>1. k \in 0..(m - 1) /\ (k # 0 => k - 1 \in 0..(m - 1))
        BY <3>2
      <4>a. PICK w : w = [i \in 0..(m - 1) |-> IF i = 0 THEN {} ELSE TakeAt(f[i - 1], i)]
        OBVIOUS
      <4>b. w[k] = IF k = 0 THEN {} ELSE TakeAt(f[k - 1], k)
        BY <4>1, <4>a
      <4>2. f[k] = IF k = 0 THEN {} ELSE TakeAt(f[k - 1], k)
        BY <4>a, <4>b, <2>2 DEF IsTaking
      <4> QED BY <4>1, <4>2, <2>3
    <3> QED BY <3>1, <3>2
  <2>6. IsTaking(g, m)
    BY <2>5 DEF IsTaking
  <2> QED BY <1>2, <2>6
<1> QED BY <1>3, <1>4

\* At every offset what is taken so far is apart, and every candidate so far is
\* taken, or shares a word with one that is and starts no further right.
LEMMA TakingIsRight ==
  ASSUME document \in Seq(STRING), NEW n \in Nat, NEW f, IsTaking(f, n), NEW k \in 0..n
  PROVE  TakenRight(f[k], k)
<1> DEFINE Bad == {m \in Nat : m <= n /\ ~TakenRight(f[m], m)}
<1>1. SUFFICES ASSUME Bad # {} PROVE FALSE
  OBVIOUS
<1>2. PICK m \in Bad : \A i \in Nat : i < m => i \notin Bad
  BY <1>1, LeastOf
<1>3. f[m] = IF m = 0 THEN {} ELSE TakeAt(f[m - 1], m)
  <2>1. PICK w : w = [i \in 0..n |-> IF i = 0 THEN {} ELSE TakeAt(f[i - 1], i)]
    OBVIOUS
  <2>2. w[m] = IF m = 0 THEN {} ELSE TakeAt(f[m - 1], m)
    BY <2>1
  <2> QED BY <2>1, <2>2 DEF IsTaking
<1>4. \A s \in Candidates : /\ s.from \in Nat \ {0} /\ s.to \in Nat /\ s.from <= s.to
                            /\ s = Span(s.from, s.to, "name")
  <2> SUFFICES ASSUME NEW s \in Candidates
               PROVE  /\ s.from \in Nat \ {0} /\ s.to \in Nat /\ s.from <= s.to
                      /\ s = Span(s.from, s.to, "name")
    OBVIOUS
  <2>1. s \in Matches(Names) /\ Names \in 1..Names
    BY PassesAreRanked DEF Candidates, Names
  <2>2. /\ s.from \in Words /\ s.to \in s.from..Len(document) /\ Len(document) \in Nat
        /\ s = Span(s.from, s.to, s.type) /\ s.type = "name"
    BY <2>1, MatchesAreSpans
  <2>3. s.from \in 1..Len(document)
    BY <2>2 DEF Words
  <2> QED BY <2>2, <2>3
<1>5. CASE m = 0
  <2>1. f[m] = {}
    BY <1>3, <1>5
  <2>2. \A s \in Candidates : ~(s.from <= 0)
    BY <1>4
  <2> QED BY <1>2, <1>5, <2>1, <2>2 DEF TakenRight
<1>6. CASE m # 0
  <2>1. PICK T : T = f[m - 1]
    OBVIOUS
  <2>2. PICK here : here = {s \in Candidates : s.from = m /\ ~IsClaimed(s, T)}
    OBVIOUS
  <2>3. PICK new : new = {s \in here : \A t \in here : s.to <= t.to}
    OBVIOUS
  <2>4. f[m] = T \cup new
    BY <1>3, <1>6, <2>1, <2>2, <2>3 DEF TakeAt
  <2>5. m - 1 \in Nat /\ m - 1 < m /\ m - 1 <= n
    BY <1>6
  <2>6. TakenRight(T, m - 1)
    BY <1>2, <2>1, <2>5
  <2>7. /\ T \subseteq Candidates /\ \A s \in T : s.from <= m - 1
        /\ \A s, t \in T : Overlap(s, t) => s = t
        /\ \A s \in Candidates : s.from <= m - 1 => \E t \in T : Overlap(s, t) /\ t.from <= s.from
    BY <2>6 DEF TakenRight
  <2>8. /\ here \subseteq Candidates
        /\ \A s \in here : s.from = m /\ \A t \in T : ~Overlap(s, t) /\ ~Overlap(t, s)
        /\ \A s \in Candidates : s.from = m => s \in here \/ \E t \in T : Overlap(s, t)
    BY <2>2 DEF IsClaimed, Overlap
  <2>9. \A s \in here, t \in new : Overlap(s, t)
    BY <2>3, <2>8, <1>4 DEF Overlap
  <2>10. \A s, t \in new : s = t
    <3> SUFFICES ASSUME NEW s \in new, NEW t \in new PROVE s = t
      OBVIOUS
    <3>1. s.from = t.from /\ s.to <= t.to /\ t.to <= s.to /\ s \in Candidates /\ t \in Candidates
      BY <2>3, <2>8
    <3>2. s.to = t.to
      BY <3>1, <1>4
    <3> QED BY <3>1, <3>2, <1>4
  <2>11. here # {} => new # {}
    <3> SUFFICES ASSUME here # {} PROVE new # {}
      OBVIOUS
    <3>1. {s.to : s \in here} \in SUBSET Nat /\ {s.to : s \in here} # {}
      BY <2>8, <1>4
    <3>2. Min({s.to : s \in here}) \in {s.to : s \in here}
          /\ \A i \in {s.to : s \in here} : Min({s.to : s \in here}) <= i
      BY <3>1, SmallestOf
    <3>3. PICK s \in here : s.to = Min({t.to : t \in here})
      BY <3>2
    <3> QED BY <3>2, <3>3, <2>3
  <2>12. f[m] \subseteq Candidates /\ \A s \in f[m] : s.from <= m
    BY <2>3, <2>4, <2>7, <2>8, <1>4
  <2>13. \A s, t \in f[m] : Overlap(s, t) => s = t
    BY <2>3, <2>4, <2>7, <2>8, <2>10
  <2>14. ASSUME NEW s \in Candidates, s.from <= m
         PROVE  \E t \in f[m] : Overlap(s, t) /\ t.from <= s.from
    <3>1. CASE s.from <= m - 1
      BY <3>1, <2>4, <2>7
    <3>2. CASE s.from = m
      <4>1. CASE s \in here
        <5>1. PICK t \in new : TRUE
          BY <4>1, <2>11
        <5>2. Overlap(s, t) /\ t.from <= s.from
          BY <4>1, <2>3, <2>8, <2>9, <3>2, <1>2
        <5> QED BY <5>2, <2>4
      <4>2. CASE s \notin here
        <5>1. PICK t \in T : Overlap(s, t)
          BY <4>2, <3>2, <2>8
        <5>2. t.from <= s.from
          BY <3>2, <2>7, <1>2, <1>4
        <5> QED BY <5>1, <5>2, <2>4
      <4> QED BY <4>1, <4>2
    <3> QED BY <2>14, <3>1, <3>2, <1>4
  <2>15. TakenRight(f[m], m)
    BY <2>12, <2>13, <2>14 DEF TakenRight
  <2> QED BY <1>2, <2>15
<1> QED BY <1>5, <1>6

\* The names are what is taken by the end of the document, with their types.
LEMMA NamesAreTaken ==
  ASSUME DetectInv, DetectNames
  PROVE  \E T : /\ TakenRight(T, Len(document))
                /\ entities' = entities \cup {Span(s.from, s.to, ScoreOf(s)) : s \in T}
<1>1. Len(document) \in Nat /\ document \in Seq(STRING)
  BY DEF DetectInv
<1>2. \E f : IsTaking(f, Len(document))
  BY <1>1, TakingsAre
<1>3. \E f : /\ IsTaking(f, Len(document))
             /\ entities' = entities \cup {Span(s.from, s.to, ScoreOf(s)) : s \in f[Len(document)]}
  BY <1>2 DEF DetectNames, IsTaking, TakeAt
<1>4. PICK f : /\ IsTaking(f, Len(document))
               /\ entities' = entities \cup {Span(s.from, s.to, ScoreOf(s)) : s \in f[Len(document)]}
  BY <1>3
<1>5. TakenRight(f[Len(document)], Len(document))
  BY <1>1, <1>4, TakingIsRight
<1> QED BY <1>4, <1>5

\* No name has a word of another one or of what came before, and a candidate
\* that is no name loses to one that starts no further right.
LEMMA NamesStep == DetectInv /\ DetectNames => DetectInv'
<1> SUFFICES ASSUME DetectInv, DetectNames PROVE DetectInv'
  OBVIOUS
<1>1. pass = Names /\ pass' = pass + 1 /\ UNCHANGED <<document, score, verb, triples>>
  BY DEF DetectNames
<1>2. /\ Len(Passes) \in Nat /\ Places = Len(Passes) + 1 /\ Names = Len(Passes) + 2
      /\ Triples = Len(Passes) + 3
      /\ pass \in 1..(Len(Passes) + 4) /\ Len(document) \in Nat /\ Words = 1..Len(document)
      /\ \A e \in entities : e.from \in Words /\ e.to \in e.from..Len(document)
  BY DetectTyped
<1>3. PICK T : /\ TakenRight(T, Len(document))
               /\ entities' = entities \cup {Span(s.from, s.to, ScoreOf(s)) : s \in T}
  BY NamesAreTaken
<1>4. PICK new : new = {Span(s.from, s.to, ScoreOf(s)) : s \in T}
  OBVIOUS
<1>5. ASSUME NEW e \in new
      PROVE  \E s \in T : e.from = s.from /\ e.to = s.to /\ e = Span(s.from, s.to, ScoreOf(s))
  BY <1>4 DEF Span
<1>6. \A s \in T : \E e \in new : e.from = s.from /\ e.to = s.to
  <2> TAKE s \in T
  <2>1. Span(s.from, s.to, ScoreOf(s)) \in new
    BY <1>4
  <2> WITNESS Span(s.from, s.to, ScoreOf(s)) \in new
  <2> QED BY DEF Span
<1>7. /\ T \subseteq Candidates
      /\ \A s, t \in T : Overlap(s, t) => s = t
      /\ \A s \in Candidates : s.from <= Len(document) => \E t \in T : Overlap(s, t) /\ t.from <= s.from
  BY <1>3 DEF TakenRight
<1>8. \A s \in Matches(Names) : s.from \in Words /\ s.to \in s.from..Len(document)
  BY <1>2, MatchesAreSpans DEF DetectInv
<1>9. \A s \in Candidates : s \in Matches(Names) /\ \A e \in entities : ~Overlap(s, e)
  BY DEF Candidates, IsClaimed
<1>10. \A e \in new : /\ e.from \in Words /\ e.to \in e.from..Len(document)
                      /\ \A d \in entities : ~Overlap(e, d) /\ ~Overlap(d, e)
  BY <1>5, <1>7, <1>8, <1>9 DEF Overlap
<1>11. triples = {} /\ triples' = {}
  BY <1>1, <1>2 DEF DetectInv
<1>12. Words' = Words /\ (\A p : Matches(p)' = Matches(p)) /\ \A s : ScoreOf(s)' = ScoreOf(s)
  BY <1>1 DEF Words, Matches, PlaceSpans, Runs, IsRun, MultiWordSpans, SingleWordSpans, ScoreOf
<1>13. entities' = entities \cup new
  BY <1>3, <1>4
<1>14. DetectionTypeOK'
  BY <1>1, <1>2, <1>10, <1>11, <1>12, <1>13 DEF DetectInv, DetectionTypeOK, Triples
<1>15. SpansAreDisjoint'
  <2> SUFFICES ASSUME NEW e \in entities \cup new, NEW d \in entities \cup new, Overlap(e, d)
               PROVE  e = d
    BY <1>13 DEF SpansAreDisjoint
  <2>1. CASE e \in entities /\ d \in entities
    BY <2>1 DEF DetectInv, SpansAreDisjoint
  <2>2. CASE e \in new /\ d \in new
    <3>1. PICK s \in T : e.from = s.from /\ e.to = s.to /\ e = Span(s.from, s.to, ScoreOf(s))
      BY <2>2, <1>5
    <3>2. PICK t \in T : d.from = t.from /\ d.to = t.to /\ d = Span(t.from, t.to, ScoreOf(t))
      BY <2>2, <1>5
    <3>3. s = t
      BY <3>1, <3>2, <1>7 DEF Overlap
    <3> QED BY <3>1, <3>2, <3>3
  <2> QED BY <2>1, <2>2, <1>10
<1>16. RanksKept' /\ TriplesAreSaid'
  BY <1>1, <1>2, <1>11 DEF RanksKept, TriplesAreSaid
<1>17. NoneIsLost'
  <2> SUFFICES ASSUME NEW p \in 1..Places, NEW s \in Matches(p)
               PROVE  s \in entities' \/ \E e \in entities' : Overlap(s, e) /\ RankOf(e.type) < p
    BY <1>1, <1>12 DEF NoneIsLost
  <2>1. p < pass
    BY <1>1, <1>2
  <2> QED BY <2>1, <1>13 DEF DetectInv, NoneIsLost
<1>18. NamesKept'
  <2> SUFFICES ASSUME NEW s \in Matches(Names),
                      \A k \in s.from..s.to : document[k] \notin Stopwords, ScoreOf(s) # NoSignal
               PROVE  \E e \in entities' : Overlap(s, e) /\ (RankOf(e.type) < Names \/ e.from <= s.from)
    BY <1>1, <1>12 DEF NamesKept
  <2>1. CASE IsClaimed(s, entities)
    <3>1. PICK e \in entities : Overlap(s, e)
      BY <2>1 DEF IsClaimed
    <3>2. RankOf(e.type) < Names
      <4>1. pass <= Names
        BY <1>1, <1>2
      <4> QED BY <4>1, <1>1 DEF DetectInv, RanksKept
    <3> QED BY <3>1, <3>2, <1>13
  <2>2. CASE ~IsClaimed(s, entities)
    <3>1. s \in Candidates
      BY <2>2 DEF Candidates
    <3>2. s.from <= Len(document)
      BY <1>2, <1>8
    <3>3. PICK t \in T : Overlap(s, t) /\ t.from <= s.from
      BY <3>1, <3>2, <1>7
    <3>4. PICK e \in new : e.from = t.from /\ e.to = t.to
      BY <1>6
    <3> QED BY <3>3, <3>4, <1>13 DEF Overlap
  <2> QED BY <2>1, <2>2
<1> QED BY <1>1, <1>2, <1>11, <1>14, <1>15, <1>16, <1>17, <1>18 DEF DetectInv

\* A span has a word.
LEMMA NameOfSpanIsNotEmpty ==
  ASSUME document \in Seq(STRING), NEW a \in Words, NEW b \in a..Len(document)
  PROVE  SubSeq(document, a, b) # <<>>
<1>1. a \in 1..Len(document) /\ Len(document) \in Nat /\ b \in Nat /\ a <= b
  BY DEF Words
<1>2. Len(SubSeq(document, a, b)) = b - a + 1
  BY <1>1
<1> QED BY <1>1, <1>2

\* What a verb joins is the last subject before it and the first object after it.
LEMMA VerbStep == DetectInv /\ ExtractAtVerb => DetectInv'
<1> SUFFICES ASSUME DetectInv, ExtractAtVerb PROVE DetectInv'
  OBVIOUS
<1>1. PICK later : later = {v \in Words : v > verb /\ document[v] \in Verbs}
  OBVIOUS
<1>2. /\ pass = Triples /\ UNCHANGED <<document, score, entities>>
      /\ \/ later = {} /\ pass' = pass + 1 /\ UNCHANGED <<verb, triples>>
         \/ /\ later # {} /\ pass' = pass /\ verb' = Min(later)
            /\ triples' = triples \cup
                 {<<NameOfSpan(s), NameOfSpan(o)>> : s \in SubjectsOf(Min(later)), o \in ObjectsOf(Min(later))}
  BY <1>1 DEF ExtractAtVerb
<1>3. /\ Len(Passes) \in Nat /\ Places = Len(Passes) + 1 /\ Names = Len(Passes) + 2
      /\ Triples = Len(Passes) + 3
      /\ pass \in 1..(Len(Passes) + 4) /\ Len(document) \in Nat /\ Words = 1..Len(document)
      /\ \A e \in entities : e.from \in Words /\ e.to \in e.from..Len(document)
  BY DetectTyped
<1>4. /\ Words' = Words /\ (\A p : Matches(p)' = Matches(p)) /\ (\A s : ScoreOf(s)' = ScoreOf(s))
      /\ \A s : NameOfSpan(s)' = NameOfSpan(s)
  BY <1>2 DEF Words, Matches, PlaceSpans, Runs, IsRun, MultiWordSpans, SingleWordSpans, ScoreOf,
     NameOfSpan
<1>5. pass' > Names /\ pass > Names
  BY <1>2, <1>3
<1>6. SpansAreDisjoint' /\ RanksKept' /\ NoneIsLost' /\ NamesKept'
  <2>1. SpansAreDisjoint' /\ RanksKept'
    BY <1>2, <1>3, <1>5 DEF DetectInv, SpansAreDisjoint, RanksKept
  <2>2. NoneIsLost'
    <3>1. \A p \in 1..Places : p < pass
      BY <1>2, <1>3
    <3> QED BY <3>1, <1>2, <1>4 DEF DetectInv, NoneIsLost
  <2>3. NamesKept'
    BY <1>2, <1>4, <1>5 DEF DetectInv, NamesKept
  <2> QED BY <2>1, <2>2, <2>3
<1>7. CASE later = {}
  <2>1. DetectionTypeOK' /\ TriplesAreSaid'
    BY <1>2, <1>3, <1>4, <1>7 DEF DetectInv, DetectionTypeOK, TriplesAreSaid, Triples
  <2> QED BY <2>1, <1>2, <1>3, <1>5, <1>6 DEF DetectInv
<1>8. CASE later # {}
  <2>1. PICK v : v = Min(later)
    OBVIOUS
  <2>2. v \in Words /\ v > verb /\ document[v] \in Verbs /\ v \in Nat
    <3>1. later \in SUBSET Nat
      BY <1>1, <1>3
    <3>2. v \in later
      BY <3>1, <2>1, <1>8, SmallestOf
    <3> QED BY <3>2, <1>1, <1>3
  <2>3. ASSUME NEW s \in SubjectsOf(v), NEW o \in ObjectsOf(v)
        PROVE  /\ s \in entities /\ o \in entities /\ s.to < v /\ v < o.from
               /\ s.type \in SubjectTypes /\ o.type \in ObjectTypes
               /\ ~ \E e \in entities : \/ e.type \in SubjectTypes /\ s.to < e.from /\ e.to < v
                                        \/ e.type \in ObjectTypes /\ v < e.from /\ e.to < o.from
    <3>1. /\ s \in entities /\ s.to < v /\ v - s.to - 1 <= MaxGap /\ s.type \in SubjectTypes
          /\ \A e \in entities : e.to < v /\ v - e.to - 1 <= MaxGap /\ e.type \in SubjectTypes => e.to <= s.to
      BY DEF SubjectsOf
    <3>2. /\ o \in entities /\ v < o.from /\ o.from - v - 1 <= MaxGap /\ o.type \in ObjectTypes
          /\ \A e \in entities : v < e.from /\ e.from - v - 1 <= MaxGap /\ e.type \in ObjectTypes => o.from <= e.from
      BY DEF ObjectsOf
    <3>3. MaxGap \in Nat
      BY DetectionAssumption DEF DetectionAssumption
    <3>4. ASSUME NEW e \in entities, e.type \in SubjectTypes, s.to < e.from, e.to < v PROVE FALSE
      <4>1. s.to \in Nat /\ e.from \in Nat /\ e.to \in Nat /\ e.from <= e.to
        BY <1>3, <3>1
      <4>2. v - e.to - 1 <= MaxGap
        BY <4>1, <3>1, <3>3, <3>4, <2>2
      <4> QED BY <4>1, <4>2, <3>1, <3>4
    <3>5. ASSUME NEW e \in entities, e.type \in ObjectTypes, v < e.from, e.to < o.from PROVE FALSE
      <4>1. o.from \in Nat /\ e.from \in Nat /\ e.to \in Nat /\ e.from <= e.to
        BY <1>3, <3>2
      <4>2. e.from - v - 1 <= MaxGap
        BY <4>1, <3>2, <3>3, <3>5, <2>2
      <4> QED BY <4>1, <4>2, <3>2, <3>5
    <3> QED BY <3>1, <3>2, <3>4, <3>5
  <2>4. triples' = triples \cup {<<NameOfSpan(s), NameOfSpan(o)>> : s \in SubjectsOf(v), o \in ObjectsOf(v)}
        /\ verb' = v /\ pass' = pass
    BY <1>2, <1>8, <2>1
  <2>5. ASSUME NEW t \in triples', t \notin triples
        PROVE  \E s \in SubjectsOf(v), o \in ObjectsOf(v) : t = <<NameOfSpan(s), NameOfSpan(o)>>
    BY <2>4, <2>5
  <2>6. TriplesAreSaid'
    <3> SUFFICES ASSUME NEW t \in triples'
                 PROVE  \E w \in Words, s, o \in entities :
        /\ document[w] \in Verbs /\ s.to < w /\ w < o.from
        /\ <<NameOfSpan(s), NameOfSpan(o)>> = t
        /\ s.type \in SubjectTypes /\ o.type \in ObjectTypes
        /\ ~ \E e \in entities : \/ e.type \in SubjectTypes /\ s.to < e.from /\ e.to < w
                                 \/ e.type \in ObjectTypes /\ w < e.from /\ e.to < o.from
      BY <1>2, <1>4 DEF TriplesAreSaid
    <3>1. CASE t \in triples
      BY <3>1 DEF DetectInv, TriplesAreSaid
    <3>2. CASE t \notin triples
      <4>1. PICK s \in SubjectsOf(v), o \in ObjectsOf(v) : t = <<NameOfSpan(s), NameOfSpan(o)>>
        BY <3>2, <2>5
      <4> QED BY <4>1, <2>2, <2>3
    <3> QED BY <3>1, <3>2
  <2>7. DetectionTypeOK'
    <3>1. \A t \in triples' : t[1] # <<>> /\ t[2] # <<>>
      <4> SUFFICES ASSUME NEW t \in triples' PROVE t[1] # <<>> /\ t[2] # <<>>
        OBVIOUS
      <4>1. CASE t \in triples
        BY <4>1 DEF DetectInv, DetectionTypeOK
      <4>2. CASE t \notin triples
        <5>1. PICK s \in SubjectsOf(v), o \in ObjectsOf(v) : t = <<NameOfSpan(s), NameOfSpan(o)>>
          BY <4>2, <2>5
        <5>2. s \in entities /\ o \in entities
          BY <2>3
        <5>3. NameOfSpan(s) # <<>> /\ NameOfSpan(o) # <<>>
          BY <5>2, <1>3, NameOfSpanIsNotEmpty DEF DetectInv, NameOfSpan
        <5> QED BY <5>1, <5>3
      <4> QED BY <4>1, <4>2
    <3>2. v \in 0..Len(document)
      BY <2>2, <1>3
    <3> QED BY <3>1, <3>2, <2>4, <1>2, <1>3, <1>4 DEF DetectInv, DetectionTypeOK, Triples
  <2>8. document' \in Seq(STRING) /\ ~(pass' <= Names')
    BY <1>2, <1>3, <1>5, <2>4 DEF DetectInv, Names
  <2> QED BY <1>6, <2>6, <2>7, <2>8 DEF DetectInv
<1> QED BY <1>7, <1>8

\* Whatever a document says, no word of it is in two entities, none of what a
\* rule finds is lost to a later rule, and every triple is said at a verb
\* (detector.go:172-352, extract.go:85-230).
THEOREM DetectedIsInTheText == DetectionSpec => []FindingsAreInTheText
<1>1. DetectionInit => DetectInv
  <2> SUFFICES ASSUME DetectionInit PROVE DetectInv
    OBVIOUS
  <2>1. /\ document \in Seq(STRING) /\ pass = 1 /\ entities = {} /\ verb = 0 /\ triples = {}
    BY DetectionAssumption DEF DetectionInit, DetectionAssumption
  <2>2. Len(document) \in Nat /\ Len(Passes) \in Nat
    BY <2>1, PassesAreRanked
  <2>3. DetectionTypeOK
    BY <2>1, <2>2 DEF DetectionTypeOK, Triples
  <2>4. SpansAreDisjoint /\ RanksKept /\ NoneIsLost /\ NamesKept /\ TriplesAreSaid
    BY <2>1, <2>2 DEF SpansAreDisjoint, RanksKept, NoneIsLost, NamesKept, TriplesAreSaid, Names
  <2> QED BY <2>1, <2>3, <2>4 DEF DetectInv
<1>2. DetectInv /\ [DetectionNext]_detectionVars => DetectInv'
  <2>1. ASSUME DetectInv, UNCHANGED detectionVars PROVE DetectInv'
    <3>1. UNCHANGED <<document, score, pass, entities, verb, triples>>
      BY <2>1 DEF detectionVars
    <3>2. /\ Words' = Words /\ (\A p : Matches(p)' = Matches(p)) /\ (\A s : ScoreOf(s)' = ScoreOf(s))
          /\ \A s : NameOfSpan(s)' = NameOfSpan(s)
      BY <3>1 DEF Words, Matches, PlaceSpans, Runs, IsRun, MultiWordSpans, SingleWordSpans, ScoreOf,
         NameOfSpan
    <3> QED BY <2>1, <3>1, <3>2 DEF DetectInv, DetectionTypeOK, SpansAreDisjoint, RanksKept, NoneIsLost,
        NamesKept, TriplesAreSaid
  <2> QED BY <2>1, PassStep, NamesStep, VerbStep DEF DetectionNext
<1>3. DetectInv => FindingsAreInTheText
  <2> SUFFICES ASSUME DetectInv, pass > Names
               PROVE  \A p \in 1..Places : \A s \in Matches(p) :
                        s \in entities \/ \E e \in entities : Overlap(s, e) /\ RankOf(e.type) < p
    BY DEF DetectInv, FindingsAreInTheText, PriorityHolds, NamesKept
  <2>1. \A p \in 1..Places : p < pass
    BY DetectTyped
  <2> QED BY <2>1 DEF DetectInv, NoneIsLost
<1> QED BY <1>1, <1>2, <1>3, PTL DEF DetectionSpec

-----------------------------------------------------------------------------
(* Spelling: the table of a distance, filled by diagonals, holds the       *)
(* fewest edits between the beginnings of two words.                       *)

\* The cells of the table of two words, and those of the first diagonals.
Cells(m, n) == (0..m) \X (0..n)
Upper(m, n, s) == {p \in Cells(m, n) : p[1] + p[2] <= s}

\* What the table has in a cell.
Cell(f, a, b, i, j) ==
    IF i = 0 THEN j ELSE IF j = 0 THEN i
    ELSE Min({f[<<i - 1, j>>] + 1, f[<<i, j - 1>>] + 1,
              f[<<i - 1, j - 1>>] + (IF a[i] = b[j] THEN 0 ELSE 1)})
IsUpper(f, a, b, s) ==
    f = [p \in Upper(Len(a), Len(b), s) |-> Cell(f, a, b, p[1], p[2])]
IsTable(f, a, b) == f = [p \in Cells(Len(a), Len(b)) |-> Cell(f, a, b, p[1], p[2])]

\* A table can be filled, one diagonal after the other.
LEMMA UppersAre ==
  ASSUME NEW a \in Seq(Alphabet), NEW b \in Seq(Alphabet), NEW s \in Nat
  PROVE  \E f : IsUpper(f, a, b, s)
<1> DEFINE Bad == {n \in Nat : ~ \E f : IsUpper(f, a, b, n)}
<1>1. SUFFICES ASSUME Bad # {} PROVE FALSE
  OBVIOUS
<1>2. PICK n \in Bad : \A k \in Nat : k < n => k \notin Bad
  BY <1>1, LeastOf
<1>3. Len(a) \in Nat /\ Len(b) \in Nat
  OBVIOUS
<1>4. CASE n = 0
  <2> DEFINE f == [p \in Upper(Len(a), Len(b), 0) |-> 0]
  <2>1. \A p \in Upper(Len(a), Len(b), 0) : p[1] = 0 /\ p[2] = 0
    BY <1>3 DEF Upper, Cells
  <2>2. \A p \in Upper(Len(a), Len(b), 0) : Cell(f, a, b, p[1], p[2]) = 0
    BY <2>1 DEF Cell
  <2>3. IsUpper(f, a, b, 0)
    BY <2>2 DEF IsUpper
  <2> QED BY <1>2, <1>4, <2>3
<1>5. CASE n # 0
  <2>1. n - 1 \in Nat /\ n - 1 < n
    BY <1>5
  <2>2. PICK f : IsUpper(f, a, b, n - 1)
    BY <1>2, <2>1
  <2> DEFINE Small == Upper(Len(a), Len(b), n - 1)
             Large == Upper(Len(a), Len(b), n)
             g == [p \in Large |-> IF p \in Small THEN f[p] ELSE Cell(f, a, b, p[1], p[2])]
  <2>3. Small \subseteq Large
    BY <1>3 DEF Upper, Cells
  <2>4. \A p \in Small : g[p] = f[p]
    BY <2>3
  <2>5. ASSUME NEW p \in Large PROVE g[p] = Cell(f, a, b, p[1], p[2])
    <3>1. CASE p \in Small
      <4>1. PICK w : w = [q \in Small |-> Cell(f, a, b, q[1], q[2])]
        OBVIOUS
      <4>2. w[p] = Cell(f, a, b, p[1], p[2])
        BY <3>1, <4>1
      <4>3. f = w
        BY <4>1, <2>2 DEF IsUpper
      <4> QED BY <3>1, <4>2, <4>3, <2>4
    <3>2. CASE p \notin Small
      BY <3>2
    <3> QED BY <3>1, <3>2
  <2>6. ASSUME NEW p \in Large PROVE Cell(f, a, b, p[1], p[2]) = Cell(g, a, b, p[1], p[2])
    <3>1. PICK i \in 0..Len(a), j \in 0..Len(b) : p = <<i, j>> /\ i + j <= n
      BY DEF Upper, Cells
    <3>2. CASE i = 0 \/ j = 0
      BY <3>1, <3>2 DEF Cell
    <3>3. CASE i # 0 /\ j # 0
      <4>1. <<i - 1, j>> \in Small /\ <<i, j - 1>> \in Small /\ <<i - 1, j - 1>> \in Small
        BY <3>1, <3>3, <1>3 DEF Upper, Cells
      <4>2. /\ g[<<i - 1, j>>] = f[<<i - 1, j>>] /\ g[<<i, j - 1>>] = f[<<i, j - 1>>]
            /\ g[<<i - 1, j - 1>>] = f[<<i - 1, j - 1>>]
        BY <4>1, <2>4
      <4> HIDE DEF g
      <4> QED BY <3>1, <4>2 DEF Cell
    <3> QED BY <3>2, <3>3
  <2>7. \A p \in Large : g[p] = Cell(g, a, b, p[1], p[2])
    BY <2>5, <2>6
  <2>8. IsUpper(g, a, b, n)
    <3>1. g = [p \in Large |-> g[p]]
      OBVIOUS
    <3>2. g = [p \in Large |-> Cell(g, a, b, p[1], p[2])]
      BY <3>1, <2>7
    <3> QED BY <3>2 DEF IsUpper
  <2> QED BY <1>2, <2>8
<1> QED BY <1>4, <1>5

\* What of a table the distances follow from: it counts along its edges, and a
\* cell is the least that a deletion, an insertion or a substitution makes of the
\* cells before it.
IsDist(f, a, b) ==
    /\ \A i \in 0..Len(a), j \in 0..Len(b) : f[<<i, j>>] \in Nat
    /\ \A j \in 0..Len(b) : f[<<0, j>>] = j
    /\ \A i \in 0..Len(a) : f[<<i, 0>>] = i
    /\ \A i \in 1..Len(a), j \in 1..Len(b) :
         /\ f[<<i, j>>] <= f[<<i - 1, j>>] + 1 /\ f[<<i, j>>] <= f[<<i, j - 1>>] + 1
         /\ f[<<i, j>>] <= f[<<i - 1, j - 1>>] + 1
         /\ a[i] = b[j] => f[<<i, j>>] <= f[<<i - 1, j - 1>>]
         /\ \/ f[<<i, j>>] = f[<<i - 1, j>>] + 1 \/ f[<<i, j>>] = f[<<i, j - 1>>] + 1
            \/ f[<<i, j>>] = f[<<i - 1, j - 1>>] + 1
            \/ a[i] = b[j] /\ f[<<i, j>>] = f[<<i - 1, j - 1>>]

\* The least of three numbers.
LEMMA LeastOfThree ==
  ASSUME NEW x \in Nat, NEW y \in Nat, NEW z \in Nat
  PROVE  /\ Min({x, y, z}) \in {x, y, z}
         /\ Min({x, y, z}) <= x /\ Min({x, y, z}) <= y /\ Min({x, y, z}) <= z
<1>1. {x, y, z} \in SUBSET Nat /\ {x, y, z} # {}
  OBVIOUS
<1>2. Min({x, y, z}) \in {x, y, z} /\ \A m \in {x, y, z} : Min({x, y, z}) <= m
  BY <1>1, SmallestOf
<1> QED BY <1>2

\* The table of a distance is one.
LEMMA TablesAreDist ==
  ASSUME NEW a \in Seq(Alphabet), NEW b \in Seq(Alphabet), NEW f, IsTable(f, a, b)
  PROVE  IsDist(f, a, b)
<1>1. PICK m, n \in Nat : m = Len(a) /\ n = Len(b)
  OBVIOUS
<1>2. ASSUME NEW i \in 0..m, NEW j \in 0..n
      PROVE  f[<<i, j>>] = Cell(f, a, b, i, j)
  <2>1. PICK w : w = [p \in Cells(m, n) |-> Cell(f, a, b, p[1], p[2])]
    OBVIOUS
  <2>2. <<i, j>> \in Cells(m, n)
    BY DEF Cells
  <2>3. w[<<i, j>>] = Cell(f, a, b, i, j)
    BY <2>1, <2>2
  <2> QED BY <2>1, <2>3, <1>1 DEF IsTable
<1>3. ASSUME NEW i \in 0..m, NEW j \in 0..n PROVE f[<<i, j>>] \in Nat
  <2> DEFINE Bad == {s \in Nat : \E k \in 0..m, l \in 0..n : k + l = s /\ f[<<k, l>>] \notin Nat}
  <2>1. SUFFICES ASSUME Bad # {} PROVE FALSE
    <3>1. i + j \in Nat
      OBVIOUS
    <3> QED BY <3>1
  <2>2. PICK s \in Bad : \A r \in Nat : r < s => r \notin Bad
    BY <2>1, LeastOf
  <2>3. PICK k \in 0..m, l \in 0..n : k + l = s /\ f[<<k, l>>] \notin Nat
    BY <2>2
  <2>4. ASSUME NEW k2 \in 0..m, NEW l2 \in 0..n, k2 + l2 < s PROVE f[<<k2, l2>>] \in Nat
    <3>1. k2 + l2 \in Nat
      OBVIOUS
    <3>2. k2 + l2 \notin Bad
      <4> HIDE DEF Bad
      <4> QED BY <3>1, <2>2, <2>4
    <3> QED BY <3>1, <3>2
  <2>5. CASE k = 0 \/ l = 0
    <3>1. f[<<k, l>>] = Cell(f, a, b, k, l)
      BY <1>2
    <3>2. Cell(f, a, b, k, l) = IF k = 0 THEN l ELSE k
      BY <2>5 DEF Cell
    <3> QED BY <2>3, <3>1, <3>2
  <2>6. CASE k # 0 /\ l # 0
    <3>1. /\ k - 1 \in 0..m /\ l - 1 \in 0..n /\ (k - 1) + l < s /\ k + (l - 1) < s
          /\ (k - 1) + (l - 1) < s
      BY <2>3, <2>6
    <3>2. PICK p, q, r \in Nat : p = f[<<k - 1, l>>] /\ q = f[<<k, l - 1>>] /\ r = f[<<k - 1, l - 1>>]
      BY <2>4, <3>1
    <3>a. k \in Nat \ {0} /\ l \in Nat \ {0}
      BY <2>6
    <3>b. PICK d \in {0, 1} : d = IF a[k] = b[l] THEN 0 ELSE 1
      OBVIOUS
    <3>c. PICK c : c = Cell(f, a, b, k, l)
      OBVIOUS
    <3>d. PICK x, y, z \in Nat : x = p + 1 /\ y = q + 1 /\ z = r + d
      OBVIOUS
    <3>e. c = Min({x, y, z})
      BY <3>2, <3>a, <3>b, <3>c, <3>d DEF Cell
    <3>f. c \in {x, y, z}
      BY <3>e, LeastOfThree
    <3>3. c \in Nat
      BY <3>f
    <3>4. f[<<k, l>>] = Cell(f, a, b, k, l)
      BY <1>2
    <3> QED BY <2>3, <3>3, <3>4, <3>c
  <2> QED BY <2>5, <2>6
<1>4. ASSUME NEW j \in 0..n PROVE f[<<0, j>>] = j
  <2>1. 0 \in 0..m
    OBVIOUS
  <2>2. f[<<0, j>>] = Cell(f, a, b, 0, j)
    BY <2>1, <1>2
  <2> QED BY <2>2 DEF Cell
<1>5. ASSUME NEW i \in 0..m PROVE f[<<i, 0>>] = i
  <2>1. 0 \in 0..n
    OBVIOUS
  <2>2. f[<<i, 0>>] = Cell(f, a, b, i, 0)
    BY <2>1, <1>2
  <2>3. Cell(f, a, b, i, 0) = IF i = 0 THEN 0 ELSE i
    BY DEF Cell
  <2> QED BY <2>2, <2>3
<1>6. ASSUME NEW i \in 1..m, NEW j \in 1..n
      PROVE  /\ f[<<i, j>>] <= f[<<i - 1, j>>] + 1 /\ f[<<i, j>>] <= f[<<i, j - 1>>] + 1
             /\ f[<<i, j>>] <= f[<<i - 1, j - 1>>] + 1
             /\ a[i] = b[j] => f[<<i, j>>] <= f[<<i - 1, j - 1>>]
             /\ \/ f[<<i, j>>] = f[<<i - 1, j>>] + 1 \/ f[<<i, j>>] = f[<<i, j - 1>>] + 1
                \/ f[<<i, j>>] = f[<<i - 1, j - 1>>] + 1
                \/ a[i] = b[j] /\ f[<<i, j>>] = f[<<i - 1, j - 1>>]
  <2>1. i - 1 \in 0..m /\ j - 1 \in 0..n /\ i \in 0..m /\ j \in 0..n /\ i # 0 /\ j # 0
    OBVIOUS
  <2>2. PICK p, q, r \in Nat : p = f[<<i - 1, j>>] /\ q = f[<<i, j - 1>>] /\ r = f[<<i - 1, j - 1>>]
    BY <1>3, <2>1
  <2>3. PICK c : c = Cell(f, a, b, i, j)
    OBVIOUS
  <2>4. /\ c \in Nat /\ c <= p + 1 /\ c <= q + 1 /\ c <= r + 1
        /\ a[i] = b[j] => c <= r
        /\ c = p + 1 \/ c = q + 1 \/ c = r + 1 \/ (a[i] = b[j] /\ c = r)
    <3>1. i \in Nat \ {0} /\ j \in Nat \ {0}
      OBVIOUS
    <3>2. PICK d \in {0, 1} : d = IF a[i] = b[j] THEN 0 ELSE 1
      OBVIOUS
    <3>3. PICK x, y, z \in Nat : x = p + 1 /\ y = q + 1 /\ z = r + d
      OBVIOUS
    <3>4. c = Min({x, y, z})
      BY <3>1, <3>2, <3>3, <2>2, <2>3 DEF Cell
    <3>5. c \in {x, y, z} /\ c <= x /\ c <= y /\ c <= z
      BY <3>4, LeastOfThree
    <3> QED BY <3>2, <3>3, <3>5
  <2>5. c = f[<<i, j>>]
    BY <2>1, <2>3, <1>2
  <2> QED BY <2>2, <2>4, <2>5
<1> QED BY <1>1, <1>3, <1>4, <1>5, <1>6 DEF IsDist

\* The distance of two words is the last cell of their table.
LEMMA DistanceIsInTable ==
  ASSUME NEW a \in Seq(Alphabet), NEW b \in Seq(Alphabet)
  PROVE  \E f : IsDist(f, a, b) /\ EditDistance(a, b) = f[<<Len(a), Len(b)>>]
<1>1. PICK m, n \in Nat : m = Len(a) /\ n = Len(b)
  OBVIOUS
<1>2. PICK f : IsUpper(f, a, b, m + n)
  BY <1>1, UppersAre
<1>3. Upper(m, n, m + n) = Cells(m, n)
  BY DEF Upper, Cells
<1>4. IsTable(f, a, b)
  BY <1>1, <1>2, <1>3 DEF IsUpper, IsTable
<1>5. \E g : IsTable(g, a, b) /\ EditDistance(a, b) = g[<<Len(a), Len(b)>>]
  BY <1>4 DEF IsTable, EditDistance, Cell, Cells
<1> QED BY <1>5, TablesAreDist

\* A property of cells that holds along the edges of a table, and of a cell when
\* it does of the cells before it, holds of all cells: Bad are the cells it fails of.
LEMMA FirstBadCell ==
  ASSUME NEW m \in Nat, NEW n \in Nat, NEW Bad \in SUBSET ((0..m) \X (0..n)), Bad # {}
  PROVE  \E i \in 0..m, j \in 0..n :
           /\ <<i, j>> \in Bad
           /\ \A k \in 0..m, l \in 0..n : k + l < i + j => <<k, l>> \notin Bad
<1> DEFINE Sums == {s \in Nat : \E k \in 0..m, l \in 0..n : k + l = s /\ <<k, l>> \in Bad}
<1>1. PICK k \in 0..m, l \in 0..n : <<k, l>> \in Bad
  OBVIOUS
<1>2. k + l \in Sums
  BY <1>1
<1>3. PICK s \in Sums : \A r \in Nat : r < s => r \notin Sums
  <2> HIDE DEF Sums
  <2>1. Sums \in SUBSET Nat
    BY DEF Sums
  <2> QED BY <1>2, <2>1, LeastOf
<1>4. PICK i \in 0..m, j \in 0..n : i + j = s /\ <<i, j>> \in Bad
  BY <1>3
<1>5. ASSUME NEW u \in 0..m, NEW v \in 0..n, u + v < i + j PROVE <<u, v>> \notin Bad
  <2>1. u + v \in Nat /\ u + v < s
    BY <1>4, <1>5
  <2>2. u + v \notin Sums
    <3> HIDE DEF Sums
    <3> QED BY <2>1, <1>3
  <2> QED BY <2>1, <2>2
<1> QED BY <1>4, <1>5

\* A cell off the edges is the least of what the three before it make.
IsLeast(x, p, q, r, same) ==
    /\ x \in Nat /\ p \in Nat /\ q \in Nat /\ r \in Nat
    /\ x <= p + 1 /\ x <= q + 1 /\ x <= r + 1 /\ (same => x <= r)
    /\ x = p + 1 \/ x = q + 1 \/ x = r + 1 \/ (same /\ x = r)

\* A cell is such a least.
LEMMA DistCell ==
  ASSUME NEW a \in Seq(Alphabet), NEW b \in Seq(Alphabet), NEW f, IsDist(f, a, b),
         NEW i \in 1..Len(a), NEW j \in 1..Len(b)
  PROVE  IsLeast(f[<<i, j>>], f[<<i - 1, j>>], f[<<i, j - 1>>], f[<<i - 1, j - 1>>], a[i] = b[j])
<1>1. /\ i - 1 \in 0..Len(a) /\ i \in 0..Len(a) /\ j - 1 \in 0..Len(b) /\ j \in 0..Len(b)
  OBVIOUS
<1>2. PICK p, q, r, x \in Nat :
        p = f[<<i - 1, j>>] /\ q = f[<<i, j - 1>>] /\ r = f[<<i - 1, j - 1>>] /\ x = f[<<i, j>>]
  BY <1>1 DEF IsDist
<1>3. /\ x <= p + 1 /\ x <= q + 1 /\ x <= r + 1 /\ (a[i] = b[j] => x <= r)
      /\ x = p + 1 \/ x = q + 1 \/ x = r + 1 \/ (a[i] = b[j] /\ x = r)
  BY <1>2 DEF IsDist
<1> QED BY <1>2, <1>3 DEF IsLeast

\* What is the least of the same cells is the same.
LEMMA LeastIsOne ==
  ASSUME NEW x, NEW y, NEW p, NEW q, NEW r, NEW same \in BOOLEAN,
         IsLeast(x, p, q, r, same), IsLeast(y, p, q, r, same) \/ IsLeast(y, q, p, r, same)
  PROVE  x = y
  BY DEF IsLeast

\* The table of the two words the other way round is the table turned over.
LEMMA TablesTurn ==
  ASSUME NEW a \in Seq(Alphabet), NEW b \in Seq(Alphabet), NEW f, NEW g,
         IsDist(f, a, b), IsDist(g, b, a), NEW i0 \in 0..Len(a), NEW j0 \in 0..Len(b)
  PROVE  f[<<i0, j0>>] = g[<<j0, i0>>]
<1>1. PICK m, n \in Nat : m = Len(a) /\ n = Len(b)
  OBVIOUS
<1>2. PICK Bad : Bad = {p \in (0..m) \X (0..n) : f[<<p[1], p[2]>>] # g[<<p[2], p[1]>>]}
  OBVIOUS
<1>3. \A k \in 0..m, l \in 0..n : <<k, l>> \in Bad <=> f[<<k, l>>] # g[<<l, k>>]
  BY <1>2
<1>4. SUFFICES ASSUME Bad # {} PROVE FALSE
  BY <1>1, <1>3
<1>b. Bad \in SUBSET ((0..m) \X (0..n))
  BY <1>2
<1>5. PICK i \in 0..m, j \in 0..n :
        /\ <<i, j>> \in Bad
        /\ \A k \in 0..m, l \in 0..n : k + l < i + j => <<k, l>> \notin Bad
  BY <1>b, <1>4, FirstBadCell
<1>6. f[<<i, j>>] # g[<<j, i>>]
  BY <1>3, <1>5
<1>7. CASE i = 0 \/ j = 0
  <2>1. i = 0 => f[<<i, j>>] = j /\ g[<<j, i>>] = j
    BY <1>1 DEF IsDist
  <2>2. j = 0 => f[<<i, j>>] = i /\ g[<<j, i>>] = i
    BY <1>1 DEF IsDist
  <2> QED BY <1>6, <1>7, <2>1, <2>2
<1>8. CASE i # 0 /\ j # 0
  <2>1. /\ i - 1 \in 0..m /\ j - 1 \in 0..n /\ i \in 1..m /\ j \in 1..n
        /\ (i - 1) + j < i + j /\ i + (j - 1) < i + j /\ (i - 1) + (j - 1) < i + j
    BY <1>8
  <2>2. /\ f[<<i - 1, j>>] = g[<<j, i - 1>>] /\ f[<<i, j - 1>>] = g[<<j - 1, i>>]
        /\ f[<<i - 1, j - 1>>] = g[<<j - 1, i - 1>>]
    BY <2>1, <1>3, <1>5
  <2>3. i \in 1..Len(a) /\ j \in 1..Len(b)
    BY <2>1, <1>1
  <2>4. IsLeast(f[<<i, j>>], f[<<i - 1, j>>], f[<<i, j - 1>>], f[<<i - 1, j - 1>>], a[i] = b[j])
    BY <2>3, DistCell
  <2>5. IsLeast(g[<<j, i>>], g[<<j - 1, i>>], g[<<j, i - 1>>], g[<<j - 1, i - 1>>], b[j] = a[i])
    BY <2>3, DistCell
  <2>6. PICK same \in BOOLEAN : same = (a[i] = b[j]) /\ same = (b[j] = a[i])
    OBVIOUS
  <2>7. f[<<i, j>>] = g[<<j, i>>]
    BY <2>2, <2>4, <2>5, <2>6, LeastIsOne
  <2> QED BY <1>6, <2>7
<1> QED BY <1>7, <1>8

\* The tables of one word and of two that begin alike begin alike.
LEMMA TablesBeginAlike ==
  ASSUME NEW a \in Seq(Alphabet), NEW b \in Seq(Alphabet), NEW c \in Seq(Alphabet), NEW f, NEW g,
         IsDist(f, a, b), IsDist(g, a, c), NEW n \in Nat, n <= Len(b), n <= Len(c),
         \A k \in 1..n : b[k] = c[k],
         NEW i0 \in 0..Len(a), NEW j0 \in 0..n
  PROVE  f[<<i0, j0>>] = g[<<i0, j0>>]
<1>1. PICK m \in Nat : m = Len(a)
  OBVIOUS
<1>2. PICK Bad : Bad = {p \in (0..m) \X (0..n) : f[<<p[1], p[2]>>] # g[<<p[1], p[2]>>]}
  OBVIOUS
<1>3. \A k \in 0..m, l \in 0..n : <<k, l>> \in Bad <=> f[<<k, l>>] # g[<<k, l>>]
  BY <1>2
<1>4. SUFFICES ASSUME Bad # {} PROVE FALSE
  BY <1>1, <1>3
<1>b. Bad \in SUBSET ((0..m) \X (0..n))
  BY <1>2
<1>5. PICK i \in 0..m, j \in 0..n :
        /\ <<i, j>> \in Bad
        /\ \A k \in 0..m, l \in 0..n : k + l < i + j => <<k, l>> \notin Bad
  BY <1>b, <1>4, FirstBadCell
<1>6. f[<<i, j>>] # g[<<i, j>>]
  BY <1>3, <1>5
<1>a. j \in 0..Len(b) /\ j \in 0..Len(c) /\ i \in 0..Len(a)
  BY <1>1
<1>7. CASE i = 0 \/ j = 0
  <2>1. i = 0 => f[<<i, j>>] = j /\ g[<<i, j>>] = j
    BY <1>a DEF IsDist
  <2>2. j = 0 => f[<<i, j>>] = i /\ g[<<i, j>>] = i
    BY <1>a DEF IsDist
  <2> QED BY <1>6, <1>7, <2>1, <2>2
<1>8. CASE i # 0 /\ j # 0
  <2>1. /\ i - 1 \in 0..m /\ j - 1 \in 0..n /\ i \in 1..Len(a) /\ j \in 1..Len(b) /\ j \in 1..Len(c)
        /\ (i - 1) + j < i + j /\ i + (j - 1) < i + j /\ (i - 1) + (j - 1) < i + j
        /\ i - 1 \in 0..Len(a) /\ j - 1 \in 0..Len(b)
    BY <1>1, <1>8, <1>a
  <2>2. /\ f[<<i - 1, j>>] = g[<<i - 1, j>>] /\ f[<<i, j - 1>>] = g[<<i, j - 1>>]
        /\ f[<<i - 1, j - 1>>] = g[<<i - 1, j - 1>>] /\ b[j] = c[j]
    BY <2>1, <1>3, <1>5
  <2>3. IsLeast(f[<<i, j>>], f[<<i - 1, j>>], f[<<i, j - 1>>], f[<<i - 1, j - 1>>], a[i] = b[j])
    BY <2>1, DistCell
  <2>4. IsLeast(g[<<i, j>>], g[<<i - 1, j>>], g[<<i, j - 1>>], g[<<i - 1, j - 1>>], a[i] = c[j])
    BY <2>1, DistCell
  <2>5. PICK same \in BOOLEAN : same = (a[i] = b[j]) /\ same = (a[i] = c[j])
    BY <2>2
  <2>6. f[<<i, j>>] = g[<<i, j>>]
    BY <2>2, <2>3, <2>4, <2>5, LeastIsOne
  <2> QED BY <1>6, <2>6
<1> QED BY <1>7, <1>8

\* A cell is at most one more than the one to its right.
LEMMA NextCell ==
  ASSUME NEW a \in Seq(Alphabet), NEW b \in Seq(Alphabet), NEW f, IsDist(f, a, b),
         NEW i0 \in 0..Len(a), NEW j0 \in 0..(Len(b) - 1)
  PROVE  f[<<i0, j0>>] <= f[<<i0, j0 + 1>>] + 1
<1> USE DEF IsDist
<1>1. PICK m, n \in Nat : m = Len(a) /\ n = Len(b) - 1 /\ Len(b) = n + 1
  <2>1. Len(b) \in Nat /\ Len(b) - 1 >= 0
    OBVIOUS
  <2> QED BY <2>1
<1>2. PICK Bad : Bad = {p \in (0..m) \X (0..n) : ~(f[<<p[1], p[2]>>] <= f[<<p[1], p[2] + 1>>] + 1)}
  OBVIOUS
<1>3. \A k \in 0..m, l \in 0..n : <<k, l>> \in Bad <=> ~(f[<<k, l>>] <= f[<<k, l + 1>>] + 1)
  BY <1>2
<1>4. SUFFICES ASSUME Bad # {} PROVE FALSE
  BY <1>1, <1>3
<1>b. Bad \in SUBSET ((0..m) \X (0..n))
  BY <1>2
<1>5. PICK i \in 0..m, j \in 0..n :
        /\ <<i, j>> \in Bad
        /\ \A k \in 0..m, l \in 0..n : k + l < i + j => <<k, l>> \notin Bad
  BY <1>b, <1>4, FirstBadCell
<1>6. ~(f[<<i, j>>] <= f[<<i, j + 1>>] + 1)
  BY <1>3, <1>5
<1>7. i \in 0..Len(a) /\ j \in 0..Len(b) /\ j + 1 \in 0..Len(b) /\ j + 1 \in 1..Len(b) /\ (j + 1) - 1 = j
  BY <1>1
<1>8. CASE i = 0
  <2>1. f[<<i, j>>] = j /\ f[<<i, j + 1>>] = j + 1
    BY <1>7, <1>8
  <2> QED BY <1>6, <2>1
<1>9. CASE i # 0
  <2>1. i - 1 \in 0..m /\ (i - 1) + j < i + j /\ i \in 1..Len(a) /\ i - 1 \in 0..Len(a)
    BY <1>1, <1>9
  <2>2. f[<<i - 1, j>>] <= f[<<i - 1, j + 1>>] + 1
    BY <2>1, <1>3, <1>5
  <2>3. PICK p, q, x, y \in Nat :
          p = f[<<i - 1, j + 1>>] /\ q = f[<<i, j>>] /\ y = f[<<i - 1, j>>] /\ x = f[<<i, j + 1>>]
    BY <2>1, <1>7
  <2>4. x = p + 1 \/ x = q + 1 \/ x = y + 1 \/ x = y
    BY <2>1, <2>3, <1>7
  <2>5. q <= y + 1
    <3>1. CASE j = 0
      <4>1. q = i /\ y = i - 1
        BY <3>1, <2>1, <2>3, <1>7
      <4> QED BY <4>1
    <3>2. CASE j # 0
      <4>1. j \in 1..Len(b)
        BY <3>2, <1>7
      <4> QED BY <4>1, <2>1, <2>3
    <3> QED BY <3>1, <3>2
  <2>6. y <= p + 1 /\ ~(q <= x + 1)
    BY <2>2, <2>3, <1>6
  <2> QED BY <2>4, <2>5, <2>6
<1> QED BY <1>8, <1>9

\* Cells that are at most one more than others are made of cells that are.
LEMMA LeastWithinOne ==
  ASSUME NEW x, NEW y, NEW p, NEW q, NEW r, NEW u, NEW v, NEW w, NEW same \in BOOLEAN,
         IsLeast(x, p, q, r, same), IsLeast(y, u, v, w, same),
         p <= u + 1, q <= v + 1, r <= w + 1
  PROVE  x <= y + 1
  BY DEF IsLeast

\* c is b with one more letter behind its first n.
OneMoreAt(c, b, n) ==
    /\ Len(c) = Len(b) + 1
    /\ \A k \in 1..n : c[k] = b[k]
    /\ \A k \in (n + 1)..Len(b) : c[k + 1] = b[k]

\* c is b with another letter at n.
OneOtherAt(c, b, n) ==
    Len(c) = Len(b) /\ \A k \in 1..Len(b) : k # n => c[k] = b[k]

\* One letter more makes a difference of one at most, either way.
LEMMA OneMoreIsOne ==
  ASSUME NEW a \in Seq(Alphabet), NEW b \in Seq(Alphabet), NEW c \in Seq(Alphabet), NEW f, NEW g,
         IsDist(f, a, b), IsDist(g, a, c), NEW s \in 0..Len(b), OneMoreAt(c, b, s),
         NEW i0 \in 0..Len(a), NEW j0 \in s..Len(b)
  PROVE  f[<<i0, j0>>] <= g[<<i0, j0 + 1>>] + 1 /\ g[<<i0, j0 + 1>>] <= f[<<i0, j0>>] + 1
<1> DEFINE Fine(i, j) == f[<<i, j>>] <= g[<<i, j + 1>>] + 1 /\ g[<<i, j + 1>>] <= f[<<i, j>>] + 1
<1>1. PICK m, n \in Nat : m = Len(a) /\ n = Len(b)
  OBVIOUS
<1>2. PICK Bad : Bad = {p \in (0..m) \X (0..n) : p[2] >= s /\ ~Fine(p[1], p[2])}
  OBVIOUS
<1>3. \A k \in 0..m, l \in 0..n : <<k, l>> \in Bad <=> l >= s /\ ~Fine(k, l)
  BY <1>2
<1>4. SUFFICES ASSUME Bad # {} PROVE FALSE
  <2>1. j0 \in 0..n /\ j0 >= s /\ i0 \in 0..m
    BY <1>1
  <2> QED BY <2>1, <1>3
<1>b. Bad \in SUBSET ((0..m) \X (0..n))
  BY <1>2
<1>5. PICK i \in 0..m, j \in 0..n :
        /\ <<i, j>> \in Bad
        /\ \A k \in 0..m, l \in 0..n : k + l < i + j => <<k, l>> \notin Bad
  BY <1>b, <1>4, FirstBadCell
<1>6. j >= s /\ ~Fine(i, j)
  BY <1>3, <1>5
<1>7. Len(c) = n + 1 /\ s \in Nat /\ s <= n /\ s <= Len(b) /\ s <= Len(c)
  BY <1>1 DEF OneMoreAt
<1>8. CASE i = 0
  <2>1. j \in 0..Len(b) /\ j + 1 \in 0..Len(c)
    BY <1>1, <1>7
  <2>2. f[<<i, j>>] = j /\ g[<<i, j + 1>>] = j + 1
    BY <2>1, <1>8 DEF IsDist
  <2> QED BY <1>6, <2>2
<1>9. CASE i # 0 /\ j = s
  <2>1. i \in 0..Len(a) /\ s \in 0..s /\ s \in 0..(Len(c) - 1) /\ i \in 1..Len(a) /\ s + 1 \in 1..Len(c)
        /\ (s + 1) - 1 = s
    BY <1>1, <1>7, <1>9
  <2>2. f[<<i, s>>] = g[<<i, s>>]
    BY <2>1, <1>7, TablesBeginAlike DEF OneMoreAt
  <2>3. g[<<i, s>>] <= g[<<i, s + 1>>] + 1
    BY <2>1, NextCell
  <2>4. IsLeast(g[<<i, s + 1>>], g[<<i - 1, s + 1>>], g[<<i, (s + 1) - 1>>],
                g[<<i - 1, (s + 1) - 1>>], a[i] = c[s + 1])
    BY <2>1, DistCell
  <2>5. g[<<i, s + 1>>] <= g[<<i, s>>] + 1
    BY <2>1, <2>4 DEF IsLeast
  <2> QED BY <2>2, <2>3, <2>5, <1>6, <1>9
<1>10. CASE i # 0 /\ j # s
  <2>1. /\ i \in 1..Len(a) /\ j \in 1..Len(b) /\ j + 1 \in 1..Len(c) /\ (j + 1) - 1 = j
        /\ j \in (s + 1)..Len(b) /\ (j - 1) + 1 = j
        /\ i - 1 \in 0..m /\ j - 1 \in 0..n /\ j - 1 >= s
        /\ (i - 1) + j < i + j /\ i + (j - 1) < i + j /\ (i - 1) + (j - 1) < i + j
    BY <1>1, <1>6, <1>7, <1>10
  <2>2. Fine(i - 1, j) /\ Fine(i, j - 1) /\ Fine(i - 1, j - 1)
    <3> HIDE DEF Fine
    <3> QED BY <2>1, <1>3, <1>5, <1>6
  <2>3. c[j + 1] = b[j]
    BY <2>1 DEF OneMoreAt
  <2>4. IsLeast(f[<<i, j>>], f[<<i - 1, j>>], f[<<i, j - 1>>], f[<<i - 1, j - 1>>], a[i] = b[j])
    BY <2>1, DistCell
  <2>a. IsLeast(g[<<i, j + 1>>], g[<<i - 1, j + 1>>], g[<<i, (j + 1) - 1>>], g[<<i - 1, (j + 1) - 1>>],
                a[i] = c[j + 1])
    BY <2>1, DistCell
  <2>5. IsLeast(g[<<i, j + 1>>], g[<<i - 1, j + 1>>], g[<<i, j>>], g[<<i - 1, j>>], a[i] = c[j + 1])
    BY <2>1, <2>a
  <2>6. PICK same \in BOOLEAN : same = (a[i] = b[j]) /\ same = (a[i] = c[j + 1])
    BY <2>3
  <2>7. /\ f[<<i - 1, j>>] <= g[<<i - 1, j + 1>>] + 1 /\ f[<<i, j - 1>>] <= g[<<i, j>>] + 1
        /\ f[<<i - 1, j - 1>>] <= g[<<i - 1, j>>] + 1
        /\ g[<<i - 1, j + 1>>] <= f[<<i - 1, j>>] + 1 /\ g[<<i, j>>] <= f[<<i, j - 1>>] + 1
        /\ g[<<i - 1, j>>] <= f[<<i - 1, j - 1>>] + 1
    BY <2>1, <2>2
  <2>8. PICK x, p, q, r, y, u, v, w :
          /\ x = f[<<i, j>>] /\ p = f[<<i - 1, j>>] /\ q = f[<<i, j - 1>>] /\ r = f[<<i - 1, j - 1>>]
          /\ y = g[<<i, j + 1>>] /\ u = g[<<i - 1, j + 1>>] /\ v = g[<<i, j>>] /\ w = g[<<i - 1, j>>]
    OBVIOUS
  <2>9. /\ IsLeast(x, p, q, r, same) /\ IsLeast(y, u, v, w, same)
        /\ p <= u + 1 /\ q <= v + 1 /\ r <= w + 1 /\ u <= p + 1 /\ v <= q + 1 /\ w <= r + 1
    BY <2>4, <2>5, <2>6, <2>7, <2>8
  <2>10. x <= y + 1 /\ y <= x + 1
    BY <2>9, LeastWithinOne
  <2> QED BY <1>6, <2>8, <2>10
<1> QED BY <1>8, <1>9, <1>10

\* And so does another letter.
LEMMA OneOtherIsOne ==
  ASSUME NEW a \in Seq(Alphabet), NEW b \in Seq(Alphabet), NEW c \in Seq(Alphabet), NEW f, NEW g,
         IsDist(f, a, b), IsDist(g, a, c), NEW s \in 1..Len(b), OneOtherAt(c, b, s),
         NEW i0 \in 0..Len(a), NEW j0 \in 0..Len(b)
  PROVE  g[<<i0, j0>>] <= f[<<i0, j0>>] + 1
<1> DEFINE Fine(i, j) == g[<<i, j>>] <= f[<<i, j>>] + 1
<1>1. PICK m, n \in Nat : m = Len(a) /\ n = Len(b)
  OBVIOUS
<1>2. PICK Bad : Bad = {p \in (0..m) \X (0..n) : ~Fine(p[1], p[2])}
  OBVIOUS
<1>3. \A k \in 0..m, l \in 0..n : <<k, l>> \in Bad <=> ~Fine(k, l)
  BY <1>2
<1>4. SUFFICES ASSUME Bad # {} PROVE FALSE
  BY <1>1, <1>3
<1>b. Bad \in SUBSET ((0..m) \X (0..n))
  BY <1>2
<1>5. PICK i \in 0..m, j \in 0..n :
        /\ <<i, j>> \in Bad
        /\ \A k \in 0..m, l \in 0..n : k + l < i + j => <<k, l>> \notin Bad
  BY <1>b, <1>4, FirstBadCell
<1>6. ~Fine(i, j)
  BY <1>3, <1>5
<1>7. Len(c) = n /\ s \in Nat /\ s - 1 \in Nat /\ s - 1 <= Len(b) /\ s - 1 <= Len(c)
  BY <1>1 DEF OneOtherAt
<1>8. ASSUME NEW k \in 0..m, NEW l \in 0..(s - 1) PROVE f[<<k, l>>] = g[<<k, l>>] /\ f[<<k, l>>] \in Nat
  <2>1. PICK e \in Nat : e = s - 1
    BY <1>7
  <2>2. e <= Len(b) /\ e <= Len(c) /\ l \in 0..e /\ \A h \in 1..e : b[h] = c[h]
    BY <2>1, <1>1, <1>7 DEF OneOtherAt
  <2>3. k \in 0..Len(a) /\ l \in 0..Len(b)
    BY <1>1, <1>7
  <2>4. f[<<k, l>>] = g[<<k, l>>]
    BY <2>2, <2>3, TablesBeginAlike
  <2> QED BY <2>3, <2>4 DEF IsDist
<1>9. CASE j < s
  <2>1. j \in 0..(s - 1)
    BY <1>7, <1>9
  <2>2. f[<<i, j>>] = g[<<i, j>>] /\ f[<<i, j>>] \in Nat
    BY <2>1, <1>8
  <2> QED BY <1>6, <2>2
<1>10. CASE ~(j < s) /\ i = 0
  <2>1. j \in 0..Len(b) /\ j \in 0..Len(c)
    BY <1>1, <1>7
  <2>2. f[<<i, j>>] = j /\ g[<<i, j>>] = j
    BY <2>1, <1>10 DEF IsDist
  <2> QED BY <1>6, <2>2
<1>11. CASE ~(j < s) /\ i # 0
  <2>1. /\ i \in 1..Len(a) /\ j \in 1..Len(b) /\ j \in 1..Len(c)
        /\ i - 1 \in 0..m /\ j - 1 \in 0..n
        /\ (i - 1) + j < i + j /\ i + (j - 1) < i + j /\ (i - 1) + (j - 1) < i + j
    BY <1>1, <1>7, <1>11
  <2>2. Fine(i - 1, j) /\ Fine(i, j - 1) /\ Fine(i - 1, j - 1)
    <3> HIDE DEF Fine
    <3> QED BY <2>1, <1>3, <1>5
  <2>3. IsLeast(f[<<i, j>>], f[<<i - 1, j>>], f[<<i, j - 1>>], f[<<i - 1, j - 1>>], a[i] = b[j])
    BY <2>1, DistCell
  <2>4. IsLeast(g[<<i, j>>], g[<<i - 1, j>>], g[<<i, j - 1>>], g[<<i - 1, j - 1>>], a[i] = c[j])
    BY <2>1, DistCell
  <2>5. /\ g[<<i - 1, j>>] <= f[<<i - 1, j>>] + 1 /\ g[<<i, j - 1>>] <= f[<<i, j - 1>>] + 1
        /\ g[<<i - 1, j - 1>>] <= f[<<i - 1, j - 1>>] + 1
    BY <2>2
  <2>a. PICK x, p, q, r, y, u, v, w :
          /\ x = f[<<i, j>>] /\ p = f[<<i - 1, j>>] /\ q = f[<<i, j - 1>>] /\ r = f[<<i - 1, j - 1>>]
          /\ y = g[<<i, j>>] /\ u = g[<<i - 1, j>>] /\ v = g[<<i, j - 1>>] /\ w = g[<<i - 1, j - 1>>]
    OBVIOUS
  <2>b. u <= p + 1 /\ v <= q + 1 /\ w <= r + 1 /\ ~(y <= x + 1)
    BY <2>5, <2>a, <1>6
  <2>6. CASE j = s
    <3>1. j - 1 \in 0..(s - 1)
      BY <2>6, <1>7
    <3>2. f[<<i, j - 1>>] = g[<<i, j - 1>>] /\ f[<<i - 1, j - 1>>] = g[<<i - 1, j - 1>>]
      BY <3>1, <2>1, <1>8
    <3>3. v = q /\ w = r /\ IsLeast(x, p, q, r, a[i] = b[j]) /\ IsLeast(y, u, v, w, a[i] = c[j])
      BY <3>2, <2>3, <2>4, <2>a
    <3>4. /\ x \in Nat /\ p \in Nat /\ q \in Nat /\ r \in Nat /\ y \in Nat /\ u \in Nat
          /\ x = p + 1 \/ x = q + 1 \/ x = r + 1 \/ x = r
          /\ y <= u + 1 /\ y <= q + 1 /\ y <= r + 1
      BY <3>3 DEF IsLeast
    <3> QED BY <3>4, <2>b
  <2>7. CASE j # s
    <3>1. c[j] = b[j]
      BY <2>1, <2>7 DEF OneOtherAt
    <3>2. PICK same \in BOOLEAN : same = (a[i] = b[j]) /\ same = (a[i] = c[j])
      BY <3>1
    <3>3. IsLeast(x, p, q, r, same) /\ IsLeast(y, u, v, w, same)
      BY <2>3, <2>4, <2>a, <3>2
    <3>4. y <= x + 1
      BY <3>3, <2>b, LeastWithinOne
    <3> QED BY <3>4, <2>b
  <2> QED BY <2>6, <2>7
<1> QED BY <1>9, <1>10, <1>11

\* c and v are the same, or differ by one letter.
OneAway(c, v) ==
    \/ c = v \/ \E n \in 0..Len(c) : OneMoreAt(v, c, n)
    \/ \E n \in 0..Len(v) : OneMoreAt(c, v, n)
    \/ \E n \in 1..Len(v) : OneOtherAt(c, v, n)

NearWords(v) == {v} \cup Deletes(v) \cup Replaces(v) \cup Inserts(v)

\* A word without its letter i.
LEMMA WithoutIs ==
  ASSUME NEW w \in Seq(Alphabet), NEW i \in 1..Len(w)
  PROVE  Without(w, i) \in Seq(Alphabet) /\ OneMoreAt(w, Without(w, i), i - 1)
<1>1. PICK n \in Nat : n = Len(w)
  OBVIOUS
<1>2. PICK s : s = SubSeq(w, 1, i - 1)
  OBVIOUS
<1>3. /\ s \in Seq(Alphabet) /\ Len(s) = i - 1 /\ \A k \in 1..(i - 1) : s[k] = w[k]
  <2>1. i - 1 \in Nat /\ i - 1 <= Len(w)
    BY <1>1
  <2> QED BY <2>1, <1>2
<1>4. PICK t : t = SubSeq(w, i + 1, Len(w))
  OBVIOUS
<1>5. /\ t \in Seq(Alphabet) /\ Len(t) = n - i /\ \A k \in 1..(n - i) : t[k] = w[k + i]
  <2>1. i + 1 \in Nat /\ i + 1 <= n + 1 /\ i + 1 >= 1
    BY <1>1
  <2>2. t = [k \in 1..(n - i) |-> w[k + i]]
    BY <2>1, <1>1, <1>4
  <2>3. \A k \in 1..(n - i) : w[k + i] \in Alphabet
    BY <1>1
  <2> QED BY <2>2, <2>3, <1>1
<1>6. Without(w, i) = s \o t
  BY <1>2, <1>4 DEF Without
<1>7. PICK c : c = s \o t
  OBVIOUS
<1>8. /\ c \in Seq(Alphabet) /\ Len(c) = n - 1
      /\ \A k \in 1..(i - 1) : c[k] = w[k]
      /\ \A k \in i..(n - 1) : c[k] = w[k + 1]
  <2>1. c \in Seq(Alphabet) /\ Len(c) = n - 1
    BY <1>1, <1>3, <1>5, <1>7
  <2>2. ASSUME NEW k \in 1..(i - 1) PROVE c[k] = w[k]
    <3>1. k \in 1..Len(s)
      BY <1>3
    <3>2. c[k] = s[k]
      BY <3>1, <1>3, <1>5, <1>7
    <3> QED BY <3>2, <1>3
  <2>3. ASSUME NEW k \in i..(n - 1) PROVE c[k] = w[k + 1]
    <3>1. k - (i - 1) \in 1..(n - i) /\ k \in 1..(n - 1) /\ ~(k <= i - 1) /\ (k - (i - 1)) + i = k + 1
      BY <1>1
    <3>2. c[k] = t[k - (i - 1)]
      BY <3>1, <1>3, <1>5, <1>7
    <3>3. t[k - (i - 1)] = w[(k - (i - 1)) + i]
      BY <3>1, <1>5
    <3> QED BY <3>1, <3>2, <3>3
  <2> QED BY <2>1, <2>2, <2>3
<1>9. OneMoreAt(w, c, i - 1)
  <2>1. n = (n - 1) + 1 /\ (i - 1) + 1 = i
    BY <1>1
  <2> QED BY <2>1, <1>1, <1>8 DEF OneMoreAt
<1> QED BY <1>6, <1>7, <1>8, <1>9

\* What one sequence behind another is.
LEMMA Joined ==
  ASSUME NEW S, NEW s \in Seq(S), NEW t \in Seq(S), NEW c, c = s \o t,
         NEW m \in Nat, NEW n \in Nat, m = Len(s), n = Len(t)
  PROVE  /\ c \in Seq(S) /\ Len(c) = m + n
         /\ \A k \in 1..m : c[k] = s[k]
         /\ \A k \in 1..n : c[k + m] = t[k]
  OBVIOUS

\* A word with x behind its first i letters.
With(w, i, x) == SubSeq(w, 1, i) \o <<x>> \o SubSeq(w, i + 1, Len(w))

\* Such a word has that letter more.
LEMMA InsertIs ==
  ASSUME NEW w \in Seq(Alphabet), NEW i \in 0..Len(w), NEW x \in Alphabet
  PROVE  With(w, i, x) \in Seq(Alphabet) /\ OneMoreAt(With(w, i, x), w, i) /\ With(w, i, x)[i + 1] = x
<1>1. PICK n \in Nat : n = Len(w)
  OBVIOUS
<1>2. PICK s : s = SubSeq(w, 1, i)
  OBVIOUS
<1>3. /\ s \in Seq(Alphabet) /\ Len(s) = i /\ \A k \in 1..i : s[k] = w[k]
  <2>1. i \in Nat /\ i <= Len(w)
    BY <1>1
  <2> QED BY <2>1, <1>2
<1>4. PICK t : t = SubSeq(w, i + 1, Len(w))
  OBVIOUS
<1>5. /\ t \in Seq(Alphabet) /\ Len(t) = n - i /\ \A k \in 1..(n - i) : t[k] = w[k + i]
  <2>1. i + 1 \in Nat /\ i + 1 <= n + 1 /\ i + 1 >= 1
    BY <1>1
  <2>2. t = [k \in 1..(n - i) |-> w[k + i]]
    BY <2>1, <1>1, <1>4
  <2>3. \A k \in 1..(n - i) : w[k + i] \in Alphabet
    BY <1>1
  <2> QED BY <2>2, <2>3, <1>1
<1>6. PICK u : u = s \o <<x>>
  OBVIOUS
<1>7. /\ u \in Seq(Alphabet) /\ Len(u) = i + 1 /\ u[i + 1] = x /\ \A k \in 1..i : u[k] = w[k]
  BY <1>3, <1>6
<1>8. PICK c : c = u \o t
  OBVIOUS
<1>9. c = With(w, i, x)
  BY <1>2, <1>4, <1>6, <1>8 DEF With
<1>a. i \in Nat /\ i + 1 \in Nat /\ n - i \in Nat /\ (i + 1) + (n - i) = n + 1
  BY <1>1
<1>10. PICK m \in Nat, l \in Nat : m = i + 1 /\ l = n - i /\ m + l = n + 1
  BY <1>a
<1>b. m = Len(u) /\ l = Len(t) /\ u \in Seq(Alphabet) /\ t \in Seq(Alphabet)
  BY <1>5, <1>7, <1>10
<1>11. /\ c \in Seq(Alphabet) /\ Len(c) = m + l
       /\ \A k \in 1..m : c[k] = u[k]
       /\ \A k \in 1..l : c[k + m] = t[k]
  BY <1>b, <1>8, Joined
<1>12. ASSUME NEW k \in (i + 1)..n PROVE c[k + 1] = w[k]
  <2>1. k - i \in 1..l /\ (k - i) + m = k + 1 /\ (k - i) + i = k /\ k - i \in 1..(n - i)
    BY <1>1, <1>10
  <2>2. c[(k - i) + m] = t[k - i] /\ t[k - i] = w[(k - i) + i]
    BY <2>1, <1>5, <1>11
  <2> QED BY <2>1, <2>2
<1>13. ASSUME NEW k \in 1..i PROVE c[k] = w[k]
  <2>1. k \in 1..m
    BY <1>10
  <2> QED BY <2>1, <1>7, <1>11
<1>14. c[i + 1] = x
  <2>1. m \in 1..m /\ m = i + 1
    BY <1>10
  <2> QED BY <2>1, <1>7, <1>11
<1>15. Len(c) = Len(w) + 1
  BY <1>1, <1>10, <1>11
<1>16. OneMoreAt(c, w, i)
  BY <1>1, <1>12, <1>13, <1>15 DEF OneMoreAt
<1> QED BY <1>9, <1>11, <1>14, <1>16

\* Insertions are those of a letter somewhere.
LEMMA InsertsAre ==
  ASSUME NEW w
  PROVE  Inserts(w) = {With(w, i, x) : i \in 0..Len(w), x \in Alphabet}
  BY DEF Inserts, With

\* Where a letter is more, and which, makes one word.
LEMMA SameWords ==
  ASSUME NEW b \in Seq(Alphabet), NEW c \in Seq(Alphabet), NEW d \in Seq(Alphabet), NEW n \in Nat
  PROVE  /\ n <= Len(c) /\ OneMoreAt(b, c, n) /\ OneMoreAt(b, d, n) => c = d
         /\ n <= Len(b) /\ OneMoreAt(c, b, n) /\ OneMoreAt(d, b, n) /\ c[n + 1] = d[n + 1] => c = d
<1>1. PICK l \in Nat : l = Len(b)
  OBVIOUS
<1>2. ASSUME Len(c) = Len(d), \A k \in 1..Len(c) : c[k] = d[k] PROVE c = d
  BY <1>2
<1>3. ASSUME n <= Len(c), OneMoreAt(b, c, n), OneMoreAt(b, d, n) PROVE c = d
  <2>1. PICK m \in Nat : m = Len(c) /\ Len(d) = m /\ n <= m
    BY <1>1, <1>3 DEF OneMoreAt
  <2>2. ASSUME NEW k \in 1..m PROVE c[k] = d[k]
    <3>1. CASE k <= n
      <4>1. k \in 1..n
        BY <3>1
      <4> QED BY <4>1, <1>3 DEF OneMoreAt
    <3>2. CASE ~(k <= n)
      <4>1. k \in (n + 1)..Len(c) /\ k \in (n + 1)..Len(d)
        BY <3>2, <2>1
      <4> QED BY <4>1, <1>3 DEF OneMoreAt
    <3> QED BY <3>1, <3>2
  <2> QED BY <2>1, <2>2, <1>2
<1>4. ASSUME n <= Len(b), OneMoreAt(c, b, n), OneMoreAt(d, b, n), c[n + 1] = d[n + 1] PROVE c = d
  <2>1. Len(c) = l + 1 /\ Len(d) = l + 1 /\ n <= l
    BY <1>1, <1>4 DEF OneMoreAt
  <2>2. ASSUME NEW k \in 1..(l + 1) PROVE c[k] = d[k]
    <3>1. CASE k <= n
      <4>1. k \in 1..n
        BY <3>1
      <4> QED BY <4>1, <1>4 DEF OneMoreAt
    <3>2. CASE k = n + 1
      BY <3>2, <1>4
    <3>3. CASE ~(k <= n) /\ k # n + 1
      <4>1. k - 1 \in (n + 1)..Len(b) /\ (k - 1) + 1 = k
        BY <3>3, <1>1
      <4>2. c[(k - 1) + 1] = b[k - 1] /\ d[(k - 1) + 1] = b[k - 1]
        BY <4>1, <1>4 DEF OneMoreAt
      <4> QED BY <4>1, <4>2
    <3> QED BY <3>1, <3>2, <3>3
  <2> QED BY <2>1, <2>2, <1>2
<1> QED BY <1>3, <1>4

\* The words that one edit makes of a word are those that are one letter away.
LEMMA NearWordsAre ==
  ASSUME NEW v \in Seq(Alphabet), NEW c
  PROVE  c \in NearWords(v) <=> c \in Seq(Alphabet) /\ OneAway(c, v)
<1>1. ASSUME c \in Deletes(v) PROVE c \in Seq(Alphabet) /\ OneAway(c, v)
  <2>1. PICK i \in 1..Len(v) : c = Without(v, i)
    BY <1>1 DEF Deletes
  <2>2. c \in Seq(Alphabet) /\ OneMoreAt(v, c, i - 1)
    BY <2>1, WithoutIs
  <2>3. i - 1 \in 0..Len(c)
    BY <2>2 DEF OneMoreAt
  <2> QED BY <2>2, <2>3 DEF OneAway
<1>2. ASSUME c \in Inserts(v) PROVE c \in Seq(Alphabet) /\ OneAway(c, v)
  <2>1. PICK i \in 0..Len(v), x \in Alphabet : c = With(v, i, x)
    BY <1>2, InsertsAre
  <2>2. c \in Seq(Alphabet) /\ OneMoreAt(c, v, i)
    BY <2>1, InsertIs
  <2> QED BY <2>2 DEF OneAway
<1>3. ASSUME c \in Replaces(v) PROVE c \in Seq(Alphabet) /\ OneAway(c, v)
  <2>1. PICK i \in 1..Len(v), x \in Alphabet : c = [v EXCEPT ![i] = x]
    BY <1>3 DEF Replaces
  <2>2. c \in Seq(Alphabet) /\ OneOtherAt(c, v, i)
    BY <2>1 DEF OneOtherAt
  <2> QED BY <2>2 DEF OneAway
<1>4. ASSUME c \in Seq(Alphabet), NEW n \in 0..Len(c), OneMoreAt(v, c, n) PROVE c \in Deletes(v)
  <2>1. n + 1 \in 1..Len(v) /\ (n + 1) - 1 = n /\ n \in Nat
    BY <1>4 DEF OneMoreAt
  <2>2. Without(v, n + 1) \in Seq(Alphabet) /\ OneMoreAt(v, Without(v, n + 1), n)
    <3>1. Without(v, n + 1) \in Seq(Alphabet) /\ OneMoreAt(v, Without(v, n + 1), (n + 1) - 1)
      BY <2>1, WithoutIs
    <3> QED BY <2>1, <3>1
  <2>3. c = Without(v, n + 1)
    BY <1>4, <2>1, <2>2, SameWords
  <2> QED BY <2>1, <2>3 DEF Deletes
<1>5. ASSUME c \in Seq(Alphabet), NEW n \in 0..Len(v), OneMoreAt(c, v, n) PROVE c \in Inserts(v)
  <2>1. n \in Nat /\ n + 1 \in 1..Len(c) /\ c[n + 1] \in Alphabet
    BY <1>5 DEF OneMoreAt
  <2>2. PICK d : d = With(v, n, c[n + 1])
    OBVIOUS
  <2>3. d \in Seq(Alphabet) /\ OneMoreAt(d, v, n) /\ d[n + 1] = c[n + 1]
    BY <2>1, <2>2, InsertIs
  <2>4. c = d
    BY <1>5, <2>1, <2>3, SameWords
  <2>5. c[n + 1] \in Alphabet /\ c = With(v, n, c[n + 1])
    BY <2>1, <2>2, <2>4
  <2> QED BY <2>5, InsertsAre
<1>6. ASSUME c \in Seq(Alphabet), c # v, NEW n \in 1..Len(v), OneOtherAt(c, v, n) PROVE c \in Replaces(v)
  <2>1. c[n] \in Alphabet /\ Len(c) = Len(v) /\ DOMAIN c = DOMAIN v /\ n \in DOMAIN v
    BY <1>6 DEF OneOtherAt
  <2>2. c = [v EXCEPT ![n] = c[n]]
    BY <1>6, <2>1 DEF OneOtherAt
  <2> QED BY <1>6, <2>1, <2>2 DEF Replaces
<1> QED BY <1>1, <1>2, <1>3, <1>4, <1>5, <1>6 DEF NearWords, OneAway
\* The words that one more edit makes of some.
NextWords(S) == UNION {NearWords(v) : v \in S}

IsAway(w, f, k) == f = [n \in 0..k |-> IF n = 0 THEN {w} ELSE NextWords(f[n - 1])]

\* The recursion that the words some edits away are defined by has a value.
LEMMA AwaysAre == ASSUME NEW k \in Nat, NEW w PROVE \E f : IsAway(w, f, k)
<1> DEFINE Bad == {n \in Nat : ~ \E f : IsAway(w, f, n)}
<1>1. SUFFICES Bad = {}
  OBVIOUS
<1>2. SUFFICES ASSUME Bad # {} PROVE FALSE
  OBVIOUS
<1>3. PICK n \in Bad : \A m \in Nat : m < n => m \notin Bad
  BY <1>2, LeastOf
<1>4. CASE n = 0
  <2>1. IsAway(w, [m \in 0..0 |-> {w}], 0)
    BY DEF IsAway
  <2> QED BY <1>4, <2>1
<1>5. CASE n # 0
  <2>1. n - 1 \in Nat /\ n - 1 < n
    BY <1>5
  <2>2. PICK f : IsAway(w, f, n - 1)
    BY <1>3, <2>1
  <2> DEFINE g == [m \in 0..n |-> IF m = n THEN NextWords(f[n - 1]) ELSE f[m]]
  <2>3. \A m \in 0..(n - 1) : g[m] = f[m]
    BY <1>5
  <2>4. g[n] = NextWords(g[n - 1])
    BY <2>1, <2>3
  <2>5. ASSUME NEW m \in 0..n
        PROVE  g[m] = IF m = 0 THEN {w} ELSE NextWords(g[m - 1])
    <3>1. CASE m = n
      BY <3>1, <2>4, <1>5
    <3>2. CASE m # n
      <4>1. m \in 0..(n - 1) /\ (m # 0 => m - 1 \in 0..(n - 1))
        BY <3>2
      <4>2. f[m] = IF m = 0 THEN {w} ELSE NextWords(f[m - 1])
        BY <4>1, <2>2 DEF IsAway
      <4> QED BY <4>1, <4>2, <2>3
    <3> QED BY <3>1, <3>2
  <2>6. IsAway(w, g, n)
    BY <2>5 DEF IsAway
  <2> QED BY <2>6
<1> QED BY <1>4, <1>5

\* What is some edits away is what that recursion comes to.
LEMMA AwayIsAway == ASSUME NEW k \in Nat, NEW w PROVE \E f : IsAway(w, f, k) /\ EditsAway(w, k) = f[k]
<1>1. \E f : IsAway(w, f, k)
  BY AwaysAre
<1> QED BY <1>1 DEF EditsAway, IsAway, NextWords, NearWords

\* One step of it.
LEMMA AwayAt ==
  ASSUME NEW k \in Nat, NEW w, NEW f, IsAway(w, f, k)
  PROVE  \A m \in Nat : m <= k => (m = 0 => f[m] = {w}) /\ (m # 0 => f[m] = NextWords(f[m - 1]))
<1>1. PICK h : h = [n \in 0..k |-> IF n = 0 THEN {w} ELSE NextWords(f[n - 1])]
  OBVIOUS
<1>2. f = h
  BY <1>1 DEF IsAway
<1>3. \A m \in 0..k : h[m] = IF m = 0 THEN {w} ELSE NextWords(f[m - 1])
  BY <1>1
<1> QED BY <1>2, <1>3

\* Two recursions of different lengths agree as far as both go.
LEMMA AwaysAgree ==
  ASSUME NEW k \in Nat, NEW l \in Nat, NEW w, NEW f, NEW g, IsAway(w, f, k), IsAway(w, g, l),
         NEW n \in Nat, n <= k, n <= l
  PROVE  f[n] = g[n]
<1> DEFINE Bad == {m \in Nat : m <= k /\ m <= l /\ f[m] # g[m]}
<1>1. SUFFICES ASSUME Bad # {} PROVE FALSE
  OBVIOUS
<1>2. PICK m \in Nat : m \in Bad /\ \A i \in Nat : i < m => i \notin Bad
  BY <1>1, LeastOf
<1>3. /\ f[m] = IF m = 0 THEN {w} ELSE NextWords(f[m - 1])
      /\ g[m] = IF m = 0 THEN {w} ELSE NextWords(g[m - 1])
  <2>1. m <= k /\ m <= l
    BY <1>2
  <2>2. (m = 0 => f[m] = {w}) /\ (m # 0 => f[m] = NextWords(f[m - 1]))
    BY <2>1, AwayAt
  <2>3. (m = 0 => g[m] = {w}) /\ (m # 0 => g[m] = NextWords(g[m - 1]))
    BY <2>1, AwayAt
  <2> QED BY <2>2, <2>3
<1>4. CASE m = 0
  BY <1>2, <1>3, <1>4
<1>5. CASE m # 0
  <2>1. m - 1 \in Nat /\ m - 1 < m /\ m - 1 <= k /\ m - 1 <= l
    BY <1>2, <1>5
  <2>2. f[m - 1] = g[m - 1]
    BY <1>2, <2>1
  <2> QED BY <1>2, <1>3, <1>5, <2>2
<1> QED BY <1>4, <1>5

\* So a word with more edits is one edit from a word with one less.
LEMMA AwayGrows ==
  ASSUME NEW w
  PROVE  EditsAway(w, 0) = {w} /\ \A k \in Nat : EditsAway(w, k + 1) = NextWords(EditsAway(w, k))
<1>1. EditsAway(w, 0) = {w}
  <2>1. PICK f : IsAway(w, f, 0) /\ EditsAway(w, 0) = f[0]
    BY AwayIsAway
  <2> QED BY <2>1 DEF IsAway
<1>2. ASSUME NEW k \in Nat PROVE EditsAway(w, k + 1) = NextWords(EditsAway(w, k))
  <2>1. PICK f : IsAway(w, f, k) /\ EditsAway(w, k) = f[k]
    BY AwayIsAway
  <2>2. PICK g : IsAway(w, g, k + 1) /\ EditsAway(w, k + 1) = g[k + 1]
    BY AwayIsAway
  <2>3. f[k] = g[k]
    BY <2>1, <2>2, AwaysAgree
  <2>4. g[k + 1] = NextWords(g[k])
    <3>1. k + 1 \in 0..(k + 1) /\ k + 1 # 0 /\ (k + 1) - 1 = k /\ k + 1 \in Nat
      OBVIOUS
    <3>2. PICK l \in Nat : l = k + 1
      BY <3>1
    <3>3. l <= l /\ IsAway(w, g, l)
      BY <2>2, <3>2
    <3>a. \A m \in Nat : m <= l => (m = 0 => g[m] = {w}) /\ (m # 0 => g[m] = NextWords(g[m - 1]))
      BY <3>3, AwayAt
    <3>4. l # 0 => g[l] = NextWords(g[l - 1])
      BY <3>3, <3>a
    <3> QED BY <3>1, <3>2, <3>4
  <2> QED BY <2>1, <2>2, <2>3, <2>4
<1> QED BY <1>1, <1>2

\* A word one more edit away is near one that is not.
LEMMA NextWordsAre ==
  ASSUME NEW k \in Nat, NEW w, NEW c
  PROVE  c \in EditsAway(w, k + 1) <=> \E v \in EditsAway(w, k) : c \in NearWords(v)
  BY AwayGrows DEF NextWords

\* What is some edits away is a word.
LEMMA AwayAreWords ==
  ASSUME NEW w \in Seq(Alphabet), NEW k \in Nat
  PROVE  EditsAway(w, k) \subseteq Seq(Alphabet)
<1> DEFINE Bad == {n \in Nat : ~(EditsAway(w, n) \subseteq Seq(Alphabet))}
<1>1. SUFFICES ASSUME Bad # {} PROVE FALSE
  OBVIOUS
<1>2. PICK n \in Bad : \A m \in Nat : m < n => m \notin Bad
  BY <1>1, LeastOf
<1>3. CASE n = 0
  BY <1>2, <1>3, AwayGrows
<1>4. CASE n # 0
  <2>1. PICK m \in Nat : m + 1 = n /\ m < n
    <3>1. n - 1 \in Nat /\ (n - 1) + 1 = n /\ n - 1 < n
      BY <1>4
    <3> QED BY <3>1
  <2>2. EditsAway(w, m) \subseteq Seq(Alphabet)
    BY <1>2, <2>1
  <2>3. ASSUME NEW c \in EditsAway(w, m + 1) PROVE c \in Seq(Alphabet)
    <3>1. PICK v \in EditsAway(w, m) : c \in NearWords(v)
      BY NextWordsAre
    <3> QED BY <3>1, <2>2, NearWordsAre
  <2> QED BY <1>2, <2>1, <2>3
<1> QED BY <1>3, <1>4

\* A word that is some edits away is more edits away too.
LEMMA AwayIsInMore ==
  ASSUME NEW w \in Seq(Alphabet), NEW c, NEW k \in Nat, NEW l \in Nat, k <= l, c \in EditsAway(w, k)
  PROVE  c \in EditsAway(w, l)
<1> DEFINE Bad == {n \in Nat : k <= n /\ c \notin EditsAway(w, n)}
<1>1. SUFFICES ASSUME Bad # {} PROVE FALSE
  OBVIOUS
<1>2. PICK n \in Bad : \A m \in Nat : m < n => m \notin Bad
  BY <1>1, LeastOf
<1>3. k # n /\ k <= n /\ n \in Nat
  BY <1>2
<1>4. PICK m \in Nat : m + 1 = n /\ m < n /\ k <= m
  <2>1. n - 1 \in Nat /\ (n - 1) + 1 = n /\ n - 1 < n /\ k <= n - 1
    BY <1>3
  <2> QED BY <2>1
<1>5. c \in EditsAway(w, m)
  BY <1>2, <1>4
<1>6. c \in NearWords(c)
  BY DEF NearWords
<1>7. c \in EditsAway(w, m + 1)
  BY <1>5, <1>6, NextWordsAre
<1> QED BY <1>2, <1>4, <1>7

\* An edit may come first as well as last.
LEMMA AwayFirst ==
  ASSUME NEW w \in Seq(Alphabet), NEW v \in NearWords(w), NEW c, NEW k \in Nat, c \in EditsAway(v, k)
  PROVE  c \in EditsAway(w, k + 1)
<1> DEFINE Bad == {n \in Nat : \E d \in EditsAway(v, n) : d \notin EditsAway(w, n + 1)}
<1>1. SUFFICES ASSUME Bad # {} PROVE FALSE
  OBVIOUS
<1>2. PICK n \in Bad : \A m \in Nat : m < n => m \notin Bad
  BY <1>1, LeastOf
<1>3. PICK d \in EditsAway(v, n) : d \notin EditsAway(w, n + 1)
  BY <1>2
<1>4. CASE n = 0
  <2>1. d = v /\ w \in EditsAway(w, 0)
    BY <1>3, <1>4, AwayGrows
  <2>2. d \in EditsAway(w, 0 + 1)
    BY <2>1, NextWordsAre
  <2> QED BY <1>3, <1>4, <2>2
<1>5. CASE n # 0
  <2>1. PICK m \in Nat : m + 1 = n /\ m < n
    <3>1. n - 1 \in Nat /\ (n - 1) + 1 = n /\ n - 1 < n
      BY <1>5
    <3> QED BY <3>1
  <2>2. PICK e \in EditsAway(v, m) : d \in NearWords(e)
    BY <1>3, <2>1, NextWordsAre
  <2>3. e \in EditsAway(w, m + 1)
    BY <1>2, <2>1, <2>2
  <2>4. d \in EditsAway(w, (m + 1) + 1)
    BY <2>2, <2>3, NextWordsAre
  <2> QED BY <1>3, <2>1, <2>4
<1> QED BY <1>4, <1>5

\* A word is at no distance from itself.
LEMMA NoDistance ==
  ASSUME NEW w \in Seq(Alphabet), NEW f, IsDist(f, w, w)
  PROVE  f[<<Len(w), Len(w)>>] = 0
<1> DEFINE Bad == {n \in Nat : n <= Len(w) /\ f[<<n, n>>] # 0}
<1>1. SUFFICES ASSUME Bad # {} PROVE FALSE
  OBVIOUS
<1>2. PICK n \in Bad : \A m \in Nat : m < n => m \notin Bad
  BY <1>1, LeastOf
<1>3. CASE n = 0
  <2>1. 0 \in 0..Len(w)
    OBVIOUS
  <2> QED BY <2>1, <1>2, <1>3 DEF IsDist
<1>4. CASE n # 0
  <2>1. n - 1 \in Nat /\ n - 1 < n /\ n - 1 <= Len(w) /\ n \in 1..Len(w)
    BY <1>2, <1>4
  <2>2. f[<<n - 1, n - 1>>] = 0
    BY <1>2, <2>1
  <2>3. IsLeast(f[<<n, n>>], f[<<n - 1, n>>], f[<<n, n - 1>>], f[<<n - 1, n - 1>>], w[n] = w[n])
    BY <2>1, DistCell
  <2>4. f[<<n, n>>] \in Nat /\ f[<<n, n>>] <= f[<<n - 1, n - 1>>]
    BY <2>3 DEF IsLeast
  <2> QED BY <1>2, <2>2, <2>4
<1> QED BY <1>3, <1>4

\* An edit of the second word is one at most.
LEMMA OneEditIsOne ==
  ASSUME NEW w \in Seq(Alphabet), NEW v \in Seq(Alphabet), NEW c \in Seq(Alphabet),
         OneAway(c, v), NEW f, NEW g, IsDist(f, w, v), IsDist(g, w, c)
  PROVE  g[<<Len(w), Len(c)>>] <= f[<<Len(w), Len(v)>>] + 1
<1>1. Len(w) \in 0..Len(w) /\ Len(v) \in 0..Len(v) /\ Len(c) \in 0..Len(c)
  OBVIOUS
<1>2. CASE \E n \in 0..Len(c) : OneMoreAt(v, c, n)
  <2>1. PICK n \in 0..Len(c) : OneMoreAt(v, c, n)
    BY <1>2
  <2>2. Len(c) \in n..Len(c)
    OBVIOUS
  <2>3. g[<<Len(w), Len(c)>>] <= f[<<Len(w), Len(c) + 1>>] + 1
    BY <2>1, <2>2, <1>1, OneMoreIsOne
  <2> QED BY <2>1, <2>3 DEF OneMoreAt
<1>3. CASE \E n \in 0..Len(v) : OneMoreAt(c, v, n)
  <2>1. PICK n \in 0..Len(v) : OneMoreAt(c, v, n)
    BY <1>3
  <2>2. Len(v) \in n..Len(v)
    OBVIOUS
  <2>3. g[<<Len(w), Len(v) + 1>>] <= f[<<Len(w), Len(v)>>] + 1
    BY <2>1, <2>2, <1>1, OneMoreIsOne
  <2> QED BY <2>1, <2>3 DEF OneMoreAt
<1>4. CASE \E n \in 1..Len(v) : OneOtherAt(c, v, n)
  <2>1. PICK n \in 1..Len(v) : OneOtherAt(c, v, n)
    BY <1>4
  <2>2. g[<<Len(w), Len(v)>>] <= f[<<Len(w), Len(v)>>] + 1
    BY <2>1, <1>1, OneOtherIsOne
  <2> QED BY <2>1, <2>2 DEF OneOtherAt
<1>5. CASE c = v
  <2>1. \A j \in 0..Len(v) : f[<<Len(w), j>>] = g[<<Len(w), j>>]
    <3>1. SUFFICES ASSUME NEW j \in 0..Len(v) PROVE f[<<Len(w), j>>] = g[<<Len(w), j>>]
      OBVIOUS
    <3>2. Len(v) \in Nat /\ \A k \in 1..Len(v) : v[k] = c[k]
      BY <1>5
    <3> QED BY <3>2, <1>1, <1>5, TablesBeginAlike
  <2>2. f[<<Len(w), Len(v)>>] \in Nat
    BY <1>1 DEF IsDist
  <2>3. f[<<Len(w), Len(v)>>] = g[<<Len(w), Len(v)>>]
    BY <2>1, <1>1
  <2> QED BY <1>5, <2>2, <2>3
<1> QED BY <1>2, <1>3, <1>4, <1>5 DEF OneAway

\* A distance is a number.
LEMMA DistanceIsNat ==
  ASSUME NEW a \in Seq(Alphabet), NEW b \in Seq(Alphabet)
  PROVE  EditDistance(a, b) \in Nat
<1>1. PICK f : IsDist(f, a, b) /\ EditDistance(a, b) = f[<<Len(a), Len(b)>>]
  BY DistanceIsInTable
<1>2. Len(a) \in 0..Len(a) /\ Len(b) \in 0..Len(b)
  OBVIOUS
<1> QED BY <1>1, <1>2 DEF IsDist

\* A word that is made by some edits is no farther than they are many.
LEMMA AwayIsNear ==
  ASSUME NEW w \in Seq(Alphabet), NEW c, NEW k \in Nat, c \in EditsAway(w, k)
  PROVE  EditDistance(w, c) <= k
<1> DEFINE Bad == {n \in Nat : \E d \in EditsAway(w, n) : ~(EditDistance(w, d) <= n)}
<1>1. SUFFICES ASSUME Bad # {} PROVE FALSE
  OBVIOUS
<1>2. PICK n \in Nat : n \in Bad /\ \A m \in Nat : m < n => m \notin Bad
  BY <1>1, LeastOf
<1>3. PICK d \in EditsAway(w, n) : ~(EditDistance(w, d) <= n)
  BY <1>2
<1>4. CASE n = 0
  <2>1. d = w
    BY <1>3, <1>4, AwayGrows
  <2>2. PICK f : IsDist(f, w, w) /\ EditDistance(w, w) = f[<<Len(w), Len(w)>>]
    BY DistanceIsInTable
  <2>3. EditDistance(w, w) = 0
    BY <2>2, NoDistance
  <2> QED BY <1>3, <1>4, <2>1, <2>3
<1>5. CASE n # 0
  <2>1. PICK m \in Nat : m + 1 = n /\ m < n
    <3>1. n - 1 \in Nat /\ (n - 1) + 1 = n /\ n - 1 < n
      BY <1>5
    <3> QED BY <3>1
  <2>2. PICK e \in EditsAway(w, m) : d \in NearWords(e)
    BY <1>3, <2>1, NextWordsAre
  <2>3. e \in Seq(Alphabet)
    BY <2>2, AwayAreWords
  <2>4. d \in Seq(Alphabet) /\ OneAway(d, e)
    BY <2>2, <2>3, NearWordsAre
  <2>5. EditDistance(w, e) <= m
    BY <1>2, <2>1, <2>2
  <2>6. PICK f : IsDist(f, w, e) /\ EditDistance(w, e) = f[<<Len(w), Len(e)>>]
    BY <2>3, DistanceIsInTable
  <2>7. PICK g : IsDist(g, w, d) /\ EditDistance(w, d) = g[<<Len(w), Len(d)>>]
    BY <2>4, DistanceIsInTable
  <2>8. EditDistance(w, d) <= EditDistance(w, e) + 1
    BY <2>3, <2>4, <2>6, <2>7, OneEditIsOne
  <2>9. EditDistance(w, d) \in Nat /\ EditDistance(w, e) \in Nat
    BY <2>3, <2>4, DistanceIsNat
  <2> QED BY <1>3, <2>1, <2>5, <2>8, <2>9
<1> QED BY <1>4, <1>5

\* The letters of a word with one more at its end.
LEMMA OneMoreAtEnd ==
  ASSUME NEW v \in Seq(Alphabet), NEW x \in Alphabet
  PROVE  /\ Append(v, x) \in Seq(Alphabet) /\ Len(Append(v, x)) = Len(v) + 1
         /\ Append(v, x)[Len(v) + 1] = x /\ \A k \in 1..Len(v) : Append(v, x)[k] = v[k]
         /\ Append(v, x) \in NearWords(v) /\ v \in NearWords(Append(v, x))
<1>1. PICK a : a = Append(v, x)
  OBVIOUS
<1>2. a \in Seq(Alphabet) /\ Len(a) = Len(v) + 1 /\ a[Len(v) + 1] = x /\ \A k \in 1..Len(v) : a[k] = v[k]
  BY <1>1
<1>3. OneMoreAt(a, v, Len(v)) /\ Len(v) \in 0..Len(v)
  BY <1>2 DEF OneMoreAt
<1>4. a \in NearWords(v)
  BY <1>2, <1>3, NearWordsAre DEF OneAway
<1>5. v \in NearWords(a)
  BY <1>2, <1>3, NearWordsAre DEF OneAway
<1> QED BY <1>1, <1>2, <1>4, <1>5

\* What is near stays near with the same letter at the ends.
LEMMA BothLonger ==
  ASSUME NEW v \in Seq(Alphabet), NEW c \in NearWords(v), NEW x \in Alphabet
  PROVE  Append(c, x) \in NearWords(Append(v, x))
<1>1. c \in Seq(Alphabet) /\ OneAway(c, v)
  BY NearWordsAre
<1>2. PICK a, b : a = Append(c, x) /\ b = Append(v, x)
  OBVIOUS
<1>3. PICK m \in Nat, n \in Nat : m = Len(c) /\ n = Len(v)
  BY <1>1
<1>4. /\ a \in Seq(Alphabet) /\ Len(a) = m + 1 /\ a[m + 1] = x /\ \A k \in 1..m : a[k] = c[k]
      /\ b \in Seq(Alphabet) /\ Len(b) = n + 1 /\ b[n + 1] = x /\ \A k \in 1..n : b[k] = v[k]
  BY <1>1, <1>2, <1>3, OneMoreAtEnd
<1>5. OneAway(a, b)
  <2>1. CASE c = v
    BY <1>2, <2>1 DEF OneAway
  <2>2. CASE \E i \in 0..Len(c) : OneMoreAt(v, c, i)
    <3>1. PICK i \in 0..m : OneMoreAt(v, c, i)
      BY <2>2, <1>3
    <3>2. n = m + 1
      BY <3>1, <1>3 DEF OneMoreAt
    <3>3. ASSUME NEW k \in 1..i PROVE b[k] = a[k]
      <4>1. k \in 1..m /\ k \in 1..n
        BY <3>2
      <4> QED BY <4>1, <3>1, <1>4 DEF OneMoreAt
    <3>4. ASSUME NEW k \in (i + 1)..(m + 1) PROVE b[k + 1] = a[k]
      <4>1. CASE k = m + 1
        BY <4>1, <3>2, <1>4
      <4>2. CASE k # m + 1
        <5>1. k \in 1..m /\ k + 1 \in 1..n /\ k \in (i + 1)..m
          BY <4>2, <3>2
        <5>2. v[k + 1] = c[k]
          BY <5>1, <3>1, <1>3 DEF OneMoreAt
        <5> QED BY <5>1, <5>2, <1>4
      <4> QED BY <4>1, <4>2
    <3>5. OneMoreAt(b, a, i) /\ i \in 0..Len(a)
      BY <3>2, <3>3, <3>4, <1>4 DEF OneMoreAt
    <3> QED BY <3>5 DEF OneAway
  <2>3. CASE \E i \in 0..Len(v) : OneMoreAt(c, v, i)
    <3>1. PICK i \in 0..n : OneMoreAt(c, v, i)
      BY <2>3, <1>3
    <3>2. m = n + 1
      BY <3>1, <1>3 DEF OneMoreAt
    <3>3. ASSUME NEW k \in 1..i PROVE a[k] = b[k]
      <4>1. k \in 1..m /\ k \in 1..n
        BY <3>2
      <4> QED BY <4>1, <3>1, <1>4 DEF OneMoreAt
    <3>4. ASSUME NEW k \in (i + 1)..(n + 1) PROVE a[k + 1] = b[k]
      <4>1. CASE k = n + 1
        BY <4>1, <3>2, <1>4
      <4>2. CASE k # n + 1
        <5>1. k \in 1..n /\ k + 1 \in 1..m /\ k \in (i + 1)..n
          BY <4>2, <3>2
        <5>2. c[k + 1] = v[k]
          BY <5>1, <3>1, <1>3 DEF OneMoreAt
        <5> QED BY <5>1, <5>2, <1>4
      <4> QED BY <4>1, <4>2
    <3>5. OneMoreAt(a, b, i) /\ i \in 0..Len(b)
      BY <3>2, <3>3, <3>4, <1>4 DEF OneMoreAt
    <3> QED BY <3>5 DEF OneAway
  <2>4. CASE \E i \in 1..Len(v) : OneOtherAt(c, v, i)
    <3>1. PICK i \in 1..n : OneOtherAt(c, v, i)
      BY <2>4, <1>3
    <3>2. m = n
      BY <3>1, <1>3 DEF OneOtherAt
    <3>3. ASSUME NEW k \in 1..(n + 1), k # i PROVE a[k] = b[k]
      <4>1. CASE k = n + 1
        BY <4>1, <3>2, <1>4
      <4>2. CASE k # n + 1
        <5>1. k \in 1..n /\ k \in 1..m
          BY <4>2, <3>2
        <5>2. c[k] = v[k]
          BY <5>1, <3>1, <3>3, <1>3 DEF OneOtherAt
        <5> QED BY <5>1, <5>2, <1>4
      <4> QED BY <4>1, <4>2
    <3>4. OneOtherAt(a, b, i) /\ i \in 1..Len(b)
      BY <3>2, <3>3, <1>4 DEF OneOtherAt
    <3> QED BY <3>4 DEF OneAway
  <2> QED BY <1>1, <2>1, <2>2, <2>3, <2>4 DEF OneAway
<1> QED BY <1>2, <1>4, <1>5, NearWordsAre

\* So is what is some edits away.
LEMMA BothLongerAway ==
  ASSUME NEW w \in Seq(Alphabet), NEW x \in Alphabet, NEW k \in Nat, NEW c, c \in EditsAway(w, k)
  PROVE  Append(c, x) \in EditsAway(Append(w, x), k)
<1> DEFINE Bad == {n \in Nat : \E d \in EditsAway(w, n) : Append(d, x) \notin EditsAway(Append(w, x), n)}
<1>1. SUFFICES ASSUME Bad # {} PROVE FALSE
  OBVIOUS
<1>2. PICK n \in Nat : n \in Bad /\ \A m \in Nat : m < n => m \notin Bad
  BY <1>1, LeastOf
<1>3. PICK d \in EditsAway(w, n) : Append(d, x) \notin EditsAway(Append(w, x), n)
  BY <1>2
<1>4. CASE n = 0
  BY <1>3, <1>4, AwayGrows
<1>5. CASE n # 0
  <2>1. PICK m \in Nat : m + 1 = n /\ m < n
    <3>1. n - 1 \in Nat /\ (n - 1) + 1 = n /\ n - 1 < n
      BY <1>5
    <3> QED BY <3>1
  <2>2. PICK e \in EditsAway(w, m) : d \in NearWords(e)
    BY <1>3, <2>1, NextWordsAre
  <2>3. e \in Seq(Alphabet)
    BY <2>2, AwayAreWords
  <2>4. Append(d, x) \in NearWords(Append(e, x))
    BY <2>2, <2>3, BothLonger
  <2>5. Append(e, x) \in EditsAway(Append(w, x), m)
    BY <1>2, <2>1, <2>2
  <2>6. Append(d, x) \in EditsAway(Append(w, x), m + 1)
    BY <2>4, <2>5, NextWordsAre
  <2> QED BY <1>3, <2>1, <2>6
<1> QED BY <1>4, <1>5

\* Another letter at the end is an edit.
LEMMA OtherAtEnd ==
  ASSUME NEW v \in Seq(Alphabet), NEW x \in Alphabet, NEW y \in Alphabet
  PROVE  Append(v, y) \in NearWords(Append(v, x))
<1>1. PICK a, b : a = Append(v, x) /\ b = Append(v, y)
  OBVIOUS
<1>2. /\ a \in Seq(Alphabet) /\ Len(a) = Len(v) + 1 /\ \A k \in 1..Len(v) : a[k] = v[k]
      /\ b \in Seq(Alphabet) /\ Len(b) = Len(v) + 1 /\ \A k \in 1..Len(v) : b[k] = v[k]
  BY <1>1, OneMoreAtEnd
<1>3. OneOtherAt(b, a, Len(v) + 1) /\ Len(v) + 1 \in 1..Len(a)
  <2>1. Len(v) \in Nat
    OBVIOUS
  <2>2. \A k \in 1..(Len(v) + 1) : k # Len(v) + 1 => k \in 1..Len(v)
    BY <2>1
  <2> QED BY <2>1, <2>2, <1>2 DEF OneOtherAt
<1> QED BY <1>1, <1>2, <1>3, NearWordsAre DEF OneAway

\* The beginnings of a word.
LEMMA Beginnings ==
  ASSUME NEW w \in Seq(Alphabet)
  PROVE  /\ SubSeq(w, 1, 0) = <<>> /\ SubSeq(w, 1, Len(w)) = w
         /\ \A i \in 0..Len(w) : SubSeq(w, 1, i) \in Seq(Alphabet)
         /\ \A i \in 1..Len(w) : SubSeq(w, 1, i) = Append(SubSeq(w, 1, i - 1), w[i])
<1>1. PICK n \in Nat : n = Len(w)
  OBVIOUS
<1>2. ASSUME NEW i \in 0..n PROVE SubSeq(w, 1, i) \in Seq(Alphabet) /\ Len(SubSeq(w, 1, i)) = i
      /\ \A k \in 1..i : SubSeq(w, 1, i)[k] = w[k]
  BY <1>1
<1>3. ASSUME NEW i \in 1..n PROVE SubSeq(w, 1, i) = Append(SubSeq(w, 1, i - 1), w[i])
  <2>1. i \in 0..n /\ i - 1 \in 0..n /\ w[i] \in Alphabet /\ (i - 1) + 1 = i /\ i \in Nat
    BY <1>1
  <2>2. PICK s, t : s = SubSeq(w, 1, i) /\ t = SubSeq(w, 1, i - 1)
    OBVIOUS
  <2>3. /\ s \in Seq(Alphabet) /\ Len(s) = i /\ \A k \in 1..i : s[k] = w[k]
        /\ t \in Seq(Alphabet) /\ Len(t) = i - 1 /\ \A k \in 1..(i - 1) : t[k] = w[k]
    BY <1>2, <2>1, <2>2
  <2>4. PICK u : u = Append(t, w[i])
    OBVIOUS
  <2>5. /\ u \in Seq(Alphabet) /\ Len(u) = i /\ u[i] = w[i] /\ \A k \in 1..(i - 1) : u[k] = t[k]
    BY <2>1, <2>3, <2>4
  <2>6. \A k \in 1..i : s[k] = u[k]
    <3>1. \A k \in 1..i : k = i \/ k \in 1..(i - 1)
      BY <2>1
    <3> QED BY <3>1, <2>3, <2>5
  <2>7. s = u
    BY <2>3, <2>5, <2>6
  <2> QED BY <2>2, <2>4, <2>7
<1>4. SubSeq(w, 1, Len(w)) = w
  <2>1. PICK s : s = SubSeq(w, 1, n)
    OBVIOUS
  <2>2. n \in 0..n
    OBVIOUS
  <2>3. s \in Seq(Alphabet) /\ Len(s) = n /\ \A k \in 1..n : s[k] = w[k]
    BY <1>2, <2>1, <2>2
  <2>4. s = w
    BY <1>1, <2>3
  <2> QED BY <1>1, <2>1, <2>4
<1>5. SubSeq(w, 1, 0) = <<>>
  OBVIOUS
<1> QED BY <1>1, <1>2, <1>3, <1>4, <1>5

\* The beginning of b of the length j is as many edits from the beginning of a of
\* the length i as the table has in the cell of i and j.
LEMMA CellsAreEdits ==
  ASSUME NEW a \in Seq(Alphabet), NEW b \in Seq(Alphabet), NEW f, IsDist(f, a, b),
         NEW i0 \in 0..Len(a), NEW j0 \in 0..Len(b)
  PROVE  SubSeq(b, 1, j0) \in EditsAway(SubSeq(a, 1, i0), f[<<i0, j0>>])
<1> DEFINE Fine(i, j) == SubSeq(b, 1, j) \in EditsAway(SubSeq(a, 1, i), f[<<i, j>>])
<1>1. PICK m \in Nat, n \in Nat : m = Len(a) /\ n = Len(b)
  OBVIOUS
<1>2. PICK Bad : Bad = {p \in (0..m) \X (0..n) : ~Fine(p[1], p[2])}
  OBVIOUS
<1>3. \A k \in 0..m, l \in 0..n : <<k, l>> \in Bad <=> ~Fine(k, l)
  BY <1>2
<1>4. SUFFICES ASSUME Bad # {} PROVE FALSE
  BY <1>1, <1>3
<1>b. Bad \in SUBSET ((0..m) \X (0..n))
  BY <1>2
<1>5. PICK i \in 0..m, j \in 0..n :
        /\ <<i, j>> \in Bad
        /\ \A k \in 0..m, l \in 0..n : k + l < i + j => <<k, l>> \notin Bad
  BY <1>b, <1>4, FirstBadCell
<1>6. ~Fine(i, j)
  BY <1>3, <1>5
<1>7. ASSUME NEW k \in 0..m, NEW l \in 0..n, k + l < i + j PROVE Fine(k, l)
  <2> HIDE DEF Fine
  <2> QED BY <1>3, <1>5, <1>7
<1>8. ASSUME NEW k \in 0..m, NEW l \in 0..n PROVE f[<<k, l>>] \in Nat
  BY <1>1 DEF IsDist
<1>9. ASSUME i # 0, f[<<i, j>>] = f[<<i - 1, j>>] + 1 PROVE FALSE
  <2>1. i - 1 \in 0..m /\ (i - 1) + j < i + j /\ i \in 1..Len(a) /\ i - 1 \in 0..Len(a)
    BY <1>1, <1>9
  <2>2. PICK c, v, w : c = SubSeq(b, 1, j) /\ v = SubSeq(a, 1, i - 1) /\ w = SubSeq(a, 1, i)
    OBVIOUS
  <2>3. PICK k \in Nat : k = f[<<i - 1, j>>]
    BY <2>1, <1>8
  <2>4. c \in EditsAway(v, k)
    BY <2>1, <2>2, <2>3, <1>7
  <2>5. w = Append(v, a[i]) /\ v \in Seq(Alphabet) /\ w \in Seq(Alphabet) /\ a[i] \in Alphabet
    BY <2>1, <2>2, <1>1, Beginnings
  <2>6. v \in NearWords(w)
    BY <2>5, OneMoreAtEnd
  <2>7. c \in EditsAway(w, k + 1)
    BY <2>4, <2>5, <2>6, AwayFirst
  <2> QED BY <2>2, <2>3, <2>7, <1>6, <1>9
<1>10. ASSUME j # 0, f[<<i, j>>] = f[<<i, j - 1>>] + 1 PROVE FALSE
  <2>1. j - 1 \in 0..n /\ i + (j - 1) < i + j /\ j \in 1..Len(b) /\ j - 1 \in 0..Len(b)
    BY <1>1, <1>10
  <2>2. PICK c, v, w : c = SubSeq(b, 1, j) /\ v = SubSeq(b, 1, j - 1) /\ w = SubSeq(a, 1, i)
    OBVIOUS
  <2>3. PICK k \in Nat : k = f[<<i, j - 1>>]
    BY <2>1, <1>8
  <2>4. v \in EditsAway(w, k)
    BY <2>1, <2>2, <2>3, <1>7
  <2>5. c = Append(v, b[j]) /\ v \in Seq(Alphabet) /\ b[j] \in Alphabet
    BY <2>1, <2>2, <1>1, Beginnings
  <2>6. c \in NearWords(v)
    BY <2>5, OneMoreAtEnd
  <2>7. c \in EditsAway(w, k + 1)
    BY <2>4, <2>6, NextWordsAre
  <2> QED BY <2>2, <2>3, <2>7, <1>6, <1>10
<1>11. ASSUME i # 0, j # 0,
              \/ f[<<i, j>>] = f[<<i - 1, j - 1>>] + 1
              \/ a[i] = b[j] /\ f[<<i, j>>] = f[<<i - 1, j - 1>>]
       PROVE  FALSE
  <2>1. /\ i - 1 \in 0..m /\ j - 1 \in 0..n /\ (i - 1) + (j - 1) < i + j
        /\ i \in 1..Len(a) /\ j \in 1..Len(b) /\ i - 1 \in 0..Len(a) /\ j - 1 \in 0..Len(b)
    BY <1>1, <1>11
  <2>2. PICK c, d, v, w : /\ c = SubSeq(b, 1, j) /\ d = SubSeq(b, 1, j - 1)
                          /\ v = SubSeq(a, 1, i - 1) /\ w = SubSeq(a, 1, i)
    OBVIOUS
  <2>3. PICK k \in Nat : k = f[<<i - 1, j - 1>>]
    BY <2>1, <1>8
  <2>4. d \in EditsAway(v, k)
    BY <2>1, <2>2, <2>3, <1>7
  <2>a. c = Append(d, b[j]) /\ d \in Seq(Alphabet) /\ b[j] \in Alphabet
    BY <2>1, <2>2, <1>1, Beginnings
  <2>b. w = Append(v, a[i]) /\ v \in Seq(Alphabet) /\ a[i] \in Alphabet
    BY <2>1, <2>2, <1>1, Beginnings
  <2>5. /\ c = Append(d, b[j]) /\ d \in Seq(Alphabet) /\ b[j] \in Alphabet
        /\ w = Append(v, a[i]) /\ v \in Seq(Alphabet) /\ a[i] \in Alphabet
    BY <2>a, <2>b
  <2>6. Append(d, a[i]) \in EditsAway(w, k)
    BY <2>4, <2>5, BothLongerAway
  <2>7. c \in EditsAway(w, k + 1)
    <3>1. c \in NearWords(Append(d, a[i]))
      BY <2>5, OtherAtEnd
    <3> QED BY <2>6, <3>1, NextWordsAre
  <2>8. CASE f[<<i, j>>] = f[<<i - 1, j - 1>>] + 1
    BY <2>2, <2>3, <2>7, <2>8, <1>6
  <2>9. CASE a[i] = b[j] /\ f[<<i, j>>] = f[<<i - 1, j - 1>>]
    BY <2>2, <2>3, <2>5, <2>6, <2>9, <1>6
  <2> QED BY <2>8, <2>9, <1>11
<1>12. CASE i = 0 /\ j = 0
  <2>1. SubSeq(b, 1, j) = <<>> /\ SubSeq(a, 1, i) = <<>>
    BY <1>12, Beginnings
  <2>2. f[<<i, j>>] = 0
    <3>1. 0 \in 0..Len(b)
      OBVIOUS
    <3> QED BY <3>1, <1>12 DEF IsDist
  <2> QED BY <2>1, <2>2, <1>6, AwayGrows
<1>13. CASE i = 0 /\ j # 0
  <2>1. j \in 0..Len(b) /\ j - 1 \in 0..Len(b)
    BY <1>1, <1>13
  <2>2. f[<<i, j>>] = j /\ f[<<i, j - 1>>] = j - 1
    BY <2>1, <1>13 DEF IsDist
  <2>3. f[<<i, j>>] = f[<<i, j - 1>>] + 1
    BY <2>1, <2>2
  <2> QED BY <2>3, <1>10, <1>13
<1>14. CASE i # 0 /\ j = 0
  <2>1. i \in 0..Len(a) /\ i - 1 \in 0..Len(a)
    BY <1>1, <1>14
  <2>2. f[<<i, j>>] = i /\ f[<<i - 1, j>>] = i - 1
    BY <2>1, <1>14 DEF IsDist
  <2>3. f[<<i, j>>] = f[<<i - 1, j>>] + 1
    BY <2>1, <2>2
  <2> QED BY <2>3, <1>9, <1>14
<1>15. CASE i # 0 /\ j # 0
  <2>1. i \in 1..Len(a) /\ j \in 1..Len(b)
    BY <1>1, <1>15
  <2>2. \/ f[<<i, j>>] = f[<<i - 1, j>>] + 1 \/ f[<<i, j>>] = f[<<i, j - 1>>] + 1
        \/ f[<<i, j>>] = f[<<i - 1, j - 1>>] + 1
        \/ a[i] = b[j] /\ f[<<i, j>>] = f[<<i - 1, j - 1>>]
    BY <2>1 DEF IsDist
  <2> HIDE DEF Fine
  <2> QED BY <2>2, <1>9, <1>10, <1>11, <1>15
<1> QED BY <1>12, <1>13, <1>14, <1>15

\* The distance of two words is the fewest edits there are between them, and the
\* same both ways.
LEMMA DistanceIsFewest ==
  ASSUME NEW a \in Seq(Alphabet), NEW b \in Seq(Alphabet)
  PROVE  /\ EditDistance(a, b) = EditDistance(b, a)
         /\ \A k \in Nat : b \in EditsAway(a, k) <=> EditDistance(a, b) <= k
<1>1. PICK f : IsDist(f, a, b) /\ EditDistance(a, b) = f[<<Len(a), Len(b)>>]
  BY DistanceIsInTable
<1>2. PICK g : IsDist(g, b, a) /\ EditDistance(b, a) = g[<<Len(b), Len(a)>>]
  BY DistanceIsInTable
<1>3. Len(a) \in 0..Len(a) /\ Len(b) \in 0..Len(b)
  OBVIOUS
<1>4. f[<<Len(a), Len(b)>>] = g[<<Len(b), Len(a)>>]
  BY <1>1, <1>2, <1>3, TablesTurn
<1>5. SubSeq(b, 1, Len(b)) \in EditsAway(SubSeq(a, 1, Len(a)), f[<<Len(a), Len(b)>>])
  BY <1>1, <1>3, CellsAreEdits
<1>6. b \in EditsAway(a, EditDistance(a, b))
  BY <1>1, <1>5, Beginnings
<1>7. EditDistance(a, b) \in Nat
  BY DistanceIsNat
<1>8. ASSUME NEW k \in Nat, EditDistance(a, b) <= k PROVE b \in EditsAway(a, k)
  BY <1>6, <1>7, <1>8, AwayIsInMore
<1>9. ASSUME NEW k \in Nat, b \in EditsAway(a, k) PROVE EditDistance(a, b) <= k
  BY <1>9, AwayIsNear
<1> QED BY <1>1, <1>2, <1>4, <1>8, <1>9

\* What one edit of the checker makes of a word is a word.
LEMMA EditsAreWords ==
  ASSUME NEW w \in Seq(Alphabet)
  PROVE  Edits1(w) \subseteq Seq(Alphabet)
<1>1. ASSUME NEW c \in Transposes(w) PROVE c \in Seq(Alphabet)
  <2>1. PICK i \in 1..(Len(w) - 1) : c = [w EXCEPT ![i] = w[i + 1], ![i + 1] = w[i]]
    BY DEF Transposes
  <2>2. i \in 1..Len(w) /\ i + 1 \in 1..Len(w)
    OBVIOUS
  <2>3. w[i] \in Alphabet /\ w[i + 1] \in Alphabet
    BY <2>2
  <2>4. [w EXCEPT ![i] = w[i + 1]] \in Seq(Alphabet)
    BY <2>3
  <2> QED BY <2>1, <2>3, <2>4
<1>2. ASSUME NEW c \in Deletes(w) \cup Replaces(w) \cup Inserts(w) PROVE c \in Seq(Alphabet)
  BY NearWordsAre DEF NearWords
<1> QED BY <1>1, <1>2 DEF Edits1

\* A correction is the word itself, or an unknown word's neighbour in the
\* dictionary.
LEMMA CorrectionsAreKnown ==
  ASSUME NEW w \in Seq(Alphabet), NEW c \in Corrections(w)
  PROVE  c = w \/ (c \in Seq(Alphabet) /\ Known(c) /\ ~Known(w))
<1>1. Edits1(w) \subseteq Seq(Alphabet)
  BY EditsAreWords
<1>2. Edits2(w) \subseteq Seq(Alphabet)
  BY <1>1, EditsAreWords DEF Edits2
<1>3. \A S : Best(w, S) \subseteq S \cap DOMAIN Frequency
  BY DEF Best
<1> QED BY <1>1, <1>2, <1>3 DEF Corrections, Known

\* There is one correction.
LEMMA CorrectionIsOne ==
  ASSUME NEW w, NEW c \in Corrections(w), NEW d \in Corrections(w)
  PROVE  c = d
<1>1. ASSUME NEW S, NEW x \in Best(w, S), NEW y \in Best(w, S) PROVE x = y
  <2> DEFINE known == S \cap DOMAIN Frequency
             best == {v \in known : \A u \in known : Frequency[u] <= Frequency[v]}
             first == CHOOSE pair \in {w} \X best : TRUE
  <2>1. Best(w, S) = {v \in best : <<w, v>> = first}
    BY DEF Best
  <2> HIDE DEF first
  <2>2. <<w, x>> = first /\ <<w, y>> = first
    BY <2>1
  <2> QED BY <2>2
<1> QED BY <1>1 DEF Corrections

\* A text that was checked once has words that are passed over, and words the
\* checker leaves alone.
SpellingInv ==
    /\ SpellingTypeOK /\ ReplacementsAreNear /\ CheckingTwiceIsOnce
    /\ passes = 0 => before = token
    /\ passes = 1 => token \in Skipped \/ Accepted(token) = {token}

\* What was accepted is accepted as it is from then on.
LEMMA AcceptedStays ==
  ASSUME NEW w \in Seq(Alphabet), NEW c \in Accepted(w)
  PROVE  Accepted(c) = {c}
<1>1. PICK d \in Corrections(w) : c = IF EditDistance(w, d) > MaxEdits(w) THEN w ELSE d
  BY DEF Accepted
<1>2. CASE c = w
  <2>1. \A e \in Corrections(w) : e = d
    BY CorrectionIsOne
  <2>2. Accepted(w) = {c}
    BY <1>1, <2>1 DEF Accepted
  <2> QED BY <1>2, <2>2
<1>3. CASE c # w
  <2>1. c = d /\ Known(c)
    BY <1>1, <1>3, CorrectionsAreKnown
  <2>2. Corrections(c) = {c}
    BY <2>1 DEF Corrections
  <2> QED BY <2>2 DEF Accepted
<1> QED BY <1>2, <1>3

\* A check leaves a word, or replaces it by a near one that stays.
LEMMA SpellcheckStep ==
  ASSUME SpellingInv, Spellcheck
  PROVE  SpellingInv'
<1>1. token \in Seq(Alphabet) \ {<<>>} /\ passes \in 0..1 /\ passes' = passes + 1 /\ before' = token
  BY DEF SpellingInv, SpellingTypeOK, Spellcheck
<1>2. CASE token \in Skipped
  <2>1. token' = token
    BY <1>2 DEF Spellcheck
  <2> QED BY <1>1, <1>2, <2>1 DEF SpellingInv, SpellingTypeOK, ReplacementsAreNear, CheckingTwiceIsOnce
<1>3. CASE token \notin Skipped
  <2>1. token' \in Accepted(token)
    BY <1>3 DEF Spellcheck
  <2>2. Accepted(token') = {token'}
    BY <1>1, <2>1, AcceptedStays
  <2>3. ASSUME token' # token
        PROVE  /\ token' \in Seq(Alphabet) \ {<<>>} /\ Known(token') /\ ~Known(token)
               /\ token' \in EditsAway(token, MaxEdits(token))
    <3>1. PICK d \in Corrections(token) :
            token' = IF EditDistance(token, d) > MaxEdits(token) THEN token ELSE d
      BY <2>1 DEF Accepted
    <3>2. token' = d /\ ~(EditDistance(token, d) > MaxEdits(token))
      BY <2>3, <3>1
    <3>3. d \in Seq(Alphabet) /\ Known(d) /\ ~Known(token)
      BY <1>1, <2>3, <3>2, CorrectionsAreKnown
    <3>4. MaxEdits(token) \in Nat
      BY DEF MaxEdits
    <3>5. EditDistance(token, d) \in Nat
      BY <1>1, <3>3, DistanceIsNat
    <3>6. d \in EditsAway(token, MaxEdits(token))
      BY <1>1, <3>2, <3>3, <3>4, <3>5, DistanceIsFewest
    <3>7. d # <<>>
      BY <3>3, SpellingAssumption DEF Known
    <3> QED BY <3>2, <3>3, <3>6, <3>7
  <2>4. SpellingTypeOK' /\ ReplacementsAreNear'
    BY <1>1, <2>3 DEF SpellingTypeOK, ReplacementsAreNear, Known
  <2>5. CheckingTwiceIsOnce'
    BY <1>1, <1>3, <2>1 DEF SpellingInv, CheckingTwiceIsOnce
  <2> QED BY <1>1, <2>2, <2>4, <2>5 DEF SpellingInv
<1> QED BY <1>2, <1>3

\* What the checker makes of a word is in the dictionary and near, a second check
\* leaves it alone, and the distance it goes by is the fewest edits
\* (spellcheck.go:58-244).
THEOREM CorrectedTextSettles == SpellingSpec => []CorrectionsSettle
<1>1. SpellingInit => SpellingInv
  <2> SUFFICES ASSUME SpellingInit PROVE SpellingInv
    OBVIOUS
  <2> QED
    BY SpellingAssumption
    DEF SpellingInit, SpellingInv, SpellingTypeOK, ReplacementsAreNear, CheckingTwiceIsOnce
<1>2. SpellingInv /\ [Spellcheck]_spellingVars => SpellingInv'
  <2>1. ASSUME SpellingInv, UNCHANGED spellingVars PROVE SpellingInv'
    BY <2>1 DEF SpellingInv, spellingVars, SpellingTypeOK, ReplacementsAreNear, CheckingTwiceIsOnce,
                Accepted, Corrections, Known
  <2> QED BY <2>1, SpellcheckStep
<1>3. SpellingInv => CorrectionsSettle
  <2> SUFFICES ASSUME SpellingInv PROVE CorrectionsSettle
    OBVIOUS
  <2>1. DistanceIsFewestEdits
    <3>1. token \in Seq(Alphabet) /\ Tokens \subseteq Seq(Alphabet)
      BY SpellingAssumption DEF SpellingInv, SpellingTypeOK
    <3>2. ASSUME NEW k \in 0..2, NEW w \in Tokens
          PROVE  /\ EditDistance(token, w) = EditDistance(w, token)
                 /\ w \in EditsAway(token, k) <=> EditDistance(token, w) <= k
      BY <3>1, DistanceIsFewest
    <3> QED BY <3>2 DEF DistanceIsFewestEdits
  <2> QED BY <2>1 DEF SpellingInv, CorrectionsSettle
<1> QED BY <1>1, <1>2, <1>3, PTL DEF SpellingSpec

-----------------------------------------------------------------------------
(* ScanRules: a pattern that the matcher finds is one that a beginning of  *)
(* the path spells out, so a file is ignored when git ignores it.          *)

Paths == Seq(STRING)
Entries == Directories \cup Files

\* The beginnings of a path.
LEMMA BeginningIs ==
  ASSUME NEW S, NEW q \in Seq(S), NEW k \in 0..Len(q)
  PROVE  SubSeq(q, 1, k) \in Seq(S) /\ Len(SubSeq(q, 1, k)) = k /\ \A i \in 1..k : SubSeq(q, 1, k)[i] = q[i]
<1>1. k \in Nat /\ k <= Len(q)
  OBVIOUS
<1> QED BY <1>1

\* Sequences that agree are the same.
LEMMA SameSequence ==
  ASSUME NEW S, NEW s \in Seq(S), NEW t \in Seq(S), Len(s) = Len(t), \A i \in 1..Len(s) : s[i] = t[i]
  PROVE  s = t
  OBVIOUS

\* The beginning of a beginning is one.
LEMMA BeginningOfBeginning ==
  ASSUME NEW S, NEW q \in Seq(S), NEW k \in 0..Len(q), NEW l \in 0..k
  PROVE  SubSeq(SubSeq(q, 1, k), 1, l) = SubSeq(q, 1, l)
<1>1. PICK s : s = SubSeq(q, 1, k)
  OBVIOUS
<1>2. s \in Seq(S) /\ Len(s) = k /\ (\A i \in 1..k : s[i] = q[i]) /\ l \in 0..Len(s) /\ l \in 0..Len(q)
  BY <1>1, BeginningIs
<1>3. PICK u, v : u = SubSeq(s, 1, l) /\ v = SubSeq(q, 1, l)
  OBVIOUS
<1>4. u \in Seq(S) /\ Len(u) = l /\ \A i \in 1..l : u[i] = s[i]
  BY <1>2, <1>3, BeginningIs
<1>5. v \in Seq(S) /\ Len(v) = l /\ \A i \in 1..l : v[i] = q[i]
  BY <1>2, <1>3, BeginningIs
<1>6. \A i \in 1..l : u[i] = v[i]
  BY <1>2, <1>4, <1>5
<1>7. u = v
  BY <1>4, <1>5, <1>6, SameSequence
<1> QED BY <1>1, <1>3, <1>7

\* A path is whole, and its parent is a beginning.
LEMMA WholePath ==
  ASSUME NEW S, NEW q \in Seq(S)
  PROVE  SubSeq(q, 1, Len(q)) = q
<1>1. Len(q) \in 0..Len(q)
  OBVIOUS
<1> QED BY <1>1, BeginningIs, SameSequence

\* A file or directory is in a directory that is a beginning of its path.
LEMMA IsInDirectory ==
  ASSUME NEW q \in Entries, NEW d \in Entries, IsPrefixOf(d, q), d # q
  PROVE  Len(d) \in 1..(Len(q) - 1) /\ SubSeq(q, 1, Len(d)) = d /\ d \in Directories
<1>1. /\ q \in Seq(STRING) /\ d \in Seq(STRING) /\ d # <<>>
      /\ \A k \in 1..(Len(q) - 1) : SubSeq(q, 1, k) \in Directories
  BY ScanAssumption DEF Entries
<1>2. Len(d) <= Len(q) /\ SubSeq(q, 1, Len(d)) = d
  BY DEF IsPrefixOf
<1>3. Len(d) # Len(q)
  BY <1>1, <1>2, WholePath
<1>4. Len(d) \in 1..(Len(q) - 1)
  BY <1>1, <1>2, <1>3
<1> QED BY <1>1, <1>2, <1>4

\* And what such a directory is in, the file is in too.
LEMMA InnerDirectory ==
  ASSUME NEW q \in Entries, NEW k \in 1..(Len(q) - 1)
  PROVE  /\ SubSeq(q, 1, k) \in Directories /\ SubSeq(q, 1, k) # q /\ Len(SubSeq(q, 1, k)) = k
         /\ IsPrefixOf(SubSeq(q, 1, k), q)
         /\ \A d \in Entries : IsPrefixOf(d, SubSeq(q, 1, k)) => IsPrefixOf(d, q)
<1>1. q \in Seq(STRING) /\ SubSeq(q, 1, k) \in Directories
  BY ScanAssumption DEF Entries
<1>2. k \in 0..Len(q) /\ k < Len(q)
  BY <1>1
<1>3. PICK p : p = SubSeq(q, 1, k)
  OBVIOUS
<1>4. p \in Seq(STRING) /\ Len(p) = k
  BY <1>1, <1>2, <1>3, BeginningIs
<1>5. ASSUME NEW d \in Entries, IsPrefixOf(d, p) PROVE IsPrefixOf(d, q)
  <2>1. d \in Seq(STRING) /\ Len(d) <= k /\ SubSeq(p, 1, Len(d)) = d
    BY <1>4, <1>5, ScanAssumption DEF Entries, IsPrefixOf
  <2>2. Len(d) \in 0..k /\ Len(d) <= Len(q)
    BY <2>1, <1>2
  <2>3. SubSeq(q, 1, Len(d)) = d
    BY <2>1, <2>2, <1>1, <1>2, <1>3, BeginningOfBeginning
  <2> QED BY <2>2, <2>3 DEF IsPrefixOf
<1>6. IsPrefixOf(p, q)
  BY <1>2, <1>3, <1>4 DEF IsPrefixOf
<1>7. p # q
  BY <1>2, <1>4
<1> QED BY <1>1, <1>3, <1>4, <1>5, <1>6, <1>7

\* A directory above the file is skipped.
CutOff(q) == \E k \in 1..(Len(q) - 1) : SkipsDir(SubSeq(q, 1, k))

\* What the walk has passed is what is cut off, and what it took or left.
ScanInv ==
    /\ ScanTypeOK /\ rules \in RuleFiles /\ include \in IncludeLists
    /\ pending # {} => files = {}
    /\ \A q \in pending : \A k \in 1..(Len(q) - 1) :
         SubSeq(q, 1, k) \in pending \/ ~SkipsDir(SubSeq(q, 1, k))
    /\ \A f \in Files \ pending :
         \/ CutOff(f) /\ f \notin files
         \/ pending = {} /\ ~CutOff(f) /\ (f \in files <=> ~SkipsFile(f))

\* The walk has all entries before it.
LEMMA ScanInitInv == ScanInit => ScanInv
<1> SUFFICES ASSUME ScanInit PROVE ScanInv
  OBVIOUS
<1>1. ASSUME NEW q \in pending, NEW k \in 1..(Len(q) - 1) PROVE SubSeq(q, 1, k) \in pending
  BY <1>1, ScanAssumption DEF ScanInit
<1> QED BY <1>1 DEF ScanInit, ScanInv, ScanTypeOK

\* What is cut off leaves with the directory that is skipped.
LEMMA VisitDirectoryStep == ASSUME ScanInv, VisitDirectory PROVE ScanInv'
<1>1. PICK d \in pending \cap Directories :
        pending' = IF SkipsDir(d) THEN {q \in pending : ~IsPrefixOf(d, q)} ELSE pending \ {d}
  BY DEF VisitDirectory
<1>2. UNCHANGED <<rules, include, files>> /\ files = {} /\ pending \subseteq Entries /\ pending' \subseteq pending
  BY <1>1 DEF VisitDirectory, ScanInv, ScanTypeOK, Entries
<1>3. (\A p : SkipsDir(p) <=> SkipsDir(p)') /\ (\A p : CutOff(p) <=> CutOff(p)')
  BY <1>2 DEF SkipsDir, CutOff, IsForceIncluded, IsGitignored, Above
<1>4. ASSUME NEW q \in pending', NEW k \in 1..(Len(q) - 1)
      PROVE  SubSeq(q, 1, k) \in pending' \/ ~SkipsDir(SubSeq(q, 1, k))
  <2>1. PICK e : e = SubSeq(q, 1, k)
    OBVIOUS
  <2>2. q \in pending /\ q \in Entries
    BY <1>2
  <2>3. e \in pending \/ ~SkipsDir(e)
    BY <2>1, <2>2 DEF ScanInv
  <2>4. IsPrefixOf(d, e) => IsPrefixOf(d, q)
    BY <2>1, <2>2, InnerDirectory DEF Entries
  <2> QED BY <2>1, <2>2, <2>3, <2>4, <1>1
<1>5. ASSUME NEW f \in Files \ pending' PROVE CutOff(f)
  <2>1. CASE f \notin pending
    BY <2>1, <1>1 DEF ScanInv
  <2>2. CASE f \in pending
    <3>1. f # d /\ f \in Entries /\ d \in Entries
      BY ScanAssumption DEF Entries
    <3>2. SkipsDir(d) /\ IsPrefixOf(d, f)
      BY <3>1, <2>2, <1>1, <1>5
    <3>3. Len(d) \in 1..(Len(f) - 1) /\ SubSeq(f, 1, Len(d)) = d
      BY <3>1, <3>2, IsInDirectory
    <3> QED BY <3>2, <3>3 DEF CutOff
  <2> QED BY <2>1, <2>2
<1>6. ScanTypeOK'
  BY <1>2 DEF ScanInv, ScanTypeOK
<1>7. rules' \in RuleFiles /\ include' \in IncludeLists /\ files' = {}
  BY <1>2 DEF ScanInv
<1> QED BY <1>3, <1>4, <1>5, <1>6, <1>7 DEF ScanInv

\* What is left is in no directory that is skipped.
LEMMA VisitFilesStep == ASSUME ScanInv, VisitFiles PROVE ScanInv'
<1>1. /\ pending # {} /\ pending \subseteq Files /\ files' = {f \in pending : ~SkipsFile(f)} /\ pending' = {}
      /\ UNCHANGED <<rules, include>>
  BY DEF VisitFiles
<1>2. \A p : /\ (SkipsDir(p) <=> SkipsDir(p)')
             /\ (CutOff(p) <=> CutOff(p)')
             /\ (SkipsFile(p) <=> SkipsFile(p)')
  BY <1>1 DEF SkipsDir, SkipsFile, CutOff, IsForceIncluded, IsGitignored, Above
<1>3. ASSUME NEW f \in pending PROVE ~CutOff(f)
  <2>1. SUFFICES ASSUME NEW k \in 1..(Len(f) - 1) PROVE ~SkipsDir(SubSeq(f, 1, k))
    BY DEF CutOff
  <2>2. SubSeq(f, 1, k) \in Directories
    BY <1>1, InnerDirectory DEF Entries
  <2>3. SubSeq(f, 1, k) \notin pending
    BY <2>2, <1>1, ScanAssumption
  <2> QED BY <2>3 DEF ScanInv
<1>4. ASSUME NEW f \in Files
      PROVE  \/ CutOff(f) /\ f \notin files'
             \/ ~CutOff(f) /\ (f \in files' <=> ~SkipsFile(f))
  <2>1. CASE f \in pending
    BY <2>1, <1>1, <1>3
  <2>2. CASE f \notin pending
    <3>1. CutOff(f)
      BY <2>2, <1>1 DEF ScanInv
    <3> QED BY <3>1, <2>2, <1>1
  <2> QED BY <2>1, <2>2
<1>5. ScanTypeOK'
  BY <1>1 DEF ScanTypeOK
<1> QED BY <1>1, <1>2, <1>4, <1>5 DEF ScanInv

\* What was asked for is not skipped, and nor is what it is in.
LEMMA IncludedStay ==
  ASSUME ScanInv, pending = {}
  PROVE  (include \cap Files) \ Unfit \subseteq files
<1> SUFFICES ASSUME NEW f \in (include \cap Files) \ Unfit PROVE f \in files
  OBVIOUS
<1>1. f \in Entries /\ f \in Seq(STRING)
  BY ScanAssumption DEF Entries
<1>2. IsPrefixOf(f, f)
  BY <1>1, WholePath DEF IsPrefixOf
<1>3. ~SkipsFile(f)
  BY <1>2 DEF SkipsFile, IsForceIncluded
<1>4. ~CutOff(f)
  <2>1. SUFFICES ASSUME NEW k \in 1..(Len(f) - 1) PROVE ~SkipsDir(SubSeq(f, 1, k))
    BY DEF CutOff
  <2>2. IsPrefixOf(SubSeq(f, 1, k), f)
    BY <1>1, InnerDirectory
  <2> QED BY <2>2 DEF SkipsDir, IsForceIncluded
<1> QED BY <1>3, <1>4 DEF ScanInv

\* So the files found are those the rules and the lists let through.
LEMMA WhatIsFound ==
  ASSUME ScanInv, pending = {}
  PROVE  files = {f \in Files : ~CutOff(f) /\ ~SkipsFile(f)}
<1>1. files \subseteq Files
  BY DEF ScanInv, ScanTypeOK
<1>2. \A f \in Files : f \in files <=> ~CutOff(f) /\ ~SkipsFile(f)
  BY DEF ScanInv
<1> QED BY <1>1, <1>2
\* One segment of a pattern, laid on names.
IsOnNames(t, p, reach, k) ==
    \/ p[k] = "**" /\ reach[k] <= reach[k + 1]
    \/ p[k] # "**" /\ reach[k + 1] = reach[k] + 1 /\ Fits(p[k], t[reach[k + 1]])

\* The pattern from segment pi on, laid on the names from ti on: it may end
\* before they do.
IsLaid(t, p, reach, ti, pi) ==
    /\ reach \in [1..(Len(p) + 1) -> 0..Len(t)] /\ reach[pi] = ti - 1
    /\ \A k \in pi..Len(p) : IsOnNames(t, p, reach, k)

CanLay(t, p, ti, pi) == \E reach : IsLaid(t, p, reach, ti, pi)

\* A pattern never goes back.
LEMMA LaidGoesOn ==
  ASSUME NEW t \in Seq(STRING), NEW p \in Seq(STRING), NEW reach \in [1..(Len(p) + 1) -> 0..Len(t)],
         NEW k \in 1..(Len(p) + 1), NEW l \in k..(Len(p) + 1),
         \A j \in k..Len(p) : IsOnNames(t, p, reach, j)
  PROVE  reach[k] <= reach[l]
<1>1. PICK m, n \in Nat : m = Len(p) /\ n = Len(t)
  OBVIOUS
<1>2. PICK Bad : Bad = {j \in Nat : j \in k..(m + 1) /\ reach[j] < reach[k]}
  OBVIOUS
<1>3. SUFFICES ASSUME Bad # {} PROVE FALSE
  <2>1. l \in Nat /\ reach[l] \in Nat /\ reach[k] \in Nat
    BY <1>1
  <2> QED BY <2>1, <1>1, <1>2
<1>4. Bad \in SUBSET Nat
  BY <1>2
<1>5. PICK j \in Bad : \A i \in Nat : i < j => i \notin Bad
  BY <1>3, <1>4, LeastOf
<1>6. j \in k..(m + 1) /\ reach[j] < reach[k] /\ j # k /\ j \in Nat
  BY <1>1, <1>2, <1>5
<1>7. j - 1 \in k..m /\ j - 1 \in Nat /\ (j - 1) + 1 = j /\ j - 1 < j
  BY <1>1, <1>6
<1>8. PICK i : i = j - 1
  OBVIOUS
<1>9. i \in k..m /\ i \in Nat /\ i + 1 = j /\ i \notin Bad
  BY <1>5, <1>7, <1>8
<1>a. i \in 1..(m + 1) /\ j \in 1..(m + 1) /\ k \in 1..(m + 1)
  BY <1>1, <1>6, <1>9
<1>b. reach \in [1..(m + 1) -> 0..n]
  BY <1>1
<1>10. reach[i] \in 0..n /\ reach[j] \in 0..n /\ reach[k] \in 0..n
  BY <1>a, <1>b
<1>11. ~(reach[i] < reach[k])
  BY <1>2, <1>9, <1>1
<1>c. IsOnNames(t, p, reach, i)
  BY <1>9, <1>1
<1>12. reach[i] <= reach[j]
  BY <1>9, <1>10, <1>c, <1>1 DEF IsOnNames
<1> QED BY <1>6, <1>10, <1>11, <1>12

\* To lay one segment more.
LEMMA LayOneMore ==
  ASSUME NEW t \in Seq(STRING), NEW p \in Seq(STRING), NEW pi \in 1..Len(p), NEW r,
         NEW q \in {pi, pi + 1}, NEW x \in 1..(Len(t) + 1), NEW ti \in 1..x, IsLaid(t, p, r, x, q),
         \/ p[pi] = "**"
         \/ q = pi + 1 /\ p[pi] # "**" /\ x = ti + 1 /\ Fits(p[pi], t[ti])
  PROVE  CanLay(t, p, ti, pi)
<1>1. PICK m, n \in Nat : m = Len(p) /\ n = Len(t)
  OBVIOUS
<1>2. PICK s : s = [r EXCEPT ![pi] = ti - 1]
  OBVIOUS
<1>3. /\ r \in [1..(m + 1) -> 0..n] /\ r[q] = x - 1 /\ \A k \in q..m : IsOnNames(t, p, r, k)
      /\ pi \in 1..m /\ x \in 1..(n + 1)
  BY <1>1 DEF IsLaid
<1>4. s \in [1..(m + 1) -> 0..n] /\ s[pi] = ti - 1 /\ \A k \in 1..(m + 1) : k # pi => s[k] = r[k]
  BY <1>2, <1>3
<1>5. ASSUME NEW k \in (pi + 1)..m PROVE IsOnNames(t, p, s, k)
  <2>1. s[k] = r[k] /\ s[k + 1] = r[k + 1] /\ k \in q..m
    BY <1>3, <1>4
  <2>2. IsOnNames(t, p, r, k)
    BY <2>1, <1>3
  <2> QED BY <2>1, <2>2 DEF IsOnNames
<1>6. IsOnNames(t, p, s, pi)
  <2>1. s[pi + 1] = r[pi + 1] /\ pi + 1 \in 1..(m + 1)
    BY <1>3, <1>4
  <2>2. CASE p[pi] # "**"
    <3>1. s[pi + 1] = ti /\ s[pi] = ti - 1 /\ s[pi + 1] = s[pi] + 1
      BY <2>1, <2>2, <1>3, <1>4
    <3> QED BY <3>1, <2>2 DEF IsOnNames
  <2>3. CASE p[pi] = "**" /\ q = pi + 1
    BY <2>1, <2>3, <1>3, <1>4 DEF IsOnNames
  <2>4. CASE p[pi] = "**" /\ q = pi
    <3>1. IsOnNames(t, p, r, pi)
      BY <2>4, <1>3
    <3>2. r[pi] <= r[pi + 1] /\ r[pi] \in Nat /\ r[pi + 1] \in Nat
      BY <3>1, <2>4, <2>1, <1>3 DEF IsOnNames
    <3> QED BY <3>2, <2>1, <2>4, <1>3, <1>4 DEF IsOnNames
  <2> QED BY <2>2, <2>3, <2>4
<1>7. \A k \in pi..m : IsOnNames(t, p, s, k)
  <2>1. \A k \in pi..m : k = pi \/ k \in (pi + 1)..m
    BY <1>3
  <2> QED BY <2>1, <1>5, <1>6
<1>8. IsLaid(t, p, s, ti, pi)
  BY <1>1, <1>4, <1>7 DEF IsLaid
<1> QED BY <1>8 DEF CanLay

\* A pattern that is laid whole fits.
LEMMA LayAtPatternEnd ==
  ASSUME NEW t \in Seq(STRING), NEW p \in Seq(STRING), NEW ti \in 1..(Len(t) + 1)
  PROVE  CanLay(t, p, ti, Len(p) + 1)
<1>1. PICK m, n \in Nat : m = Len(p) /\ n = Len(t)
  OBVIOUS
<1>2. PICK r : r = [k \in 1..(m + 1) |-> ti - 1]
  OBVIOUS
<1>3. r \in [1..(m + 1) -> 0..n] /\ r[m + 1] = ti - 1
  BY <1>1, <1>2
<1>4. (m + 1)..m = {}
  OBVIOUS
<1> QED BY <1>1, <1>3, <1>4 DEF CanLay, IsLaid

\* Behind the last name only a "**" has something to stand for: nothing.
LEMMA LayAtPathEnd ==
  ASSUME NEW t \in Seq(STRING), NEW p \in Seq(STRING), NEW pi \in 1..Len(p)
  PROVE  CanLay(t, p, Len(t) + 1, pi) <=> \A k \in pi..Len(p) : p[k] = "**"
<1>1. PICK m, n \in Nat : m = Len(p) /\ n = Len(t)
  OBVIOUS
<1>2. ASSUME \A k \in pi..m : p[k] = "**" PROVE CanLay(t, p, n + 1, pi)
  <2>1. PICK r : r = [k \in 1..(m + 1) |-> n]
    OBVIOUS
  <2>2. r \in [1..(m + 1) -> 0..n] /\ r[pi] = n /\ (n + 1) - 1 = n
    BY <2>1, <1>1
  <2>3. \A k \in pi..m : r[k] = n /\ r[k + 1] = n
    BY <2>1, <1>1
  <2>4. \A k \in pi..m : IsOnNames(t, p, r, k)
    BY <2>3, <1>2 DEF IsOnNames
  <2> QED BY <2>2, <2>4, <1>1 DEF CanLay, IsLaid
<1>3. ASSUME CanLay(t, p, n + 1, pi), NEW k \in pi..m PROVE p[k] = "**"
  <2>1. PICK r : IsLaid(t, p, r, n + 1, pi)
    BY <1>3 DEF CanLay
  <2>2. /\ r \in [1..(m + 1) -> 0..n] /\ r[pi] = n /\ \A j \in pi..m : IsOnNames(t, p, r, j)
    BY <2>1, <1>1 DEF IsLaid
  <2>3. k \in pi..(m + 1) /\ pi \in 1..(m + 1) /\ k \in 1..(m + 1) /\ k + 1 \in 1..(m + 1)
    BY <1>1
  <2>4. r[pi] <= r[k]
    BY <2>2, <2>3, <1>1, LaidGoesOn
  <2>5. r[k] \in 0..n /\ r[k + 1] \in 0..n /\ IsOnNames(t, p, r, k)
    BY <2>2, <2>3
  <2>6. r[k + 1] # r[k] + 1
    BY <2>2, <2>4, <2>5
  <2> QED BY <2>5, <2>6 DEF IsOnNames
<1> QED BY <1>1, <1>2, <1>3

\* A "**" stands for nothing, or for a name and what follows.
LEMMA LayStars ==
  ASSUME NEW t \in Seq(STRING), NEW p \in Seq(STRING), NEW pi \in 1..Len(p), NEW ti \in 1..Len(t),
         p[pi] = "**"
  PROVE  CanLay(t, p, ti, pi) <=> CanLay(t, p, ti, pi + 1) \/ CanLay(t, p, ti + 1, pi)
<1>1. PICK m, n \in Nat : m = Len(p) /\ n = Len(t)
  OBVIOUS
<1>2. ASSUME CanLay(t, p, ti, pi + 1) PROVE CanLay(t, p, ti, pi)
  <2>1. PICK r : IsLaid(t, p, r, ti, pi + 1)
    BY <1>2 DEF CanLay
  <2>2. pi + 1 \in {pi, pi + 1} /\ ti \in 1..(Len(t) + 1) /\ ti \in 1..ti
    OBVIOUS
  <2> QED BY <2>1, <2>2, LayOneMore
<1>3. ASSUME CanLay(t, p, ti + 1, pi) PROVE CanLay(t, p, ti, pi)
  <2>1. PICK r : IsLaid(t, p, r, ti + 1, pi)
    BY <1>3 DEF CanLay
  <2>2. pi \in {pi, pi + 1} /\ ti + 1 \in 1..(Len(t) + 1) /\ ti \in 1..(ti + 1)
    OBVIOUS
  <2> QED BY <2>1, <2>2, LayOneMore
<1>4. ASSUME CanLay(t, p, ti, pi), ~CanLay(t, p, ti, pi + 1) PROVE CanLay(t, p, ti + 1, pi)
  <2>1. PICK r : IsLaid(t, p, r, ti, pi)
    BY <1>4 DEF CanLay
  <2>2. /\ r \in [1..(m + 1) -> 0..n] /\ r[pi] = ti - 1 /\ \A j \in pi..m : IsOnNames(t, p, r, j)
    BY <2>1, <1>1 DEF IsLaid
  <2>3. pi \in pi..m /\ pi + 1 \in 1..(m + 1) /\ \A k \in (pi + 1)..m : k \in pi..m
    BY <1>1
  <2>4. r[pi + 1] # ti - 1
    BY <2>2, <2>3, <1>1, <1>4 DEF CanLay, IsLaid
  <2>5. r[pi + 1] >= ti /\ r[pi + 1] \in Nat
    <3>1. IsOnNames(t, p, r, pi)
      BY <2>2, <2>3
    <3>2. r[pi] <= r[pi + 1] /\ r[pi] \in 0..n /\ r[pi + 1] \in 0..n
      BY <3>1, <2>2, <2>3 DEF IsOnNames
    <3> QED BY <3>2, <2>2, <2>4
  <2>6. PICK s : s = [r EXCEPT ![pi] = ti]
    OBVIOUS
  <2>7. s \in [1..(m + 1) -> 0..n] /\ s[pi] = ti /\ \A k \in 1..(m + 1) : k # pi => s[k] = r[k]
    BY <2>2, <2>6, <1>1
  <2>8. ASSUME NEW k \in pi..m PROVE IsOnNames(t, p, s, k)
    <3>1. CASE k = pi
      <4>1. s[pi] <= s[pi + 1]
        BY <2>3, <2>5, <2>7
      <4> QED BY <3>1, <4>1 DEF IsOnNames
    <3>2. CASE k # pi
      <4>1. s[k] = r[k] /\ s[k + 1] = r[k + 1] /\ IsOnNames(t, p, r, k)
        BY <3>2, <2>2, <2>7, <1>1
      <4> QED BY <4>1 DEF IsOnNames
    <3> QED BY <3>1, <3>2
  <2>9. (ti + 1) - 1 = ti
    OBVIOUS
  <2> QED BY <2>7, <2>8, <2>9, <1>1 DEF CanLay, IsLaid
<1> QED BY <1>2, <1>3, <1>4

\* Another segment stands for one name.
LEMMA LayName ==
  ASSUME NEW t \in Seq(STRING), NEW p \in Seq(STRING), NEW pi \in 1..Len(p), NEW ti \in 1..Len(t),
         p[pi] # "**"
  PROVE  CanLay(t, p, ti, pi) <=> Fits(p[pi], t[ti]) /\ CanLay(t, p, ti + 1, pi + 1)
<1>1. PICK m, n \in Nat : m = Len(p) /\ n = Len(t)
  OBVIOUS
<1>2. ASSUME Fits(p[pi], t[ti]), CanLay(t, p, ti + 1, pi + 1) PROVE CanLay(t, p, ti, pi)
  <2>1. PICK r : IsLaid(t, p, r, ti + 1, pi + 1)
    BY <1>2 DEF CanLay
  <2>2. pi + 1 \in {pi, pi + 1} /\ ti + 1 \in 1..(Len(t) + 1) /\ ti \in 1..(ti + 1)
    OBVIOUS
  <2> QED BY <2>1, <2>2, <1>2, LayOneMore
<1>3. ASSUME CanLay(t, p, ti, pi) PROVE Fits(p[pi], t[ti]) /\ CanLay(t, p, ti + 1, pi + 1)
  <2>1. PICK r : IsLaid(t, p, r, ti, pi)
    BY <1>3 DEF CanLay
  <2>2. /\ r \in [1..(m + 1) -> 0..n] /\ r[pi] = ti - 1 /\ \A j \in pi..m : IsOnNames(t, p, r, j)
    BY <2>1, <1>1 DEF IsLaid
  <2>3. pi \in pi..m /\ pi + 1 \in 1..(m + 1) /\ \A k \in (pi + 1)..m : k \in pi..m
    BY <1>1
  <2>4. IsOnNames(t, p, r, pi)
    BY <2>2, <2>3
  <2>5. r[pi + 1] = ti /\ Fits(p[pi], t[ti])
    BY <2>2, <2>4 DEF IsOnNames
  <2>6. (ti + 1) - 1 = ti
    OBVIOUS
  <2> QED BY <2>2, <2>3, <2>5, <2>6, <1>1 DEF CanLay, IsLaid
<1> QED BY <1>2, <1>3

\* A table of the matcher, and one cell of it.
Spots(t, p) == (1..(Len(t) + 1)) \X (1..(Len(p) + 1))
Spot(f, t, p, ti, pi) ==
    IF pi > Len(p) THEN TRUE
    ELSE IF ti > Len(t) THEN \A k \in pi..Len(p) : p[k] = "**"
    ELSE IF p[pi] = "**" THEN f[<<ti, pi + 1>>] \/ f[<<ti + 1, pi>>]
    ELSE Fits(p[pi], t[ti]) /\ f[<<ti + 1, pi + 1>>]
IsMatch(f, t, p) == f = [c \in Spots(t, p) |-> Spot(f, t, p, c[1], c[2])]

\* Where a pattern can be laid is such a table.
LEMMA MatchTableIs ==
  ASSUME NEW t \in Seq(STRING), NEW p \in Seq(STRING)
  PROVE  \E f : IsMatch(f, t, p)
<1>1. PICK m, n \in Nat : m = Len(p) /\ n = Len(t)
  OBVIOUS
<1>2. PICK f : f = [c \in Spots(t, p) |-> CanLay(t, p, c[1], c[2])]
  OBVIOUS
<1>3. ASSUME NEW c \in Spots(t, p) PROVE CanLay(t, p, c[1], c[2]) = Spot(f, t, p, c[1], c[2])
  <2>1. PICK ti \in 1..(n + 1), pi \in 1..(m + 1) : c = <<ti, pi>>
    BY <1>1 DEF Spots
  <2>2. \A x \in 1..(n + 1), y \in 1..(m + 1) : f[<<x, y>>] = CanLay(t, p, x, y)
    BY <1>1, <1>2 DEF Spots
  <2>3. CASE pi > m
    <3>1. pi = Len(p) + 1 /\ ti \in 1..(Len(t) + 1)
      BY <2>3, <1>1
    <3>2. CanLay(t, p, ti, pi)
      BY <3>1, LayAtPatternEnd
    <3>3. Spot(f, t, p, ti, pi)
      BY <3>1, <2>3, <1>1 DEF Spot
    <3> QED BY <3>2, <3>3, <2>1 DEF CanLay, Spot
  <2>4. CASE pi <= m /\ ti > n
    <3>1. ti = Len(t) + 1 /\ pi \in 1..Len(p) /\ ti > Len(t) /\ ~(pi > Len(p))
      BY <2>4, <1>1
    <3>2. CanLay(t, p, ti, pi) <=> \A k \in pi..Len(p) : p[k] = "**"
      BY <3>1, LayAtPathEnd
    <3>3. Spot(f, t, p, ti, pi) <=> \A k \in pi..Len(p) : p[k] = "**"
      BY <3>1 DEF Spot
    <3>4. Spot(f, t, p, ti, pi) \in BOOLEAN /\ CanLay(t, p, ti, pi) \in BOOLEAN
      BY <3>1 DEF Spot, CanLay
    <3> QED BY <3>2, <3>3, <3>4, <2>1
  <2>5. CASE pi <= m /\ ti <= n
    <3>1. /\ ti \in 1..Len(t) /\ pi \in 1..Len(p) /\ ~(ti > Len(t)) /\ ~(pi > Len(p))
          /\ ti + 1 \in 1..(n + 1) /\ pi + 1 \in 1..(m + 1)
      BY <2>5, <1>1
    <3>2. CASE p[pi] = "**"
      <4>1. CanLay(t, p, ti, pi) <=> CanLay(t, p, ti, pi + 1) \/ CanLay(t, p, ti + 1, pi)
        BY <3>1, <3>2, LayStars
      <4>2. Spot(f, t, p, ti, pi) = (f[<<ti, pi + 1>>] \/ f[<<ti + 1, pi>>])
        BY <3>1, <3>2 DEF Spot
      <4>3. Spot(f, t, p, ti, pi) = (CanLay(t, p, ti, pi + 1) \/ CanLay(t, p, ti + 1, pi))
        BY <3>1, <4>2, <2>2
      <4> QED BY <4>1, <4>3, <2>1 DEF CanLay
    <3>3. CASE p[pi] # "**"
      <4>1. CanLay(t, p, ti, pi) <=> Fits(p[pi], t[ti]) /\ CanLay(t, p, ti + 1, pi + 1)
        BY <3>1, <3>3, LayName
      <4>2. Spot(f, t, p, ti, pi) = (Fits(p[pi], t[ti]) /\ f[<<ti + 1, pi + 1>>])
        BY <3>1, <3>3 DEF Spot
      <4>3. Spot(f, t, p, ti, pi) = (Fits(p[pi], t[ti]) /\ CanLay(t, p, ti + 1, pi + 1))
        BY <3>1, <4>2, <2>2
      <4> QED BY <4>1, <4>3, <2>1 DEF CanLay, Fits
    <3> QED BY <3>2, <3>3
  <2> QED BY <2>3, <2>4, <2>5, <1>1
<1>4. f = [c \in Spots(t, p) |-> Spot(f, t, p, c[1], c[2])]
  BY <1>2, <1>3
<1> QED BY <1>4 DEF IsMatch

\* Every table says where the pattern can be laid.
LEMMA MatchTableSays ==
  ASSUME NEW t \in Seq(STRING), NEW p \in Seq(STRING), NEW f, IsMatch(f, t, p)
  PROVE  f[<<1, 1>>] <=> CanLay(t, p, 1, 1)
<1>1. PICK m, n \in Nat : m = Len(p) /\ n = Len(t)
  OBVIOUS
<1>2. ASSUME NEW ti \in 1..(n + 1), NEW pi \in 1..(m + 1)
      PROVE  f[<<ti, pi>>] = Spot(f, t, p, ti, pi)
  <2>1. PICK w : w = [c \in Spots(t, p) |-> Spot(f, t, p, c[1], c[2])]
    OBVIOUS
  <2>2. <<ti, pi>> \in Spots(t, p)
    BY <1>1 DEF Spots
  <2>3. w[<<ti, pi>>] = Spot(f, t, p, ti, pi)
    BY <2>1, <2>2
  <2> QED BY <2>1, <2>3 DEF IsMatch
<1>3. PICK Bad : Bad = {c \in (0..n) \X (0..m) :
          ~(f[<<n + 1 - c[1], m + 1 - c[2]>>] <=> CanLay(t, p, n + 1 - c[1], m + 1 - c[2]))}
  OBVIOUS
<1>4. ASSUME NEW i \in 0..n, NEW j \in 0..m
      PROVE  <<i, j>> \in Bad <=> ~(f[<<n + 1 - i, m + 1 - j>>] <=> CanLay(t, p, n + 1 - i, m + 1 - j))
  BY <1>3
<1>5. Bad \in SUBSET ((0..n) \X (0..m))
  BY <1>3
<1>6. SUFFICES ASSUME Bad # {} PROVE FALSE
  <2>1. n \in 0..n /\ m \in 0..m /\ n + 1 - n = 1 /\ m + 1 - m = 1
    OBVIOUS
  <2>2. <<n, m>> \in Bad <=> ~(f[<<1, 1>>] <=> CanLay(t, p, 1, 1))
    BY <1>4, <2>1
  <2> QED BY <2>2
<1>7. PICK i \in 0..n, j \in 0..m :
        /\ <<i, j>> \in Bad
        /\ \A k \in 0..n, l \in 0..m : k + l < i + j => <<k, l>> \notin Bad
  BY <1>5, <1>6, FirstBadCell
<1>8. PICK ti \in 1..(n + 1), pi \in 1..(m + 1) : ti = n + 1 - i /\ pi = m + 1 - j
  OBVIOUS
<1>9. ~(f[<<ti, pi>>] <=> CanLay(t, p, ti, pi)) /\ f[<<ti, pi>>] = Spot(f, t, p, ti, pi)
  BY <1>2, <1>4, <1>7, <1>8
<1>10. ASSUME NEW x \in ti..(n + 1), NEW y \in pi..(m + 1), x + y > ti + pi
       PROVE  f[<<x, y>>] <=> CanLay(t, p, x, y)
  <2>1. PICK k \in 0..n, l \in 0..m : k = n + 1 - x /\ l = m + 1 - y
    OBVIOUS
  <2>2. k + l < i + j /\ n + 1 - k = x /\ m + 1 - l = y
    BY <2>1, <1>8, <1>10
  <2>3. <<k, l>> \notin Bad
    BY <2>2, <1>7
  <2>4. f[<<n + 1 - k, m + 1 - l>>] <=> CanLay(t, p, n + 1 - k, m + 1 - l)
    BY <2>3, <1>4
  <2> QED BY <2>2, <2>4
<1>11. CASE pi > m
  <2>1. pi = Len(p) + 1 /\ ti \in 1..(Len(t) + 1) /\ pi > Len(p)
    BY <1>11, <1>1
  <2>2. CanLay(t, p, ti, pi)
    BY <2>1, LayAtPatternEnd
  <2>3. Spot(f, t, p, ti, pi) = TRUE
    BY <2>1 DEF Spot
  <2> QED BY <2>2, <2>3, <1>9
<1>12. CASE pi <= m /\ ti > n
  <2>1. ti = Len(t) + 1 /\ pi \in 1..Len(p) /\ ti > Len(t) /\ ~(pi > Len(p))
    BY <1>12, <1>1
  <2>2. CanLay(t, p, ti, pi) <=> \A k \in pi..Len(p) : p[k] = "**"
    BY <2>1, LayAtPathEnd
  <2>3. Spot(f, t, p, ti, pi) = \A k \in pi..Len(p) : p[k] = "**"
    BY <2>1 DEF Spot
  <2> QED BY <2>2, <2>3, <1>9
<1>13. CASE pi <= m /\ ti <= n
  <2>1. /\ ti \in 1..Len(t) /\ pi \in 1..Len(p) /\ ~(ti > Len(t)) /\ ~(pi > Len(p))
        /\ ti + 1 \in ti..(n + 1) /\ pi + 1 \in pi..(m + 1) /\ ti \in ti..(n + 1) /\ pi \in pi..(m + 1)
        /\ ti + (pi + 1) > ti + pi /\ (ti + 1) + pi > ti + pi /\ (ti + 1) + (pi + 1) > ti + pi
    BY <1>13, <1>1
  <2>2. CASE p[pi] = "**"
    <3>1. CanLay(t, p, ti, pi) <=> CanLay(t, p, ti, pi + 1) \/ CanLay(t, p, ti + 1, pi)
      BY <2>1, <2>2, LayStars
    <3>2. Spot(f, t, p, ti, pi) = (f[<<ti, pi + 1>>] \/ f[<<ti + 1, pi>>])
      BY <2>1, <2>2 DEF Spot
    <3>3. (f[<<ti, pi + 1>>] <=> CanLay(t, p, ti, pi + 1)) /\ (f[<<ti + 1, pi>>] <=> CanLay(t, p, ti + 1, pi))
      BY <2>1, <1>10
    <3> QED BY <3>1, <3>2, <3>3, <1>9
  <2>3. CASE p[pi] # "**"
    <3>1. CanLay(t, p, ti, pi) <=> Fits(p[pi], t[ti]) /\ CanLay(t, p, ti + 1, pi + 1)
      BY <2>1, <2>3, LayName
    <3>2. Spot(f, t, p, ti, pi) = (Fits(p[pi], t[ti]) /\ f[<<ti + 1, pi + 1>>])
      BY <2>1, <2>3 DEF Spot
    <3>3. f[<<ti + 1, pi + 1>>] <=> CanLay(t, p, ti + 1, pi + 1)
      BY <2>1, <1>10
    <3> QED BY <3>1, <3>2, <3>3, <1>9
  <2> QED BY <2>2, <2>3
<1> QED BY <1>11, <1>12, <1>13

\* So the matcher tells whether the pattern can be laid from the root on.
LEMMA MatchIsLaid ==
  ASSUME NEW t \in Seq(STRING), NEW p \in Seq(STRING)
  PROVE  MatchFromRoot(t, p) <=> CanLay(t, p, 1, 1)
<1>1. PICK f : IsMatch(f, t, p)
  BY MatchTableIs
<1>2. \E g : IsMatch(g, t, p) /\ MatchFromRoot(t, p) = g[<<1, 1>>]
  BY <1>1 DEF IsMatch, MatchFromRoot, Spot, Spots
<1>3. PICK g : IsMatch(g, t, p) /\ MatchFromRoot(t, p) = g[<<1, 1>>]
  BY <1>2
<1>4. g[<<1, 1>>] <=> CanLay(t, p, 1, 1)
  BY <1>3, MatchTableSays
<1> QED BY <1>3, <1>4

\* A pattern that git does not read in another way at its end.
IsPlain(p) == p = <<"**">> \/ p[Len(p)] # "**"

IsSpelt(p, s, r) ==
    /\ r[1] = 0 /\ r[Len(p) + 1] = Len(s)
    /\ \A k \in DOMAIN p :
         IF p[k] = "**" THEN r[k] <= r[k + 1] /\ (k = Len(p) => r[k] < r[k + 1])
         ELSE r[k + 1] = r[k] + 1 /\ Fits(p[k], s[r[k + 1]])

\* A pattern is spelt out by a laying that ends with the path.
LEMMA SpeltIs ==
  ASSUME NEW p, NEW s
  PROVE  Spelt(p, s) <=> \E r \in [1..(Len(p) + 1) -> 0..Len(s)] : IsSpelt(p, s, r)
  BY DEF Spelt, IsSpelt

\* The matcher finds the patterns that are spelt out by the beginning of a path.
LEMMA LaidIsSpelt ==
  ASSUME NEW t \in Seq(STRING), NEW p \in Seq(STRING) \ {<<>>}, t # <<>>, IsPlain(p), CanLay(t, p, 1, 1)
  PROVE  \E e \in 1..Len(t) : Spelt(p, SubSeq(t, 1, e))
<1>1. PICK m, n \in Nat : m = Len(p) /\ n = Len(t) /\ m > 0 /\ n > 0
  OBVIOUS
<1>2. PICK r : IsLaid(t, p, r, 1, 1)
  BY DEF CanLay
<1>3. r \in [1..(m + 1) -> 0..n] /\ r[1] = 0 /\ \A k \in 1..m : IsOnNames(t, p, r, k)
  BY <1>1, <1>2 DEF IsLaid
<1>4. CASE p[m] # "**"
  <2>1. m \in 1..m /\ m + 1 \in 1..(m + 1) /\ IsOnNames(t, p, r, m)
    BY <1>1, <1>3
  <2>2. r[m] \in 0..n /\ r[m + 1] \in 0..n /\ r[m + 1] = r[m] + 1
    BY <2>1, <1>3, <1>4 DEF IsOnNames
  <2>3. PICK e \in 1..n : e = r[m + 1]
    BY <2>2
  <2>4. PICK s : s = SubSeq(t, 1, e)
    OBVIOUS
  <2>5. s \in Seq(STRING) /\ Len(s) = e /\ \A i \in 1..e : s[i] = t[i]
    BY <2>3, <2>4, <1>1, BeginningIs
  <2>6. ASSUME NEW k \in 1..(m + 1) PROVE r[k] \in 0..e
    <3>1. m + 1 \in k..(Len(p) + 1) /\ k \in 1..(Len(p) + 1) /\ \A j \in k..Len(p) : j \in 1..m
      BY <1>1
    <3>2. r[k] <= r[m + 1]
      BY <3>1, <1>1, <1>3, LaidGoesOn
    <3> QED BY <3>2, <2>3, <1>3
  <2>7. r \in [1..(m + 1) -> 0..e]
    BY <2>6, <1>3
  <2>8. ASSUME NEW k \in 1..m
        PROVE  IF p[k] = "**" THEN r[k] <= r[k + 1] /\ (k = m => r[k] < r[k + 1])
               ELSE r[k + 1] = r[k] + 1 /\ Fits(p[k], s[r[k + 1]])
    <3>1. IsOnNames(t, p, r, k) /\ r[k] \in 0..e /\ r[k + 1] \in 0..e
      BY <1>3, <2>6
    <3>2. CASE p[k] = "**"
      BY <3>1, <3>2, <1>4 DEF IsOnNames
    <3>3. CASE p[k] # "**"
      <4>1. r[k + 1] = r[k] + 1 /\ Fits(p[k], t[r[k + 1]]) /\ r[k + 1] \in 1..e
        BY <3>1, <3>3 DEF IsOnNames
      <4>2. s[r[k + 1]] = t[r[k + 1]]
        BY <4>1, <2>5
      <4> QED BY <4>1, <4>2, <3>3
    <3> QED BY <3>2, <3>3
  <2>9. Spelt(p, s)
    <3>1. DOMAIN p = 1..m /\ Len(p) = m /\ r[m + 1] = Len(s)
      BY <1>1, <2>3, <2>5
    <3>2. IsSpelt(p, s, r)
      BY <3>1, <2>8, <1>3 DEF IsSpelt
    <3>3. r \in [1..(Len(p) + 1) -> 0..Len(s)]
      BY <3>1, <2>5, <2>7
    <3> QED BY <3>2, <3>3, SpeltIs
  <2> QED BY <2>3, <2>4, <2>9, <1>1
<1>5. CASE p[m] = "**"
  <2>1. p = <<"**">> /\ m = 1 /\ Len(p) = 1
    BY <1>1, <1>5 DEF IsPlain
  <2>2. PICK s : s = SubSeq(t, 1, 1)
    OBVIOUS
  <2>3. Len(s) = 1
    BY <2>2, <1>1, BeginningIs
  <2>4. PICK q : q = [k \in 1..2 |-> IF k = 1 THEN 0 ELSE 1]
    OBVIOUS
  <2>5. q \in [1..(Len(p) + 1) -> 0..Len(s)] /\ q[1] = 0 /\ q[2] = 1
    BY <2>1, <2>3, <2>4
  <2>6. Spelt(p, s)
    <3>1. \A k \in DOMAIN p : k = 1 /\ p[k] = "**"
      BY <2>1
    <3> QED BY <3>1, <2>1, <2>3, <2>5 DEF Spelt
  <2> QED BY <2>2, <2>6, <1>1
<1> QED BY <1>4, <1>5

\* And what a beginning spells out, the matcher finds.
LEMMA SpeltIsLaid ==
  ASSUME NEW t \in Seq(STRING), NEW p \in Seq(STRING) \ {<<>>}, NEW e \in 1..Len(t), Spelt(p, SubSeq(t, 1, e))
  PROVE  CanLay(t, p, 1, 1)
<1>1. PICK m, n \in Nat : m = Len(p) /\ n = Len(t)
  OBVIOUS
<1>2. PICK s : s = SubSeq(t, 1, e)
  OBVIOUS
<1>3. s \in Seq(STRING) /\ Len(s) = e /\ (\A i \in 1..e : s[i] = t[i]) /\ e \in 1..n
  BY <1>1, <1>2, BeginningIs
<1>a. DOMAIN p = 1..m /\ Len(p) = m
  BY <1>1
<1>b. PICK r \in [1..(Len(p) + 1) -> 0..Len(s)] : IsSpelt(p, s, r)
  BY <1>2, SpeltIs
<1>4. /\ r \in [1..(m + 1) -> 0..e] /\ r[1] = 0
      /\ \A k \in 1..m :
           IF p[k] = "**" THEN r[k] <= r[k + 1] /\ (k = m => r[k] < r[k + 1])
           ELSE r[k + 1] = r[k] + 1 /\ Fits(p[k], s[r[k + 1]])
  BY <1>a, <1>b, <1>3 DEF IsSpelt
<1>5. r \in [1..(m + 1) -> 0..n] /\ 1 - 1 = 0
  BY <1>3, <1>4
<1>6. ASSUME NEW k \in 1..m PROVE IsOnNames(t, p, r, k)
  <2>1. CASE p[k] = "**"
    BY <2>1, <1>4 DEF IsOnNames
  <2>2. CASE p[k] # "**"
    <3>1. r[k + 1] = r[k] + 1 /\ Fits(p[k], s[r[k + 1]]) /\ r[k + 1] \in 0..e /\ r[k] \in 0..e
      BY <2>2, <1>4
    <3>2. r[k + 1] \in 1..e
      BY <3>1
    <3> QED BY <3>1, <3>2, <2>2, <1>3 DEF IsOnNames
  <2> QED BY <2>1, <2>2
<1>7. IsLaid(t, p, r, 1, 1)
  BY <1>1, <1>4, <1>5, <1>6 DEF IsLaid
<1> QED BY <1>7 DEF CanLay

\* A pattern matches a path when it is spelt out by a beginning of it.
LEMMA MatchIsOfBeginning ==
  ASSUME NEW t \in Seq(STRING), NEW p \in Seq(STRING) \ {<<>>}, t # <<>>, IsPlain(p)
  PROVE  MatchFromRoot(t, p) <=> \E e \in 1..Len(t) : Spelt(p, SubSeq(t, 1, e))
  BY MatchIsLaid, LaidIsSpelt, SpeltIsLaid

\* A rule matches where git fits it to the path or to a directory it is in.
LEMMA RuleIsOfBeginning ==
  ASSUME NEW r \in Rule, NEW q \in Seq(STRING) \ {<<>>}, NEW isDir \in BOOLEAN, IsPlain(r.pattern)
  PROVE  RuleMatches(r, q, isDir) <=>
           \E k \in 1..Len(q) : GitFits(r, SubSeq(q, 1, k), k < Len(q) \/ isDir)
<1>1. PICK n \in Nat : n = Len(q) /\ n > 0
  OBVIOUS
<1>2. PICK p \in Seq(STRING) \ {<<>>} : p = r.pattern
  BY DEF Rule
<1>3. PICK e \in 0..n : e = IF r.dirOnly /\ ~isDir THEN n - 1 ELSE n
  BY <1>1
<1>4. PICK t : t = IF r.dirOnly /\ ~isDir THEN Front(q) ELSE q
  OBVIOUS
<1>5. t \in Seq(STRING) /\ Len(t) = e /\ \A i \in 1..e : t[i] = q[i]
  <2>1. CASE r.dirOnly /\ ~isDir
    <3>1. t = SubSeq(q, 1, n - 1) /\ e = n - 1 /\ n - 1 \in 0..Len(q)
      BY <2>1, <1>1, <1>3, <1>4 DEF Front
    <3> QED BY <3>1, BeginningIs
  <2>2. CASE ~(r.dirOnly /\ ~isDir)
    BY <2>2, <1>1, <1>3, <1>4
  <2> QED BY <2>1, <2>2
<1>6. \A k \in 1..n : (r.dirOnly => k < n \/ isDir) <=> k <= e
  BY <1>3 DEF Rule
<1>7. ASSUME NEW k \in 1..e PROVE SubSeq(t, 1, k) = SubSeq(q, 1, k)
  <2>1. k \in 0..Len(t) /\ k \in 0..Len(q)
    BY <1>1, <1>5
  <2>2. PICK u, v : u = SubSeq(t, 1, k) /\ v = SubSeq(q, 1, k)
    OBVIOUS
  <2>3. u \in Seq(STRING) /\ Len(u) = k /\ \A i \in 1..k : u[i] = t[i]
    BY <2>1, <2>2, <1>5, BeginningIs
  <2>4. v \in Seq(STRING) /\ Len(v) = k /\ \A i \in 1..k : v[i] = q[i]
    BY <2>1, <2>2, BeginningIs
  <2>5. \A i \in 1..k : u[i] = v[i]
    BY <2>3, <2>4, <1>5
  <2>6. u = v
    BY <2>3, <2>4, <2>5, SameSequence
  <2> QED BY <2>2, <2>6
<1>8. t # <<>> <=> e > 0
  BY <1>5
<1>9. CASE r.anchored \/ Len(p) > 1
  <2>1. RuleMatches(r, q, isDir) <=> t # <<>> /\ MatchFromRoot(t, p)
    BY <1>2, <1>4, <1>9 DEF RuleMatches
  <2>2. ASSUME NEW k \in 1..n
        PROVE  GitFits(r, SubSeq(q, 1, k), k < n \/ isDir) <=> k <= e /\ Spelt(p, SubSeq(q, 1, k))
    BY <1>2, <1>6, <1>9 DEF GitFits
  <2>3. CASE e = 0
    BY <2>1, <2>2, <2>3, <1>1, <1>8
  <2>4. CASE e > 0
    <3>1. MatchFromRoot(t, p) <=> \E k \in 1..e : Spelt(p, SubSeq(t, 1, k))
      BY <2>4, <1>2, <1>5, <1>8, MatchIsOfBeginning
    <3>2. MatchFromRoot(t, p) <=> \E k \in 1..e : Spelt(p, SubSeq(q, 1, k))
      BY <3>1, <1>7
    <3>3. \A k \in 1..n : k <= e <=> k \in 1..e
      OBVIOUS
    <3>4. 1..e \subseteq 1..n
      OBVIOUS
    <3>5. (\E k \in 1..n : GitFits(r, SubSeq(q, 1, k), k < n \/ isDir)) <=> \E k \in 1..e : Spelt(p, SubSeq(q, 1, k))
      BY <2>2, <3>3, <3>4
    <3> QED BY <2>1, <2>4, <3>2, <3>5, <1>1, <1>8
  <2> QED BY <2>3, <2>4
<1>10. CASE ~(r.anchored \/ Len(p) > 1)
  <2>1. RuleMatches(r, q, isDir) <=> t # <<>> /\ \E k \in DOMAIN t : Fits(p[1], t[k])
    BY <1>2, <1>4, <1>10 DEF RuleMatches
  <2>2. DOMAIN t = 1..e
    BY <1>5
  <2>3. ASSUME NEW k \in 1..n
        PROVE  GitFits(r, SubSeq(q, 1, k), k < n \/ isDir) <=> k <= e /\ Fits(p[1], q[k])
    <3>1. PICK u : u = SubSeq(q, 1, k)
      OBVIOUS
    <3>2. k \in 0..Len(q) /\ k \in 1..k
      BY <1>1
    <3>3. Len(u) = k /\ u[k] = q[k]
      BY <3>1, <3>2, BeginningIs
    <3>4. Name(u) = q[k]
      BY <3>3 DEF Name
    <3>5. GitFits(r, u, k < n \/ isDir) <=> k <= e /\ Fits(p[1], q[k])
      BY <3>4, <1>2, <1>6, <1>10 DEF GitFits
    <3> QED BY <3>1, <3>5
  <2>4. (\E k \in 1..n : GitFits(r, SubSeq(q, 1, k), k < n \/ isDir)) <=> \E k \in 1..e : Fits(p[1], t[k])
    <3>1. \A k \in 1..n : k <= e <=> k \in 1..e
      OBVIOUS
    <3>2. 1..e \subseteq 1..n
      OBVIOUS
    <3> QED BY <2>3, <3>1, <3>2, <1>5
  <2> QED BY <2>1, <2>2, <2>4, <1>1, <1>8
<1> QED BY <1>9, <1>10

\* What follows a directory in a path.
LEMMA EndingIs ==
  ASSUME NEW q \in Seq(STRING), NEW b \in 0..Len(q)
  PROVE  /\ SubSeq(q, b + 1, Len(q)) \in Seq(STRING) /\ Len(SubSeq(q, b + 1, Len(q))) = Len(q) - b
         /\ \A i \in 1..(Len(q) - b) : SubSeq(q, b + 1, Len(q))[i] = q[b + i]
<1>1. b \in Nat /\ b <= Len(q) /\ Len(q) \in Nat
  OBVIOUS
<1>2. b + 1 \in 1..(Len(q) + 1) /\ b + 1 \in Nat
  BY <1>1
<1> QED BY <1>1, <1>2

\* The ending of a beginning is a beginning of the ending.
LEMMA EndingOfBeginning ==
  ASSUME NEW q \in Seq(STRING), NEW b \in 0..Len(q), NEW k \in b..Len(q)
  PROVE  SubSeq(SubSeq(q, 1, k), b + 1, k) = SubSeq(SubSeq(q, b + 1, Len(q)), 1, k - b)
<1>1. k \in 0..Len(q) /\ k - b \in 0..(Len(q) - b) /\ b \in 0..k
  OBVIOUS
<1>2. PICK s, t : s = SubSeq(q, 1, k) /\ t = SubSeq(q, b + 1, Len(q))
  OBVIOUS
<1>3. s \in Seq(STRING) /\ Len(s) = k /\ \A i \in 1..k : s[i] = q[i]
  BY <1>1, <1>2, BeginningIs
<1>4. t \in Seq(STRING) /\ Len(t) = Len(q) - b /\ \A i \in 1..(Len(q) - b) : t[i] = q[b + i]
  BY <1>2, EndingIs
<1>5. PICK u, v : u = SubSeq(s, b + 1, k) /\ v = SubSeq(t, 1, k - b)
  OBVIOUS
<1>6. u \in Seq(STRING) /\ Len(u) = k - b /\ \A i \in 1..(k - b) : u[i] = s[b + i]
  BY <1>1, <1>3, <1>5, EndingIs
<1>7. v \in Seq(STRING) /\ Len(v) = k - b /\ \A i \in 1..(k - b) : v[i] = t[i]
  BY <1>1, <1>4, <1>5, BeginningIs
<1>8. \A i \in 1..(k - b) : b + i \in 1..k /\ i \in 1..(Len(q) - b)
  BY <1>1
<1>9. \A i \in 1..(k - b) : u[i] = v[i]
  BY <1>3, <1>4, <1>6, <1>7, <1>8
<1>10. u = v
  BY <1>6, <1>7, <1>9, SameSequence
<1> QED BY <1>2, <1>5, <1>10

\* The .gitignore files above a path are those in the directories it is in.
LEMMA AboveIs ==
  ASSUME rules \in RuleFiles, NEW q \in Seq(STRING) \ {<<>>}, NEW d \in DOMAIN rules
  PROVE  /\ d \in Seq(STRING) /\ rules[d] \in Seq(Rule)
         /\ d \in Above(q) <=> Len(d) < Len(q) /\ SubSeq(q, 1, Len(d)) = d
<1>a. d \in Directories \cup {<<>>} /\ rules[d] \in Seq(Rule) /\ Directories \subseteq Seq(STRING)
  BY ScanAssumption
<1>b. <<>> \in Seq(STRING)
  OBVIOUS
<1>1. d \in Seq(STRING) /\ rules[d] \in Seq(Rule)
  BY <1>a, <1>b
<1>2. PICK n \in Nat : n = Len(q) /\ n > 0
  OBVIOUS
<1>3. PICK s : s = Front(q)
  OBVIOUS
<1>4. s = SubSeq(q, 1, n - 1) /\ n - 1 \in 0..Len(q)
  BY <1>2, <1>3 DEF Front
<1>5. Len(s) = n - 1
  BY <1>4, BeginningIs
<1>6. d \in Above(q) <=> Len(d) <= n - 1 /\ SubSeq(s, 1, Len(d)) = d
  BY <1>3, <1>5 DEF Above, IsPrefixOf, Parent
<1>7. Len(d) <= n - 1 => SubSeq(s, 1, Len(d)) = SubSeq(q, 1, Len(d))
  <2> SUFFICES ASSUME Len(d) <= n - 1 PROVE SubSeq(s, 1, Len(d)) = SubSeq(q, 1, Len(d))
    OBVIOUS
  <2>1. Len(d) \in 0..(n - 1)
    BY <1>1, <1>2
  <2> QED BY <2>1, <1>4, BeginningOfBeginning
<1> QED BY <1>1, <1>2, <1>6, <1>7

\* Of some directories on a path one is deepest.
LEMMA DeepestOf ==
  ASSUME NEW b \in Nat, NEW B \in SUBSET Seq(STRING), B # {}, \A d \in B : Len(d) <= b
  PROVE  \E d \in B : \A e \in B : Len(e) <= Len(d)
<1>1. PICK S : S = {Len(d) : d \in B}
  OBVIOUS
<1>2. S \in SUBSET (0..b) /\ S # {}
  BY <1>1
<1>3. Max(S) \in S /\ \A m \in S : m <= Max(S)
  BY <1>2, LargestOf
<1>4. PICK d \in B : Len(d) = Max(S)
  BY <1>1, <1>3
<1> QED BY <1>1, <1>3, <1>4

\* Of some rules one is last.
LEMMA LastOf ==
  ASSUME NEW s \in Seq(Rule), NEW S \in SUBSET DOMAIN s, S # {}
  PROVE  Max(S) \in S /\ \A m \in S : m <= Max(S)
<1>1. DOMAIN s = 1..Len(s) /\ Len(s) \in Nat
  OBVIOUS
<1>2. S \in SUBSET (0..Len(s))
  BY <1>1
<1> QED BY <1>1, <1>2, LargestOf

\* No rule of the project has a "!" or a "**" at its end.
OnlyPlain == \A d \in DOMAIN rules : \A k \in DOMAIN rules[d] :
               ~rules[d][k].negated /\ IsPlain(rules[d][k].pattern)

\* Without a "!" it takes one rule that matches to ignore a path, in the code...
LEMMA OneRuleIgnores ==
  ASSUME rules \in RuleFiles, OnlyPlain, NEW q \in Seq(STRING) \ {<<>>}, NEW isDir \in BOOLEAN
  PROVE  IsGitignored(q, isDir) <=>
           \E d \in Above(q) : \E k \in DOMAIN rules[d] : RuleMatches(rules[d][k], Relative(q, d), isDir)
<1> DEFINE matching(e) == {k \in DOMAIN rules[e] : RuleMatches(rules[e][k], Relative(q, e), isDir)}
<1>1. IsGitignored(q, isDir) <=>
        \E d \in Above(q) : /\ matching(d) # {} /\ ~rules[d][Max(matching(d))].negated
                            /\ \A e \in Above(q) : matching(e) # {} => Len(e) <= Len(d)
  BY DEF IsGitignored
<1>2. ASSUME NEW d \in Above(q), matching(d) # {} PROVE ~rules[d][Max(matching(d))].negated
  <2>1. d \in DOMAIN rules /\ rules[d] \in Seq(Rule)
    BY AboveIs DEF Above
  <2>2. matching(d) \in SUBSET DOMAIN rules[d]
    OBVIOUS
  <2>3. Max(matching(d)) \in matching(d)
    <3> HIDE DEF matching
    <3> QED BY <2>1, <2>2, <1>2, LastOf
  <2> QED BY <2>1, <2>3 DEF OnlyPlain
<1>3. ASSUME NEW d \in Above(q), matching(d) # {} PROVE IsGitignored(q, isDir)
  <2> HIDE DEF matching
  <2>1. PICK B : B = {e \in Above(q) : matching(e) # {}}
    OBVIOUS
  <2>2. \A e \in B : e \in Seq(STRING) /\ Len(e) <= Len(q)
    BY <2>1, AboveIs DEF Above
  <2>3. B \in SUBSET Seq(STRING) /\ B # {} /\ Len(q) \in Nat /\ \A e \in B : Len(e) <= Len(q)
    BY <2>1, <2>2, <1>3
  <2>4. PICK b : b \in B /\ \A e \in B : Len(e) <= Len(b)
    BY <2>3, DeepestOf
  <2> QED BY <2>1, <2>4, <1>1, <1>2
<1>4. (\E d \in Above(q) : \E k \in DOMAIN rules[d] : RuleMatches(rules[d][k], Relative(q, d), isDir)) <=>
        \E d \in Above(q) : matching(d) # {}
  OBVIOUS
<1> QED BY <1>1, <1>3, <1>4

\* ... and for git.
LEMMA OneRuleExcludes ==
  ASSUME rules \in RuleFiles, OnlyPlain, NEW q \in Seq(STRING) \ {<<>>}, NEW isDir \in BOOLEAN
  PROVE  GitExcludes(q, isDir) <=>
           \E d \in Above(q) : \E k \in DOMAIN rules[d] : GitFits(rules[d][k], Relative(q, d), isDir)
<1> DEFINE fitting(e) == {k \in DOMAIN rules[e] : GitFits(rules[e][k], Relative(q, e), isDir)}
<1>1. GitExcludes(q, isDir) <=>
        \E d \in Above(q) : \E k \in fitting(d) :
            /\ ~rules[d][k].negated
            /\ \A l \in fitting(d) : l <= k
            /\ \A e \in Above(q) : Len(d) < Len(e) => fitting(e) = {}
  BY DEF GitExcludes
<1>2. ASSUME NEW d \in Above(q), fitting(d) # {} PROVE GitExcludes(q, isDir)
  <2>1. PICK B : B = {e \in Above(q) : fitting(e) # {}}
    OBVIOUS
  <2>2. \A e \in B : e \in Seq(STRING) /\ Len(e) <= Len(q)
    BY <2>1, AboveIs DEF Above
  <2>3. B \in SUBSET Seq(STRING) /\ B # {} /\ Len(q) \in Nat /\ \A e \in B : Len(e) <= Len(q)
    <3> HIDE DEF fitting
    <3> QED BY <2>1, <2>2, <1>2
  <2>4. PICK b : b \in B /\ \A e \in B : Len(e) <= Len(b)
    BY <2>3, DeepestOf
  <2>5. b \in Above(q) /\ b \in DOMAIN rules /\ rules[b] \in Seq(Rule) /\ fitting(b) # {} /\ b \in Seq(STRING)
    BY <2>1, <2>4, AboveIs DEF Above
  <2>6. fitting(b) \in SUBSET DOMAIN rules[b]
    OBVIOUS
  <2>7. PICK k : k = Max(fitting(b))
    OBVIOUS
  <2>8. k \in fitting(b) /\ \A l \in fitting(b) : l <= k
    <3> HIDE DEF fitting
    <3> QED BY <2>5, <2>6, <2>7, LastOf
  <2>9. ~rules[b][k].negated
    BY <2>5, <2>8 DEF OnlyPlain
  <2>10. ASSUME NEW e \in Above(q), Len(b) < Len(e) PROVE fitting(e) = {}
    <3> HIDE DEF fitting
    <3>1. Len(e) \in Nat /\ Len(b) \in Nat
      BY <2>5, AboveIs DEF Above
    <3>2. ~(Len(e) <= Len(b))
      BY <3>1, <2>10
    <3> QED BY <3>2, <2>1, <2>4
  <2> HIDE DEF fitting
  <2> QED BY <2>5, <2>8, <2>9, <2>10, <1>1
<1>3. (\E d \in Above(q) : \E k \in DOMAIN rules[d] : GitFits(rules[d][k], Relative(q, d), isDir)) <=>
        \E d \in Above(q) : fitting(d) # {}
  OBVIOUS
<1> QED BY <1>1, <1>2, <1>3

\* So a path is ignored when git excludes it, or a directory it is in.
LEMMA IgnoredIsExcluded ==
  ASSUME rules \in RuleFiles, OnlyPlain, NEW q \in Seq(STRING) \ {<<>>}, NEW isDir \in BOOLEAN
  PROVE  IsGitignored(q, isDir) <=>
           \E k \in 1..Len(q) : GitExcludes(SubSeq(q, 1, k), k < Len(q) \/ isDir)
<1>1. PICK n \in Nat : n = Len(q) /\ n > 0
  OBVIOUS
<1>2. ASSUME NEW k \in 1..n
      PROVE  SubSeq(q, 1, k) \in Seq(STRING) \ {<<>>} /\ Len(SubSeq(q, 1, k)) = k
  <2>1. PICK s : s = SubSeq(q, 1, k)
    OBVIOUS
  <2>2. s \in Seq(STRING) /\ Len(s) = k /\ k # 0
    BY <2>1, <1>1, BeginningIs
  <2> QED BY <2>1, <2>2
<1>3. ASSUME NEW k \in 1..n, NEW d \in DOMAIN rules
      PROVE  d \in Above(SubSeq(q, 1, k)) <=> Len(d) < k /\ SubSeq(q, 1, Len(d)) = d
  <2>1. PICK s \in Seq(STRING) \ {<<>>} : s = SubSeq(q, 1, k) /\ Len(s) = k
    BY <1>2
  <2>2. d \in Seq(STRING) /\ (d \in Above(s) <=> Len(d) < k /\ SubSeq(s, 1, Len(d)) = d)
    BY <2>1, AboveIs
  <2>3. Len(d) < k => SubSeq(s, 1, Len(d)) = SubSeq(q, 1, Len(d))
    <3> SUFFICES ASSUME Len(d) < k PROVE SubSeq(s, 1, Len(d)) = SubSeq(q, 1, Len(d))
      OBVIOUS
    <3>1. Len(d) \in 0..k /\ k \in 0..Len(q)
      BY <2>2, <1>1
    <3> QED BY <3>1, <2>1, BeginningOfBeginning
  <2> QED BY <2>1, <2>2, <2>3
<1>4. ASSUME NEW d \in Above(q)
      PROVE  /\ d \in DOMAIN rules /\ d \in Seq(STRING) /\ rules[d] \in Seq(Rule)
             /\ Len(d) < n /\ Len(d) \in Nat /\ SubSeq(q, 1, Len(d)) = d
             /\ Relative(q, d) \in Seq(STRING) \ {<<>>} /\ Len(Relative(q, d)) = n - Len(d)
             /\ \A k \in (Len(d) + 1)..n :
                  Relative(SubSeq(q, 1, k), d) = SubSeq(Relative(q, d), 1, k - Len(d))
  <2>1. d \in DOMAIN rules
    BY DEF Above
  <2>2. d \in Seq(STRING) /\ rules[d] \in Seq(Rule) /\ Len(d) < n /\ SubSeq(q, 1, Len(d)) = d
    BY <2>1, <1>1, AboveIs
  <2>a. Len(d) \in Nat
    BY <2>2
  <2>b. PICK b : b = Len(d)
    OBVIOUS
  <2>3. b \in 0..Len(q) /\ b = Len(d) /\ b < n
    BY <2>2, <2>a, <2>b, <1>1
  <2>4. PICK t : t = SubSeq(q, b + 1, Len(q))
    OBVIOUS
  <2>5. t = Relative(q, d) /\ t \in Seq(STRING) /\ Len(t) = n - b /\ n - b # 0
    BY <2>3, <2>4, <1>1, EndingIs DEF Relative
  <2>6. ASSUME NEW k \in (b + 1)..n
        PROVE  Relative(SubSeq(q, 1, k), d) = SubSeq(Relative(q, d), 1, k - b)
    <3>1. k \in 1..n /\ k \in b..Len(q)
      BY <2>3, <1>1
    <3>2. Len(SubSeq(q, 1, k)) = k
      BY <3>1, <1>2
    <3>3. SubSeq(SubSeq(q, 1, k), b + 1, k) = SubSeq(t, 1, k - b)
      BY <3>1, <2>3, <2>4, EndingOfBeginning
    <3> QED BY <3>2, <3>3, <2>3, <2>5 DEF Relative
  <2>7. t # <<>>
    BY <2>5
  <2>8. \A k \in (Len(d) + 1)..n : Relative(SubSeq(q, 1, k), d) = SubSeq(Relative(q, d), 1, k - Len(d))
    BY <2>3, <2>6
  <2>9. /\ Len(d) < n /\ Len(d) \in Nat /\ Relative(q, d) \in Seq(STRING) \ {<<>>}
        /\ Len(Relative(q, d)) = n - Len(d)
    BY <2>2, <2>3, <2>5, <2>7, <2>a
  <2> QED BY <2>1, <2>2, <2>8, <2>9
<1>5. ASSUME NEW d \in Above(q), NEW r \in Rule, IsPlain(r.pattern)
      PROVE  RuleMatches(r, Relative(q, d), isDir) <=>
               \E k \in (Len(d) + 1)..n : GitFits(r, Relative(SubSeq(q, 1, k), d), k < n \/ isDir)
  <2>1. PICK b \in Nat : b = Len(d) /\ b < n
    BY <1>4
  <2>2. PICK t \in Seq(STRING) \ {<<>>} : t = Relative(q, d) /\ Len(t) = n - b
    BY <2>1, <1>4
  <2>3. RuleMatches(r, t, isDir) <=> \E k \in 1..(n - b) : GitFits(r, SubSeq(t, 1, k), k < n - b \/ isDir)
    BY <2>2, <1>5, RuleIsOfBeginning
  <2>4. ASSUME NEW k \in 1..(n - b)
        PROVE  /\ b + k \in (b + 1)..n /\ (k < n - b <=> b + k < n)
               /\ Relative(SubSeq(q, 1, b + k), d) = SubSeq(t, 1, k)
    <3>1. PICK l : l = b + k
      OBVIOUS
    <3>2. l \in (b + 1)..n /\ l - b = k /\ (k < n - b <=> l < n)
      BY <3>1, <2>1
    <3>3. Relative(SubSeq(q, 1, l), d) = SubSeq(Relative(q, d), 1, l - b)
      BY <3>2, <2>1, <1>4
    <3> QED BY <3>1, <3>2, <3>3, <2>2
  <2>5. ASSUME NEW k \in (b + 1)..n
        PROVE  /\ k - b \in 1..(n - b) /\ (k - b < n - b <=> k < n)
               /\ Relative(SubSeq(q, 1, k), d) = SubSeq(t, 1, k - b)
    <3>1. k - b \in 1..(n - b) /\ (k - b < n - b <=> k < n)
      BY <2>1
    <3> QED BY <3>1, <2>1, <2>2, <1>4
  <2>6. ASSUME NEW k \in 1..(n - b), GitFits(r, SubSeq(t, 1, k), k < n - b \/ isDir)
        PROVE  \E l \in (b + 1)..n : GitFits(r, Relative(SubSeq(q, 1, l), d), l < n \/ isDir)
    <3>1. PICK l : l = b + k
      OBVIOUS
    <3>2. l \in (b + 1)..n /\ (k < n - b \/ isDir) = (l < n \/ isDir) /\ Relative(SubSeq(q, 1, l), d) = SubSeq(t, 1, k)
      BY <3>1, <2>4
    <3> QED BY <3>2, <2>6
  <2>7. ASSUME NEW k \in (b + 1)..n, GitFits(r, Relative(SubSeq(q, 1, k), d), k < n \/ isDir)
        PROVE  \E l \in 1..(n - b) : GitFits(r, SubSeq(t, 1, l), l < n - b \/ isDir)
    <3>1. PICK l : l = k - b
      OBVIOUS
    <3>2. l \in 1..(n - b) /\ (k < n \/ isDir) = (l < n - b \/ isDir) /\ Relative(SubSeq(q, 1, k), d) = SubSeq(t, 1, l)
      BY <3>1, <2>5
    <3> QED BY <3>2, <2>7
  <2> QED BY <2>1, <2>2, <2>3, <2>6, <2>7
<1>6. ASSUME NEW d \in Above(q), NEW k \in DOMAIN rules[d]
      PROVE  rules[d][k] \in Rule /\ IsPlain(rules[d][k].pattern)
  BY <1>4 DEF OnlyPlain
<1>7. ASSUME NEW k \in 1..n, NEW d
      PROVE  d \in Above(SubSeq(q, 1, k)) <=> d \in Above(q) /\ k \in (Len(d) + 1)..n
  <2>1. CASE d \notin DOMAIN rules
    BY <2>1 DEF Above
  <2>2. CASE d \in DOMAIN rules
    <3>1. d \in Seq(STRING) /\ (d \in Above(q) <=> Len(d) < n /\ SubSeq(q, 1, Len(d)) = d)
      BY <2>2, <1>1, AboveIs
    <3>2. d \in Above(SubSeq(q, 1, k)) <=> Len(d) < k /\ SubSeq(q, 1, Len(d)) = d
      BY <2>2, <1>3
    <3>3. Len(d) \in Nat
      BY <3>1
    <3>4. Len(d) < k <=> Len(d) < n /\ k \in (Len(d) + 1)..n
      BY <3>3
    <3> QED BY <3>1, <3>2, <3>4
  <2> QED BY <2>1, <2>2
<1>8. ASSUME IsGitignored(q, isDir)
      PROVE  \E k \in 1..n : GitExcludes(SubSeq(q, 1, k), k < n \/ isDir)
  <2>1. PICK d \in Above(q) : \E l \in DOMAIN rules[d] : RuleMatches(rules[d][l], Relative(q, d), isDir)
    BY <1>8, OneRuleIgnores
  <2>2. PICK l \in DOMAIN rules[d] : RuleMatches(rules[d][l], Relative(q, d), isDir)
    BY <2>1
  <2>3. PICK k \in (Len(d) + 1)..n : GitFits(rules[d][l], Relative(SubSeq(q, 1, k), d), k < n \/ isDir)
    BY <2>2, <1>5, <1>6
  <2>4. k \in 1..n /\ d \in Above(SubSeq(q, 1, k))
    <3>1. Len(d) \in Nat
      BY <1>4
    <3>2. k \in 1..n
      BY <3>1
    <3> QED BY <3>2, <1>7
  <2>5. PICK s \in Seq(STRING) \ {<<>>}, dir \in BOOLEAN : s = SubSeq(q, 1, k) /\ dir = (k < n \/ isDir)
    BY <2>4, <1>2
  <2>6. GitExcludes(s, dir)
    BY <2>2, <2>3, <2>4, <2>5, OneRuleExcludes
  <2> QED BY <2>4, <2>5, <2>6
<1>9. ASSUME NEW k \in 1..n, GitExcludes(SubSeq(q, 1, k), k < n \/ isDir)
      PROVE  IsGitignored(q, isDir)
  <2>1. PICK s \in Seq(STRING) \ {<<>>}, dir \in BOOLEAN : s = SubSeq(q, 1, k) /\ dir = (k < n \/ isDir)
    BY <1>2
  <2>2. GitExcludes(s, dir)
    BY <2>1, <1>9
  <2>3. PICK d \in Above(s) : \E l \in DOMAIN rules[d] : GitFits(rules[d][l], Relative(s, d), dir)
    BY <2>1, <2>2, OneRuleExcludes
  <2>4. d \in Above(q) /\ k \in (Len(d) + 1)..n
    BY <2>1, <2>3, <1>7
  <2>5. PICK l \in DOMAIN rules[d] : GitFits(rules[d][l], Relative(SubSeq(q, 1, k), d), k < n \/ isDir)
    BY <2>1, <2>3
  <2>6. RuleMatches(rules[d][l], Relative(q, d), isDir)
    BY <2>4, <2>5, <1>5, <1>6
  <2> QED BY <2>4, <2>5, <2>6, OneRuleIgnores
<1> QED BY <1>1, <1>8, <1>9

\* Where nothing is asked for, what is found is what can be read and git does
\* not ignore.
LEMMA FoundAreGits ==
  ASSUME ScanInv, pending = {}, include = {}, OnlyPlain
  PROVE  files = {f \in Files : Readable(f) /\ ~GitIgnores(f)}
<1>1. files = {f \in Files : ~CutOff(f) /\ ~SkipsFile(f)} /\ rules \in RuleFiles
  BY WhatIsFound DEF ScanInv
<1>2. ASSUME NEW f \in Files
      PROVE  ~CutOff(f) /\ ~SkipsFile(f) <=> Readable(f) /\ ~GitIgnores(f)
  <2>1. PICK n \in Nat : n = Len(f) /\ n > 0 /\ f \in Seq(STRING) \ {<<>>}
    BY ScanAssumption
  <2>2. ASSUME NEW k \in 1..(n - 1)
        PROVE  /\ SubSeq(f, 1, k) \in Seq(STRING) \ {<<>>} /\ Len(SubSeq(f, 1, k)) = k
               /\ Name(SubSeq(f, 1, k)) = f[k]
               /\ \A j \in 1..k : SubSeq(SubSeq(f, 1, k), 1, j) = SubSeq(f, 1, j)
    <3>1. k \in 0..Len(f) /\ k \in 1..k /\ \A j \in 1..k : j \in 0..k
      BY <2>1
    <3>2. PICK s : s = SubSeq(f, 1, k)
      OBVIOUS
    <3>3. s \in Seq(STRING) /\ Len(s) = k /\ s[k] = f[k] /\ k # 0
      BY <2>1, <3>1, <3>2, BeginningIs
    <3>4. Name(s) = f[k] /\ s # <<>>
      BY <3>3 DEF Name
    <3>5. \A j \in 1..k : SubSeq(s, 1, j) = SubSeq(f, 1, j)
      BY <2>1, <3>1, <3>2, BeginningOfBeginning
    <3> QED BY <3>2, <3>3, <3>4, <3>5
  <2>3. GitIgnores(f) <=> IsGitignored(f, FALSE)
    <3>1. IsGitignored(f, FALSE) <=> \E k \in 1..n : GitExcludes(SubSeq(f, 1, k), k < n \/ FALSE)
      BY <2>1, <1>1, IgnoredIsExcluded
    <3>2. SubSeq(f, 1, n) = f
      BY <2>1, WholePath
    <3>3. ASSUME NEW k \in 1..(n - 1), GitExcludes(SubSeq(f, 1, k), TRUE) PROVE IsGitignored(f, FALSE)
      <4>1. k \in 1..n /\ (k < n \/ FALSE) = TRUE
        BY <2>1
      <4> QED BY <4>1, <3>1, <3>3
    <3>4. ASSUME GitExcludes(f, FALSE) PROVE IsGitignored(f, FALSE)
      <4>1. n \in 1..n /\ (n < n \/ FALSE) = FALSE
        BY <2>1
      <4> QED BY <4>1, <3>1, <3>2, <3>4
    <3>5. ASSUME NEW k \in 1..n, GitExcludes(SubSeq(f, 1, k), k < n \/ FALSE) PROVE GitIgnores(f)
      <4>1. CASE k = n
        <5>1. (k < n \/ FALSE) = FALSE
          BY <4>1
        <5> QED BY <5>1, <4>1, <3>2, <3>5 DEF GitIgnores
      <4>2. CASE k # n
        <5>1. (k < n \/ FALSE) = TRUE /\ k \in 1..(Len(f) - 1)
          BY <4>2, <2>1
        <5> QED BY <5>1, <3>5 DEF GitIgnores
      <4> QED BY <4>1, <4>2
    <3> QED BY <3>1, <3>3, <3>4, <3>5, <2>1 DEF GitIgnores
  <2>4. ASSUME NEW k \in 1..(n - 1), IsGitignored(SubSeq(f, 1, k), TRUE) PROVE IsGitignored(f, FALSE)
    <3>1. PICK s \in Seq(STRING) \ {<<>>} : s = SubSeq(f, 1, k) /\ Len(s) = k
      BY <2>2
    <3>2. IsGitignored(s, TRUE) <=> \E j \in 1..k : GitExcludes(SubSeq(s, 1, j), j < k \/ TRUE)
      BY <3>1, <1>1, IgnoredIsExcluded
    <3>3. PICK j \in 1..k : GitExcludes(SubSeq(s, 1, j), j < k \/ TRUE)
      BY <3>1, <3>2, <2>4
    <3>4. (j < k \/ TRUE) = TRUE /\ j \in 1..(Len(f) - 1)
      BY <2>1
    <3>5. GitExcludes(SubSeq(f, 1, j), TRUE)
      BY <3>1, <3>3, <3>4, <2>2
    <3> QED BY <3>4, <3>5, <2>3 DEF GitIgnores
  <2>5. CutOff(f) <=> \E k \in 1..(n - 1) : f[k] \in SkipDirs \/ IsGitignored(SubSeq(f, 1, k), TRUE)
    BY <2>1, <2>2 DEF CutOff, SkipsDir, IsForceIncluded
  <2>6. SkipsFile(f) <=> \/ Name(f) \in SkipFilenames \/ IsGitignored(f, FALSE)
                         \/ Name(f) \in Unreadable \/ f \in Unfit
    BY DEF SkipsFile, IsForceIncluded
  <2>7. Readable(f) <=> /\ Name(f) \notin Unreadable /\ Name(f) \notin SkipFilenames /\ f \notin Unfit
                        /\ \A k \in 1..(n - 1) : f[k] \notin SkipDirs
    BY <2>1 DEF Readable
  <2> QED BY <2>3, <2>4, <2>5, <2>6, <2>7
<1>3. {f \in Files : ~CutOff(f) /\ ~SkipsFile(f)} = {f \in Files : Readable(f) /\ ~GitIgnores(f)}
  BY <1>2
<1> QED BY <1>1, <1>3

\* The files that are mined are git's and those that were asked for
\* (scan.go:58-224, gitignore.go:86-189).
THEOREM ScannedAreTheRightFiles == ScanSpec => []RightFilesAreScanned
<1>1. ScanInit => ScanInv
  BY ScanInitInv
<1>2. ScanInv /\ [ScanNext]_scanVars => ScanInv'
  <2> SUFFICES ASSUME ScanInv, [ScanNext]_scanVars PROVE ScanInv'
    OBVIOUS
  <2>1. CASE VisitDirectory
    BY <2>1, VisitDirectoryStep
  <2>2. CASE VisitFiles
    BY <2>2, VisitFilesStep
  <2>3. CASE UNCHANGED scanVars
    <3>1. UNCHANGED <<rules, include, pending, files>>
      BY <2>3 DEF scanVars
    <3>2. \A q : (SkipsDir(q) <=> SkipsDir(q)') /\ (SkipsFile(q) <=> SkipsFile(q)') /\ (CutOff(q) <=> CutOff(q)')
      BY <3>1 DEF SkipsDir, SkipsFile, CutOff, IsForceIncluded, IsGitignored, Above
    <3> QED BY <3>1, <3>2 DEF ScanInv, ScanTypeOK
  <2> QED BY <2>1, <2>2, <2>3 DEF ScanNext
<1>3. ScanInv => RightFilesAreScanned
  <2> SUFFICES ASSUME ScanInv PROVE RightFilesAreScanned
    OBVIOUS
  <2>1. ScanTypeOK
    BY DEF ScanInv
  <2>2. IncludedAreScanned
    BY IncludedStay DEF IncludedAreScanned
  <2>3. PlainRulesAreGits
    BY FoundAreGits DEF PlainRulesAreGits, OnlyPlain, IsPlain
  <2> QED BY <2>1, <2>2, <2>3 DEF RightFilesAreScanned
<1> QED BY <1>1, <1>2, <1>3, PTL DEF ScanSpec
=============================================================================
