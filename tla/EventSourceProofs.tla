-------------------------- MODULE EventSourceProofs --------------------------
(***************************************************************************)
(* Proofs about EventSource, for every number of threads, sources, sinks   *)
(* and entries of a map.                                                   *)
(*                                                                         *)
(* Places, Mutexes: who is where in which call, and has which mutexes.     *)
(* NamedLive, DeletedAlone, LinkedAlone: the rules of the program, as the  *)
(* threads under way keep them.  Sends, InOrder: a send is behind what it  *)
(* has served and in front of all that it owes an event.  EmptiedLater:    *)
(* entries are emptied only while a send marks its map for cleaning.       *)
(* StillLinked: what a destructor is about to cut is still linked.  These  *)
(* hold for every program.  Paired, DeadUnlinked and Agree, the two sides  *)
(* of a link, need that no sink is subscribed twice, and so does the       *)
(* refinement of Delivery.                                                 *)
(***************************************************************************)
EXTENDS EventSource, FiniteSetTheorems, SequenceTheorems, TLAPS

-----------------------------------------------------------------------------
(* Induction.  The library's induction principles are about operators; the *)
(* well-founded order of the numbers gives one about sets.                 *)

LEMMA LeastNumber ==
  ASSUME NEW T, T \subseteq Nat, T # {}
  PROVE  \E m \in T : \A k \in T : m <= k
<1>1. PICK m \in T : \A k \in T : <<k, m>> \notin OpToRel(<, Nat)
  BY NatLessThanWellFounded, WFMin
<1>2. \A k \in T : ~ (k < m)
  BY <1>1 DEF OpToRel
<1>. QED
  BY <1>2

LEMMA Induction ==
  ASSUME NEW T, T \subseteq Nat, 0 \in T, \A n \in T : n + 1 \in T
  PROVE  T = Nat
<1>1. SUFFICES ASSUME Nat \ T # {} PROVE FALSE
  OBVIOUS
<1>2. PICK m \in Nat \ T : \A k \in Nat \ T : m <= k
  <2>1. Nat \ T \subseteq Nat
    OBVIOUS
  <2>. QED
    BY <1>1, <2>1, LeastNumber
<1>3. m # 0
  OBVIOUS
<1>4. m - 1 \in T
  BY <1>2, <1>3
<1>. QED
  BY <1>4

-----------------------------------------------------------------------------
(* Counting in a sequence.                                                 *)

(* The prefix of a sequence that is counted.                               *)
Upto(seq, X, n) == {i \in 1..n : seq[i] \in X}

LEMMA UptoCounts ==
  ASSUME NEW seq, NEW X, NEW n \in Nat
  PROVE  /\ IsFiniteSet(Upto(seq, X, n))
         /\ Cardinality(Upto(seq, X, n)) \in Nat
         /\ Cardinality(Upto(seq, X, n)) <= n
<1>1. IsFiniteSet(1..n) /\ Cardinality(1..n) = n
  BY FS_Interval
<1>2. Upto(seq, X, n) \in SUBSET (1..n)
  BY DEF Upto
<1>3. /\ IsFiniteSet(Upto(seq, X, n))
      /\ Cardinality(Upto(seq, X, n)) <= n
  BY <1>1, <1>2, FS_Subset
<1>. QED
  BY <1>3, FS_CardinalityType

LEMMA UptoZero ==
  ASSUME NEW seq, NEW X
  PROVE  Cardinality(Upto(seq, X, 0)) = 0
<1>1. Upto(seq, X, 0) = {}
  BY DEF Upto
<1>. QED
  BY <1>1, FS_EmptySet

LEMMA UptoNext ==
  ASSUME NEW seq, NEW X, NEW n \in Nat
  PROVE  /\ seq[n + 1] \in X => Cardinality(Upto(seq, X, n + 1)) = Cardinality(Upto(seq, X, n)) + 1
         /\ seq[n + 1] \notin X => Cardinality(Upto(seq, X, n + 1)) = Cardinality(Upto(seq, X, n))
<1>1. ASSUME seq[n + 1] \in X
      PROVE  Cardinality(Upto(seq, X, n + 1)) = Cardinality(Upto(seq, X, n)) + 1
  <2>1. Upto(seq, X, n + 1) = Upto(seq, X, n) \cup {n + 1}
    BY <1>1 DEF Upto
  <2>2. n + 1 \notin Upto(seq, X, n)
    BY DEF Upto
  <2>3. IsFiniteSet(Upto(seq, X, n))
    BY UptoCounts
  <2>. QED
    BY <2>1, <2>2, <2>3, FS_AddElement
<1>2. ASSUME seq[n + 1] \notin X
      PROVE  Upto(seq, X, n + 1) = Upto(seq, X, n)
  BY <1>2 DEF Upto
<1>. QED
  BY <1>1, <1>2

LEMMA CountIsUpto ==
  ASSUME NEW S, NEW seq \in Seq(S), NEW X
  PROVE  Count(seq, X) = Cardinality(Upto(seq, X, Len(seq)))
<1>1. DOMAIN seq = 1..Len(seq)
  OBVIOUS
<1>. QED
  BY <1>1 DEF Count, Upto

LEMMA CountType ==
  ASSUME NEW S, NEW seq \in Seq(S), NEW X
  PROVE  /\ Count(seq, X) \in Nat
         /\ Count(seq, X) <= Len(seq)
         /\ Count(seq, X) = 0 <=> \A i \in 1..Len(seq) : seq[i] \notin X
<1>1. Len(seq) \in Nat
  OBVIOUS
<1>2. Upto(seq, X, Len(seq)) = {} <=> \A i \in 1..Len(seq) : seq[i] \notin X
  BY DEF Upto
<1>3. /\ IsFiniteSet(Upto(seq, X, Len(seq)))
      /\ Cardinality(Upto(seq, X, Len(seq))) \in Nat
      /\ Cardinality(Upto(seq, X, Len(seq))) <= Len(seq)
  BY <1>1, UptoCounts
<1>4. Cardinality(Upto(seq, X, Len(seq))) = 0 <=> Upto(seq, X, Len(seq)) = {}
  BY <1>3, FS_EmptySet
<1>. QED
  BY <1>2, <1>3, <1>4, CountIsUpto

LEMMA CountEmpty ==
  ASSUME NEW X
  PROVE  Count(<<>>, X) = 0
<1>1. {i \in DOMAIN <<>> : <<>>[i] \in X} = {}
  OBVIOUS
<1>. QED
  BY <1>1, FS_EmptySet DEF Count

LEMMA CountAppend ==
  ASSUME NEW S, NEW seq \in Seq(S), NEW x \in S, NEW X
  PROVE  Count(Append(seq, x), X) = Count(seq, X) + (IF x \in X THEN 1 ELSE 0)
<1> DEFINE longer == Append(seq, x)
           n == Len(seq)
<1>1. /\ longer \in Seq(S) /\ n \in Nat /\ Len(longer) = n + 1
      /\ \A i \in 1..n : longer[i] = seq[i]
      /\ longer[n + 1] = x
  OBVIOUS
<1>. HIDE DEF longer
<1>2. Count(longer, X) = Cardinality(Upto(longer, X, n + 1))
  BY <1>1, CountIsUpto
<1>3. Count(seq, X) = Cardinality(Upto(seq, X, n))
  BY CountIsUpto
<1>4. Upto(longer, X, n) = Upto(seq, X, n)
  BY <1>1 DEF Upto
<1>5. /\ longer[n + 1] \in X => Cardinality(Upto(longer, X, n + 1)) = Cardinality(Upto(longer, X, n)) + 1
      /\ longer[n + 1] \notin X => Cardinality(Upto(longer, X, n + 1)) = Cardinality(Upto(longer, X, n))
  BY <1>1, UptoNext
<1>6. Count(seq, X) \in Nat
  BY CountType
<1>7. Count(longer, X) = Count(seq, X) + (IF x \in X THEN 1 ELSE 0)
  BY <1>1, <1>2, <1>3, <1>4, <1>5, <1>6
<1>. QED
  BY <1>7 DEF longer

(* Sequences that agree on X have equally many of it.                      *)
LEMMA CountSame ==
  ASSUME NEW S, NEW seq \in Seq(S), NEW T, NEW other \in Seq(T), NEW X, NEW Y,
         Len(other) = Len(seq), \A i \in 1..Len(seq) : seq[i] \in X <=> other[i] \in Y
  PROVE  Count(other, Y) = Count(seq, X)
<1>1. Upto(other, Y, Len(other)) = Upto(seq, X, Len(seq))
  BY DEF Upto
<1>. QED
  BY <1>1, CountIsUpto

(* An element is of one of two kinds.                                      *)
Both(X, Y) == X \cap Y
Only(X, Y) == X \ Y

LEMMA CountSplit ==
  ASSUME NEW S, NEW seq \in Seq(S), NEW X, NEW Y
  PROVE  Count(seq, X) = Count(seq, Both(X, Y)) + Count(seq, Only(X, Y))
<1> DEFINE A == Upto(seq, X \cap Y, Len(seq))
           B == Upto(seq, X \ Y, Len(seq))
<1>1. Len(seq) \in Nat
  OBVIOUS
<1>2. IsFiniteSet(A) /\ IsFiniteSet(B) /\ Cardinality(A) \in Nat /\ Cardinality(B) \in Nat
  BY <1>1, UptoCounts
<1>3. Upto(seq, X, Len(seq)) = A \cup B /\ A \cap B = {}
  BY DEF Upto
<1>. HIDE DEF A, B
<1>4. Cardinality(A \cup B) = Cardinality(A) + Cardinality(B) - Cardinality(A \cap B)
  BY <1>2, FS_Union
<1>5. Cardinality(A \cap B) = 0
  BY <1>3, FS_EmptySet
<1>6. Cardinality(A \cup B) = Cardinality(A) + Cardinality(B)
  BY <1>2, <1>4, <1>5
<1>. QED
  BY <1>3, <1>6, CountIsUpto DEF A, B, Both, Only

LEMMA CountConcat ==
  ASSUME NEW S, NEW s1 \in Seq(S), NEW s2 \in Seq(S), NEW X
  PROVE  Count(s1 \o s2, X) = Count(s1, X) + Count(s2, X)
<1> DEFINE both == s1 \o s2
           A(n) == Cardinality(Upto(both, X, Len(s1) + n))
           B(n) == Cardinality(Upto(s2, X, n))
           C == Cardinality(Upto(s1, X, Len(s1)))
           T == {n \in Nat : n <= Len(s2) => A(n) = C + B(n)}
<1>1. /\ both \in Seq(S) /\ Len(s1) \in Nat /\ Len(s2) \in Nat
      /\ Len(both) = Len(s1) + Len(s2)
      /\ \A i \in 1..Len(s1) : both[i] = s1[i]
  OBVIOUS
<1>2. \A i \in Nat : i + 1 <= Len(s2) => both[Len(s1) + (i + 1)] = s2[i + 1]
  OBVIOUS
<1>. HIDE DEF both
<1>3. C \in Nat /\ \A n \in Nat : B(n) \in Nat /\ A(n) \in Nat
  BY <1>1, UptoCounts
<1>4. 0 \in T
  <2>1. Upto(both, X, Len(s1) + 0) = Upto(s1, X, Len(s1))
    BY <1>1 DEF Upto
  <2>2. B(0) = 0
    BY UptoZero
  <2>. QED
    BY <1>3, <2>1, <2>2
<1>5. ASSUME NEW n \in Nat, n + 1 <= Len(s2), A(n) = C + B(n)
      PROVE  A(n + 1) = C + B(n + 1)
  <2>1. /\ s2[n + 1] \in X => B(n + 1) = B(n) + 1
        /\ s2[n + 1] \notin X => B(n + 1) = B(n)
    BY UptoNext
  <2>2. PICK k \in Nat : k = Len(s1) + n
    BY <1>1
  <2>3. Len(s1) + (n + 1) = k + 1
    BY <1>1, <2>2
  <2>4. /\ both[k + 1] \in X => Cardinality(Upto(both, X, k + 1)) = Cardinality(Upto(both, X, k)) + 1
        /\ both[k + 1] \notin X => Cardinality(Upto(both, X, k + 1)) = Cardinality(Upto(both, X, k))
    BY UptoNext
  <2>5. both[k + 1] = s2[n + 1]
    BY <1>2, <1>5, <2>3
  <2>6. A(n) = Cardinality(Upto(both, X, k)) /\ A(n + 1) = Cardinality(Upto(both, X, k + 1))
    BY <2>2, <2>3
  <2>7. B(n) \in Nat /\ C \in Nat
    BY <1>3
  <2>. HIDE DEF A, B, C
  <2>. QED
    BY <1>5, <2>1, <2>4, <2>5, <2>6, <2>7
<1>10. ASSUME NEW n \in T PROVE n + 1 \in T
  <2>1. SUFFICES ASSUME n + 1 <= Len(s2) PROVE A(n + 1) = C + B(n + 1)
    OBVIOUS
  <2>2. n \in Nat /\ A(n) = C + B(n)
    BY <1>1, <2>1
  <2>. HIDE DEF A, B, C, T
  <2>. QED
    BY <1>5, <2>1, <2>2
<1>. HIDE DEF T
<1>6. T = Nat
  <2>1. T \subseteq Nat
    BY DEF T
  <2>. QED
    BY <1>4, <1>10, <2>1, Induction
<1>7. A(Len(s2)) = C + B(Len(s2))
  <2>1. Len(s2) \in T /\ Len(s2) <= Len(s2)
    BY <1>1, <1>6
  <2>. QED
    BY <2>1 DEF T
<1>8. Count(both, X) = Cardinality(Upto(both, X, Len(both)))
  BY <1>1, CountIsUpto
<1>9. Count(both, X) = A(Len(s2)) /\ Count(s1, X) = C /\ Count(s2, X) = B(Len(s2))
  BY <1>1, <1>8, CountIsUpto
<1>. QED
  BY <1>7, <1>9 DEF both

LEMMA CountOne ==
  ASSUME NEW x, NEW X
  PROVE  Count(<<x>>, X) = IF x \in X THEN 1 ELSE 0
<1>1. <<>> \in Seq({x}) /\ x \in {x}
  OBVIOUS
<1>2. Append(<<>>, x) = <<x>>
  OBVIOUS
<1>3. Count(Append(<<>>, x), X) = Count(<<>>, X) + (IF x \in X THEN 1 ELSE 0)
  BY <1>1, CountAppend
<1>. QED
  BY <1>2, <1>3, CountEmpty

(* An element in the middle of a sequence.                                 *)
Around(S, front, x, back, whole) ==
  /\ whole \in Seq(S)
  /\ Len(whole) = Len(front) + 1 + Len(back)
  /\ \A i \in 1..Len(front) : whole[i] = front[i]
  /\ whole[Len(front) + 1] = x
  /\ \A i \in 1..Len(back) : whole[Len(front) + 1 + i] = back[i]
  /\ \A X : Count(whole, X) = Count(front \o back, X) + (IF x \in X THEN 1 ELSE 0)

LEMMA ConcatAround ==
  ASSUME NEW S, NEW front \in Seq(S), NEW x \in S, NEW back \in Seq(S)
  PROVE  Around(S, front, x, back, front \o <<x>> \o back)
<1> DEFINE one == <<x>>
           n == Len(front)
           m == Len(back)
<1>1. one \in Seq(S) /\ Len(one) = 1 /\ one[1] = x /\ n \in Nat /\ m \in Nat
  OBVIOUS
<1>2. \A X : Count(one, X) = IF x \in X THEN 1 ELSE 0
  BY CountOne
<1>. HIDE DEF one
<1> DEFINE start == front \o one
<1>3. /\ start \in Seq(S) /\ Len(start) = n + 1
      /\ \A i \in 1..(n + 1) : start[i] = IF i <= n THEN front[i] ELSE one[i - n]
  <2>1. one \in Seq(S)
    BY <1>1
  <2>2. /\ front \o one \in Seq(S) /\ Len(front \o one) = Len(front) + Len(one)
        /\ \A i \in 1..(Len(front) + Len(one)) :
             (front \o one)[i] = IF i <= Len(front) THEN front[i] ELSE one[i - Len(front)]
    BY <2>1, ConcatProperties, Zenon
  <2>. QED
    BY <1>1, <2>2
<1>4. \A i \in 1..n : start[i] = front[i]
  BY <1>1, <1>3
<1>5. start[n + 1] = x
  BY <1>1, <1>3
<1>6. \A X : Count(start, X) = Count(front, X) + Count(one, X)
  BY <1>1, CountConcat
<1>. HIDE DEF start
<1> DEFINE whole == start \o back
<1>7. /\ whole \in Seq(S) /\ Len(whole) = n + 1 + m
      /\ \A i \in 1..(n + 1 + m) : whole[i] = IF i <= n + 1 THEN start[i] ELSE back[i - (n + 1)]
  <2>1. start \in Seq(S)
    BY <1>3
  <2>2. /\ start \o back \in Seq(S) /\ Len(start \o back) = Len(start) + Len(back)
        /\ \A i \in 1..(Len(start) + Len(back)) :
             (start \o back)[i] = IF i <= Len(start) THEN start[i] ELSE back[i - Len(start)]
    BY <2>1, ConcatProperties, Zenon
  <2>. QED
    BY <1>3, <2>2
<1>8. /\ \A X : Count(whole, X) = Count(start, X) + Count(back, X)
      /\ \A X : Count(front \o back, X) = Count(front, X) + Count(back, X)
  BY <1>3, CountConcat
<1>. HIDE DEF whole, n, m
<1>9. \A i \in 1..n : whole[i] = front[i]
  BY <1>1, <1>4, <1>7
<1>10. whole[n + 1] = x
  BY <1>1, <1>5, <1>7
<1>11. \A i \in 1..m : whole[n + 1 + i] = back[i]
  BY <1>1, <1>7
<1>12. ASSUME NEW X PROVE Count(whole, X) = Count(front \o back, X) + (IF x \in X THEN 1 ELSE 0)
  <2>1. Count(front, X) \in Nat /\ Count(back, X) \in Nat
    BY CountType
  <2>2. /\ Count(whole, X) = Count(start, X) + Count(back, X)
        /\ Count(front \o back, X) = Count(front, X) + Count(back, X)
        /\ Count(start, X) = Count(front, X) + Count(one, X)
        /\ Count(one, X) = IF x \in X THEN 1 ELSE 0
    BY <1>2, <1>6, <1>8
  <2>. QED
    BY <2>1, <2>2
<1>. QED
  BY <1>7, <1>9, <1>10, <1>11, <1>12 DEF whole, start, one, n, m, Around

LEMMA InsertAtCounts ==
  ASSUME NEW S, NEW seq \in Seq(S), NEW x \in S, NEW n \in 1..(Len(seq) + 1)
  PROVE  /\ InsertAt(seq, n, x) \in Seq(S)
         /\ Len(InsertAt(seq, n, x)) = Len(seq) + 1
         /\ \A i \in 1..(Len(seq) + 1) :
              InsertAt(seq, n, x)[i] = IF i < n THEN seq[i] ELSE IF i = n THEN x ELSE seq[i - 1]
         /\ \A X : Count(InsertAt(seq, n, x), X) = Count(seq, X) + (IF x \in X THEN 1 ELSE 0)
<1> DEFINE front == SubSeq(seq, 1, n - 1)
           back == SubSeq(seq, n, Len(seq))
           whole == InsertAt(seq, n, x)
<1>1. /\ Len(seq) \in Nat /\ n \in Nat
      /\ front \in Seq(S) /\ back \in Seq(S)
      /\ Len(front) = n - 1 /\ Len(back) = Len(seq) + 1 - n
      /\ \A i \in 1..(n - 1) : front[i] = seq[i]
      /\ \A i \in 1..(Len(seq) + 1 - n) : back[i] = seq[n + i - 1]
  OBVIOUS
<1>2. front \o back = seq
  <2>1. 1 \in 1..(Len(seq) + 1) /\ n - 1 \in (1 - 1)..Len(seq) /\ Len(seq) \in (n - 1)..Len(seq)
    BY <1>1
  <2>2. SubSeq(seq, 1, n - 1) \o SubSeq(seq, (n - 1) + 1, Len(seq)) = SubSeq(seq, 1, Len(seq))
    BY <2>1, ConcatAdjacentSubSeq, Zenon
  <2>3. (n - 1) + 1 = n
    BY <1>1
  <2>. QED
    BY <2>2, <2>3, SubSeqFull
<1>3. Around(S, front, x, back, whole)
  BY <1>1, ConcatAround DEF InsertAt
<1>. HIDE DEF front, back, whole
<1>4. /\ whole \in Seq(S)
      /\ Len(whole) = Len(front) + 1 + Len(back)
      /\ \A i \in 1..Len(front) : whole[i] = front[i]
      /\ whole[Len(front) + 1] = x
      /\ \A i \in 1..Len(back) : whole[Len(front) + 1 + i] = back[i]
      /\ \A X : Count(whole, X) = Count(front \o back, X) + (IF x \in X THEN 1 ELSE 0)
  BY <1>3 DEF Around
<1>5. Len(whole) = Len(seq) + 1
  BY <1>1, <1>4
<1>6. ASSUME NEW i \in 1..(Len(seq) + 1)
      PROVE  whole[i] = IF i < n THEN seq[i] ELSE IF i = n THEN x ELSE seq[i - 1]
  <2>1. CASE i < n
    BY <1>1, <1>4, <2>1
  <2>2. CASE i = n
    BY <1>1, <1>4, <2>2
  <2>3. CASE i > n
    <3>1. PICK k \in 1..(Len(seq) + 1 - n) : n + k = i
      BY <1>1, <2>3
    <3>2. whole[Len(front) + 1 + k] = back[k] /\ back[k] = seq[n + k - 1]
      BY <1>1, <1>4
    <3>3. Len(front) + 1 + k = i /\ n + k - 1 = i - 1
      BY <1>1, <3>1
    <3>. QED
      BY <2>3, <3>2, <3>3
  <2>. QED
    BY <1>1, <2>1, <2>2, <2>3
<1>. QED
  BY <1>2, <1>4, <1>5, <1>6 DEF whole

(* One occurrence of x is removed, if there is one.                        *)
LEMMA RemoveFirstCounts ==
  ASSUME NEW S, NEW seq \in Seq(S), NEW x \in S
  PROVE  /\ RemoveFirst(seq, x) \in Seq(S)
         /\ \A X : Count(RemoveFirst(seq, x), X)
                    = Count(seq, X) - (IF x \in X /\ Count(seq, {x}) > 0 THEN 1 ELSE 0)
<1>0. Len(seq) \in Nat
  OBVIOUS
<1>1. CASE \A i \in 1..Len(seq) : seq[i] # x
  <2>1. RemoveFirst(seq, x) = seq
    BY <1>1 DEF RemoveFirst
  <2>2. Count(seq, {x}) = 0
    BY <1>1, CountType
  <2>3. \A X : Count(seq, X) \in Nat
    BY CountType
  <2>. QED
    BY <2>1, <2>2, <2>3
<1>2. CASE \E i \in 1..Len(seq) : seq[i] = x
  <2> DEFINE I == {i \in 1..Len(seq) : seq[i] = x}
  <2>1. I # {} /\ I \subseteq Nat
    BY <1>2
  <2>2. \E k \in I : \A j \in I : k <= j
    BY <2>1, LeastNumber
  <2>3. Min(I) \in I
    BY <2>2 DEF Min
  <2>4. PICK n \in 1..Len(seq) : seq[n] = x /\ n = Min(I)
    BY <2>3
  <2>5. RemoveFirst(seq, x) = RemoveAt(seq, n)
    BY <1>2, <2>1, <2>4 DEF RemoveFirst, SelectInSeq
  <2> DEFINE front == SubSeq(seq, 1, n - 1)
             back == SubSeq(seq, n + 1, Len(seq))
  <2>. HIDE DEF I
  <2>6. /\ front \in Seq(S) /\ back \in Seq(S) /\ n \in Nat
        /\ Len(front) = n - 1 /\ Len(back) = Len(seq) - n
        /\ \A i \in 1..(n - 1) : front[i] = seq[i]
        /\ \A i \in 1..(Len(seq) - n) : back[i] = seq[n + i]
    BY <1>0
  <2>7. RemoveAt(seq, n) = front \o back
    BY DEF RemoveAt
  <2> DEFINE whole == front \o <<x>> \o back
  <2>13. Around(S, front, x, back, whole)
    BY <2>6, ConcatAround
  <2>. HIDE DEF front, back, whole
  <2>8. /\ whole \in Seq(S)
        /\ Len(whole) = Len(front) + 1 + Len(back)
        /\ \A i \in 1..Len(front) : whole[i] = front[i]
        /\ whole[Len(front) + 1] = x
        /\ \A i \in 1..Len(back) : whole[Len(front) + 1 + i] = back[i]
        /\ \A X : Count(whole, X) = Count(front \o back, X) + (IF x \in X THEN 1 ELSE 0)
    BY <2>13 DEF Around
  <2>9. whole = seq
    <3>1. Len(whole) = Len(seq)
      BY <1>0, <2>6, <2>8
    <3>2. ASSUME NEW i \in 1..Len(seq) PROVE whole[i] = seq[i]
      <4>1. CASE i < n
        <5>1. i \in 1..(n - 1) /\ i \in 1..Len(front)
          BY <1>0, <2>6, <4>1
        <5>. QED
          BY <2>6, <2>8, <5>1
      <4>2. CASE i = n
        <5>1. Len(front) + 1 = i
          BY <2>6, <4>2
        <5>. QED
          BY <2>4, <2>8, <4>2, <5>1
      <4>3. CASE i > n
        <5>1. PICK k \in 1..(Len(seq) - n) : n + k = i
          BY <1>0, <2>6, <4>3
        <5>2. whole[Len(front) + 1 + k] = back[k] /\ back[k] = seq[n + k]
          BY <1>0, <2>6, <2>8
        <5>3. Len(front) + 1 + k = i
          BY <1>0, <2>6, <5>1
        <5>. QED
          BY <5>1, <5>2, <5>3
      <4>. QED
        BY <1>0, <2>6, <4>1, <4>2, <4>3
    <3>. QED
      BY <2>8, <3>1, <3>2, SeqEqual
  <2>10. front \o back \in Seq(S)
    BY <2>6
  <2>11. Count(seq, {x}) # 0 /\ Count(seq, {x}) \in Nat
    BY <2>4, CountType
  <2>12. ASSUME NEW X
         PROVE  Count(front \o back, X) = Count(seq, X) - (IF x \in X THEN 1 ELSE 0)
    <3>1. Count(seq, X) = Count(front \o back, X) + (IF x \in X THEN 1 ELSE 0)
      BY <2>8, <2>9
    <3>2. Count(front \o back, X) \in Nat
      BY <2>10, CountType
    <3>. QED
      BY <3>1, <3>2
  <2>. QED
    BY <2>5, <2>7, <2>10, <2>11, <2>12
<1>. QED
  BY <1>1, <1>2

-----------------------------------------------------------------------------
(* Erasing.                                                                *)

(* The equation of the recursive function in Without.                      *)
Erases(seq, X, N, left) ==
  left = [n \in 0..N |->
            IF n = 0 THEN <<>> ELSE IF seq[n] \in X THEN left[n - 1] ELSE Append(left[n - 1], seq[n])]

LEMMA ErasesDefined ==
  ASSUME NEW seq, NEW X, NEW N \in Nat
  PROVE  \E left : Erases(seq, X, N, left)
<1> DEFINE T == {k \in Nat : \E left : Erases(seq, X, k, left)}
<1>1. 0 \in T
  <2>1. Erases(seq, X, 0, [n \in 0..0 |-> <<>>])
    BY DEF Erases
  <2>. QED
    BY <2>1
<1>2. ASSUME NEW k \in T PROVE k + 1 \in T
  <2>1. PICK f : Erases(seq, X, k, f)
    OBVIOUS
  <2> DEFINE g == [n \in 0..(k + 1) |->
        IF n = 0 THEN <<>> ELSE IF seq[n] \in X THEN f[n - 1] ELSE Append(f[n - 1], seq[n])]
  <2>2. \A n \in 0..k : f[n] = IF n = 0 THEN <<>> ELSE IF seq[n] \in X THEN f[n - 1] ELSE Append(f[n - 1], seq[n])
    BY <2>1 DEF Erases
  <2>3. \A n \in 0..k : g[n] = f[n]
    BY <2>2
  <2>4. \A n \in 0..(k + 1) : n # 0 => n - 1 \in 0..k
    OBVIOUS
  <2>5. \A n \in 0..(k + 1) : n # 0 => g[n - 1] = f[n - 1]
    BY <2>3, <2>4
  <2>6. Erases(seq, X, k + 1, g)
    BY <2>5, Zenon DEF Erases
  <2>. QED
    BY <2>6
<1>. HIDE DEF T
<1>3. T \subseteq Nat
  BY DEF T
<1>4. T = Nat
  BY <1>1, <1>2, <1>3, Induction
<1>. QED
  BY <1>4 DEF T

LEMMA WithoutErases ==
  ASSUME NEW S, NEW seq \in Seq(S), NEW X
  PROVE  \E left : Erases(seq, X, Len(seq), left) /\ Without(seq, X) = left[Len(seq)]
<1>1. Len(seq) \in Nat
  OBVIOUS
<1>2. \E left : Erases(seq, X, Len(seq), left)
  BY <1>1, ErasesDefined
<1>. QED
  BY <1>2 DEF Without, Erases

(* What is left is a sequence of the same kind, and as often in it as      *)
(* before is what was not to be erased.                                    *)
LEMMA WithoutCounts ==
  ASSUME NEW S, NEW seq \in Seq(S), NEW X
  PROVE  /\ Without(seq, X) \in Seq(S)
         /\ \A Y : Count(Without(seq, X), Y) = Count(seq, Y \ X)
<1>1. Len(seq) \in Nat
  OBVIOUS
<1>2. PICK left : Erases(seq, X, Len(seq), left) /\ Without(seq, X) = left[Len(seq)]
  BY WithoutErases
<1> DEFINE Right(n) == /\ left[n] \in Seq(S)
                       /\ \A Y : Count(left[n], Y) = Cardinality(Upto(seq, Y \ X, n))
           T == {n \in Nat : n <= Len(seq) => Right(n)}
<1>3. left[0] = <<>>
  BY <1>1, <1>2 DEF Erases
<1>4. ASSUME NEW n \in Nat, n + 1 <= Len(seq)
      PROVE  left[n + 1] = IF seq[n + 1] \in X THEN left[n] ELSE Append(left[n], seq[n + 1])
  <2>1. n + 1 \in 0..Len(seq) /\ n + 1 # 0 /\ (n + 1) - 1 = n
    BY <1>4
  <2>. QED
    BY <1>2, <2>1 DEF Erases
<1>5. 0 \in T
  <2>1. ASSUME NEW Y PROVE Count(left[0], Y) = Cardinality(Upto(seq, Y \ X, 0))
    <3>1. Cardinality(Upto(seq, Y \ X, 0)) = 0
      BY UptoZero
    <3>. QED
      BY <1>3, <3>1, CountEmpty
  <2>2. left[0] \in Seq(S)
    BY <1>3
  <2>. QED
    BY <2>1, <2>2
<1>6. ASSUME NEW n \in T PROVE n + 1 \in T
  <2>1. SUFFICES ASSUME n + 1 <= Len(seq) PROVE Right(n + 1)
    OBVIOUS
  <2>2. Right(n)
    BY <1>1, <2>1
  <2>3. seq[n + 1] \in S
    BY <2>1
  <2>4. left[n + 1] \in Seq(S)
    <3>1. Append(left[n], seq[n + 1]) \in Seq(S)
      BY <2>2, <2>3
    <3>. QED
      BY <1>4, <2>1, <2>2, <3>1
  <2>5. ASSUME NEW Y PROVE Count(left[n + 1], Y) = Cardinality(Upto(seq, Y \ X, n + 1))
    <3> DEFINE U(k) == Cardinality(Upto(seq, Y \ X, k))
    <3>0. U(n) \in Nat /\ U(n + 1) = U(n) + (IF seq[n + 1] \in Y \ X THEN 1 ELSE 0) /\ Count(left[n], Y) = U(n)
      <4>1. n \in Nat
        OBVIOUS
      <4>2. U(n) \in Nat
        BY <4>1, UptoCounts
      <4>4. /\ seq[n + 1] \in Y \ X => U(n + 1) = U(n) + 1
            /\ seq[n + 1] \notin Y \ X => U(n + 1) = U(n)
        BY <4>1, UptoNext
      <4>3. Count(left[n], Y) = U(n)
        BY <2>2
      <4>. QED
        BY <4>2, <4>3, <4>4
    <3>. HIDE DEF U
    <3>1. CASE seq[n + 1] \in X
      <4>1. left[n + 1] = left[n]
        BY <1>4, <2>1, <3>1
      <4>. QED
        BY <3>0, <3>1, <4>1 DEF U
    <3>2. CASE seq[n + 1] \notin X
      <4>1. left[n + 1] = Append(left[n], seq[n + 1])
        BY <1>4, <2>1, <3>2
      <4>2. Count(left[n + 1], Y) = Count(left[n], Y) + (IF seq[n + 1] \in Y THEN 1 ELSE 0)
        BY <2>2, <2>3, <4>1, CountAppend
      <4>. QED
        BY <3>0, <3>2, <4>2 DEF U
    <3>. QED
      BY <3>1, <3>2
  <2>. QED
    BY <2>4, <2>5
<1>. HIDE DEF T
<1>7. T = Nat
  <2>1. T \subseteq Nat
    BY DEF T
  <2>. QED
    BY <1>5, <1>6, <2>1, Induction
<1>8. Right(Len(seq))
  <2>1. Len(seq) \in T /\ Len(seq) <= Len(seq)
    BY <1>1, <1>7
  <2>. QED
    BY <2>1 DEF T
<1>. QED
  BY <1>2, <1>8, CountIsUpto

-----------------------------------------------------------------------------
(* The invariant.                                                          *)

Typed ==
  /\ alive \subseteq Source \cup Sink
  /\ sinks \in [Source -> Seq(Entry)]
  /\ sources \in [Sink -> Seq(Source)]
  /\ sending \in [Source -> BOOLEAN]
  /\ dirty \in [Source -> BOOLEAN]
  /\ it \in [Source -> Nat]
  /\ owner \in [Locks -> Thread \cup {None}]
  /\ pc \in [Thread -> {"idle", "lockSource", "lockSink", "send", "slot", "lockGlobal", "lockOwn", "cutSink",
                        "lockSelf", "try", "cutSource"}]
  /\ call \in [Thread -> [op : LinkOps \cup DeleteOps \cup {"send", "none"},
                          source : Source \cup {None}, sink : Sink \cup {None}]]

(* Who is where in which call.                                             *)
CallOf(t) ==
  /\ call[t].op \in LinkOps =>
       call[t].source \in Source /\ call[t].sink \in Sink /\ pc[t] \in {"lockSource", "lockSink"}
  /\ call[t].op = "send" =>
       call[t].source \in Source /\ call[t].sink = None /\ pc[t] \in {"lockSource", "send", "slot"}
  /\ call[t].op = "deleteSource" =>
       call[t].source \in Source /\ call[t].sink = None /\ pc[t] \in {"lockGlobal", "lockOwn", "cutSink"}
  /\ call[t].op = "deleteSink" =>
       call[t].source = None /\ call[t].sink \in Sink /\ pc[t] \in {"lockSelf", "try", "cutSource"}
  /\ call[t].op = "none" =>
       call[t].source = None /\ call[t].sink = None /\ pc[t] = "idle"

(* The mutexes a thread has.                                               *)
Has(t, l) ==
  \/ l = call[t].source /\ pc[t] \in {"lockSink", "send", "slot", "cutSink"}
  \/ l = call[t].sink /\ pc[t] \in {"try", "cutSource"}
  \/ l = Dmx /\ pc[t] \in {"lockOwn", "cutSink", "cutSource"}

Places == \A t \in Thread : CallOf(t)
Mutexes == \A t \in Thread, l \in Locks : owner[l] = t <=> Has(t, l)

(* The rules of the program.                                               *)
NamedLive == \A t \in Thread, x \in Source \cup Sink : Names(t, x) => x \in alive
DeletedAlone ==
  \A t, u \in Thread, x \in Source \cup Sink :
    t # u /\ Names(t, x) /\ Names(u, x) => call[t].op \notin DeleteOps
LinkedAlone ==
  \A t, u \in Thread, e \in Source, s \in Sink :
    t # u => ~(Names(t, e) /\ Names(t, s) /\ Names(u, e) /\ Names(u, s))

(* A send in progress.                                                     *)
Sender(e) == owner[e] \in Thread /\ pc[owner[e]] \in {"lockSink", "send", "slot"}
Sends ==
  /\ \A t \in Thread : pc[t] \in {"send", "slot"} => sending[call[t].source]
  /\ \A e \in Source : sending[e] => Sender(e)
  /\ \A e \in Source : it[e] = 0 <=> ~sending[e]
  /\ \A e \in Source : sending[e] => it[e] <= Len(sinks[e]) + (IF pc[owner[e]] = "send" THEN 1 ELSE 0)
EmptiedLater ==
  \A e \in Source :
    /\ dirty[e] => sending[e]
    /\ ~dirty[e] => Count(sinks[e], EntriesFor(None, Types)) = 0

Served(e) == IF pc[owner[e]] = "send" THEN it[e] - 1 ELSE it[e]
InOrder ==
  \A e \in Source : sending[e] =>
    \A i \in 1..Len(sinks[e]) :
      /\ i <= Served(e) /\ sinks[e][i].sink # None => sinks[e][i].mark # "due"
      /\ i > Served(e) => sinks[e][i].mark # "sent"

DeadUnlinked ==
  /\ \A e \in Source : e \notin alive => sinks[e] = <<>>
  /\ \A s \in Sink : s \notin alive => sources[s] = <<>>
StillLinked ==
  \A t \in Thread :
    /\ pc[t] = "cutSink" => sinks[call[t].source] # <<>>
    /\ pc[t] \in {"try", "cutSource"} => sources[call[t].sink] # <<>>
PairedCall(t) ==
  /\ call[t].op = "subscribe" => Subscriptions(call[t].source, call[t].sink) = 0
  /\ call[t].op = "unsubscribe" => Subscriptions(call[t].source, call[t].sink) = 1
Paired == \A t \in Thread : PairedCall(t)

Core ==
  /\ Typed /\ Places /\ Mutexes /\ NamedLive /\ DeletedAlone /\ LinkedAlone
  /\ Sends /\ EmptiedLater /\ InOrder /\ StillLinked

USE EventSourceAssumption DEF EventSourceAssumption

-----------------------------------------------------------------------------
(* The steps of a thread.                                                  *)

Calls(t) ==
  \/ \E op \in LinkOps, e \in Source, s \in Sink : CallLink(t, op, e, s)
  \/ \E op \in LinkOps, s \in Sink : CallInSlot(t, op, s)
  \/ \E e \in Source : CallSend(t, e) \/ CallDeleteSource(t, e)
  \/ \E s \in Sink : CallDeleteSink(t, s)

Step(t) == Calls(t) \/ Proceed(t) \/ Throw(t)

LEMMA NextIsStep ==
  ASSUME [Next]_vars
  PROVE  (\E t \in Thread : Step(t)) \/ UNCHANGED vars
BY DEF Next, Step, Calls

(* What a thread does, from where it is.                                   *)
LEMMA ThreadAt ==
  ASSUME Typed, Places, NEW t \in Thread
  PROVE  /\ pc[t] = "idle" => call[t].op = "none" /\ call[t].source = None /\ call[t].sink = None
         /\ pc[t] = "lockSource" => call[t].source \in Source /\ call[t].op \in LinkOps \cup {"send"}
         /\ pc[t] = "lockSource" /\ call[t].op \in LinkOps => call[t].sink \in Sink
         /\ pc[t] = "lockSink" => call[t].source \in Source /\ call[t].sink \in Sink /\ call[t].op \in LinkOps
         /\ pc[t] \in {"send", "slot"} =>
              call[t].source \in Source /\ call[t].sink = None /\ call[t].op = "send"
         /\ pc[t] \in {"lockGlobal", "lockOwn", "cutSink"} =>
              call[t].source \in Source /\ call[t].sink = None /\ call[t].op = "deleteSource"
         /\ pc[t] \in {"lockSelf", "try", "cutSource"} =>
              call[t].source = None /\ call[t].sink \in Sink /\ call[t].op = "deleteSink"
<1>1. CallOf(t)
  BY DEF Places
<1>2. call[t].op \in LinkOps \cup DeleteOps \cup {"send", "none"}
  BY DEF Typed
<1>. QED
  BY <1>1, <1>2 DEF CallOf, LinkOps, DeleteOps

(* What a call begins with.                                                *)
Begun(t, op, e, s, label) ==
  /\ op \in LinkOps \cup DeleteOps \cup {"send"}
  /\ op \in LinkOps => e \in Source /\ s \in Sink /\ MayLink(op, e, s)
  /\ op \in LinkOps => label = IF pc[t] = "slot" THEN "lockSink" ELSE "lockSource"
  /\ op = "send" => e \in Source /\ s = None /\ Usable(e) /\ label = "lockSource"
  /\ op = "deleteSource" => e \in Source /\ s = None /\ Unused(e) /\ label = "lockGlobal"
  /\ op = "deleteSink" => e = None /\ s \in Sink /\ Unused(s) /\ label = "lockSelf"
  /\ pc[t] = "idle" \/ (pc[t] = "slot" /\ op \in LinkOps /\ e = call[t].source)
  /\ Enter(t, op, e, s, label)

LEMMA CallsBegin ==
  ASSUME Typed, Places, NEW t \in Thread, Calls(t)
  PROVE  \E op, e, s, label : Begun(t, op, e, s, label)
<1>1. ASSUME NEW op \in LinkOps, NEW e \in Source, NEW s \in Sink, CallLink(t, op, e, s)
      PROVE  Begun(t, op, e, s, "lockSource")
  BY <1>1 DEF CallLink, Begun, LinkOps, DeleteOps
<1>2. ASSUME NEW op \in LinkOps, NEW s \in Sink, CallInSlot(t, op, s)
      PROVE  Begun(t, op, call[t].source, s, "lockSink")
  <2>1. pc[t] = "slot" /\ MayLink(op, call[t].source, s) /\ Enter(t, op, call[t].source, s, "lockSink")
    BY <1>2 DEF CallInSlot
  <2>2. call[t].source \in Source
    BY <2>1, ThreadAt
  <2>. QED
    BY <1>2, <2>1, <2>2 DEF Begun, LinkOps, DeleteOps
<1>3. ASSUME NEW e \in Source, CallSend(t, e)
      PROVE  Begun(t, "send", e, None, "lockSource")
  BY <1>3 DEF CallSend, Begun, LinkOps, DeleteOps
<1>4. ASSUME NEW e \in Source, CallDeleteSource(t, e)
      PROVE  Begun(t, "deleteSource", e, None, "lockGlobal")
  BY <1>4 DEF CallDeleteSource, Begun, LinkOps, DeleteOps
<1>5. ASSUME NEW s \in Sink, CallDeleteSink(t, s)
      PROVE  Begun(t, "deleteSink", None, s, "lockSelf")
  BY <1>5 DEF CallDeleteSink, Begun, LinkOps, DeleteOps
<1>. QED
  BY <1>1, <1>2, <1>3, <1>4, <1>5 DEF Calls

(* The other threads stay where they are.                                  *)
LEMMA OthersStay ==
  ASSUME Typed, NEW t \in Thread, Step(t), NEW u \in Thread, u # t
  PROVE  pc'[u] = pc[u] /\ call'[u] = call[u]
<1>0. Typed
  OBVIOUS
<1>1. CASE Calls(t)
  <2>1. PICK op, e, s, label : Enter(t, op, e, s, label)
    BY <1>1 DEF Calls, CallLink, CallInSlot, CallSend, CallDeleteSource, CallDeleteSink
  <2>. QED
    BY <2>1 DEF Enter, Goto, Typed
<1>2. CASE LockSource(t) \/ StartSend(t) \/ Return(t) \/ LockGlobal(t) \/ CutSink(t) \/ Try(t) \/ CutSource(t)
  <2>1. (\E label : Goto(t, label)) /\ call' = call
    BY <1>2 DEF LockSource, StartSend, Return, LockGlobal, CutSink, Try, CutSource
  <2>. QED
    BY <2>1 DEF Goto, Typed
<1>3. CASE Link(t)
  <2>1. (\E label : Goto(t, label)) /\ (\E c : call' = [call EXCEPT ![t] = c])
    BY <1>3 DEF Link, Leave
  <2>. QED
    BY <2>1 DEF Goto, Typed
<1>4. CASE Visit(t)
  <2>1. (UNCHANGED pc \/ Goto(t, "slot")) /\ call' = call
    BY <1>4 DEF Visit
  <2>. QED
    BY <2>1 DEF Goto, Typed
<1>5. CASE Finish(t) \/ Throw(t) \/ LockOwn(t) \/ LockSelf(t)
  <2>1. Leave(t) \/ ((\E label : Goto(t, label)) /\ call' = call)
    BY <1>5 DEF Finish, Throw, EndSend, LockOwn, LockSelf
  <2>. QED
    BY <2>1 DEF Leave, Goto, Typed
<1>. QED
  BY <1>1, <1>2, <1>3, <1>4, <1>5 DEF Step, Proceed

(* The step of a thread, as its place and its call show it.                *)
At(t, label) == pc'[t] = label /\ call'[t] = call[t]
Gone(t) == pc'[t] = "idle" /\ call'[t] = NoCall
LEMMA StepMoves ==
  ASSUME Typed, NEW t \in Thread
  PROVE  /\ LockSource(t) => At(t, "lockSink")
         /\ Link(t) =>
              \/ /\ pc'[t] = "slot" /\ sending[call[t].source]
                 /\ call'[t] = [op |-> "send", source |-> call[t].source, sink |-> None]
              \/ Gone(t) /\ ~sending[call[t].source]
         /\ StartSend(t) => At(t, "send")
         /\ Visit(t) => At(t, "send") \/ At(t, "slot")
         /\ Return(t) => At(t, "send")
         /\ Finish(t) \/ Throw(t) => Gone(t)
         /\ LockGlobal(t) => At(t, "lockOwn")
         /\ LockOwn(t) => Gone(t) \/ At(t, "cutSink")
         /\ CutSink(t) => At(t, "lockOwn")
         /\ LockSelf(t) => Gone(t) \/ At(t, "try")
         /\ Try(t) => At(t, "cutSource") \/ At(t, "lockSelf")
         /\ CutSource(t) => At(t, "lockSelf")
<1>. USE DEF At, Gone
<1>1. LockSource(t) => At(t, "lockSink")
  BY DEF LockSource, Goto, Typed
<1>2. Link(t) =>
        \/ /\ pc'[t] = "slot" /\ sending[call[t].source]
           /\ call'[t] = [op |-> "send", source |-> call[t].source, sink |-> None]
        \/ Gone(t) /\ ~sending[call[t].source]
  BY DEF Link, Leave, Goto, Typed
<1>3. StartSend(t) => At(t, "send")
  BY DEF StartSend, Goto, Typed
<1>4. Visit(t) => At(t, "send") \/ At(t, "slot")
  BY DEF Visit, Goto, Typed
<1>5. Return(t) => At(t, "send")
  BY DEF Return, Goto, Typed
<1>6. Finish(t) \/ Throw(t) => Gone(t)
  BY DEF Finish, Throw, EndSend, Leave, Goto, Typed
<1>7. LockGlobal(t) => At(t, "lockOwn")
  BY DEF LockGlobal, Goto, Typed
<1>8. LockOwn(t) => Gone(t) \/ At(t, "cutSink")
  BY DEF LockOwn, Leave, Goto, Typed
<1>9. CutSink(t) => At(t, "lockOwn")
  BY DEF CutSink, Goto, Typed
<1>10. LockSelf(t) => Gone(t) \/ At(t, "try")
  BY DEF LockSelf, Leave, Goto, Typed
<1>11. Try(t) => At(t, "cutSource") \/ At(t, "lockSelf")
  BY DEF Try, Goto, Typed
<1>12. CutSource(t) => At(t, "lockSelf")
  BY DEF CutSource, Goto, Typed
<1>. QED
  BY <1>1, <1>2, <1>3, <1>4, <1>5, <1>6, <1>7, <1>8, <1>9, <1>10, <1>11, <1>12

-----------------------------------------------------------------------------
(* What happens to the entries of a source.                                *)

LEMMA CountZero ==
  ASSUME NEW seq, NEW X, Len(seq) \in Nat, DOMAIN seq = 1..Len(seq)
  PROVE  Count(seq, X) = 0 <=> \A i \in DOMAIN seq : seq[i] \notin X
<1> DEFINE Hits == {i \in DOMAIN seq : seq[i] \in X}
<1>1. IsFiniteSet(Hits)
  <2>1. IsFiniteSet(1..Len(seq))
    BY FS_Interval
  <2>. QED
    BY <2>1, FS_Subset
<1>2. Cardinality(Hits) = 0 <=> Hits = {}
  BY <1>1, FS_EmptySet
<1>. QED
  BY <1>2 DEF Count

LEMMA PlaceIsIn ==
  ASSUME Typed, NEW e \in Source, NEW type \in Types
  PROVE  Place(e, type) \in 1..(Len(sinks[e]) + 1)
<1> DEFINE X == [type : {"any"}, sink : Sink \cup {None}, mark : Marks]
<1>1. sinks[e] \in Seq(Entry)
  BY DEF Typed
<1>2. Count(sinks[e], X) \in 0..Len(sinks[e])
  BY <1>1, CountType
<1>. QED
  BY <1>1, <1>2 DEF Place

LEMMA MarkedEntries ==
  ASSUME NEW entries \in Seq(Entry), NEW mark \in Marks
  PROVE  /\ Marked(entries, mark) \in Seq(Entry)
         /\ Len(Marked(entries, mark)) = Len(entries)
         /\ \A i \in 1..Len(entries) :
              /\ Marked(entries, mark)[i].mark = mark
              /\ Marked(entries, mark)[i].sink = entries[i].sink
              /\ Marked(entries, mark)[i].type = entries[i].type
<1> DEFINE new == Marked(entries, mark)
<1>1. Len(entries) \in Nat /\ DOMAIN entries = 1..Len(entries) /\ \A i \in 1..Len(entries) : entries[i] \in Entry
  OBVIOUS
<1>2. ASSUME NEW x \in Entry
      PROVE  /\ [x EXCEPT !.mark = mark] \in Entry
             /\ [x EXCEPT !.mark = mark].mark = mark
             /\ [x EXCEPT !.mark = mark].sink = x.sink
             /\ [x EXCEPT !.mark = mark].type = x.type
  BY DEF Entry
<1>3. new = [i \in 1..Len(entries) |-> [entries[i] EXCEPT !.mark = mark]]
  BY <1>1 DEF Marked
<1>4. ASSUME NEW i \in 1..Len(entries)
      PROVE  /\ new[i] \in Entry
             /\ new[i].mark = mark /\ new[i].sink = entries[i].sink /\ new[i].type = entries[i].type
  <2>1. new[i] = [entries[i] EXCEPT !.mark = mark] /\ entries[i] \in Entry
    BY <1>1, <1>3
  <2>. QED
    BY <1>2, <2>1
<1>5. DOMAIN new = 1..Len(entries)
  BY <1>3
<1>6. new \in Seq(Entry) /\ Len(new) = Len(entries)
  <2>1. new = [i \in 1..Len(entries) |-> new[i]]
    BY <1>3
  <2>. HIDE DEF new
  <2>. QED
    BY <1>1, <1>4, <2>1
<1>. QED
  BY <1>4, <1>6

LEMMA EmptiedEntries ==
  ASSUME NEW entries \in Seq(Entry), NEW X
  PROVE  /\ Emptied(entries, X) \in Seq(Entry)
         /\ Len(Emptied(entries, X)) = Len(entries)
         /\ \A i \in 1..Len(entries) :
              /\ Emptied(entries, X)[i].mark = entries[i].mark
              /\ Emptied(entries, X)[i].type = entries[i].type
              /\ Emptied(entries, X)[i].sink = IF entries[i] \in X THEN None ELSE entries[i].sink
<1> DEFINE new == Emptied(entries, X)
<1>1. Len(entries) \in Nat /\ DOMAIN entries = 1..Len(entries) /\ \A i \in 1..Len(entries) : entries[i] \in Entry
  OBVIOUS
<1>2. ASSUME NEW x \in Entry
      PROVE  /\ [x EXCEPT !.sink = None] \in Entry
             /\ [x EXCEPT !.sink = None].mark = x.mark
             /\ [x EXCEPT !.sink = None].sink = None
             /\ [x EXCEPT !.sink = None].type = x.type
  BY DEF Entry
<1>3. new = [i \in 1..Len(entries) |-> IF entries[i] \in X THEN [entries[i] EXCEPT !.sink = None] ELSE entries[i]]
  BY <1>1 DEF Emptied
<1>4. ASSUME NEW i \in 1..Len(entries)
      PROVE  /\ new[i] \in Entry
             /\ new[i].mark = entries[i].mark /\ new[i].type = entries[i].type
             /\ new[i].sink = IF entries[i] \in X THEN None ELSE entries[i].sink
  BY <1>1, <1>2, <1>3
<1>5. DOMAIN new = 1..Len(entries)
  BY <1>3
<1>6. new \in Seq(Entry) /\ Len(new) = Len(entries)
  <2>1. new = [i \in 1..Len(entries) |-> new[i]]
    BY <1>3
  <2>. HIDE DEF new
  <2>. QED
    BY <1>1, <1>4, <2>1
<1>. QED
  BY <1>4, <1>6

(* An entry of the right kind is one for its sink.                         *)
LEMMA EntryFor ==
  ASSUME NEW x \in Entry, NEW s, NEW types
  PROVE  x \in EntriesFor(s, types) <=> x.sink = s /\ x.type \in types
BY DEF Entry, EntriesFor

(* What erasing and emptying the entries for a sink does to those for      *)
(* another one, or of another type.                                        *)
LEMMA TakenEntries ==
  ASSUME Typed, NEW e \in Source, NEW s \in Sink, NEW types \in SUBSET Types, Take(e, s, types)
  PROVE  /\ sinks' \in [Source -> Seq(Entry)]
         /\ \A x \in Source \ {e} : sinks'[x] = sinks[x]
         /\ sending[e] => sinks'[e] = Emptied(sinks[e], EntriesFor(s, types))
         /\ ~sending[e] => sinks'[e] = Without(sinks[e], EntriesFor(s, types))
         /\ dirty' \in [Source -> BOOLEAN]
         /\ \A x \in Source \ {e} : dirty'[x] = dirty[x]
         /\ dirty'[e] = (dirty[e] \/ (sending[e] /\ Count(sinks[e], EntriesFor(s, types)) > 0))
         /\ it' = it
<1> DEFINE X == EntriesFor(s, types)
           new == IF sending[e] THEN Emptied(sinks[e], X) ELSE Without(sinks[e], X)
           flag == dirty[e] \/ (sending[e] /\ Count(sinks[e], X) > 0)
<1>1. sinks[e] \in Seq(Entry)
  BY DEF Typed
<1>2. Emptied(sinks[e], X) \in Seq(Entry) /\ Without(sinks[e], X) \in Seq(Entry)
  BY <1>1, EmptiedEntries, WithoutCounts
<1>3. new \in Seq(Entry) /\ flag \in BOOLEAN
  BY <1>2 DEF Typed
<1>4. sinks' = [sinks EXCEPT ![e] = new] /\ dirty' = [dirty EXCEPT ![e] = flag] /\ it' = it
  BY DEF Take
<1>5. /\ sending[e] => new = Emptied(sinks[e], X)
      /\ ~sending[e] => new = Without(sinks[e], X)
  OBVIOUS
<1>. HIDE DEF new, flag
<1>6. sinks' \in [Source -> Seq(Entry)] /\ sinks'[e] = new /\ \A x \in Source \ {e} : sinks'[x] = sinks[x]
  BY <1>3, <1>4 DEF Typed
<1>7. dirty' \in [Source -> BOOLEAN] /\ dirty'[e] = flag /\ \A x \in Source \ {e} : dirty'[x] = dirty[x]
  BY <1>3, <1>4 DEF Typed
<1>. QED
  BY <1>4, <1>5, <1>6, <1>7 DEF flag

LEMMA AddedEntries ==
  ASSUME Typed, NEW e \in Source, NEW s \in Sink, NEW type \in Types, Add(e, s, type)
  PROVE  /\ sinks' \in [Source -> Seq(Entry)]
         /\ \A x \in Source \ {e} : sinks'[x] = sinks[x]
         /\ sinks'[e] = InsertAt(sinks[e], Place(e, type), [type |-> type, sink |-> s, mark |-> "new"])
         /\ sources' \in [Sink -> Seq(Source)]
         /\ \A x \in Sink \ {s} : sources'[x] = sources[x]
         /\ sources'[s] = Append(sources[s], e)
         /\ it' \in [Source -> Nat]
         /\ \A x \in Source \ {e} : it'[x] = it[x]
         /\ it'[e] = IF sending[e] /\ Place(e, type) <= it[e] THEN it[e] + 1 ELSE it[e]
         /\ dirty' = dirty
<1> DEFINE x == [type |-> type, sink |-> s, mark |-> "new"]
           new == InsertAt(sinks[e], Place(e, type), x)
           old == Append(sources[s], e)
           next == IF sending[e] /\ Place(e, type) <= it[e] THEN it[e] + 1 ELSE it[e]
<1>1. sinks[e] \in Seq(Entry) /\ sources[s] \in Seq(Source) /\ it[e] \in Nat
  BY DEF Typed
<1>2. x \in Entry
  BY DEF Entry, Marks
<1>3. Place(e, type) \in 1..(Len(sinks[e]) + 1)
  BY PlaceIsIn
<1>4. new \in Seq(Entry)
  BY <1>1, <1>2, <1>3, InsertAtCounts
<1>5. old \in Seq(Source) /\ next \in Nat
  BY <1>1
<1>6. /\ sinks' = [sinks EXCEPT ![e] = new]
      /\ sources' = [sources EXCEPT ![s] = old]
      /\ it' = [it EXCEPT ![e] = next]
      /\ dirty' = dirty
  BY DEF Add
<1>. HIDE DEF new, old, next, x
<1>7. sinks' \in [Source -> Seq(Entry)] /\ sinks'[e] = new /\ \A y \in Source \ {e} : sinks'[y] = sinks[y]
  BY <1>4, <1>6 DEF Typed
<1>8. sources' \in [Sink -> Seq(Source)] /\ sources'[s] = old /\ \A y \in Sink \ {s} : sources'[y] = sources[y]
  BY <1>5, <1>6 DEF Typed
<1>9. it' \in [Source -> Nat] /\ it'[e] = next /\ \A y \in Source \ {e} : it'[y] = it[y]
  BY <1>5, <1>6 DEF Typed
<1>. QED
  BY <1>6, <1>7, <1>8, <1>9 DEF new, old, next, x

(* What a sink's list loses.                                               *)
LEMMA LostSources ==
  ASSUME Typed, NEW e \in Source, NEW s \in Sink
  PROVE  /\ Without(sources[s], {e}) \in Seq(Source)
         /\ RemoveFirst(sources[s], e) \in Seq(Source)
<1>1. sources[s] \in Seq(Source)
  BY DEF Typed
<1>2. RemoveFirst(sources[s], e) \in Seq(Source)
  BY <1>1, RemoveFirstCounts
<1>. QED
  BY <1>1, <1>2, WithoutCounts

(* Who locks an object finds no send of another thread there.              *)
LEMMA NotSending ==
  ASSUME Core, NEW e \in Source, NEW t \in Thread, owner[e] = t, pc[t] \notin {"lockSink", "send", "slot"}
  PROVE  ~sending[e]
BY DEF Core, Sends, Sender

LEMMA FreeNotSending ==
  ASSUME Core, NEW e \in Source, Free(e)
  PROVE  ~sending[e]
BY DEF Core, Sends, Sender, Free

(* A destructor cuts a link to an object there is.                         *)
LEMMA CutsALink ==
  ASSUME Core, NEW t \in Thread
  PROVE  /\ pc[t] = "cutSink" =>
              /\ call[t].source \in Source
              /\ ~sending[call[t].source]
              /\ sinks[call[t].source] # <<>>
              /\ sinks[call[t].source][1].sink \in Sink
         /\ pc[t] = "cutSource" =>
              /\ call[t].sink \in Sink
              /\ sources[call[t].sink] # <<>>
              /\ Head(sources[call[t].sink]) \in Source
<1>. USE DEF Core
<1>1. ASSUME pc[t] = "cutSink"
      PROVE  /\ call[t].source \in Source
             /\ ~sending[call[t].source]
             /\ sinks[call[t].source] # <<>>
             /\ sinks[call[t].source][1].sink \in Sink
  <2> DEFINE e == call[t].source
  <2>1. e \in Source
    BY <1>1, ThreadAt
  <2>2. owner[e] = t
    BY <1>1, <2>1 DEF Mutexes, Has, Locks
  <2>3. ~sending[e]
    BY <1>1, <2>1, <2>2, NotSending
  <2>4. sinks[e] # <<>>
    BY <1>1 DEF StillLinked
  <2>5. Count(sinks[e], EntriesFor(None, Types)) = 0
    BY <2>1, <2>3 DEF EmptiedLater
  <2>6. sinks[e] \in Seq(Entry)
    BY <2>1 DEF Typed
  <2>7. 1 \in DOMAIN sinks[e] /\ sinks[e][1] \in Entry
    BY <2>4, <2>6
  <2>8. sinks[e][1] \notin EntriesFor(None, Types)
    BY <2>5, <2>6, <2>7, CountZero
  <2>9. sinks[e][1].sink # None
    BY <2>7, <2>8, EntryFor DEF Entry
  <2>. QED
    BY <2>1, <2>3, <2>4, <2>7, <2>9 DEF Entry
<1>2. ASSUME pc[t] = "cutSource"
      PROVE  /\ call[t].sink \in Sink
             /\ sources[call[t].sink] # <<>>
             /\ Head(sources[call[t].sink]) \in Source
  <2>1. call[t].sink \in Sink
    BY <1>2, ThreadAt
  <2>2. sources[call[t].sink] # <<>> /\ sources[call[t].sink] \in Seq(Source)
    BY <1>2, <2>1 DEF StillLinked, Typed
  <2>. QED
    BY <2>1, <2>2
<1>. QED
  BY <1>1, <1>2

-----------------------------------------------------------------------------
(* Every variable keeps its type.                                          *)

Labels == {"idle", "lockSource", "lockSink", "send", "slot", "lockGlobal", "lockOwn", "cutSink",
           "lockSelf", "try", "cutSource"}
CallType == [op : LinkOps \cup DeleteOps \cup {"send", "none"}, source : Source \cup {None}, sink : Sink \cup {None}]

LEMMA ThreadsTyped ==
  ASSUME Core, NEW t \in Thread, Step(t)
  PROVE  pc' \in [Thread -> Labels] /\ call' \in [Thread -> CallType] /\ alive' \subseteq Source \cup Sink
<1>. USE DEF Core
<1>1. pc \in [Thread -> Labels] /\ call \in [Thread -> CallType] /\ alive \subseteq Source \cup Sink
  BY DEF Typed, Labels, CallType
<1>2. ASSUME NEW label \in Labels, Goto(t, label) PROVE pc' \in [Thread -> Labels]
  BY <1>1, <1>2 DEF Goto
<1>3. ASSUME Leave(t) PROVE pc' \in [Thread -> Labels] /\ call' \in [Thread -> CallType]
  BY <1>1, <1>3 DEF Leave, Goto, NoCall, CallType, Labels
<1>4. CASE Calls(t)
  <2>1. PICK op, e, s, label : Begun(t, op, e, s, label)
    BY <1>4, CallsBegin
  <2>2. label \in Labels /\ [op |-> op, source |-> e, sink |-> s] \in CallType
    BY <2>1 DEF Begun, LinkOps, DeleteOps, Labels, CallType
  <2>. QED
    BY <1>1, <1>2, <2>1, <2>2 DEF Begun, Enter
<1>5. CASE LockSource(t) \/ StartSend(t) \/ Return(t) \/ LockGlobal(t) \/ CutSink(t) \/ Try(t) \/ CutSource(t)
  <2>1. /\ \E label \in Labels : Goto(t, label)
        /\ call' = call /\ alive' = alive
    BY <1>5 DEF LockSource, StartSend, Return, LockGlobal, CutSink, Try, CutSource, Labels
  <2>. QED
    BY <1>1, <1>2, <2>1
<1>6. CASE Link(t)
  <2>1. /\ alive' = alive
        /\ \/ Leave(t)
           \/ /\ Goto(t, "slot")
              /\ call' = [call EXCEPT ![t] = [op |-> "send", source |-> call[t].source, sink |-> None]]
    BY <1>6 DEF Link
  <2>2. [op |-> "send", source |-> call[t].source, sink |-> None] \in CallType /\ "slot" \in Labels
    BY <1>1 DEF CallType, Labels
  <2>. QED
    BY <1>1, <1>2, <1>3, <2>1, <2>2
<1>7. CASE Visit(t)
  BY <1>1, <1>2, <1>7 DEF Visit, Labels
<1>8. CASE Finish(t) \/ Throw(t) \/ LockOwn(t) \/ LockSelf(t)
  <2>1. /\ alive' \subseteq alive
        /\ Leave(t) \/ ((\E label \in Labels : Goto(t, label)) /\ call' = call)
    BY <1>8 DEF Finish, Throw, EndSend, LockOwn, LockSelf, Labels
  <2>. QED
    BY <1>1, <1>2, <1>3, <2>1
<1>. QED
  BY <1>4, <1>5, <1>6, <1>7, <1>8 DEF Step, Proceed

LEMMA LinksTyped ==
  ASSUME Core, NEW e \in Source, NEW s \in Sink, NEW op \in LinkOps, Update(op, e, s)
  PROVE  /\ sinks' \in [Source -> Seq(Entry)] /\ sources' \in [Sink -> Seq(Source)]
         /\ dirty' \in [Source -> BOOLEAN] /\ it' \in [Source -> Nat]
<1>. USE DEF Core
<1>1. CASE Add(e, s, "any") \/ Add(e, s, "typed")
  <2>1. "any" \in Types /\ "typed" \in Types
    BY DEF Types
  <2>2. /\ sinks' \in [Source -> Seq(Entry)] /\ sources' \in [Sink -> Seq(Source)]
        /\ dirty' = dirty /\ it' \in [Source -> Nat]
    BY <1>1, <2>1, AddedEntries
  <2>. QED
    BY <2>2 DEF Typed
<1>2. CASE Disconnect(e, s) \/ Unsubscribe(e, s)
  <2>1. PICK types \in SUBSET Types : Take(e, s, types)
    BY <1>2 DEF Disconnect, Unsubscribe, Types
  <2>2. PICK new \in Seq(Source) : sources' = [sources EXCEPT ![s] = new]
    BY <1>2, LostSources DEF Disconnect, Unsubscribe
  <2>3. sources' \in [Sink -> Seq(Source)]
    BY <2>2 DEF Typed
  <2>4. sinks' \in [Source -> Seq(Entry)] /\ dirty' \in [Source -> BOOLEAN] /\ it' = it
    BY <2>1, TakenEntries
  <2>. QED
    BY <2>3, <2>4 DEF Typed
<1>. QED
  BY <1>1, <1>2 DEF Update, LinkOps

LEMMA EndedEntries ==
  ASSUME Typed, NEW t \in Thread, NEW e \in Source, EndSend(t, e)
  PROVE  /\ sinks' \in [Source -> Seq(Entry)]
         /\ \A x \in Source \ {e} : sinks'[x] = sinks[x]
         /\ sinks'[e] = Marked(IF dirty[e] THEN Without(sinks[e], EntriesFor(None, Types)) ELSE sinks[e], "new")
         /\ sending' = [sending EXCEPT ![e] = FALSE]
         /\ dirty' = [dirty EXCEPT ![e] = FALSE]
         /\ it' = [it EXCEPT ![e] = 0]
<1> DEFINE left == IF dirty[e] THEN Without(sinks[e], EntriesFor(None, Types)) ELSE sinks[e]
           new == Marked(left, "new")
<1>1. sinks[e] \in Seq(Entry)
  BY DEF Typed
<1>2. left \in Seq(Entry)
  BY <1>1, WithoutCounts
<1>3. new \in Seq(Entry)
  <2>. HIDE DEF left
  <2>. QED
    BY <1>2, MarkedEntries DEF Marks
<1>4. sinks' = [sinks EXCEPT ![e] = new]
  BY DEF EndSend
<1>. HIDE DEF new
<1>5. sinks' \in [Source -> Seq(Entry)] /\ sinks'[e] = new /\ \A x \in Source \ {e} : sinks'[x] = sinks[x]
  BY <1>3, <1>4 DEF Typed
<1>. QED
  BY <1>5 DEF EndSend, new

(* The marks of the entries of a source when a send begins.                *)
LEMMA StartedEntries ==
  ASSUME Typed, Places, NEW t \in Thread, StartSend(t)
  PROVE  LET e == call[t].source IN
         /\ e \in Source
         /\ sinks' \in [Source -> Seq(Entry)]
         /\ \A x \in Source \ {e} : sinks'[x] = sinks[x]
         /\ sinks'[e] = Marked(sinks[e], "due")
         /\ sending' = [sending EXCEPT ![e] = TRUE]
         /\ dirty' = [dirty EXCEPT ![e] = FALSE]
         /\ it' = [it EXCEPT ![e] = 1]
<1> DEFINE e == call[t].source
           new == Marked(sinks[e], "due")
<1>1. e \in Source
  BY ThreadAt DEF StartSend
<1>2. new \in Seq(Entry)
  <2>1. sinks[e] \in Seq(Entry)
    BY <1>1 DEF Typed
  <2>. QED
    BY <2>1, MarkedEntries DEF Marks
<1>3. sinks' = [sinks EXCEPT ![e] = new]
  BY DEF StartSend
<1>. HIDE DEF new
<1>4. sinks' \in [Source -> Seq(Entry)] /\ sinks'[e] = new /\ \A x \in Source \ {e} : sinks'[x] = sinks[x]
  BY <1>1, <1>2, <1>3 DEF Typed
<1>. QED
  BY <1>1, <1>4 DEF StartSend, new

(* The entry a send is at, when it delivers.                               *)
LEMMA VisitedEntries ==
  ASSUME Core, NEW t \in Thread, Visit(t)
  PROVE  LET e == call[t].source IN
         /\ e \in Source
         /\ it[e] \in 1..Len(sinks[e])
         /\ sending' = sending /\ dirty' = dirty
         /\ sinks' \in [Source -> Seq(Entry)]
         /\ \A x \in Source \ {e} : sinks'[x] = sinks[x]
         /\ Len(sinks'[e]) = Len(sinks[e])
         /\ \A i \in 1..Len(sinks[e]) :
              /\ sinks'[e][i].sink = sinks[e][i].sink
              /\ sinks'[e][i].type = sinks[e][i].type
              /\ i # it[e] => sinks'[e][i].mark = sinks[e][i].mark
         /\ \/ /\ sinks[e][it[e]].sink = None
               /\ sinks' = sinks /\ it' = [it EXCEPT ![e] = @ + 1] /\ pc' = pc
            \/ /\ sinks[e][it[e]].sink # None
               /\ sinks'[e][it[e]].mark = "sent" /\ it' = it /\ At(t, "slot")
<1>. USE DEF Core
<1> DEFINE e == call[t].source
           n == it[e]
           old == sinks[e]
<1>1. e \in Source /\ pc[t] = "send"
  BY ThreadAt DEF Visit
<1>2. old \in Seq(Entry) /\ n \in Nat
  BY <1>1 DEF Typed
<1>3. n # 0
  BY <1>1 DEF Sends
<1>4. n \in 1..Len(old)
  BY <1>2, <1>3 DEF Visit
<1>5. sending' = sending /\ dirty' = dirty
  BY DEF Visit
<1>6. CASE old[n].sink = None
  <2>1. sinks' = sinks /\ it' = [it EXCEPT ![e] = @ + 1] /\ pc' = pc
    BY <1>6, Zenon DEF Visit
  <2>. QED
    BY <1>1, <1>4, <1>5, <1>6, <2>1 DEF Typed
<1>7. CASE old[n].sink # None
  <2> DEFINE new == [old EXCEPT ![n].mark = "sent"]
  <2>1. sinks' = [sinks EXCEPT ![e] = new] /\ it' = it
    <3>1. sinks' = [sinks EXCEPT ![e][n].mark = "sent"] /\ it' = it
      BY <1>7 DEF Visit
    <3>2. [sinks EXCEPT ![e][n].mark = "sent"] = [sinks EXCEPT ![e] = new]
      BY Zenon
    <3>. QED
      BY <3>1, <3>2
  <2>2. old[n] \in Entry /\ [old[n] EXCEPT !.mark = "sent"] \in Entry
    <3>1. \A x \in Entry : [x EXCEPT !.mark = "sent"] \in Entry
      BY DEF Entry, Marks
    <3>2. old[n] \in Entry
      BY <1>2, <1>4
    <3>. QED
      BY <3>1, <3>2
  <2>3. new = [old EXCEPT ![n] = [old[n] EXCEPT !.mark = "sent"]]
    OBVIOUS
  <2>4. new \in Seq(Entry) /\ Len(new) = Len(old)
    BY <1>2, <1>4, <2>2, <2>3
  <2>5. \A i \in 1..Len(old) : i # n => new[i] = old[i]
    BY <1>2, <1>4, <2>3
  <2>6. new[n] = [old[n] EXCEPT !.mark = "sent"]
    BY <1>2, <1>4, <2>3
  <2>7. new[n].sink = old[n].sink /\ new[n].type = old[n].type /\ new[n].mark = "sent"
    BY <2>2, <2>6 DEF Entry
  <2>. HIDE DEF new
  <2>8. sinks' \in [Source -> Seq(Entry)] /\ sinks'[e] = new /\ \A x \in Source \ {e} : sinks'[x] = sinks[x]
    BY <1>1, <2>1, <2>4 DEF Typed
  <2>9. At(t, "slot")
    BY <1>7 DEF Visit, At, Goto, Typed
  <2>10. \A i \in 1..Len(old) :
           /\ new[i].sink = old[i].sink
           /\ new[i].type = old[i].type
           /\ i # n => new[i].mark = old[i].mark
    BY <2>5, <2>7
  <2>. QED
    BY <1>1, <1>4, <1>5, <1>7, <2>1, <2>4, <2>7, <2>8, <2>9, <2>10
<1>. QED
  BY <1>6, <1>7

(* The mutexes change hands between nobody and the thread of the step.     *)
LEMMA OwnerMoves ==
  ASSUME Core, NEW t \in Thread, Step(t)
  PROVE  \/ UNCHANGED owner
         \/ \E l \in Locks : Lock(t, l)
         \/ \E ls \in SUBSET Locks : Release(ls) /\ \A l \in ls : owner[l] = t
<1>. USE DEF Core
<1>1. CASE Calls(t) \/ Visit(t) \/ Return(t)
  <2>1. Calls(t) => UNCHANGED owner
    BY DEF Calls, CallLink, CallInSlot, CallSend, CallDeleteSource, CallDeleteSink, Enter
  <2>. QED
    BY <1>1, <2>1 DEF Visit, Return
<1>2. CASE LockSource(t) \/ StartSend(t) \/ LockGlobal(t)
  <2>1. call[t].source \in Source \/ LockGlobal(t)
    BY <1>2, ThreadAt DEF LockSource, StartSend
  <2>. QED
    BY <1>2, <2>1 DEF LockSource, StartSend, LockGlobal, Locks
<1>3. CASE Link(t) \/ Finish(t) \/ Throw(t) \/ CutSink(t)
  <2> DEFINE e == call[t].source
  <2>1. pc[t] \in {"lockSink", "send", "slot", "cutSink"}
    BY <1>3 DEF Link, Finish, Throw, CutSink
  <2>2. e \in Source
    BY <2>1, ThreadAt
  <2>3. owner[e] = t /\ {e} \in SUBSET Locks
    BY <2>1, <2>2 DEF Mutexes, Has, Locks
  <2>4. UNCHANGED owner \/ Release({e})
    BY <1>3 DEF Link, Finish, Throw, EndSend, CutSink
  <2>. QED
    BY <2>3, <2>4
<1>4. CASE LockOwn(t)
  <2>1. pc[t] = "lockOwn" /\ call[t].source \in Source
    BY <1>4, ThreadAt DEF LockOwn
  <2>2. owner[Dmx] = t /\ {Dmx} \in SUBSET Locks /\ call[t].source \in Locks
    BY <2>1 DEF Mutexes, Has, Locks
  <2>3. Release({Dmx}) \/ Lock(t, call[t].source)
    BY <1>4 DEF LockOwn
  <2>4. CASE Release({Dmx})
    BY <2>2, <2>4
  <2>5. CASE Lock(t, call[t].source)
    BY <2>2, <2>5
  <2>. QED
    BY <2>3, <2>4, <2>5
<1>5. CASE LockSelf(t)
  <2>1. call[t].sink \in Locks
    BY <1>5, ThreadAt DEF LockSelf, Locks
  <2>2. CASE UNCHANGED owner
    BY <2>2
  <2>3. CASE Lock(t, call[t].sink)
    BY <2>1, <2>3
  <2>. QED
    BY <1>5, <2>2, <2>3 DEF LockSelf
<1>6. CASE Try(t)
  <2>1. pc[t] = "try" /\ call[t].sink \in Sink
    BY <1>6, ThreadAt DEF Try
  <2>2. owner[call[t].sink] = t /\ {call[t].sink} \in SUBSET Locks /\ Dmx \in Locks
    BY <2>1 DEF Mutexes, Has, Locks
  <2>3. Lock(t, Dmx) \/ Release({call[t].sink})
    BY <1>6 DEF Try
  <2>4. CASE Release({call[t].sink})
    BY <2>2, <2>4
  <2>5. CASE Lock(t, Dmx)
    BY <2>2, <2>5
  <2>. QED
    BY <2>3, <2>4, <2>5
<1>7. CASE CutSource(t)
  <2> DEFINE s == call[t].sink
  <2>1. pc[t] = "cutSource" /\ s \in Sink
    BY <1>7, ThreadAt DEF CutSource
  <2>2. owner[s] = t /\ owner[Dmx] = t /\ {s, Dmx} \in SUBSET Locks
    BY <2>1 DEF Mutexes, Has, Locks
  <2>. QED
    BY <1>7, <2>2 DEF CutSource
<1>. QED
  BY <1>1, <1>2, <1>3, <1>4, <1>5, <1>6, <1>7 DEF Step, Proceed

LEMMA OwnerIs ==
  ASSUME Core, NEW t \in Thread, Step(t)
  PROVE  /\ owner' \in [Locks -> Thread \cup {None}]
         /\ \A l \in Locks : \/ owner'[l] = owner[l]
                             \/ owner[l] = None /\ owner'[l] = t
                             \/ owner[l] = t /\ owner'[l] = None
<1>1. owner \in [Locks -> Thread \cup {None}]
  BY DEF Core, Typed
<1>2. CASE UNCHANGED owner
  BY <1>1, <1>2
<1>3. CASE \E l \in Locks : Lock(t, l)
  BY <1>1, <1>3 DEF Lock, Free
<1>4. CASE \E ls \in SUBSET Locks : Release(ls) /\ \A l \in ls : owner[l] = t
  BY <1>1, <1>4 DEF Release
<1>. QED
  BY <1>2, <1>3, <1>4, OwnerMoves

LEMMA NextPlace ==
  ASSUME NEW f \in [Source -> Nat], NEW e \in Source
  PROVE  [f EXCEPT ![e] = @ + 1] \in [Source -> Nat]
<1>1. f[e] + 1 \in Nat
  OBVIOUS
<1>. QED
  BY <1>1

LEMMA SendsTyped ==
  ASSUME Core, NEW t \in Thread, Step(t)
  PROVE  /\ sinks' \in [Source -> Seq(Entry)] /\ sources' \in [Sink -> Seq(Source)]
         /\ sending' \in [Source -> BOOLEAN] /\ dirty' \in [Source -> BOOLEAN] /\ it' \in [Source -> Nat]
<1>. USE DEF Core
<1>1. ASSUME UNCHANGED <<links, sends>>
      PROVE  /\ sinks' \in [Source -> Seq(Entry)] /\ sources' \in [Sink -> Seq(Source)]
             /\ sending' \in [Source -> BOOLEAN] /\ dirty' \in [Source -> BOOLEAN] /\ it' \in [Source -> Nat]
  BY <1>1 DEF Typed, links, sends
<1>2. CASE Calls(t)
  <2>1. UNCHANGED <<links, sends>>
    BY <1>2 DEF Calls, CallLink, CallInSlot, CallSend, CallDeleteSource, CallDeleteSink, Enter
  <2>. QED
    BY <1>1, <2>1
<1>3. CASE LockSource(t) \/ LockGlobal(t) \/ LockOwn(t) \/ LockSelf(t) \/ Try(t)
  <2>1. UNCHANGED <<links, sends>>
    BY <1>3 DEF LockSource, LockGlobal, LockOwn, LockSelf, Try
  <2>. QED
    BY <1>1, <2>1
<1>4. CASE Link(t)
  <2>1. /\ call[t].source \in Source /\ call[t].sink \in Sink /\ call[t].op \in LinkOps
    BY <1>4, ThreadAt DEF Link
  <2>2. Update(call[t].op, call[t].source, call[t].sink) /\ sending' = sending
    BY <1>4 DEF Link
  <2>. QED
    BY <2>1, <2>2, LinksTyped DEF Typed
<1>5. CASE StartSend(t)
  <2>1. sources' = sources
    BY <1>5 DEF StartSend
  <2> DEFINE e == call[t].source
  <2>2. /\ sinks' \in [Source -> Seq(Entry)]
        /\ sending' = [sending EXCEPT ![e] = TRUE]
        /\ dirty' = [dirty EXCEPT ![e] = FALSE]
        /\ it' = [it EXCEPT ![e] = 1]
    BY <1>5, StartedEntries
  <2>. QED
    BY <2>1, <2>2 DEF Typed
<1>6. CASE Visit(t)
  <2>1. sources' = sources
    BY <1>6 DEF Visit
  <2> DEFINE e == call[t].source
  <2>2. /\ sinks' \in [Source -> Seq(Entry)] /\ sending' = sending /\ dirty' = dirty
        /\ it' = it \/ it' = [it EXCEPT ![e] = @ + 1]
    BY <1>6, VisitedEntries
  <2>3. [it EXCEPT ![e] = @ + 1] \in [Source -> Nat]
    <3>1. e \in Source
      BY <1>6, VisitedEntries
    <3>. QED
      BY <3>1, NextPlace DEF Typed
  <2>. QED
    BY <2>1, <2>2, <2>3 DEF Typed
<1>7. CASE Return(t)
  <2>1. UNCHANGED <<links, sending, dirty>> /\ it' = [it EXCEPT ![call[t].source] = @ + 1]
    BY <1>7 DEF Return
  <2>2. [it EXCEPT ![call[t].source] = @ + 1] \in [Source -> Nat]
    <3>1. call[t].source \in Source
      BY <1>7, ThreadAt DEF Return
    <3>. QED
      BY <3>1, NextPlace DEF Typed
  <2>. QED
    BY <2>1, <2>2 DEF Typed, links
<1>8. CASE Finish(t) \/ Throw(t)
  <2>1. call[t].source \in Source /\ EndSend(t, call[t].source)
    BY <1>8, ThreadAt DEF Finish, Throw
  <2>2. sources' = sources
    BY <2>1 DEF EndSend
  <2> DEFINE e == call[t].source
  <2>3. /\ sinks' \in [Source -> Seq(Entry)]
        /\ sending' = [sending EXCEPT ![e] = FALSE]
        /\ dirty' = [dirty EXCEPT ![e] = FALSE]
        /\ it' = [it EXCEPT ![e] = 0]
    BY <2>1, EndedEntries
  <2>. QED
    BY <2>2, <2>3 DEF Typed
<1>9. CASE CutSink(t) \/ CutSource(t)
  <2>1. PICK e \in Source, s \in Sink : Disconnect(e, s)
    BY <1>9, CutsALink DEF CutSink, CutSource
  <2>2. sending' = sending
    BY <1>9 DEF CutSink, CutSource
  <2>3. Update("disconnect", e, s) /\ "disconnect" \in LinkOps
    BY <2>1 DEF Update, LinkOps
  <2>. QED
    BY <2>2, <2>3, LinksTyped DEF Typed
<1>. QED
  BY <1>2, <1>3, <1>4, <1>5, <1>6, <1>7, <1>8, <1>9 DEF Step, Proceed

LEMMA TypedStep ==
  ASSUME Core, NEW t \in Thread, Step(t)
  PROVE  Typed'
BY ThreadsTyped, OwnerIs, SendsTyped DEF Typed, Labels, CallType

-----------------------------------------------------------------------------
(* Threads, mutexes and the rules of the program.                          *)

(* What a call begins with, as the place and the call of the thread.       *)
LEMMA BegunIs ==
  ASSUME Typed, NEW t \in Thread, NEW op, NEW e, NEW s, NEW label, Begun(t, op, e, s, label)
  PROVE  /\ pc'[t] = label /\ call'[t].op = op /\ call'[t].source = e /\ call'[t].sink = s
         /\ UNCHANGED <<alive, links, sends, owner>>
BY DEF Begun, Enter, Goto, Typed

LEMMA PlacesStep ==
  ASSUME Core, NEW t \in Thread, Step(t)
  PROVE  Places'
<1>. USE DEF Core
<1>1. ASSUME NEW u \in Thread, u # t PROVE CallOf(u)'
  BY <1>1, OthersStay DEF Places, CallOf
<1>2. CallOf(t)'
  <2>1. CASE Calls(t)
    <3>1. PICK op, e, s, label : Begun(t, op, e, s, label)
      BY <2>1, CallsBegin
    <3>2. pc'[t] = label /\ call'[t].op = op /\ call'[t].source = e /\ call'[t].sink = s
      BY <3>1, BegunIs
    <3>. QED
      BY <3>1, <3>2 DEF Begun, CallOf, LinkOps, DeleteOps
  <2>2. CASE LockSource(t)
    <3>1. At(t, "lockSink")
      BY <2>2, StepMoves
    <3>2. call[t].source \in Source /\ call[t].sink \in Sink /\ call[t].op \in LinkOps
      BY <2>2, ThreadAt DEF LockSource
    <3>. QED
      BY <3>1, <3>2 DEF At, CallOf, LinkOps
  <2>3. CASE Link(t)
    <3>1. call[t].source \in Source
      BY <2>3, ThreadAt DEF Link
    <3>2. CASE Gone(t)
      BY <3>2 DEF Gone, NoCall, CallOf, LinkOps
    <3>3. CASE pc'[t] = "slot" /\ call'[t] = [op |-> "send", source |-> call[t].source, sink |-> None]
      BY <3>1, <3>3 DEF CallOf, LinkOps
    <3>. QED
      BY <2>3, <3>2, <3>3, StepMoves
  <2>4. CASE StartSend(t) \/ Visit(t) \/ Return(t)
    <3>1. At(t, "send") \/ At(t, "slot")
      BY <2>4, StepMoves
    <3>2. pc[t] \in {"lockSource", "send", "slot"} /\ (pc[t] = "lockSource" => call[t].op = "send")
      BY <2>4 DEF StartSend, Visit, Return
    <3>3. call[t].source \in Source /\ call[t].op = "send"
      BY <3>2, ThreadAt
    <3>4. call[t].sink = None
      BY <3>3 DEF Places, CallOf
    <3>. QED
      BY <3>1, <3>3, <3>4 DEF At, CallOf, LinkOps
  <2>5. CASE Finish(t) \/ Throw(t)
    <3>1. Gone(t)
      BY <2>5, StepMoves
    <3>. QED
      BY <3>1 DEF Gone, NoCall, CallOf, LinkOps
  <2>6. CASE LockGlobal(t) \/ LockOwn(t) \/ CutSink(t)
    <3>1. At(t, "lockOwn") \/ At(t, "cutSink") \/ Gone(t)
      BY <2>6, StepMoves
    <3>2. call[t].source \in Source /\ call[t].sink = None /\ call[t].op = "deleteSource"
      BY <2>6, ThreadAt DEF LockGlobal, LockOwn, CutSink
    <3>. QED
      BY <3>1, <3>2 DEF At, Gone, NoCall, CallOf, LinkOps
  <2>7. CASE LockSelf(t) \/ Try(t) \/ CutSource(t)
    <3>1. At(t, "lockSelf") \/ At(t, "try") \/ At(t, "cutSource") \/ Gone(t)
      BY <2>7, StepMoves
    <3>2. call[t].source = None /\ call[t].sink \in Sink /\ call[t].op = "deleteSink"
      BY <2>7, ThreadAt DEF LockSelf, Try, CutSource
    <3>. QED
      BY <3>1, <3>2 DEF At, Gone, NoCall, CallOf, LinkOps
  <2>. QED
    BY <2>1, <2>2, <2>3, <2>4, <2>5, <2>6, <2>7 DEF Step, Proceed
<1>. QED
  BY <1>1, <1>2 DEF Places

LEMMA MutexesStep ==
  ASSUME Core, NEW t \in Thread, Step(t)
  PROVE  Mutexes'
<1>. USE DEF Core
<1>0. None \notin Thread /\ Dmx # None /\ Dmx \notin Source \cup Sink
  OBVIOUS
<1>1. ASSUME NEW u \in Thread, NEW l \in Locks, u # t PROVE owner'[l] = u <=> Has(u, l)'
  <2>1. owner[l] = u <=> Has(u, l)
    BY DEF Mutexes
  <2>2. Has(u, l)' <=> Has(u, l)
    BY <1>1, OthersStay DEF Has
  <2>3. owner'[l] = u <=> owner[l] = u
    BY <1>0, <1>1, OwnerIs
  <2>. QED
    BY <2>1, <2>2, <2>3
<1>2. ASSUME NEW l \in Locks PROVE owner'[l] = t <=> Has(t, l)'
  <2> DEFINE e == call[t].source
             s == call[t].sink
  <2>1. owner[l] = t <=> Has(t, l)
    BY DEF Mutexes
  <2>2. owner \in [Locks -> Thread \cup {None}]
    BY DEF Typed
  <2>3. CASE Calls(t)
    <3>1. PICK op, x, y, label : Begun(t, op, x, y, label)
      BY <2>3, CallsBegin
    <3>2. /\ pc'[t] = label /\ call'[t].op = op /\ call'[t].source = x /\ call'[t].sink = y
          /\ owner' = owner
      BY <3>1, BegunIs
    <3>3. CASE pc[t] = "idle"
      BY <2>1, <3>1, <3>2, <3>3 DEF Begun, Has, LinkOps, DeleteOps
    <3>4. CASE pc[t] = "slot" /\ op \in LinkOps /\ x = e
      BY <2>1, <3>1, <3>2, <3>4 DEF Begun, Has, LinkOps, DeleteOps
    <3>. QED
      BY <3>1, <3>3, <3>4 DEF Begun
  <2>4. CASE LockSource(t) \/ StartSend(t)
    <3>1. pc[t] = "lockSource" /\ Lock(t, e) /\ e \in Locks
      BY <2>4, ThreadAt DEF LockSource, StartSend, Locks
    <3>2. At(t, "lockSink") \/ At(t, "send")
      BY <2>4, StepMoves
    <3>. QED
      BY <2>1, <2>2, <3>1, <3>2 DEF At, Has, Lock
  <2>5. CASE Link(t)
    <3>1. pc[t] = "lockSink" /\ e \in Source
      BY <2>5, ThreadAt DEF Link
    <3>2. CASE sending[e]
      <4>1. pc'[t] = "slot" /\ call'[t] = [op |-> "send", source |-> e, sink |-> None] /\ owner' = owner
        BY <2>5, <3>2, StepMoves DEF Link
      <4>. QED
        BY <2>1, <3>1, <4>1 DEF Has
    <3>3. CASE ~sending[e]
      <4>1. Gone(t) /\ Release({e})
        BY <2>5, <3>3, StepMoves DEF Link
      <4>. QED
        BY <1>0, <2>1, <3>1, <4>1 DEF Has, Gone, NoCall, Release
    <3>. QED
      BY <3>2, <3>3
  <2>6. CASE Visit(t) \/ Return(t)
    <3>1. pc[t] \in {"send", "slot"} /\ owner' = owner
      BY <2>6 DEF Visit, Return
    <3>2. At(t, "send") \/ At(t, "slot")
      BY <2>6, StepMoves
    <3>. QED
      BY <2>1, <3>1, <3>2 DEF At, Has
  <2>7. CASE Finish(t) \/ Throw(t)
    <3>1. pc[t] \in {"send", "slot"} /\ Release({e})
      BY <2>7 DEF Finish, Throw, EndSend
    <3>2. Gone(t)
      BY <2>7, StepMoves
    <3>. QED
      BY <1>0, <2>1, <3>1, <3>2 DEF Gone, NoCall, Has, Release
  <2>8. CASE LockGlobal(t)
    <3>1. pc[t] = "lockGlobal" /\ Lock(t, Dmx) /\ At(t, "lockOwn")
      BY <2>8, StepMoves DEF LockGlobal
    <3>. QED
      BY <2>1, <2>2, <3>1 DEF At, Has, Lock
  <2>9. CASE LockOwn(t)
    <3>1. pc[t] = "lockOwn" /\ e \in Source /\ e \in Locks
      BY <2>9, ThreadAt DEF LockOwn, Locks
    <3>2. CASE sinks[e] = <<>>
      <4>1. Leave(t) /\ Release({Dmx})
        BY <2>9, <3>2 DEF LockOwn
      <4>2. Gone(t)
        BY <4>1 DEF Leave, Goto, Gone, Typed
      <4>. QED
        BY <1>0, <2>1, <3>1, <4>1, <4>2 DEF Has, Gone, NoCall, Release
    <3>3. CASE sinks[e] # <<>>
      <4>1. Lock(t, e) /\ Goto(t, "cutSink") /\ call' = call
        BY <2>9, <3>3 DEF LockOwn
      <4>2. At(t, "cutSink")
        BY <4>1 DEF Goto, At, Typed
      <4>. QED
        BY <1>0, <2>1, <2>2, <3>1, <4>1, <4>2 DEF At, Has, Lock
    <3>. QED
      BY <3>2, <3>3
  <2>10. CASE CutSink(t)
    <3>1. pc[t] = "cutSink" /\ Release({e}) /\ At(t, "lockOwn") /\ e \in Source
      BY <2>10, StepMoves, ThreadAt DEF CutSink
    <3>. QED
      BY <1>0, <2>1, <3>1 DEF At, Has, Release
  <2>11. CASE LockSelf(t)
    <3>1. pc[t] = "lockSelf" /\ s \in Sink /\ s \in Locks
      BY <2>11, ThreadAt DEF LockSelf, Locks
    <3>2. CASE sources[s] = <<>>
      <4>1. Leave(t) /\ owner' = owner
        BY <2>11, <3>2 DEF LockSelf
      <4>2. Gone(t)
        BY <4>1 DEF Leave, Goto, Gone, Typed
      <4>. QED
        BY <1>0, <2>1, <3>1, <4>1, <4>2 DEF Has, Gone, NoCall
    <3>3. CASE sources[s] # <<>>
      <4>1. Lock(t, s) /\ Goto(t, "try") /\ call' = call
        BY <2>11, <3>3 DEF LockSelf
      <4>2. At(t, "try")
        BY <4>1 DEF Goto, At, Typed
      <4>. QED
        BY <1>0, <2>1, <2>2, <3>1, <4>1, <4>2 DEF At, Has, Lock
    <3>. QED
      BY <3>2, <3>3
  <2>12. CASE Try(t)
    <3>1. pc[t] = "try" /\ s \in Sink
      BY <2>12, ThreadAt DEF Try
    <3>2. CASE Lock(t, Dmx) /\ Goto(t, "cutSource") /\ call' = call
      <4>1. At(t, "cutSource")
        BY <3>2 DEF Goto, At, Typed
      <4>. QED
        BY <1>0, <2>1, <2>2, <3>1, <3>2, <4>1 DEF At, Has, Lock, Locks
    <3>3. CASE Release({s}) /\ Goto(t, "lockSelf") /\ call' = call
      <4>1. At(t, "lockSelf")
        BY <3>3 DEF Goto, At, Typed
      <4>. QED
        BY <1>0, <2>1, <3>1, <3>3, <4>1 DEF At, Has, Release
    <3>. QED
      BY <2>12, <3>2, <3>3 DEF Try
  <2>13. CASE CutSource(t)
    <3>1. pc[t] = "cutSource" /\ Release({s, Dmx}) /\ At(t, "lockSelf") /\ s \in Sink
      BY <2>13, StepMoves, ThreadAt DEF CutSource
    <3>. QED
      BY <1>0, <2>1, <3>1 DEF At, Has, Release
  <2>. QED
    BY <2>3, <2>4, <2>5, <2>6, <2>7, <2>8, <2>9, <2>10, <2>11, <2>12, <2>13 DEF Step, Proceed
<1>. QED
  BY <1>1, <1>2 DEF Mutexes

(* What a thread names after a step of a call, it named before.            *)
LEMMA NamesKept ==
  ASSUME Core, NEW t \in Thread, Proceed(t) \/ Throw(t), NEW x \in Source \cup Sink
  PROVE  Names(t, x)' => Names(t, x) /\ (call'[t].op \in DeleteOps => call[t].op \in DeleteOps)
<1>. USE DEF Core
<1>1. pc[t] # "idle"
  BY DEF Proceed, Throw, LockSource, Link, StartSend, Visit, Return, Finish, LockGlobal, LockOwn, CutSink,
         LockSelf, Try, CutSource
<1>2. CASE Gone(t)
  BY <1>2 DEF Gone, Names
<1>3. CASE call'[t] = call[t]
  BY <1>1, <1>3 DEF Names
<1>4. CASE call'[t] = [op |-> "send", source |-> call[t].source, sink |-> None]
  BY <1>1, <1>4 DEF Names, DeleteOps
<1>5. Gone(t) \/ call'[t] = call[t] \/ call'[t] = [op |-> "send", source |-> call[t].source, sink |-> None]
  BY StepMoves DEF Proceed, At
<1>. QED
  BY <1>2, <1>3, <1>4, <1>5

LEMMA NamesOfOthers ==
  ASSUME Core, NEW t \in Thread, Step(t), NEW u \in Thread, u # t, NEW x
  PROVE  (Names(u, x)' <=> Names(u, x)) /\ call'[u].op = call[u].op
BY OthersStay DEF Core, Names

(* What a beginning call does to what its thread names.                    *)
LEMMA NamesBegun ==
  ASSUME Core, NEW t \in Thread, Calls(t), NEW x \in Source \cup Sink, Names(t, x)'
  PROVE  /\ call'[t].op \notin DeleteOps => Usable(x)
         /\ call'[t].op \in DeleteOps => Unused(x)
         /\ \A y \in Source \cup Sink : Names(t, y)' /\ x # y =>
              \A u \in Thread : ~(Names(u, x) /\ Names(u, y))
         /\ alive' = alive
<1>. USE DEF Core
<1>1. PICK op, e, s, label : Begun(t, op, e, s, label)
  BY CallsBegin
<1>2. call'[t].op = op /\ call'[t].source = e /\ call'[t].sink = s /\ alive' = alive
  BY <1>1, BegunIs
<1>3. x = e \/ x = s
  BY <1>2 DEF Names
<1>4. CASE op \in LinkOps
  <2>1. MayLink(op, e, s)
    BY <1>1, <1>4 DEF Begun
  <2>2. op \notin DeleteOps
    BY <1>4 DEF LinkOps, DeleteOps
  <2>3. ASSUME NEW y \in Source \cup Sink, Names(t, y)', x # y, NEW u \in Thread
        PROVE  ~(Names(u, x) /\ Names(u, y))
    <3>1. y = e \/ y = s
      BY <1>2, <2>3 DEF Names
    <3>2. ~(Names(u, e) /\ Names(u, s))
      BY <2>1 DEF MayLink
    <3>. QED
      BY <1>3, <2>3, <3>1, <3>2
  <2>. QED
    BY <1>2, <1>3, <2>1, <2>2, <2>3 DEF MayLink
<1>5. CASE op \in DeleteOps \cup {"send"}
  <2>1. (op \in {"send", "deleteSource"} /\ x = e /\ s = None) \/ (op = "deleteSink" /\ x = s /\ e = None)
    BY <1>1, <1>3, <1>5 DEF Begun, DeleteOps
  <2>2. \A y \in Source \cup Sink : Names(t, y)' => y = x
    BY <1>2, <2>1 DEF Names
  <2>3. (op = "send" => Usable(x)) /\ (op \in DeleteOps => Unused(x))
    BY <1>1, <2>1 DEF Begun, DeleteOps
  <2>. QED
    BY <1>2, <1>5, <2>2, <2>3
<1>. QED
  BY <1>1, <1>4, <1>5 DEF Begun

LEMMA RulesStep ==
  ASSUME Core, NEW t \in Thread, Step(t)
  PROVE  NamedLive' /\ DeletedAlone' /\ LinkedAlone'
<1>. USE DEF Core
<1>1. CASE Calls(t)
  <2>1. alive' = alive
    <3>1. PICK op, e, s, label : Begun(t, op, e, s, label)
      BY <1>1, CallsBegin
    <3>. QED
      BY <3>1, BegunIs
  <2>2. ASSUME NEW u \in Thread, NEW x \in Source \cup Sink, Names(u, x)'
        PROVE  x \in alive'
    <3>1. CASE u = t
      BY <1>1, <2>1, <2>2, <3>1, NamesBegun DEF Usable, Unused
    <3>2. CASE u # t
      BY <2>1, <2>2, <3>2, NamesOfOthers DEF NamedLive
    <3>. QED
      BY <3>1, <3>2
  <2>3. ASSUME NEW u \in Thread, u # t, NEW x \in Source \cup Sink, Names(t, x)', Names(u, x)'
        PROVE  call'[t].op \notin DeleteOps /\ call'[u].op \notin DeleteOps
    <3>1. Names(u, x) /\ call'[u].op = call[u].op
      BY <2>3, NamesOfOthers
    <3>2. ~Unused(x)
      BY <3>1 DEF Unused
    <3>3. Usable(x) /\ call'[t].op \notin DeleteOps
      BY <1>1, <2>3, <3>2, NamesBegun
    <3>. QED
      BY <3>1, <3>3 DEF Usable, Deleting
  <2>4. DeletedAlone'
    <3>1. ASSUME NEW u \in Thread, NEW v \in Thread, NEW x \in Source \cup Sink, u # v, Names(u, x)', Names(v, x)'
          PROVE  call'[u].op \notin DeleteOps
      <4>1. CASE u # t /\ v # t
        BY <3>1, <4>1, NamesOfOthers DEF DeletedAlone
      <4>2. CASE u = t \/ v = t
        BY <2>3, <3>1, <4>2
      <4>. QED
        BY <4>1, <4>2
    <3>. QED
      BY <3>1 DEF DeletedAlone
  <2>5. LinkedAlone'
    <3>1. ASSUME NEW u \in Thread, NEW v \in Thread, NEW e \in Source, NEW s \in Sink, u # v,
                 Names(u, e)', Names(u, s)', Names(v, e)', Names(v, s)'
          PROVE  FALSE
      <4>1. e # s /\ e \in Source \cup Sink /\ s \in Source \cup Sink
        OBVIOUS
      <4>2. CASE u # t /\ v # t
        BY <3>1, <4>2, NamesOfOthers DEF LinkedAlone
      <4>3. CASE u = t
        <5>1. Names(v, e) /\ Names(v, s)
          BY <3>1, <4>3, NamesOfOthers
        <5>. QED
          BY <1>1, <3>1, <4>1, <4>3, <5>1, NamesBegun
      <4>4. CASE v = t
        <5>1. Names(u, e) /\ Names(u, s)
          BY <3>1, <4>4, NamesOfOthers
        <5>. QED
          BY <1>1, <3>1, <4>1, <4>4, <5>1, NamesBegun
      <4>. QED
        BY <4>2, <4>3, <4>4
    <3>. QED
      BY <3>1 DEF LinkedAlone
  <2>. QED
    BY <2>2, <2>4, <2>5 DEF NamedLive
<1>2. CASE Proceed(t) \/ Throw(t)
  <2>1. ASSUME NEW u \in Thread, NEW x \in Source \cup Sink, Names(u, x)'
        PROVE  Names(u, x) /\ (call'[u].op \in DeleteOps => call[u].op \in DeleteOps)
    <3>1. CASE u = t
      BY <1>2, <2>1, <3>1, NamesKept
    <3>2. CASE u # t
      BY <2>1, <3>2, NamesOfOthers
    <3>. QED
      BY <3>1, <3>2
  <2>2. DeletedAlone'
    BY <2>1 DEF DeletedAlone
  <2>3. LinkedAlone'
    BY <2>1 DEF LinkedAlone
  <2>4. \/ alive' = alive
        \/ /\ pc'[t] = "idle" /\ pc[t] \in {"lockOwn", "lockSelf"}
           /\ \E x \in Source \cup Sink : Names(t, x) /\ alive' = alive \ {x}
    <3>1. CASE LockOwn(t)
      <4>1. call[t].source \in Source /\ pc[t] = "lockOwn"
        BY <3>1, ThreadAt DEF LockOwn
      <4>2. alive' = alive \/ (alive' = alive \ {call[t].source} /\ Leave(t))
        BY <3>1 DEF LockOwn
      <4>. QED
        BY <4>1, <4>2 DEF Names, Leave, Goto, Typed
    <3>2. CASE LockSelf(t)
      <4>1. call[t].sink \in Sink /\ pc[t] = "lockSelf"
        BY <3>2, ThreadAt DEF LockSelf
      <4>2. alive' = alive \/ (alive' = alive \ {call[t].sink} /\ Leave(t))
        BY <3>2 DEF LockSelf
      <4>. QED
        BY <4>1, <4>2 DEF Names, Leave, Goto, Typed
    <3>3. CASE LockSource(t) \/ Link(t) \/ StartSend(t) \/ Visit(t) \/ Return(t) \/ Finish(t) \/ Throw(t)
               \/ LockGlobal(t) \/ CutSink(t) \/ Try(t) \/ CutSource(t)
      BY <3>3 DEF LockSource, Link, StartSend, Visit, Return, Finish, Throw, EndSend, LockGlobal, CutSink, Try, CutSource
    <3>. QED
      BY <1>2, <3>1, <3>2, <3>3 DEF Proceed
  <2>5. NamedLive'
    <3>1. ASSUME NEW u \in Thread, NEW x \in Source \cup Sink, Names(u, x)' PROVE x \in alive'
      <4>1. Names(u, x) /\ x \in alive
        BY <2>1, <3>1 DEF NamedLive
      <4>2. CASE alive' = alive
        BY <4>1, <4>2
      <4>3. ASSUME pc'[t] = "idle", pc[t] \in {"lockOwn", "lockSelf"},
                   NEW y \in Source \cup Sink, Names(t, y), alive' = alive \ {y}
            PROVE  x \in alive'
        <5>1. u # t
          BY <3>1, <4>3 DEF Names
        <5>2. call[t].op \in DeleteOps
          BY <4>3, ThreadAt DEF DeleteOps
        <5>3. x # y
          BY <4>1, <4>3, <5>1, <5>2 DEF DeletedAlone
        <5>. QED
          BY <4>1, <4>3, <5>3
      <4>. QED
        BY <2>4, <4>2, <4>3
    <3>. QED
      BY <3>1 DEF NamedLive
  <2>. QED
    BY <2>2, <2>3, <2>5
<1>. QED
  BY <1>1, <1>2 DEF Step

-----------------------------------------------------------------------------
(* A source and the send in progress there.                                *)

SourceOk(e) ==
  /\ sending[e] => Sender(e)
  /\ it[e] = 0 <=> ~sending[e]
  /\ sending[e] => it[e] <= Len(sinks[e]) + (IF pc[owner[e]] = "send" THEN 1 ELSE 0)
  /\ dirty[e] => sending[e]
  /\ ~dirty[e] => Count(sinks[e], EntriesFor(None, Types)) = 0
  /\ sending[e] =>
       \A i \in 1..Len(sinks[e]) :
         /\ i <= Served(e) /\ sinks[e][i].sink # None => sinks[e][i].mark # "due"
         /\ i > Served(e) => sinks[e][i].mark # "sent"

LEMMA SourcesOk ==
  ASSUME Core
  PROVE  \A e \in Source : SourceOk(e)
BY DEF Core, Sends, EmptiedLater, InOrder, SourceOk

Untouched(e) == sinks'[e] = sinks[e] /\ sending'[e] = sending[e] /\ dirty'[e] = dirty[e] /\ it'[e] = it[e]

(* There are no emptied entries, said of each entry.                       *)
LEMMA NoneEmptied ==
  ASSUME NEW seq \in Seq(Entry)
  PROVE  Count(seq, EntriesFor(None, Types)) = 0 <=> \A i \in 1..Len(seq) : seq[i].sink # None
<1>1. Len(seq) \in Nat /\ DOMAIN seq = 1..Len(seq) /\ \A i \in 1..Len(seq) : seq[i] \in Entry
  OBVIOUS
<1>2. \A x \in Entry : x \in EntriesFor(None, Types) <=> x.sink = None
  BY EntryFor DEF Entry
<1>3. Count(seq, EntriesFor(None, Types)) = 0 <=> \A i \in DOMAIN seq : seq[i] \notin EntriesFor(None, Types)
  BY <1>1, CountZero
<1>. QED
  BY <1>1, <1>2, <1>3

(* The map of a source nobody sends from changes.                          *)
LEMMA UpdateAtRest ==
  ASSUME Core, NEW e \in Source, NEW s \in Sink, NEW op \in LinkOps, Update(op, e, s), ~sending[e]
  PROVE  dirty'[e] = FALSE /\ it'[e] = 0 /\ Count(sinks'[e], EntriesFor(None, Types)) = 0
<1>. USE DEF Core
<1> DEFINE N == EntriesFor(None, Types)
<1>1. dirty[e] = FALSE /\ it[e] = 0 /\ Count(sinks[e], N) = 0 /\ sinks[e] \in Seq(Entry)
  BY SourcesOk DEF SourceOk, Typed
<1>2. ASSUME NEW type \in Types, Add(e, s, type)
      PROVE  dirty'[e] = FALSE /\ it'[e] = 0 /\ Count(sinks'[e], N) = 0
  <2> DEFINE x == [type |-> type, sink |-> s, mark |-> "new"]
  <2>1. x \in Entry /\ x \notin N
    BY DEF Entry, Marks, EntriesFor
  <2>2. Place(e, type) \in 1..(Len(sinks[e]) + 1)
    BY PlaceIsIn
  <2>3. Count(InsertAt(sinks[e], Place(e, type), x), N) = Count(sinks[e], N) + (IF x \in N THEN 1 ELSE 0)
    BY <1>1, <2>1, <2>2, InsertAtCounts
  <2>4. /\ sinks'[e] = InsertAt(sinks[e], Place(e, type), x)
        /\ it'[e] = it[e] /\ dirty' = dirty
    BY <1>2, AddedEntries
  <2>. HIDE DEF N, x
  <2>. QED
    BY <1>1, <2>1, <2>3, <2>4
<1>3. ASSUME NEW types \in SUBSET Types, Take(e, s, types)
      PROVE  dirty'[e] = FALSE /\ it'[e] = 0 /\ Count(sinks'[e], N) = 0
  <2> DEFINE X == EntriesFor(s, types)
  <2>1. sinks'[e] = Without(sinks[e], X) /\ dirty'[e] = (dirty[e] \/ (sending[e] /\ Count(sinks[e], X) > 0)) /\ it' = it
    BY <1>3, TakenEntries
  <2>2. Count(Without(sinks[e], X), N) = Count(sinks[e], N \ X)
    BY <1>1, WithoutCounts
  <2>3. N \ X = N
    BY DEF EntriesFor
  <2>. HIDE DEF N, X
  <2>. QED
    BY <1>1, <2>1, <2>2, <2>3
<1>4. CASE \E type \in Types : Add(e, s, type)
  BY <1>2, <1>4
<1>5. CASE \E types \in SUBSET Types : Take(e, s, types)
  BY <1>3, <1>5
<1>. QED
  BY <1>4, <1>5 DEF Update, Disconnect, Unsubscribe, Types

(* What a change leaves alone.                                             *)
LEMMA UpdateElsewhere ==
  ASSUME Typed, NEW e \in Source, NEW s \in Sink, NEW op \in LinkOps, Update(op, e, s)
  PROVE  /\ \A x \in Source \ {e} : sinks'[x] = sinks[x] /\ dirty'[x] = dirty[x] /\ it'[x] = it[x]
         /\ \A x \in Sink \ {s} : sources'[x] = sources[x]
<1>1. CASE \E type \in Types : Add(e, s, type)
  BY <1>1, AddedEntries
<1>2. CASE Disconnect(e, s) \/ Unsubscribe(e, s)
  <2>1. \E types \in SUBSET Types : Take(e, s, types)
    BY <1>2 DEF Disconnect, Unsubscribe, Types
  <2>2. \A x \in Source \ {e} : sinks'[x] = sinks[x] /\ dirty'[x] = dirty[x] /\ it'[x] = it[x]
    BY <2>1, TakenEntries
  <2>3. \A x \in Sink \ {s} : sources'[x] = sources[x]
    BY <1>2 DEF Disconnect, Unsubscribe, Typed
  <2>. QED
    BY <2>2, <2>3
<1>. QED
  BY <1>1, <1>2 DEF Update, Types

(* A change of the map during a send, seen from the entries.               *)
LEMMA AddSending ==
  ASSUME Core, NEW e \in Source, NEW s \in Sink, NEW type \in Types, Add(e, s, type), sending[e],
         it[e] <= Len(sinks[e]),
         \A i \in 1..Len(sinks[e]) :
           /\ i <= it[e] /\ sinks[e][i].sink # None => sinks[e][i].mark # "due"
           /\ i > it[e] => sinks[e][i].mark # "sent"
  PROVE  /\ it'[e] <= Len(sinks'[e]) /\ it'[e] # 0
         /\ dirty'[e] = dirty[e]
         /\ ~dirty[e] => Count(sinks'[e], EntriesFor(None, Types)) = 0
         /\ \A i \in 1..Len(sinks'[e]) :
              /\ i <= it'[e] /\ sinks'[e][i].sink # None => sinks'[e][i].mark # "due"
              /\ i > it'[e] => sinks'[e][i].mark # "sent"
<1>. USE DEF Core
<1> DEFINE old == sinks[e]
           x == [type |-> type, sink |-> s, mark |-> "new"]
           n == Place(e, type)
           new == InsertAt(old, n, x)
           N == EntriesFor(None, Types)
<1>1. old \in Seq(Entry) /\ Len(old) \in Nat /\ it[e] \in Nat /\ it[e] # 0
  BY SourcesOk DEF SourceOk, Typed
<1>2. x \in Entry /\ x.mark = "new" /\ x \notin N
  BY DEF Entry, Marks, EntriesFor
<1>3. n \in 1..(Len(old) + 1)
  BY PlaceIsIn
<1>4. /\ new \in Seq(Entry)
      /\ Len(new) = Len(old) + 1
      /\ \A i \in 1..(Len(old) + 1) : new[i] = IF i < n THEN old[i] ELSE IF i = n THEN x ELSE old[i - 1]
      /\ \A X : Count(new, X) = Count(old, X) + (IF x \in X THEN 1 ELSE 0)
  BY <1>1, <1>2, <1>3, InsertAtCounts
<1>5. /\ sinks'[e] = new /\ dirty' = dirty
      /\ it'[e] = IF n <= it[e] THEN it[e] + 1 ELSE it[e]
  BY AddedEntries
<1>6. ~dirty[e] => Count(new, N) = 0
  <2>1. ~dirty[e] => Count(old, N) = 0
    BY SourcesOk DEF SourceOk
  <2>2. Count(new, N) = Count(old, N) + (IF x \in N THEN 1 ELSE 0)
    BY <1>4
  <2>. HIDE DEF N, x, new
  <2>. QED
    BY <1>2, <2>1, <2>2
<1>. HIDE DEF x, n, new, N
<1>7. it'[e] <= Len(new) /\ it'[e] # 0
  BY <1>1, <1>3, <1>4, <1>5
<1>8. ASSUME NEW i \in 1..Len(new)
      PROVE  /\ i <= it'[e] /\ new[i].sink # None => new[i].mark # "due"
             /\ i > it'[e] => new[i].mark # "sent"
  <2>1. i \in 1..(Len(old) + 1) /\ n \in Nat
    BY <1>3, <1>4
  <2>2. CASE i < n
    <3>1. new[i] = old[i] /\ i \in 1..Len(old)
      BY <1>1, <1>3, <1>4, <2>1, <2>2
    <3>2. (i <= it'[e] => i <= it[e]) /\ (i > it'[e] => i > it[e])
      BY <1>1, <1>3, <1>5, <2>1, <2>2
    <3>. QED
      BY <3>1, <3>2
  <2>3. CASE i = n
    BY <1>2, <1>4, <2>1, <2>3
  <2>4. CASE i > n
    <3>1. new[i] = old[i - 1] /\ i - 1 \in 1..Len(old)
      BY <1>1, <1>3, <1>4, <2>1, <2>4
    <3>2. (i <= it'[e] => i - 1 <= it[e]) /\ (i > it'[e] => i - 1 > it[e])
      BY <1>1, <1>3, <1>5, <2>1, <2>4
    <3>. QED
      BY <3>1, <3>2
  <2>. QED
    BY <2>1, <2>2, <2>3, <2>4
<1>. QED
  BY <1>5, <1>6, <1>7, <1>8 DEF N

LEMMA TakeSending ==
  ASSUME Core, NEW e \in Source, NEW s \in Sink, NEW types \in SUBSET Types, Take(e, s, types), sending[e],
         it[e] <= Len(sinks[e]),
         \A i \in 1..Len(sinks[e]) :
           /\ i <= it[e] /\ sinks[e][i].sink # None => sinks[e][i].mark # "due"
           /\ i > it[e] => sinks[e][i].mark # "sent"
  PROVE  /\ it'[e] <= Len(sinks'[e]) /\ it'[e] # 0
         /\ ~dirty'[e] => Count(sinks'[e], EntriesFor(None, Types)) = 0
         /\ \A i \in 1..Len(sinks'[e]) :
              /\ i <= it'[e] /\ sinks'[e][i].sink # None => sinks'[e][i].mark # "due"
              /\ i > it'[e] => sinks'[e][i].mark # "sent"
<1>. USE DEF Core
<1> DEFINE old == sinks[e]
           X == EntriesFor(s, types)
           new == Emptied(old, X)
<1>1. old \in Seq(Entry) /\ Len(old) \in Nat /\ it[e] \in Nat /\ it[e] # 0 /\ DOMAIN old = 1..Len(old)
  BY SourcesOk DEF SourceOk, Typed
<1>2. /\ new \in Seq(Entry)
      /\ Len(new) = Len(old)
      /\ \A i \in 1..Len(old) :
           /\ new[i].mark = old[i].mark
           /\ new[i].sink = IF old[i] \in X THEN None ELSE old[i].sink
  BY <1>1, EmptiedEntries
<1>3. sinks'[e] = new /\ it' = it /\ dirty'[e] = (dirty[e] \/ Count(old, X) > 0)
  BY TakenEntries
<1>4. ASSUME ~dirty'[e] PROVE Count(new, EntriesFor(None, Types)) = 0
  <2>1. Count(old, X) = 0 /\ ~dirty[e]
    <3>1. Count(old, X) \in Nat
      BY <1>1, CountType
    <3>2. ~(Count(old, X) > 0) /\ ~dirty[e]
      BY <1>3, <1>4, Zenon
    <3>. QED
      BY <3>1, <3>2
  <2>2. \A i \in 1..Len(old) : old[i] \notin X
    BY <1>1, <2>1, CountZero
  <2>3. \A i \in 1..Len(old) : old[i].sink # None
    BY <1>1, <2>1, SourcesOk, NoneEmptied DEF SourceOk
  <2>. HIDE DEF new
  <2>4. \A i \in 1..Len(new) : new[i].sink # None
    BY <1>2, <2>2, <2>3
  <2>. QED
    BY <1>2, <2>4, NoneEmptied
<1>. HIDE DEF new, X
<1>5. \A i \in 1..Len(new) :
        /\ i <= it'[e] /\ new[i].sink # None => new[i].mark # "due"
        /\ i > it'[e] => new[i].mark # "sent"
  BY <1>2, <1>3
<1>6. it'[e] <= Len(new) /\ it'[e] # 0
  BY <1>1, <1>2, <1>3
<1>. QED
  BY <1>3, <1>4, <1>5, <1>6

(* A source the step does not change, and its sender does not take.        *)
LEMMA SourceAlone ==
  ASSUME Core, NEW t \in Thread, Step(t), NEW x \in Source, Untouched(x),
         ~(owner[x] = t /\ pc[t] \in {"lockSink", "send", "slot"})
  PROVE  SourceOk(x)'
<1>. USE DEF Core
<1>1. SourceOk(x)
  BY SourcesOk
<1>2. CASE ~sending[x]
  BY <1>1, <1>2 DEF SourceOk, Untouched
<1>3. CASE sending[x]
  <2> DEFINE u == owner[x]
  <2>1. u \in Thread /\ pc[u] \in {"lockSink", "send", "slot"}
    BY <1>1, <1>3 DEF SourceOk, Sender
  <2>2. u # t
    BY <2>1
  <2>3. owner'[x] = u /\ pc'[u] = pc[u]
    <3>1. x \in Locks /\ u # None
      BY <2>1 DEF Locks
    <3>. QED
      BY <2>1, <2>2, <3>1, OwnerIs, OthersStay
  <2>. QED
    BY <1>1, <1>3, <2>1, <2>3 DEF SourceOk, Untouched, Sender, Served
<1>. QED
  BY <1>2, <1>3

(* The source a thread has locked, and nobody else's.                      *)
LEMMA OwnSource ==
  ASSUME Core, NEW t \in Thread, pc[t] \in {"lockSink", "send", "slot", "cutSink"}
  PROVE  /\ call[t].source \in Source /\ owner[call[t].source] = t
         /\ \A x \in Source : owner[x] = t => x = call[t].source
<1>. USE DEF Core
<1>1. call[t].source \in Source
  BY ThreadAt
<1>2. \A l \in Locks : owner[l] = t <=> Has(t, l)
  BY DEF Mutexes
<1>. QED
  BY <1>1, <1>2 DEF Has, Locks

LEMMA LinkKeepsSource ==
  ASSUME Core, NEW t \in Thread, Step(t), Link(t), NEW x \in Source
  PROVE  SourceOk(x)'
<1>. USE DEF Core
<1> DEFINE e == call[t].source
           s == call[t].sink
           op == call[t].op
<1>1. pc[t] = "lockSink" /\ e \in Source /\ s \in Sink /\ op \in LinkOps /\ owner[e] = t
  BY ThreadAt, OwnSource DEF Link
<1>2. Update(op, e, s) /\ sending' = sending
  BY DEF Link
<1>3. CASE x # e
  <2>1. Untouched(x)
    BY <1>1, <1>2, <1>3, UpdateElsewhere DEF Untouched
  <2>2. owner[x] # t
    BY <1>1, <1>3, OwnSource
  <2>. QED
    BY <2>1, <2>2, SourceAlone
<1>4. CASE x = e /\ ~sending[e]
  <2>1. dirty'[e] = FALSE /\ it'[e] = 0 /\ Count(sinks'[e], EntriesFor(None, Types)) = 0
    BY <1>1, <1>2, <1>4, UpdateAtRest
  <2>. QED
    BY <1>2, <1>4, <2>1 DEF SourceOk
<1>5. CASE x = e /\ sending[e]
  <2>1. pc'[t] = "slot" /\ owner' = owner
    BY <1>5, StepMoves DEF Link
  <2>2. Served(e) = it[e] /\ it[e] <= Len(sinks[e])
    <3>1. it[e] <= Len(sinks[e]) + 0
      BY <1>1, <1>5, SourcesOk DEF SourceOk
    <3>2. Len(sinks[e]) + 0 = Len(sinks[e])
      BY <1>1 DEF Typed
    <3>. QED
      BY <1>1, <3>1, <3>2 DEF Served
  <2>3. \A i \in 1..Len(sinks[e]) :
          /\ i <= it[e] /\ sinks[e][i].sink # None => sinks[e][i].mark # "due"
          /\ i > it[e] => sinks[e][i].mark # "sent"
    BY <1>1, <1>5, <2>2, SourcesOk DEF SourceOk
  <2>4. /\ it'[e] <= Len(sinks'[e]) /\ it'[e] # 0
        /\ ~dirty'[e] => Count(sinks'[e], EntriesFor(None, Types)) = 0
        /\ \A i \in 1..Len(sinks'[e]) :
             /\ i <= it'[e] /\ sinks'[e][i].sink # None => sinks'[e][i].mark # "due"
             /\ i > it'[e] => sinks'[e][i].mark # "sent"
    <3>1. CASE \E type \in Types : Add(e, s, type)
      BY <1>1, <1>5, <2>2, <2>3, <3>1, AddSending
    <3>2. CASE \E types \in SUBSET Types : Take(e, s, types)
      BY <1>1, <1>5, <2>2, <2>3, <3>2, TakeSending
    <3>. QED
      BY <1>2, <3>1, <3>2 DEF Update, Disconnect, Unsubscribe, Types
  <2>5. it'[e] <= Len(sinks'[e]) + 0
    <3>1. sinks' \in [Source -> Seq(Entry)]
      BY SendsTyped
    <3>2. Len(sinks'[e]) + 0 = Len(sinks'[e])
      BY <1>1, <3>1
    <3>. QED
      BY <2>4, <3>2
  <2>6. sending'[e] /\ owner'[e] = t
    BY <1>1, <1>2, <1>5, <2>1
  <2>. QED
    BY <1>5, <2>1, <2>4, <2>5, <2>6 DEF SourceOk, Sender, Served
<1>. QED
  BY <1>3, <1>4, <1>5

LEMMA StartKeepsSource ==
  ASSUME Core, NEW t \in Thread, Step(t), StartSend(t), NEW x \in Source
  PROVE  SourceOk(x)'
<1>. USE DEF Core
<1> DEFINE e == call[t].source
<1>1. /\ e \in Source
      /\ \A y \in Source \ {e} : sinks'[y] = sinks[y]
      /\ sinks'[e] = Marked(sinks[e], "due")
      /\ sending' = [sending EXCEPT ![e] = TRUE]
      /\ dirty' = [dirty EXCEPT ![e] = FALSE]
      /\ it' = [it EXCEPT ![e] = 1]
  BY StartedEntries
<1>2. pc[t] = "lockSource" /\ Lock(t, e)
  BY DEF StartSend
<1>3. CASE x # e
  <2>1. Untouched(x)
    BY <1>1, <1>3 DEF Untouched, Typed
  <2>. QED
    BY <1>2, <2>1, SourceAlone
<1>4. CASE x = e
  <2>1. sending'[e] /\ ~dirty'[e] /\ it'[e] = 1
    BY <1>1 DEF Typed
  <2>2. owner'[e] = t /\ pc'[t] = "send" /\ Free(e)
    BY <1>1, <1>2, StepMoves DEF Lock, At, Typed, Locks
  <2>3. sinks[e] \in Seq(Entry) /\ Len(sinks[e]) \in Nat
    BY <1>1 DEF Typed
  <2>4. /\ sinks'[e] \in Seq(Entry)
        /\ Len(sinks'[e]) = Len(sinks[e])
        /\ \A i \in 1..Len(sinks[e]) : sinks'[e][i].mark = "due" /\ sinks'[e][i].sink = sinks[e][i].sink
    BY <1>1, <2>3, MarkedEntries DEF Marks
  <2>5. Count(sinks'[e], EntriesFor(None, Types)) = 0
    <3>1. ~sending[e]
      BY <1>1, <2>2, FreeNotSending
    <3>2. Count(sinks[e], EntriesFor(None, Types)) = 0
      BY <1>1, <3>1, SourcesOk DEF SourceOk
    <3>. QED
      BY <2>3, <2>4, <3>2, NoneEmptied
  <2>6. it'[e] <= Len(sinks'[e]) + 1 /\ it'[e] # 0 /\ it'[e] - 1 = 0
    BY <2>1, <2>3, <2>4
  <2>7. \A i \in 1..Len(sinks'[e]) : ~(i <= it'[e] - 1) /\ sinks'[e][i].mark # "sent"
    BY <2>3, <2>4, <2>6
  <2>. QED
    BY <1>4, <2>1, <2>2, <2>5, <2>6, <2>7 DEF SourceOk, Sender, Served
<1>. QED
  BY <1>3, <1>4

LEMMA VisitKeepsSource ==
  ASSUME Core, NEW t \in Thread, Step(t), Visit(t), NEW x \in Source
  PROVE  SourceOk(x)'
<1>. USE DEF Core
<1> DEFINE e == call[t].source
           n == it[e]
           old == sinks[e]
           new == sinks'[e]
<1>1. /\ e \in Source /\ n \in 1..Len(old)
      /\ sending' = sending /\ dirty' = dirty
      /\ sinks' \in [Source -> Seq(Entry)]
      /\ \A y \in Source \ {e} : sinks'[y] = sinks[y]
      /\ Len(new) = Len(old)
      /\ \A i \in 1..Len(old) :
           /\ new[i].sink = old[i].sink
           /\ i # n => new[i].mark = old[i].mark
  BY VisitedEntries
<1>2. \/ old[n].sink = None /\ sinks' = sinks /\ it' = [it EXCEPT ![e] = @ + 1] /\ pc' = pc
      \/ old[n].sink # None /\ new[n].mark = "sent" /\ it' = it /\ At(t, "slot")
  BY VisitedEntries
<1>3. pc[t] = "send" /\ owner' = owner
  BY DEF Visit
<1>4. owner[e] = t /\ sending[e]
  BY <1>3, OwnSource DEF Sends
<1>5. CASE x # e
  <2>1. it'[x] = it[x]
    BY <1>1, <1>2, <1>5 DEF Typed
  <2>2. owner[x] # t
    BY <1>3, <1>5, OwnSource
  <2>. QED
    BY <1>1, <1>5, <2>1, <2>2, SourceAlone DEF Untouched
<1>6. CASE x = e
  <2>1. old \in Seq(Entry) /\ new \in Seq(Entry) /\ Len(old) \in Nat /\ n \in Nat
    BY <1>1 DEF Typed
  <2>2. \A i \in 1..Len(old) :
          /\ i <= n - 1 /\ old[i].sink # None => old[i].mark # "due"
          /\ i > n - 1 => old[i].mark # "sent"
    BY <1>1, <1>3, <1>4, SourcesOk DEF SourceOk, Served
  <2>3. ~dirty'[e] => Count(new, EntriesFor(None, Types)) = 0
    <3>1. ~dirty[e] => Count(old, EntriesFor(None, Types)) = 0
      BY <1>1, SourcesOk DEF SourceOk
    <3>2. Count(old, EntriesFor(None, Types)) = 0 => Count(new, EntriesFor(None, Types)) = 0
      <4>1. Count(old, EntriesFor(None, Types)) = 0 <=> \A i \in 1..Len(old) : old[i].sink # None
        BY <2>1, NoneEmptied
      <4>2. Count(new, EntriesFor(None, Types)) = 0 <=> \A i \in 1..Len(new) : new[i].sink # None
        BY <2>1, NoneEmptied
      <4>. QED
        BY <1>1, <4>1, <4>2
    <3>. QED
      BY <1>1, <3>1, <3>2
  <2>4. sending'[e] /\ owner'[e] = t
    BY <1>1, <1>3, <1>4
  <2>5. CASE old[n].sink = None /\ sinks' = sinks /\ it' = [it EXCEPT ![e] = @ + 1] /\ pc' = pc
    <3>1. it'[e] = n + 1
      BY <1>1, <2>5 DEF Typed
    <3>2. it'[e] # 0 /\ it'[e] <= Len(new) + 1 /\ it'[e] - 1 = n
      BY <1>1, <2>1, <3>1
    <3>3. \A i \in 1..Len(new) :
            /\ i <= n /\ new[i].sink # None => new[i].mark # "due"
            /\ i > n => new[i].mark # "sent"
      BY <2>1, <2>2, <2>5
    <3>4. pc'[t] = "send"
      BY <1>3, <2>5
    <3>5. \A i \in 1..Len(new) :
            /\ i <= it'[e] - 1 /\ new[i].sink # None => new[i].mark # "due"
            /\ i > it'[e] - 1 => new[i].mark # "sent"
      BY <3>2, <3>3
    <3>. QED
      BY <1>6, <2>3, <2>4, <3>2, <3>4, <3>5 DEF SourceOk, Sender, Served
  <2>6. CASE old[n].sink # None /\ new[n].mark = "sent" /\ it' = it /\ At(t, "slot")
    <3>1. it'[e] = n /\ pc'[t] = "slot"
      BY <2>6 DEF At
    <3>2. n # 0 /\ n <= Len(new) + 0
      BY <1>1, <2>1
    <3>3. ASSUME NEW i \in 1..Len(new)
          PROVE  /\ i <= n /\ new[i].sink # None => new[i].mark # "due"
                 /\ i > n => new[i].mark # "sent"
      <4>1. CASE i = n
        BY <2>6, <4>1
      <4>2. CASE i # n
        <5>1. i \in 1..Len(old) /\ new[i].mark = old[i].mark /\ new[i].sink = old[i].sink
          BY <1>1, <4>2
        <5>2. (i <= n => i <= n - 1) /\ (i > n => i > n - 1)
          BY <2>1, <4>2, <5>1
        <5>. QED
          BY <2>2, <5>1, <5>2
      <4>. QED
        BY <4>1, <4>2
    <3>. QED
      BY <1>6, <2>3, <2>4, <3>1, <3>2, <3>3 DEF SourceOk, Sender, Served
  <2>. QED
    BY <1>2, <2>5, <2>6
<1>. QED
  BY <1>5, <1>6

LEMMA ReturnKeepsSource ==
  ASSUME Core, NEW t \in Thread, Step(t), Return(t), NEW x \in Source
  PROVE  SourceOk(x)'
<1>. USE DEF Core
<1> DEFINE e == call[t].source
<1>1. /\ pc[t] = "slot" /\ At(t, "send")
      /\ it' = [it EXCEPT ![e] = @ + 1]
      /\ UNCHANGED <<links, sending, dirty, owner>>
  BY StepMoves DEF Return
<1>2. e \in Source /\ owner[e] = t /\ sending[e]
  BY <1>1, OwnSource DEF Sends
<1>3. CASE x # e
  <2>1. owner[x] # t
    BY <1>1, <1>3, OwnSource
  <2>2. Untouched(x)
    BY <1>1, <1>3 DEF Untouched, Typed, links
  <2>. QED
    BY <2>1, <2>2, SourceAlone
<1>4. CASE x = e
  <2>1. SourceOk(e)
    BY <1>2, SourcesOk
  <2>2. it[e] \in Nat /\ Len(sinks[e]) \in Nat
    BY <1>2 DEF Typed
  <2>3. it'[e] = it[e] + 1
    BY <1>1, <1>2 DEF Typed
  <2>4. pc'[t] = "send" /\ owner'[e] = t /\ sinks' = sinks /\ sending' = sending /\ dirty' = dirty
    BY <1>1, <1>2 DEF At, links
  <2>5. it'[e] # 0 /\ it'[e] - 1 = it[e]
    BY <2>2, <2>3
  <2>6. it[e] <= Len(sinks[e]) + 0
    BY <1>1, <1>2, <2>1 DEF SourceOk
  <2>7. it'[e] <= Len(sinks[e]) + 1
    BY <2>2, <2>3, <2>6
  <2>8. \A i \in 1..Len(sinks[e]) :
          /\ i <= it'[e] - 1 /\ sinks[e][i].sink # None => sinks[e][i].mark # "due"
          /\ i > it'[e] - 1 => sinks[e][i].mark # "sent"
    BY <1>1, <1>2, <2>1, <2>5 DEF SourceOk, Served
  <2>. QED
    BY <1>2, <1>4, <2>1, <2>4, <2>5, <2>7, <2>8 DEF SourceOk, Sender, Served
<1>. QED
  BY <1>3, <1>4

LEMMA EndKeepsSource ==
  ASSUME Core, NEW t \in Thread, Step(t), Finish(t) \/ Throw(t), NEW x \in Source
  PROVE  SourceOk(x)'
<1>. USE DEF Core
<1> DEFINE e == call[t].source
<1>1. pc[t] \in {"send", "slot"} /\ EndSend(t, e)
  BY DEF Finish, Throw
<1>2. e \in Source /\ owner[e] = t
  BY <1>1, OwnSource
<1>3. /\ \A y \in Source \ {e} : sinks'[y] = sinks[y]
      /\ sinks'[e] = Marked(IF dirty[e] THEN Without(sinks[e], EntriesFor(None, Types)) ELSE sinks[e], "new")
      /\ sending' = [sending EXCEPT ![e] = FALSE]
      /\ dirty' = [dirty EXCEPT ![e] = FALSE]
      /\ it' = [it EXCEPT ![e] = 0]
  BY <1>1, <1>2, EndedEntries
<1>4. CASE x # e
  <2>1. owner[x] # t
    BY <1>1, <1>4, OwnSource
  <2>2. Untouched(x)
    BY <1>3, <1>4 DEF Untouched, Typed
  <2>. QED
    BY <2>1, <2>2, SourceAlone
<1>5. CASE x = e
  <2> DEFINE N == EntriesFor(None, Types)
             left == IF dirty[e] THEN Without(sinks[e], N) ELSE sinks[e]
  <2>1. sinks[e] \in Seq(Entry)
    BY <1>2 DEF Typed
  <2>2. left \in Seq(Entry) /\ Count(left, N) = 0
    <3>1. CASE dirty[e]
      <4>1. left = Without(sinks[e], N)
        BY <3>1
      <4>2. Count(Without(sinks[e], N), N) = Count(sinks[e], N \ N)
        BY <2>1, WithoutCounts
      <4>3. Count(sinks[e], {}) = 0
        <5>1. Len(sinks[e]) \in Nat /\ DOMAIN sinks[e] = 1..Len(sinks[e])
          BY <2>1
        <5>. QED
          BY <5>1, CountZero
      <4>4. N \ N = {}
        OBVIOUS
      <4>5. left \in Seq(Entry)
        BY <2>1, <4>1, WithoutCounts
      <4>. HIDE DEF N, left
      <4>. QED
        BY <4>1, <4>2, <4>3, <4>4, <4>5
    <3>2. CASE ~dirty[e]
      BY <1>2, <2>1, <3>2, SourcesOk DEF SourceOk
    <3>. QED
      BY <3>1, <3>2
  <2>3. sinks'[e] = Marked(left, "new")
    BY <1>3
  <2>. HIDE DEF left
  <2>4. Count(sinks'[e], N) = 0
    <3>1. /\ Marked(left, "new") \in Seq(Entry)
          /\ Len(Marked(left, "new")) = Len(left)
          /\ \A i \in 1..Len(left) : Marked(left, "new")[i].sink = left[i].sink
      BY <2>2, MarkedEntries DEF Marks
    <3>. QED
      BY <2>2, <2>3, <3>1, NoneEmptied
  <2>5. sending'[e] = FALSE /\ dirty'[e] = FALSE /\ it'[e] = 0
    BY <1>2, <1>3 DEF Typed
  <2>. QED
    BY <1>5, <2>4, <2>5 DEF SourceOk
<1>. QED
  BY <1>4, <1>5

LEMMA CutKeepsSource ==
  ASSUME Core, NEW t \in Thread, Step(t), CutSink(t) \/ CutSource(t), NEW x \in Source
  PROVE  SourceOk(x)'
<1>. USE DEF Core
<1>1. PICK e \in Source, s \in Sink : Disconnect(e, s) /\ ~sending[e]
  <2>1. CASE CutSink(t)
    BY <2>1, CutsALink DEF CutSink
  <2>2. CASE CutSource(t)
    <3>1. Head(sources[call[t].sink]) \in Source /\ call[t].sink \in Sink
      BY <2>2, CutsALink DEF CutSource
    <3>2. Free(Head(sources[call[t].sink]))
      BY <2>2 DEF CutSource
    <3>. QED
      BY <2>2, <3>1, <3>2, FreeNotSending DEF CutSource
  <2>. QED
    BY <2>1, <2>2
<1>2. Update("disconnect", e, s) /\ "disconnect" \in LinkOps
  BY <1>1 DEF Update, LinkOps
<1>3. sending' = sending /\ pc[t] \in {"cutSink", "cutSource"}
  BY DEF CutSink, CutSource
<1>4. CASE x # e
  <2>1. Untouched(x)
    BY <1>2, <1>3, <1>4, UpdateElsewhere DEF Untouched
  <2>. QED
    BY <1>3, <2>1, SourceAlone
<1>5. CASE x = e
  <2>1. dirty'[e] = FALSE /\ it'[e] = 0 /\ Count(sinks'[e], EntriesFor(None, Types)) = 0
    BY <1>1, <1>2, UpdateAtRest
  <2>. QED
    BY <1>1, <1>3, <1>5, <2>1 DEF SourceOk
<1>. QED
  BY <1>4, <1>5

LEMMA CallKeepsSource ==
  ASSUME Core, NEW t \in Thread, Step(t), Calls(t), NEW x \in Source
  PROVE  SourceOk(x)'
<1>. USE DEF Core
<1>1. PICK op, e, s, label : Begun(t, op, e, s, label)
  BY CallsBegin
<1>2. pc'[t] = label /\ UNCHANGED <<alive, links, sends, owner>>
  BY <1>1, BegunIs
<1>3. Untouched(x)
  BY <1>2 DEF Untouched, links, sends
<1>4. CASE ~(owner[x] = t /\ pc[t] \in {"lockSink", "send", "slot"})
  BY <1>3, <1>4, SourceAlone
<1>5. CASE owner[x] = t /\ pc[t] \in {"lockSink", "send", "slot"}
  <2>1. pc[t] = "slot" /\ label = "lockSink"
    BY <1>1, <1>5 DEF Begun
  <2>2. SourceOk(x)
    BY SourcesOk
  <2>3. owner' = owner
    BY <1>2
  <2>. QED
    BY <1>2, <1>3, <1>5, <2>1, <2>2, <2>3 DEF SourceOk, Sender, Served, Untouched
<1>. QED
  BY <1>4, <1>5

LEMMA SourceStep ==
  ASSUME Core, NEW t \in Thread, Step(t), NEW x \in Source
  PROVE  SourceOk(x)'
<1>1. CASE LockSource(t) \/ LockGlobal(t) \/ LockOwn(t) \/ LockSelf(t) \/ Try(t)
  <2>1. UNCHANGED <<links, sends>> /\ pc[t] \notin {"lockSink", "send", "slot"}
    BY <1>1 DEF LockSource, LockGlobal, LockOwn, LockSelf, Try
  <2>2. Untouched(x)
    BY <2>1 DEF Untouched, links, sends
  <2>. QED
    BY <2>1, <2>2, SourceAlone
<1>2. CASE Calls(t)
  BY <1>2, CallKeepsSource
<1>3. CASE Link(t)
  BY <1>3, LinkKeepsSource
<1>4. CASE StartSend(t)
  BY <1>4, StartKeepsSource
<1>5. CASE Visit(t)
  BY <1>5, VisitKeepsSource
<1>6. CASE Return(t)
  BY <1>6, ReturnKeepsSource
<1>7. CASE Finish(t) \/ Throw(t)
  BY <1>7, EndKeepsSource
<1>8. CASE CutSink(t) \/ CutSource(t)
  BY <1>8, CutKeepsSource
<1>. QED
  BY <1>1, <1>2, <1>3, <1>4, <1>5, <1>6, <1>7, <1>8 DEF Step, Proceed

(* A thread that sends is the sender of its source.                        *)
LEMMA SendersStep ==
  ASSUME Core, NEW t \in Thread, Step(t), NEW u \in Thread, pc'[u] \in {"send", "slot"}
  PROVE  sending'[call'[u].source]
<1>. USE DEF Core
<1>1. CASE u # t
  <2> DEFINE e == call[u].source
  <2>1. pc[u] \in {"send", "slot"} /\ call'[u] = call[u]
    BY <1>1, OthersStay
  <2>2. e \in Source /\ owner[e] = u /\ sending[e]
    BY <2>1, OwnSource DEF Sends
  <2>3. sending'[e] = sending[e]
    <3>1. CASE Calls(t) \/ LockSource(t) \/ Link(t) \/ Visit(t) \/ Return(t) \/ LockGlobal(t) \/ LockOwn(t)
               \/ CutSink(t) \/ LockSelf(t) \/ Try(t) \/ CutSource(t)
      <4>1. CASE Calls(t)
        BY <4>1 DEF Calls, CallLink, CallInSlot, CallSend, CallDeleteSource, CallDeleteSink, Enter, sends
      <4>. QED
        BY <3>1, <4>1 DEF LockSource, Link, Visit, Return, LockGlobal, LockOwn, CutSink, LockSelf, Try, CutSource, sends
    <3>2. CASE StartSend(t)
      <4>1. Free(call[t].source) /\ sending' = [sending EXCEPT ![call[t].source] = TRUE]
        BY <3>2 DEF StartSend, Lock
      <4>2. e # call[t].source
        BY <2>2, <4>1 DEF Free
      <4>. QED
        BY <2>2, <4>1, <4>2 DEF Typed
    <3>3. CASE Finish(t) \/ Throw(t)
      <4>1. owner[call[t].source] = t /\ sending' = [sending EXCEPT ![call[t].source] = FALSE]
        BY <3>3, OwnSource DEF Finish, Throw, EndSend
      <4>2. e # call[t].source
        BY <1>1, <2>2, <4>1
      <4>. QED
        BY <2>2, <4>1, <4>2 DEF Typed
    <3>. QED
      BY <3>1, <3>2, <3>3 DEF Step, Proceed
  <2>. QED
    BY <2>1, <2>2, <2>3
<1>2. CASE u = t
  <2> DEFINE e == call[t].source
  <2>1. CASE Link(t)
    <3>1. \/ pc'[t] = "slot" /\ sending[e] /\ call'[t] = [op |-> "send", source |-> e, sink |-> None]
          \/ Gone(t)
      BY <2>1, StepMoves
    <3>2. sending' = sending
      BY <2>1 DEF Link
    <3>. QED
      BY <1>2, <3>1, <3>2 DEF Gone
  <2>2. CASE StartSend(t)
    <3>1. call'[t] = call[t] /\ e \in Source /\ sending' = [sending EXCEPT ![e] = TRUE]
      BY <2>2, StepMoves, StartedEntries DEF At
    <3>. QED
      BY <1>2, <3>1 DEF Typed
  <2>3. CASE Visit(t) \/ Return(t)
    <3>1. pc[t] \in {"send", "slot"} /\ sending' = sending
      BY <2>3 DEF Visit, Return
    <3>2. call'[t] = call[t]
      BY <2>3, StepMoves DEF At
    <3>. QED
      BY <1>2, <3>1, <3>2 DEF Sends
  <2>4. CASE Calls(t)
    <3>1. PICK op, x, s, label : Begun(t, op, x, s, label)
      BY <2>4, CallsBegin
    <3>2. pc'[t] = label
      BY <3>1, BegunIs
    <3>. QED
      BY <1>2, <3>1, <3>2 DEF Begun, DeleteOps
  <2>5. CASE LockSource(t) \/ Finish(t) \/ Throw(t) \/ LockGlobal(t) \/ LockOwn(t) \/ CutSink(t) \/ LockSelf(t)
             \/ Try(t) \/ CutSource(t)
    BY <1>2, <2>5, StepMoves DEF At, Gone
  <2>. QED
    BY <2>1, <2>2, <2>3, <2>4, <2>5 DEF Step, Proceed
<1>. QED
  BY <1>1, <1>2

(* Nobody changes the links of an object another thread has locked.        *)
LEMMA LockedLinks ==
  ASSUME Core, NEW t \in Thread, Step(t), NEW u \in Thread, u # t
  PROVE  /\ \A e \in Source : owner[e] = u => sinks'[e] = sinks[e]
         /\ \A s \in Sink : owner[s] = u => sources'[s] = sources[s]
<1>. USE DEF Core
<1>1. u # None
  OBVIOUS
<1>2. CASE Calls(t) \/ LockSource(t) \/ Return(t) \/ LockGlobal(t) \/ LockOwn(t) \/ LockSelf(t) \/ Try(t)
  <2>1. CASE Calls(t)
    BY <2>1 DEF Calls, CallLink, CallInSlot, CallSend, CallDeleteSource, CallDeleteSink, Enter, links
  <2>. QED
    BY <1>2, <2>1 DEF LockSource, Return, LockGlobal, LockOwn, LockSelf, Try, links
<1>3. CASE Link(t)
  <2> DEFINE e == call[t].source
             s == call[t].sink
  <2>1. e \in Source /\ s \in Sink /\ call[t].op \in LinkOps /\ owner[e] = t /\ owner[s] = None
    BY <1>3, ThreadAt, OwnSource DEF Link, Free
  <2>2. Update(call[t].op, e, s)
    BY <1>3 DEF Link
  <2>3. /\ \A x \in Source \ {e} : sinks'[x] = sinks[x]
        /\ \A x \in Sink \ {s} : sources'[x] = sources[x]
    BY <2>1, <2>2, UpdateElsewhere
  <2>. QED
    BY <1>1, <2>1, <2>3
<1>4. CASE StartSend(t)
  <2>1. /\ \A x \in Source \ {call[t].source} : sinks'[x] = sinks[x]
        /\ sources' = sources /\ owner[call[t].source] = None
    BY <1>4, StartedEntries DEF StartSend, Lock, Free
  <2>. QED
    BY <1>1, <2>1
<1>5. CASE Visit(t) \/ Finish(t) \/ Throw(t)
  <2> DEFINE e == call[t].source
  <2>1. e \in Source /\ owner[e] = t /\ sources' = sources
    BY <1>5, OwnSource DEF Visit, Finish, Throw, EndSend
  <2>2. \A x \in Source \ {e} : sinks'[x] = sinks[x]
    <3>1. CASE Visit(t)
      BY <3>1, VisitedEntries
    <3>2. CASE Finish(t) \/ Throw(t)
      BY <2>1, <3>2, EndedEntries DEF Finish, Throw
    <3>. QED
      BY <1>5, <3>1, <3>2
  <2>. QED
    BY <1>1, <2>1, <2>2
<1>6. CASE CutSink(t) \/ CutSource(t)
  <2>1. PICK e \in Source, s \in Sink : Disconnect(e, s) /\ owner[e] \in {t, None} /\ owner[s] \in {t, None}
    <3>1. CASE CutSink(t)
      BY <3>1, CutsALink, OwnSource DEF CutSink, Free
    <3>2. CASE CutSource(t)
      <4>1. call[t].sink \in Sink /\ Head(sources[call[t].sink]) \in Source /\ pc[t] = "cutSource"
        BY <3>2, CutsALink DEF CutSource
      <4>2. owner[call[t].sink] = t
        BY <4>1 DEF Mutexes, Has, Locks
      <4>. QED
        BY <3>2, <4>1, <4>2 DEF CutSource, Free
    <3>. QED
      BY <1>6, <3>1, <3>2
  <2>2. Update("disconnect", e, s) /\ "disconnect" \in LinkOps
    BY <2>1 DEF Update, LinkOps
  <2>3. /\ \A x \in Source \ {e} : sinks'[x] = sinks[x]
        /\ \A x \in Sink \ {s} : sources'[x] = sources[x]
    BY <2>2, UpdateElsewhere
  <2>. QED
    BY <1>1, <2>1, <2>3
<1>. QED
  BY <1>2, <1>3, <1>4, <1>5, <1>6 DEF Step, Proceed

LEMMA StillLinkedStep ==
  ASSUME Core, NEW t \in Thread, Step(t)
  PROVE  StillLinked'
<1>. USE DEF Core
<1>1. ASSUME NEW u \in Thread, u # t
      PROVE  /\ pc'[u] = "cutSink" => sinks'[call'[u].source] # <<>>
             /\ pc'[u] \in {"try", "cutSource"} => sources'[call'[u].sink] # <<>>
  <2>1. pc'[u] = pc[u] /\ call'[u] = call[u]
    BY <1>1, OthersStay
  <2>2. pc[u] = "cutSink" => call[u].source \in Source /\ owner[call[u].source] = u
    BY OwnSource
  <2>3. pc[u] \in {"try", "cutSource"} => call[u].sink \in Sink /\ owner[call[u].sink] = u
    BY ThreadAt DEF Mutexes, Has, Locks
  <2>. QED
    BY <1>1, <2>1, <2>2, <2>3, LockedLinks DEF StillLinked
<1>2. /\ pc'[t] = "cutSink" => sinks'[call'[t].source] # <<>>
      /\ pc'[t] \in {"try", "cutSource"} => sources'[call'[t].sink] # <<>>
  <2>1. CASE LockOwn(t)
    <3>1. sinks[call[t].source] # <<>> \/ Leave(t)
      BY <2>1 DEF LockOwn
    <3>2. sinks' = sinks /\ (Gone(t) \/ At(t, "cutSink"))
      BY <2>1, StepMoves DEF LockOwn, links
    <3>3. Leave(t) => pc'[t] = "idle"
      BY DEF Leave, Goto, Typed
    <3>. QED
      BY <3>1, <3>2, <3>3 DEF Gone, At
  <2>2. CASE LockSelf(t)
    <3>1. sources[call[t].sink] # <<>> \/ Leave(t)
      BY <2>2 DEF LockSelf
    <3>2. sources' = sources /\ (Gone(t) \/ At(t, "try"))
      BY <2>2, StepMoves DEF LockSelf, links
    <3>3. Leave(t) => pc'[t] = "idle"
      BY DEF Leave, Goto, Typed
    <3>. QED
      BY <3>1, <3>2, <3>3 DEF Gone, At
  <2>3. CASE Try(t)
    <3>1. pc[t] = "try" /\ sources' = sources /\ call'[t] = call[t] /\ pc'[t] # "cutSink"
      BY <2>3, StepMoves DEF Try, links, At
    <3>. QED
      BY <3>1 DEF StillLinked
  <2>4. CASE Calls(t)
    <3>1. PICK op, x, s, label : Begun(t, op, x, s, label)
      BY <2>4, CallsBegin
    <3>2. pc'[t] = label
      BY <3>1, BegunIs
    <3>. QED
      BY <3>1, <3>2 DEF Begun, DeleteOps
  <2>5. CASE LockSource(t) \/ Link(t) \/ StartSend(t) \/ Visit(t) \/ Return(t) \/ Finish(t) \/ Throw(t)
             \/ LockGlobal(t) \/ CutSink(t) \/ CutSource(t)
    BY <2>5, StepMoves DEF At, Gone
  <2>. QED
    BY <2>1, <2>2, <2>3, <2>4, <2>5 DEF Step, Proceed
<1>3. StillLinked' <=>
        \A u \in Thread : /\ pc'[u] = "cutSink" => sinks'[call'[u].source] # <<>>
                          /\ pc'[u] \in {"try", "cutSource"} => sources'[call'[u].sink] # <<>>
  BY DEF StillLinked
<1>. QED
  BY <1>1, <1>2, <1>3

LEMMA CoreInit ==
  ASSUME Init
  PROVE  Core
<1>. USE DEF Init
<1>1. Typed
  BY DEF Typed, NoCall
<1>2. \A t \in Thread : pc[t] = "idle" /\ call[t] = NoCall
  OBVIOUS
<1>3. Places
  BY <1>2 DEF Places, CallOf, NoCall, LinkOps
<1>4. Mutexes
  BY <1>2 DEF Mutexes, Has
<1>5. NamedLive /\ DeletedAlone /\ LinkedAlone
  BY <1>2 DEF NamedLive, DeletedAlone, LinkedAlone, Names
<1>6. Sends /\ InOrder
  BY <1>2 DEF Sends, InOrder
<1>7. EmptiedLater
  <2>1. Count(<<>>, EntriesFor(None, Types)) = 0
    BY CountEmpty
  <2>. QED
    BY <2>1 DEF EmptiedLater
<1>8. StillLinked
  BY <1>2 DEF StillLinked
<1>. QED
  BY <1>1, <1>3, <1>4, <1>5, <1>6, <1>7, <1>8 DEF Core

LEMMA CoreStep ==
  ASSUME Core, [Next]_vars
  PROVE  Core'
<1>1. ASSUME NEW t \in Thread, Step(t)
      PROVE  Core'
  <2>1. Typed' /\ Places' /\ Mutexes' /\ NamedLive' /\ DeletedAlone' /\ LinkedAlone' /\ StillLinked'
    BY <1>1, TypedStep, PlacesStep, MutexesStep, RulesStep, StillLinkedStep
  <2>2. \A e \in Source : SourceOk(e)'
    BY <1>1, SourceStep
  <2>3. \A u \in Thread : pc'[u] \in {"send", "slot"} => sending'[call'[u].source]
    BY <1>1, SendersStep
  <2>4. Sends'
    BY <2>2, <2>3 DEF Sends, SourceOk
  <2>5. EmptiedLater' /\ InOrder'
    BY <2>2 DEF EmptiedLater, InOrder, SourceOk
  <2>. QED
    BY <2>1, <2>4, <2>5 DEF Core
<1>2. CASE UNCHANGED vars
  <2>. USE <1>2 DEF vars, links, sends
  <2>1. Typed'
    BY DEF Core, Typed
  <2>2. Places' /\ Mutexes' /\ NamedLive' /\ DeletedAlone' /\ LinkedAlone' /\ StillLinked'
    BY DEF Core, Places, CallOf, Mutexes, Has, NamedLive, DeletedAlone, LinkedAlone, StillLinked, Names
  <2>3. Sends' /\ EmptiedLater' /\ InOrder'
    BY DEF Core, Sends, Sender, EmptiedLater, InOrder, Served
  <2>. QED
    BY <2>1, <2>2, <2>3 DEF Core
<1>. QED
  BY <1>1, <1>2, NextIsStep

LEMMA CoreHolds == Spec => []Core
<1>1. Init => Core
  BY CoreInit
<1>2. Core /\ [Next]_vars => Core'
  BY CoreStep
<1>. QED
  BY <1>1, <1>2, PTL DEF Spec

(* Every variable keeps its type, the iterator of a send among them: it    *)
(* stays within the map or just behind it, whatever receivers change.      *)
THEOREM TypeCorrect == Spec => []TypeOK
<1>1. Core => TypeOK
  <2>1. ASSUME Core, NEW e \in Source PROVE it[e] <= Len(sinks[e]) + 1
    <3>1. it[e] \in Nat /\ Len(sinks[e]) \in Nat
      BY <2>1 DEF Core, Typed
    <3>2. SourceOk(e)
      BY <2>1, SourcesOk
    <3>3. CASE sending[e] /\ pc[owner[e]] = "send"
      BY <3>1, <3>2, <3>3 DEF SourceOk
    <3>4. CASE sending[e] /\ pc[owner[e]] # "send"
      <4>1. it[e] <= Len(sinks[e]) + 0
        BY <3>2, <3>4 DEF SourceOk
      <4>. QED
        BY <3>1, <4>1
    <3>5. CASE ~sending[e]
      <4>1. it[e] = 0
        BY <3>2, <3>5 DEF SourceOk
      <4>. QED
        BY <3>1, <4>1
    <3>. QED
      BY <3>3, <3>4, <3>5
  <2>. QED
    BY <2>1 DEF Core, Typed, TypeOK
<1>. QED
  BY <1>1, CoreHolds, PTL

(* A send passes no entry over and serves none twice, though a receiver    *)
(* adds entries before and behind the iterator and empties others.         *)
THEOREM SendsReachAll == Spec => SendReachesAll
<1> DEFINE Reaches(t) ==
      LET e == call[t].source IN
        /\ pc[t] = "send" /\ pc'[t] = "idle" =>
             \A i \in DOMAIN sinks[e] : sinks[e][i].sink # None => sinks[e][i].mark # "due"
        /\ pc[t] = "send" /\ pc'[t] = "slot" => sinks[e][it[e]].mark # "sent"
<1>1. ASSUME Core, [Next]_vars PROVE \A t \in Thread : Reaches(t)
  <2>1. ASSUME NEW t \in Thread, pc[t] = "send", pc'[t] # "send"
        PROVE  Reaches(t)
    <3> DEFINE e == call[t].source
    <3>1. /\ e \in Source /\ owner[e] = t /\ sending[e]
          /\ sinks[e] \in Seq(Entry) /\ Len(sinks[e]) \in Nat /\ DOMAIN sinks[e] = 1..Len(sinks[e])
          /\ it[e] \in Nat
      BY <1>1, <2>1, OwnSource DEF Core, Sends, Typed
    <3>2. \A i \in 1..Len(sinks[e]) :
            /\ i <= it[e] - 1 /\ sinks[e][i].sink # None => sinks[e][i].mark # "due"
            /\ i > it[e] - 1 => sinks[e][i].mark # "sent"
      BY <1>1, <2>1, <3>1, SourcesOk DEF SourceOk, Served
    <3>3. Visit(t) \/ Finish(t)
      <4>1. PICK u \in Thread : Step(u)
        BY <1>1, <2>1, NextIsStep DEF vars
      <4>2. u = t
        BY <1>1, <2>1, <4>1, OthersStay DEF Core
      <4>. QED
        BY <2>1, <4>1, <4>2 DEF Step, Calls, CallLink, CallInSlot, CallSend, CallDeleteSource, CallDeleteSink,
             Proceed, Throw, LockSource, Link, StartSend, Return, LockGlobal, LockOwn, CutSink, LockSelf, Try, CutSource
    <3>4. CASE Visit(t)
      <4>1. it[e] \in 1..Len(sinks[e]) /\ pc'[t] = "slot"
        BY <1>1, <2>1, <3>4, StepMoves, VisitedEntries DEF Core, At
      <4>2. it[e] > it[e] - 1
        BY <3>1
      <4>. QED
        BY <3>2, <4>1, <4>2
    <3>5. CASE Finish(t)
      <4>1. it[e] > Len(sinks[e]) /\ pc'[t] = "idle"
        BY <1>1, <3>5, StepMoves DEF Core, Gone, Finish
      <4>2. \A i \in 1..Len(sinks[e]) : i <= it[e] - 1
        BY <3>1, <4>1
      <4>. QED
        BY <3>1, <3>2, <4>1, <4>2
    <3>. QED
      BY <3>3, <3>4, <3>5
  <2>2. ASSUME NEW t \in Thread, ~(pc[t] = "send" /\ pc'[t] # "send")
        PROVE  Reaches(t)
    BY <2>2
  <2>. QED
    BY <2>1, <2>2
<1>2. (\A t \in Thread : Reaches(t)) =>
        [\A t \in Thread : LET e == call[t].source IN
           /\ pc[t] = "send" /\ pc'[t] = "idle" =>
                \A i \in DOMAIN sinks[e] : sinks[e][i].sink # None => sinks[e][i].mark # "due"
           /\ pc[t] = "send" /\ pc'[t] = "slot" => sinks[e][it[e]].mark # "sent"]_vars
  OBVIOUS
<1>. HIDE DEF Reaches
<1>. QED
  BY <1>1, <1>2, CoreHolds, PTL DEF Spec, SendReachesAll

(* A thread that has a mutex and waits for another one is a destructor     *)
(* that cuts a link, and whom it waits for waits for nobody's mutex that   *)
(* is taken.                                                               *)
LEMMA HoldsAndWaits ==
  ASSUME Core, NEW t \in Thread, NEW u \in Thread, NEW l \in Locks, Awaits(t, l), owner[l] = u,
         pc[t] \in {"lockSink", "lockOwn", "cutSink", "cutSource"}
  PROVE  /\ pc[t] \in {"cutSink", "cutSource"}
         /\ pc[u] \in {"lockSink", "try", "send", "slot"}
<1>. USE DEF Core
<1>1. Has(u, l) /\ Source \cap Sink = {} /\ Dmx \notin Source \cup Sink
  BY DEF Mutexes
<1>2. /\ l \in Source =>
           /\ l = call[u].source /\ pc[u] \in {"lockSink", "send", "slot", "cutSink"}
      /\ l \in Sink =>
           /\ l = call[u].sink /\ pc[u] \in {"try", "cutSource"} /\ call[u].op = "deleteSink"
  BY <1>1, ThreadAt DEF Has
<1>3. pc[u] \in {"cutSink", "cutSource"} => owner[Dmx] = u
  BY DEF Mutexes, Has, Locks
<1>4. CASE pc[t] = "lockSink"
  <2>1. l \in Sink /\ l = call[t].sink
    BY <1>4, ThreadAt DEF Awaits
  <2>2. u # t /\ Names(t, l) /\ Names(u, l) /\ call[u].op \in DeleteOps
    BY <1>2, <1>4, <2>1 DEF Names, DeleteOps
  <2>. QED
    BY <2>1, <2>2 DEF DeletedAlone
<1>5. CASE pc[t] = "lockOwn"
  <2>1. l \in Source /\ l = call[t].source /\ call[t].op \in DeleteOps
    BY <1>5, ThreadAt DEF Awaits, DeleteOps
  <2>2. u # t /\ Names(t, l) /\ Names(u, l)
    BY <1>2, <1>5, <2>1 DEF Names
  <2>. QED
    BY <2>1, <2>2 DEF DeletedAlone
<1>6. CASE pc[t] = "cutSink"
  <2>1. l \in Sink
    BY <1>6, CutsALink DEF Awaits
  <2>2. owner[Dmx] = t
    BY <1>6 DEF Mutexes, Has, Locks
  <2>. QED
    BY <1>2, <1>3, <1>6, <2>1, <2>2
<1>7. CASE pc[t] = "cutSource"
  <2>1. l \in Source
    BY <1>7, CutsALink DEF Awaits
  <2>2. owner[Dmx] = t
    BY <1>7 DEF Mutexes, Has, Locks
  <2>. QED
    BY <1>2, <1>3, <1>7, <2>1, <2>2
<1>. QED
  BY <1>4, <1>5, <1>6, <1>7

(* However many threads connect, send and destroy, nobody waits in a       *)
(* circle: a thread that is waited for waits itself only while it destroys *)
(* a source or a sink, and then for one that goes on.                      *)
THEOREM NobodyWaitsInACircle == Spec => []NoCircularWait
<1>1. ASSUME Core, NEW t \in Thread, NEW u \in Thread, NEW v \in Thread, NEW w \in Thread,
             WaitsFor(t, u), WaitsFor(u, v), WaitsFor(v, w)
      PROVE  FALSE
  <2>1. PICK l \in Locks, m \in Locks, n \in Locks :
          /\ Awaits(t, l) /\ owner[l] = u
          /\ Awaits(u, m) /\ owner[m] = v
          /\ Awaits(v, n) /\ owner[n] = w
    BY <1>1 DEF WaitsFor
  <2>2. Has(u, l)
    BY <1>1, <2>1 DEF Core, Mutexes
  <2>3. pc[u] \in {"lockSink", "lockOwn", "cutSink", "cutSource"}
    BY <2>1, <2>2 DEF Has, Awaits
  <2>4. pc[v] \in {"lockSink", "try", "send", "slot"}
    BY <1>1, <2>1, <2>3, HoldsAndWaits
  <2>5. pc[v] = "lockSink"
    BY <2>1, <2>4 DEF Awaits
  <2>6. pc[v] \in {"cutSink", "cutSource"}
    BY <1>1, <2>1, <2>5, HoldsAndWaits
  <2>. QED
    BY <2>5, <2>6
<1>2. Core => NoCircularWait
  BY <1>1 DEF NoCircularWait
<1>. QED
  BY <1>2, CoreHolds, PTL

-----------------------------------------------------------------------------
(* The two sides of a link.                                                *)

(* What Take leaves, counted.                                              *)
LEMMA EmptiedCounts ==
  ASSUME NEW entries \in Seq(Entry), NEW s \in Sink, NEW types, NEW x \in Sink, NEW T
  PROVE  Count(Emptied(entries, EntriesFor(s, types)), EntriesFor(x, T))
           = Count(entries, EntriesFor(x, T) \ EntriesFor(s, types))
<1> DEFINE X == EntriesFor(s, types)
           new == Emptied(entries, X)
<1>1. /\ new \in Seq(Entry)
      /\ Len(new) = Len(entries)
      /\ \A i \in 1..Len(entries) :
           /\ new[i].type = entries[i].type
           /\ new[i].sink = IF entries[i] \in X THEN None ELSE entries[i].sink
  BY EmptiedEntries
<1>2. \A i \in 1..Len(entries) : entries[i] \in Entry /\ new[i] \in Entry
  BY <1>1
<1>. HIDE DEF X, new
<1>3. ASSUME NEW i \in 1..Len(entries)
      PROVE  entries[i] \in EntriesFor(x, T) \ X <=> new[i] \in EntriesFor(x, T)
  <2>1. new[i] \in EntriesFor(x, T) <=> new[i].sink = x /\ new[i].type \in T
    BY <1>2, EntryFor
  <2>2. entries[i] \in EntriesFor(x, T) <=> entries[i].sink = x /\ entries[i].type \in T
    BY <1>2, EntryFor
  <2>3. x # None
    OBVIOUS
  <2>. QED
    BY <1>1, <2>1, <2>2, <2>3
<1>4. Count(new, EntriesFor(x, T)) = Count(entries, EntriesFor(x, T) \ X)
  BY <1>1, <1>3, CountSame
<1>. QED
  BY <1>4 DEF new, X

LEMMA TakenCounts ==
  ASSUME Typed, NEW e \in Source, NEW s \in Sink, NEW types \in SUBSET Types, Take(e, s, types),
         NEW x \in Sink, NEW T
  PROVE  Count(sinks'[e], EntriesFor(x, T)) = Count(sinks[e], Only(EntriesFor(x, T), EntriesFor(s, types)))
<1>1. sinks[e] \in Seq(Entry)
  BY DEF Typed
<1>2. \/ sinks'[e] = Emptied(sinks[e], EntriesFor(s, types))
      \/ sinks'[e] = Without(sinks[e], EntriesFor(s, types))
  BY TakenEntries
<1>3. CASE sinks'[e] = Emptied(sinks[e], EntriesFor(s, types))
  BY <1>1, <1>3, EmptiedCounts DEF Only
<1>4. CASE sinks'[e] = Without(sinks[e], EntriesFor(s, types))
  BY <1>1, <1>4, WithoutCounts DEF Only
<1>. QED
  BY <1>2, <1>3, <1>4

LEMMA MarkedCounts ==
  ASSUME NEW entries \in Seq(Entry), NEW mark \in Marks, NEW s, NEW types
  PROVE  Count(Marked(entries, mark), EntriesFor(s, types)) = Count(entries, EntriesFor(s, types))
<1> DEFINE new == Marked(entries, mark)
<1>1. /\ new \in Seq(Entry)
      /\ Len(new) = Len(entries)
      /\ \A i \in 1..Len(entries) : new[i].sink = entries[i].sink /\ new[i].type = entries[i].type
  BY MarkedEntries
<1>2. \A i \in 1..Len(entries) : entries[i] \in Entry /\ new[i] \in Entry
  BY <1>1
<1>. HIDE DEF new
<1>3. \A i \in 1..Len(entries) : entries[i] \in EntriesFor(s, types) <=> new[i] \in EntriesFor(s, types)
  BY <1>1, <1>2, EntryFor
<1>4. Count(new, EntriesFor(s, types)) = Count(entries, EntriesFor(s, types))
  BY <1>1, <1>3, CountSame
<1>. QED
  BY <1>4 DEF new

(* A step that leaves the links of e and s as they are.                    *)
Kept(e, s) ==
  /\ \A types \in SUBSET Types : Count(sinks'[e], EntriesFor(s, types)) = Count(sinks[e], EntriesFor(s, types))
  /\ Count(sources'[s], {e}) = Count(sources[s], {e})

Agree(e, s) == Count(sources[s], {e}) = Count(sinks[e], EntriesFor(s, Types))

LEMMA AddCounts ==
  ASSUME Typed, NEW e \in Source, NEW s \in Sink, NEW type \in Types, Add(e, s, type)
  PROVE  /\ \A x \in Source, y \in Sink : ~(x = e /\ y = s) => Kept(x, y)
         /\ Count(sources'[s], {e}) = Count(sources[s], {e}) + 1
         /\ Count(sinks'[e], EntriesFor(s, Types)) = Count(sinks[e], EntriesFor(s, Types)) + 1
<1> DEFINE new == [type |-> type, sink |-> s, mark |-> "new"]
<1>1. sinks[e] \in Seq(Entry) /\ sources[s] \in Seq(Source)
  BY DEF Typed
<1>2. new \in Entry /\ new.sink = s /\ new.type = type
  BY DEF Entry, Marks
<1>3. /\ \A x \in Source \ {e} : sinks'[x] = sinks[x]
      /\ sinks'[e] = InsertAt(sinks[e], Place(e, type), new)
      /\ \A x \in Sink \ {s} : sources'[x] = sources[x]
      /\ sources'[s] = Append(sources[s], e)
  BY AddedEntries
<1>4. \A X : Count(sources'[s], X) = Count(sources[s], X) + (IF e \in X THEN 1 ELSE 0)
  BY <1>1, <1>3, CountAppend
<1>. HIDE DEF new
<1>5. \A X : Count(sinks'[e], X) = Count(sinks[e], X) + (IF new \in X THEN 1 ELSE 0)
  <2>1. Place(e, type) \in 1..(Len(sinks[e]) + 1)
    BY PlaceIsIn
  <2>. QED
    BY <1>1, <1>2, <1>3, <2>1, InsertAtCounts
<1>6. \A X : Count(sources[s], X) \in Nat /\ Count(sinks[e], X) \in Nat
  BY <1>1, CountType
<1>7. ASSUME NEW x \in Source, NEW y \in Sink, ~(x = e /\ y = s) PROVE Kept(x, y)
  <2>1. ASSUME NEW types \in SUBSET Types
        PROVE  Count(sinks'[x], EntriesFor(y, types)) = Count(sinks[x], EntriesFor(y, types))
    <3>1. CASE x # e
      BY <1>3, <3>1
    <3>2. CASE x = e
      <4>1. new \notin EntriesFor(y, types)
        BY <1>2, <1>7, <3>2, EntryFor
      <4>2. Count(sinks'[e], EntriesFor(y, types)) = Count(sinks[e], EntriesFor(y, types)) + 0
        BY <1>5, <4>1
      <4>. QED
        BY <1>6, <3>2, <4>2
    <3>. QED
      BY <3>1, <3>2
  <2>2. Count(sources'[y], {x}) = Count(sources[y], {x})
    <3>1. CASE y # s
      BY <1>3, <3>1
    <3>2. CASE y = s
      <4>1. Count(sources'[s], {x}) = Count(sources[s], {x}) + 0
        BY <1>4, <1>7, <3>2
      <4>. QED
        BY <1>6, <3>2, <4>1
    <3>. QED
      BY <3>1, <3>2
  <2>. QED
    BY <2>1, <2>2 DEF Kept
<1>8. new \in EntriesFor(s, Types)
  BY <1>2, EntryFor
<1>. QED
  BY <1>4, <1>5, <1>7, <1>8

LEMMA TakeElsewhere ==
  ASSUME Typed, NEW e \in Source, NEW s \in Sink, NEW types \in SUBSET Types, Take(e, s, types),
         NEW new, sources' = [sources EXCEPT ![s] = new],
         \A X : e \notin X => Count(new, X) = Count(sources[s], X)
  PROVE  \A x \in Source, y \in Sink : ~(x = e /\ y = s) => Kept(x, y)
<1>1. ASSUME NEW x \in Source, NEW y \in Sink, ~(x = e /\ y = s) PROVE Kept(x, y)
  <2>1. ASSUME NEW T \in SUBSET Types
        PROVE  Count(sinks'[x], EntriesFor(y, T)) = Count(sinks[x], EntriesFor(y, T))
    <3>1. CASE x # e
      BY <3>1, TakenEntries
    <3>2. CASE x = e
      <4>1. Only(EntriesFor(y, T), EntriesFor(s, types)) = EntriesFor(y, T)
        BY <1>1, <3>2 DEF EntriesFor, Only
      <4>2. Count(sinks'[e], EntriesFor(y, T)) = Count(sinks[e], EntriesFor(y, T))
        BY <4>1, TakenCounts
      <4>. QED
        BY <3>2, <4>2
    <3>. QED
      BY <3>1, <3>2
  <2>2. Count(sources'[y], {x}) = Count(sources[y], {x})
    <3>1. CASE y # s
      BY <3>1 DEF Typed
    <3>2. CASE y = s
      <4>1. sources'[s] = new /\ e \notin {x}
        BY <1>1, <3>2 DEF Typed
      <4>. QED
        BY <3>2, <4>1
    <3>. QED
      BY <3>1, <3>2
  <2>. QED
    BY <2>1, <2>2 DEF Kept
<1>. QED
  BY <1>1

LEMMA DisconnectCounts ==
  ASSUME Typed, NEW e \in Source, NEW s \in Sink, Disconnect(e, s)
  PROVE  /\ \A x \in Source, y \in Sink : ~(x = e /\ y = s) => Kept(x, y)
         /\ Count(sources'[s], {e}) = 0
         /\ Count(sinks'[e], EntriesFor(s, Types)) = 0
<1> DEFINE new == Without(sources[s], {e})
<1>1. Take(e, s, Types) /\ sources' = [sources EXCEPT ![s] = new] /\ Types \in SUBSET Types
  BY DEF Disconnect
<1>2. sinks[e] \in Seq(Entry) /\ sources[s] \in Seq(Source)
  BY DEF Typed
<1>3. \A X : Count(new, X) = Count(sources[s], X \ {e})
  BY <1>2, WithoutCounts
<1>. HIDE DEF new
<1>4. \A X : e \notin X => Count(new, X) = Count(sources[s], X)
  <2>1. \A X : e \notin X => X \ {e} = X
    OBVIOUS
  <2>. QED
    BY <1>3, <2>1
<1>5. \A x \in Source, y \in Sink : ~(x = e /\ y = s) => Kept(x, y)
  BY <1>1, <1>4, TakeElsewhere
<1>6. Count(sources'[s], {e}) = 0
  <2>1. sources'[s] = new /\ {e} \ {e} = {}
    BY <1>1 DEF Typed
  <2>2. Count(sources[s], {}) = 0
    BY <1>2, CountType
  <2>. QED
    BY <1>3, <2>1, <2>2
<1>7. Count(sinks'[e], EntriesFor(s, Types)) = 0
  <2>1. Only(EntriesFor(s, Types), EntriesFor(s, Types)) = {}
    BY DEF Only
  <2>2. Count(sinks'[e], EntriesFor(s, Types)) = Count(sinks[e], {})
    BY <1>1, <2>1, TakenCounts
  <2>3. Count(sinks[e], {}) = 0
    BY <1>2, CountType
  <2>. QED
    BY <2>2, <2>3
<1>. QED
  BY <1>5, <1>6, <1>7

LEMMA UnsubscribeCounts ==
  ASSUME Typed, NEW e \in Source, NEW s \in Sink, Unsubscribe(e, s), Agree(e, s), Subscriptions(e, s) = 1
  PROVE  /\ \A x \in Source, y \in Sink : ~(x = e /\ y = s) => Kept(x, y)
         /\ Agree(e, s)'
<1> DEFINE new == RemoveFirst(sources[s], e)
           all == EntriesFor(s, Types)
           one == EntriesFor(s, {"typed"})
<1>1. Take(e, s, {"typed"}) /\ sources' = [sources EXCEPT ![s] = new] /\ {"typed"} \in SUBSET Types
  BY DEF Unsubscribe, Types
<1>2. sinks[e] \in Seq(Entry) /\ sources[s] \in Seq(Source)
  BY DEF Typed
<1>3. \A X : Count(new, X) = Count(sources[s], X) - (IF e \in X /\ Count(sources[s], {e}) > 0 THEN 1 ELSE 0)
  BY <1>2, RemoveFirstCounts
<1>4. \A X : Count(sources[s], X) \in Nat /\ Count(sinks[e], X) \in Nat
  BY <1>2, CountType
<1>. HIDE DEF new
<1>5. \A X : e \notin X => Count(new, X) = Count(sources[s], X)
  BY <1>3, <1>4
<1>6. \A x \in Source, y \in Sink : ~(x = e /\ y = s) => Kept(x, y)
  BY <1>1, <1>5, TakeElsewhere
<1>7. Count(sinks[e], all) = Count(sinks[e], one) + Count(sinks[e], Only(all, one))
  <2>1. Both(all, one) = one
    <3>1. ASSUME NEW x \in one PROVE x \in all
      BY DEF EntriesFor, Types
    <3>. HIDE DEF all, one
    <3>. QED
      BY <3>1 DEF Both
  <2>. HIDE DEF all, one
  <2>2. Count(sinks[e], all) = Count(sinks[e], Both(all, one)) + Count(sinks[e], Only(all, one))
    BY <1>2, CountSplit
  <2>. QED
    BY <2>1, <2>2
<1>8. Count(sinks[e], one) = 1
  BY DEF Subscriptions
<1>9. Count(sinks'[e], all) = Count(sinks[e], Only(all, one))
  BY <1>1, TakenCounts
<1>10. sources'[s] = new
  BY <1>1 DEF Typed
<1>11. Count(sources[s], {e}) = Count(sinks[e], all)
  BY DEF Agree
<1>. HIDE DEF all, one
<1>12. Count(sources[s], {e}) > 0
  BY <1>4, <1>7, <1>8, <1>11
<1>13. Count(new, {e}) = Count(sources[s], {e}) - 1
  BY <1>3, <1>12
<1>14. Count(new, {e}) = Count(sinks[e], Only(all, one))
  BY <1>4, <1>7, <1>8, <1>11, <1>13
<1>15. Agree(e, s)'
  BY <1>9, <1>10, <1>14 DEF Agree, all
<1>. QED
  BY <1>6, <1>15

(* A change of one link leaves the others alone, and both sides of it      *)
(* agree again.                                                            *)
LEMMA UpdateAgrees ==
  ASSUME Typed, NEW e \in Source, NEW s \in Sink, NEW op \in LinkOps, Update(op, e, s), Agree(e, s),
         op = "unsubscribe" => Subscriptions(e, s) = 1
  PROVE  /\ \A x \in Source, y \in Sink : ~(x = e /\ y = s) => Kept(x, y)
         /\ Agree(e, s)'
<1>1. CASE \E type \in Types : Add(e, s, type)
  <2>1. PICK type \in Types : Add(e, s, type)
    BY <1>1
  <2>2. /\ \A x \in Source, y \in Sink : ~(x = e /\ y = s) => Kept(x, y)
        /\ Count(sources'[s], {e}) = Count(sources[s], {e}) + 1
        /\ Count(sinks'[e], EntriesFor(s, Types)) = Count(sinks[e], EntriesFor(s, Types)) + 1
    BY <2>1, AddCounts
  <2>. QED
    BY <2>2 DEF Agree
<1>2. CASE Disconnect(e, s)
  BY <1>2, DisconnectCounts DEF Agree
<1>3. CASE op = "unsubscribe" /\ Unsubscribe(e, s)
  BY <1>3, UnsubscribeCounts
<1>. QED
  BY <1>1, <1>2, <1>3 DEF Update, Types

(* What a step of a thread does to a link: it changes it under one of the  *)
(* four operations, which the thread was called for or which cuts it in    *)
(* the destructor of one of the sides, or leaves it.                       *)
Changes(t, e, s) ==
  \E op \in LinkOps :
    /\ Update(op, e, s)
    /\ \/ Link(t) /\ op = call[t].op /\ e = call[t].source /\ s = call[t].sink
       \/ op = "disconnect" /\ call[t].op \in DeleteOps /\ (Names(t, e) \/ Names(t, s))

LEMMA StepLinks ==
  ASSUME Core, NEW t \in Thread, Step(t), NEW e \in Source, NEW s \in Sink,
         \A x \in Source, y \in Sink : Agree(x, y),
         call[t].op = "unsubscribe" => Subscriptions(call[t].source, call[t].sink) = 1
  PROVE  (Changes(t, e, s) \/ Kept(e, s)) /\ Agree(e, s)'
<1>. USE DEF Core
<1>1. ASSUME sinks'[e] = sinks[e], sources'[s] = sources[s] PROVE Kept(e, s)
  BY <1>1 DEF Kept
<1>2. Types \in SUBSET Types
  OBVIOUS
<1>3. ASSUME Kept(e, s) PROVE Agree(e, s)'
  BY <1>2, <1>3 DEF Kept, Agree
<1>4. ASSUME NEW op \in LinkOps, NEW x \in Source, NEW y \in Sink, Update(op, x, y),
             op = "unsubscribe" => Subscriptions(x, y) = 1,
             x = e /\ y = s => Changes(t, e, s)
      PROVE  (Changes(t, e, s) \/ Kept(e, s)) /\ Agree(e, s)'
  <2>1. /\ ~(e = x /\ s = y) => Kept(e, s)
        /\ Agree(x, y)'
    BY <1>4, UpdateAgrees
  <2>. QED
    BY <1>3, <1>4, <2>1
<1>5. CASE Calls(t) \/ LockSource(t) \/ Return(t) \/ LockGlobal(t) \/ LockOwn(t) \/ LockSelf(t) \/ Try(t)
  <2>1. Calls(t) => links' = links
    BY DEF Calls, CallLink, CallInSlot, CallSend, CallDeleteSource, CallDeleteSink, Enter
  <2>2. links' = links
    BY <1>5, <2>1 DEF LockSource, Return, LockGlobal, LockOwn, LockSelf, Try
  <2>. QED
    BY <1>1, <1>3, <2>2 DEF links
<1>6. CASE Link(t)
  <2>1. /\ call[t].source \in Source /\ call[t].sink \in Sink /\ call[t].op \in LinkOps
        /\ Update(call[t].op, call[t].source, call[t].sink)
    BY <1>6, ThreadAt DEF Link
  <2>2. call[t].source = e /\ call[t].sink = s => Changes(t, e, s)
    BY <1>6, <2>1 DEF Changes
  <2>. QED
    BY <1>4, <2>1, <2>2
<1>7. CASE StartSend(t)
  <2>1. /\ call[t].source \in Source /\ sources' = sources
        /\ \A x \in Source \ {call[t].source} : sinks'[x] = sinks[x]
        /\ sinks'[call[t].source] = Marked(sinks[call[t].source], "due")
    BY <1>7, StartedEntries DEF StartSend
  <2>2. CASE e # call[t].source
    BY <1>1, <1>3, <2>1, <2>2
  <2>3. CASE e = call[t].source
    <3>1. sinks[e] \in Seq(Entry)
      BY DEF Typed
    <3>2. \A types : Count(sinks'[e], EntriesFor(s, types)) = Count(sinks[e], EntriesFor(s, types))
      BY <2>1, <2>3, <3>1, MarkedCounts DEF Marks
    <3>. QED
      BY <1>3, <2>1, <3>2 DEF Kept
  <2>. QED
    BY <2>2, <2>3
<1>8. CASE Visit(t)
  <2> DEFINE x == call[t].source
  <2>1. /\ x \in Source /\ sources' = sources
        /\ sinks' \in [Source -> Seq(Entry)]
        /\ \A y \in Source \ {x} : sinks'[y] = sinks[y]
        /\ Len(sinks'[x]) = Len(sinks[x])
        /\ \A i \in 1..Len(sinks[x]) : sinks'[x][i].sink = sinks[x][i].sink /\ sinks'[x][i].type = sinks[x][i].type
    BY <1>8, VisitedEntries DEF Visit
  <2>2. CASE e # x
    BY <1>1, <1>3, <2>1, <2>2
  <2>3. CASE e = x
    <3> DEFINE old == sinks[e]
               new == sinks'[e]
    <3>1. old \in Seq(Entry) /\ new \in Seq(Entry)
      BY <2>1 DEF Typed
    <3>2. /\ Len(new) = Len(old)
          /\ \A i \in 1..Len(old) : new[i].sink = old[i].sink /\ new[i].type = old[i].type
      BY <2>1, <2>3
    <3>. HIDE DEF old, new
    <3>3. \A i \in 1..Len(old) : old[i] \in Entry /\ new[i] \in Entry
      BY <3>1, <3>2
    <3>4. ASSUME NEW types PROVE Count(new, EntriesFor(s, types)) = Count(old, EntriesFor(s, types))
      <4>1. \A i \in 1..Len(old) : old[i] \in EntriesFor(s, types) <=> new[i] \in EntriesFor(s, types)
        BY <3>2, <3>3, EntryFor
      <4>. QED
        BY <3>1, <3>2, <4>1, CountSame
    <3>5. sources' = sources
      BY <2>1
    <3>6. Kept(e, s)
      BY <3>4, <3>5, Zenon DEF Kept, old, new
    <3>. QED
      BY <1>3, <3>6, Zenon
  <2>. QED
    BY <2>2, <2>3, Zenon
<1>9. CASE Finish(t) \/ Throw(t)
  <2> DEFINE x == call[t].source
             N == EntriesFor(None, Types)
             left == IF dirty[x] THEN Without(sinks[x], N) ELSE sinks[x]
  <2>1. x \in Source /\ EndSend(t, x)
    BY <1>9, ThreadAt DEF Finish, Throw
  <2>2. /\ \A y \in Source \ {x} : sinks'[y] = sinks[y]
        /\ sinks'[x] = Marked(left, "new")
        /\ sources' = sources
    BY <2>1, EndedEntries DEF EndSend
  <2>3. CASE e # x
    BY <1>1, <1>3, <2>2, <2>3
  <2>4. CASE e = x
    <3>1. sinks[e] \in Seq(Entry) /\ Without(sinks[e], N) \in Seq(Entry)
      <4>1. sinks[e] \in Seq(Entry)
        BY DEF Typed
      <4>. QED
        BY <4>1, WithoutCounts
    <3>2. left \in Seq(Entry) /\ (left = sinks[e] \/ left = Without(sinks[e], N))
      BY <2>4, <3>1
    <3>3. sinks'[e] = Marked(left, "new")
      BY <2>2, <2>4
    <3>. HIDE DEF left
    <3>4. ASSUME NEW types PROVE Count(sinks'[e], EntriesFor(s, types)) = Count(sinks[e], EntriesFor(s, types))
      <4>1. Count(sinks'[e], EntriesFor(s, types)) = Count(left, EntriesFor(s, types))
        BY <3>2, <3>3, MarkedCounts DEF Marks
      <4>2. EntriesFor(s, types) \ N = EntriesFor(s, types)
        BY DEF EntriesFor
      <4>3. Count(Without(sinks[e], N), EntriesFor(s, types)) = Count(sinks[e], EntriesFor(s, types))
        <5> DEFINE Y == EntriesFor(s, types)
        <5>1. Y \ N = Y
          BY <4>2
        <5>. HIDE DEF Y, N
        <5>2. Count(Without(sinks[e], N), Y) = Count(sinks[e], Y)
          BY <3>1, <5>1, WithoutCounts
        <5>. QED
          BY <5>2 DEF Y
      <4>. QED
        BY <3>2, <4>1, <4>3
    <3>. QED
      BY <1>3, <2>2, <3>4 DEF Kept
  <2>. QED
    BY <2>3, <2>4
<1>10. CASE CutSink(t) \/ CutSource(t)
  <2>1. /\ call[t].op \in DeleteOps
        /\ \E x \in Source, y \in Sink : Disconnect(x, y) /\ (Names(t, x) \/ Names(t, y))
    <3>1. CASE CutSink(t)
      BY <3>1, CutsALink, ThreadAt DEF CutSink, Names, DeleteOps
    <3>2. CASE CutSource(t)
      BY <3>2, CutsALink, ThreadAt DEF CutSource, Names, DeleteOps
    <3>. QED
      BY <1>10, <3>1, <3>2
  <2>2. PICK x \in Source, y \in Sink : Disconnect(x, y) /\ (Names(t, x) \/ Names(t, y))
    BY <2>1
  <2>3. Update("disconnect", x, y) /\ "disconnect" \in LinkOps
    BY <2>2 DEF Update, LinkOps
  <2>4. x = e /\ y = s => Changes(t, e, s)
    BY <2>1, <2>2, <2>3 DEF Changes
  <2>. QED
    BY <1>4, <2>3, <2>4
<1>. QED
  BY <1>5, <1>6, <1>7, <1>8, <1>9, <1>10 DEF Step, Proceed

(* Between its call and its change of the map, nobody else adds or takes   *)
(* the subscriptions a thread was called for.                              *)
LEMMA PairedStep ==
  ASSUME Core, Paired, ~SubscribeTwice, \A x \in Source, y \in Sink : Agree(x, y), NEW t \in Thread, Step(t)
  PROVE  Paired'
<1>. USE DEF Core
<1>1. ASSUME NEW u \in Thread, u # t
      PROVE  PairedCall(u)'
  <2> DEFINE e == call[u].source
             s == call[u].sink
  <2>1. call'[u] = call[u]
    BY <1>1, OthersStay
  <2>2. CASE call[u].op \in {"subscribe", "unsubscribe"}
    <3>1. e \in Source /\ s \in Sink /\ Names(u, e) /\ Names(u, s)
      BY <2>2 DEF Places, CallOf, LinkOps, Names
    <3>2. Changes(t, e, s) \/ Kept(e, s)
      BY <3>1, StepLinks DEF Paired, PairedCall
    <3>3. ~Changes(t, e, s)
      <4>1. ASSUME Link(t), e = call[t].source, s = call[t].sink PROVE FALSE
        <5>1. Names(t, e) /\ Names(t, s)
          BY <4>1 DEF Link, Names
        <5>. QED
          BY <1>1, <3>1, <5>1 DEF LinkedAlone
      <4>2. ASSUME call[t].op \in DeleteOps, Names(t, e) \/ Names(t, s) PROVE FALSE
        BY <1>1, <3>1, <4>2 DEF DeletedAlone
      <4>. QED
        BY <4>1, <4>2 DEF Changes
    <3>4. Count(sinks'[e], EntriesFor(s, {"typed"})) = Count(sinks[e], EntriesFor(s, {"typed"}))
      BY <3>2, <3>3 DEF Kept, Types
    <3>. QED
      BY <2>1, <3>4 DEF Paired, PairedCall, Subscriptions
  <2>3. CASE call[u].op \notin {"subscribe", "unsubscribe"}
    BY <2>1, <2>3 DEF PairedCall
  <2>. QED
    BY <2>2, <2>3
<1>2. PairedCall(t)'
  <2>1. CASE Calls(t)
    <3>1. PICK op, e, s, label : Begun(t, op, e, s, label)
      BY <2>1, CallsBegin
    <3>2. call'[t].op = op /\ call'[t].source = e /\ call'[t].sink = s /\ sinks' = sinks
      BY <3>1, BegunIs DEF links
    <3>3. op \in LinkOps => InPairs(op, e, s)
      BY <3>1 DEF Begun, MayLink
    <3>. QED
      BY <3>2, <3>3 DEF InPairs, LinkOps, PairedCall, Subscriptions
  <2>2. CASE LockSource(t)
    <3>1. call'[t] = call[t] /\ sinks' = sinks
      BY <2>2, StepMoves DEF At, LockSource, links
    <3>. QED
      BY <3>1 DEF Paired, PairedCall, Subscriptions
  <2>3. CASE Link(t) \/ StartSend(t) \/ Visit(t) \/ Return(t) \/ Finish(t) \/ Throw(t) \/ LockGlobal(t) \/ LockOwn(t)
             \/ CutSink(t) \/ LockSelf(t) \/ Try(t) \/ CutSource(t)
    <3>1. pc'[t] \notin {"lockSource", "lockSink"}
      BY <2>3, StepMoves DEF At, Gone
    <3>2. call'[t].op \notin LinkOps
      BY <3>1, PlacesStep DEF Places, CallOf
    <3>. QED
      BY <3>2 DEF LinkOps, PairedCall
  <2>. QED
    BY <2>1, <2>2, <2>3 DEF Step, Proceed
<1>. QED
  BY <1>1, <1>2 DEF Paired

(* An object that is linked has not been destroyed.                        *)
LEMMA LinkedLive ==
  ASSUME Core, DeadUnlinked, \A x \in Source, y \in Sink : Agree(x, y), NEW e \in Source, NEW s \in Sink
  PROVE  /\ (\E i \in 1..Len(sinks[e]) : sinks[e][i].sink = s) => s \in alive /\ e \in alive
         /\ (\E i \in 1..Len(sources[s]) : sources[s][i] = e) => s \in alive /\ e \in alive
<1>1. sinks[e] \in Seq(Entry) /\ sources[s] \in Seq(Source)
  BY DEF Core, Typed
<1>2. \A i \in 1..Len(sinks[e]) : sinks[e][i] \in Entry
  BY <1>1
<1>3. Agree(e, s)
  OBVIOUS
<1>4. (\E i \in 1..Len(sinks[e]) : sinks[e][i].sink = s) <=> Count(sinks[e], EntriesFor(s, Types)) # 0
  <2>1. \A i \in 1..Len(sinks[e]) : sinks[e][i] \in EntriesFor(s, Types) <=> sinks[e][i].sink = s
    BY <1>2, EntryFor DEF Entry
  <2>2. Count(sinks[e], EntriesFor(s, Types)) = 0 <=> \A i \in 1..Len(sinks[e]) : sinks[e][i] \notin EntriesFor(s, Types)
    BY <1>1, CountType
  <2>. QED
    BY <2>1, <2>2
<1>5. (\E i \in 1..Len(sources[s]) : sources[s][i] = e) <=> Count(sources[s], {e}) # 0
  BY <1>1, CountType
<1>6. Count(sources[s], {e}) # 0 => s \in alive
  <2>1. sources[s] = <<>> => Count(sources[s], {e}) = 0
    BY CountEmpty
  <2>. QED
    BY <2>1 DEF DeadUnlinked
<1>7. Count(sinks[e], EntriesFor(s, Types)) # 0 => e \in alive
  <2>1. sinks[e] = <<>> => Count(sinks[e], EntriesFor(s, Types)) = 0
    BY CountEmpty
  <2>. QED
    BY <2>1 DEF DeadUnlinked
<1>. QED
  BY <1>3, <1>4, <1>5, <1>6, <1>7 DEF Agree

LEMMA DeadUnlinkedStep ==
  ASSUME Core, DeadUnlinked, \A x \in Source, y \in Sink : Agree(x, y), NEW t \in Thread, Step(t)
  PROVE  DeadUnlinked'
<1>. USE DEF Core
<1>1. alive \cap Source \subseteq Source /\ Source \cap Sink = {}
  OBVIOUS
<1>. DEFINE Between(e, s) == /\ e \in alive /\ s \in alive
                             /\ \A x \in Source \ {e} : sinks'[x] = sinks[x]
                             /\ \A y \in Sink \ {s} : sources'[y] = sources[y]
<1>. HIDE DEF Between
<1>2. CASE alive' = alive /\ \E e \in Source, s \in Sink : Between(e, s)
  <2>1. PICK e \in Source, s \in Sink : Between(e, s)
    BY <1>2
  <2>2. /\ e \in alive /\ s \in alive
        /\ \A x \in Source \ {e} : sinks'[x] = sinks[x]
        /\ \A y \in Sink \ {s} : sources'[y] = sources[y]
    BY <2>1 DEF Between
  <2>3. ASSUME NEW x \in Source, x \notin alive'
        PROVE  sinks'[x] = <<>>
    <3>1. x # e /\ sinks[x] = <<>>
      BY <1>2, <2>2, <2>3 DEF DeadUnlinked
    <3>. QED
      BY <2>2, <3>1
  <2>4. ASSUME NEW y \in Sink, y \notin alive'
        PROVE  sources'[y] = <<>>
    <3>1. y # s /\ sources[y] = <<>>
      BY <1>2, <2>2, <2>4 DEF DeadUnlinked
    <3>. QED
      BY <2>2, <3>1
  <2>. QED
    BY <2>3, <2>4 DEF DeadUnlinked
<1>3. CASE /\ alive' = alive /\ sources' = sources
           /\ \E e \in Source : e \in alive /\ \A x \in Source \ {e} : sinks'[x] = sinks[x]
  BY <1>3 DEF DeadUnlinked
<1>4. CASE alive' = alive /\ links' = links
  BY <1>4 DEF DeadUnlinked, links
<1>5. CASE Calls(t) \/ LockSource(t) \/ Return(t) \/ LockGlobal(t) \/ Try(t)
  <2>1. Calls(t) => alive' = alive /\ links' = links
    BY DEF Calls, CallLink, CallInSlot, CallSend, CallDeleteSource, CallDeleteSink, Enter
  <2>2. alive' = alive /\ links' = links
    BY <1>5, <2>1 DEF LockSource, Return, LockGlobal, Try
  <2>. QED
    BY <1>4, <2>2
<1>6. CASE Link(t)
  <2> DEFINE e == call[t].source
             s == call[t].sink
  <2>1. e \in Source /\ s \in Sink /\ call[t].op \in LinkOps /\ Update(call[t].op, e, s) /\ alive' = alive
    BY <1>6, ThreadAt DEF Link
  <2>2. e \in alive /\ s \in alive
    BY <1>6, <2>1 DEF Link, NamedLive, Names
  <2>3. /\ \A x \in Source \ {e} : sinks'[x] = sinks[x]
        /\ \A x \in Sink \ {s} : sources'[x] = sources[x]
    BY <2>1, UpdateElsewhere
  <2>. QED
    BY <1>2, <2>1, <2>2, <2>3 DEF Between
<1>7. CASE StartSend(t) \/ Visit(t) \/ Finish(t) \/ Throw(t)
  <2> DEFINE e == call[t].source
  <2>1. e \in Source /\ alive' = alive /\ sources' = sources /\ pc[t] # "idle"
    BY <1>7, ThreadAt DEF StartSend, Visit, Finish, Throw, EndSend
  <2>2. e \in alive
    BY <2>1 DEF NamedLive, Names
  <2>3. \A x \in Source \ {e} : sinks'[x] = sinks[x]
    <3>1. CASE StartSend(t)
      BY <3>1, StartedEntries
    <3>2. CASE Visit(t)
      BY <3>2, VisitedEntries
    <3>3. CASE Finish(t) \/ Throw(t)
      BY <2>1, <3>3, EndedEntries DEF Finish, Throw
    <3>. QED
      BY <1>7, <3>1, <3>2, <3>3
  <2>. HIDE DEF Core
  <2>4. \E z \in Source : z \in alive /\ \A x \in Source \ {z} : sinks'[x] = sinks[x]
    BY <2>1, <2>2, <2>3, Zenon
  <2>. QED
    BY <1>3, <2>1, <2>4, Zenon
<1>8. CASE LockOwn(t)
  <2>1. call[t].source \in Source /\ links' = links
    BY <1>8, ThreadAt DEF LockOwn
  <2>2. alive' = alive \/ (alive' = alive \ {call[t].source} /\ sinks[call[t].source] = <<>>)
    BY <1>8 DEF LockOwn
  <2>. QED
    BY <2>1, <2>2 DEF DeadUnlinked, links
<1>9. CASE LockSelf(t)
  <2>1. call[t].sink \in Sink /\ links' = links
    BY <1>9, ThreadAt DEF LockSelf
  <2>2. alive' = alive \/ (alive' = alive \ {call[t].sink} /\ sources[call[t].sink] = <<>>)
    BY <1>9 DEF LockSelf
  <2>. QED
    BY <2>1, <2>2 DEF DeadUnlinked, links
<1>10. CASE CutSink(t) \/ CutSource(t)
  <2>1. alive' = alive
    BY <1>10 DEF CutSink, CutSource
  <2>2. PICK e \in Source, s \in Sink : Disconnect(e, s) /\ e \in alive /\ s \in alive
    <3>1. CASE CutSink(t)
      <4> DEFINE e == call[t].source
                 s == sinks[e][1].sink
      <4>1. e \in Source /\ s \in Sink /\ Disconnect(e, s) /\ sinks[e] # <<>>
        BY <3>1, CutsALink DEF CutSink
      <4>2. 1 \in 1..Len(sinks[e])
        BY <4>1 DEF Typed
      <4>3. e \in alive /\ s \in alive
        BY <4>1, <4>2, LinkedLive
      <4>. QED
        BY <4>1, <4>3
    <3>2. CASE CutSource(t)
      <4> DEFINE s == call[t].sink
                 e == Head(sources[s])
      <4>1. e \in Source /\ s \in Sink /\ Disconnect(e, s) /\ sources[s] # <<>>
        BY <3>2, CutsALink DEF CutSource
      <4>2. 1 \in 1..Len(sources[s]) /\ sources[s][1] = e
        BY <4>1 DEF Typed
      <4>3. e \in alive /\ s \in alive
        BY <4>1, <4>2, LinkedLive
      <4>. QED
        BY <4>1, <4>3
    <3>. QED
      BY <1>10, <3>1, <3>2
  <2>3. Update("disconnect", e, s) /\ "disconnect" \in LinkOps
    BY <2>2 DEF Update, LinkOps
  <2>4. /\ \A x \in Source \ {e} : sinks'[x] = sinks[x]
        /\ \A x \in Sink \ {s} : sources'[x] = sources[x]
    BY <2>3, UpdateElsewhere
  <2>. QED
    BY <1>2, <2>1, <2>2, <2>4 DEF Between
<1>. QED
  BY <1>5, <1>6, <1>7, <1>8, <1>9, <1>10 DEF Step, Proceed

Linked == Paired /\ DeadUnlinked /\ \A e \in Source, s \in Sink : Agree(e, s)

LEMMA LinkedHolds ==
  ASSUME ~SubscribeTwice
  PROVE  Spec => [](Core /\ Linked)
<1>1. ASSUME Init PROVE Linked
  <2>1. \A X : Count(<<>>, X) = 0
    BY CountEmpty
  <2>. QED
    BY <1>1, <2>1 DEF Init, Linked, Paired, PairedCall, DeadUnlinked, Agree, NoCall
<1>2. ASSUME Core, Linked, [Next]_vars PROVE Linked'
  <2>1. CASE UNCHANGED vars
    BY <1>2, <2>1 DEF vars, links, sends, Linked, Paired, PairedCall, Subscriptions, DeadUnlinked, Agree
  <2>2. CASE \E t \in Thread : Step(t)
    <3>1. PICK t \in Thread : Step(t)
      BY <2>2
    <3>2. Paired /\ DeadUnlinked /\ \A x \in Source, y \in Sink : Agree(x, y)
      BY <1>2 DEF Linked
    <3>3. Paired' /\ DeadUnlinked'
      BY <1>2, <3>1, <3>2, PairedStep, DeadUnlinkedStep
    <3>4. \A e \in Source, s \in Sink : Agree(e, s)'
      BY <1>2, <3>1, <3>2, StepLinks DEF Paired, PairedCall
    <3>. QED
      BY <3>3, <3>4 DEF Linked
  <2>. QED
    BY <1>2, <2>1, <2>2, NextIsStep
<1>3. Init => Core
  BY CoreInit
<1>4. Core /\ [Next]_vars => Core'
  BY CoreStep
<1>. QED
  BY <1>1, <1>2, <1>3, <1>4, PTL DEF Spec

(* The two sides of a link tell the same, whichever calls and destructors  *)
(* of all threads run: when no sink is subscribed twice (a sink that is,   *)
(* forgets one entry where the source takes both).                         *)
THEOREM LinksAreMutual ==
  ASSUME ~SubscribeTwice
  PROVE  Spec => []LinksAgree
<1>1. Core /\ Linked => LinksAgree
  BY DEF Linked, Agree, LinksAgree
<1>. QED
  BY <1>1, LinkedHolds, PTL

(* A destroyed object is in no map and no list, under the same condition.  *)
THEOREM NothingDangles ==
  ASSUME ~SubscribeTwice
  PROVE  Spec => []NoDangling
<1>1. ASSUME Core, Linked PROVE NoDangling
  <2>1. DeadUnlinked /\ \A x \in Source, y \in Sink : Agree(x, y)
    BY <1>1 DEF Linked
  <2>2. ASSUME NEW e \in alive \cap Source, NEW i \in DOMAIN sinks[e] PROVE sinks[e][i].sink \in alive \cup {None}
    <3>1. sinks[e] \in Seq(Entry) /\ i \in 1..Len(sinks[e])
      BY <1>1, <2>2 DEF Core, Typed
    <3>2. sinks[e][i] \in Entry
      BY <3>1
    <3>3. sinks[e][i].sink \in Sink \cup {None}
      BY <3>2 DEF Entry
    <3>. QED
      BY <1>1, <2>1, <3>1, <3>3, LinkedLive
  <2>3. ASSUME NEW s \in alive \cap Sink, NEW i \in DOMAIN sources[s] PROVE sources[s][i] \in alive
    <3>1. sources[s] \in Seq(Source) /\ i \in 1..Len(sources[s])
      BY <1>1, <2>3 DEF Core, Typed
    <3>2. sources[s][i] \in Source
      BY <3>1
    <3>. QED
      BY <1>1, <2>1, <3>1, <3>2, LinkedLive
  <2>. QED
    BY <2>2, <2>3 DEF NoDangling
<1>. QED
  BY <1>1, LinkedHolds, PTL

-----------------------------------------------------------------------------
(* EventSource implements Delivery, when no sink is subscribed twice.      *)
(*                                                                         *)
(* A link is an entry that was not emptied; what a send has still to serve *)
(* are the entries marked "due", and those marked "new" were met by none.  *)
(* The call of a thread is the same in both, as every call takes effect in *)
(* the step in which it leaves the mutex of its source.                    *)

Kind == Source \X Sink \X Types
KindCount(k, marks) == Count(sinks[k[1]], OfKind(k, marks))

-----------------------------------------------------------------------------
(* The links of one kind, counted.                                         *)

LEMMA KindParts ==
  ASSUME NEW k \in Kind
  PROVE  k[1] \in Source /\ k[2] \in Sink /\ k[3] \in Types /\ k[2] # None
BY DEF Kind

LEMMA EntryOfKind ==
  ASSUME NEW x \in Entry, NEW k \in Kind, NEW marks
  PROVE  x \in OfKind(k, marks) <=> x.type = k[3] /\ x.sink = k[2] /\ x.mark \in marks
BY DEF OfKind, Entry

LEMMA KindCountType ==
  ASSUME Typed, NEW k \in Kind, NEW marks
  PROVE  KindCount(k, marks) \in Nat
<1>1. sinks[k[1]] \in Seq(Entry)
  BY KindParts DEF Typed
<1>. QED
  BY <1>1, CountType DEF KindCount

(* An element of a sequence is replaced.                                   *)
LEMMA CountReplaced ==
  ASSUME NEW S, NEW seq \in Seq(S), NEW other \in Seq(S), NEW X, NEW n \in 1..Len(seq),
         Len(other) = Len(seq), \A i \in 1..Len(seq) : i # n => (seq[i] \in X <=> other[i] \in X)
  PROVE  /\ (seq[n] \in X <=> other[n] \in X) => Count(other, X) = Count(seq, X)
         /\ seq[n] \in X /\ other[n] \notin X => Count(other, X) = Count(seq, X) - 1
<1>1. Len(seq) \in Nat
  OBVIOUS
<1>2. ASSUME seq[n] \in X <=> other[n] \in X
      PROVE  Count(other, X) = Count(seq, X)
  <2>1. \A i \in 1..Len(seq) : seq[i] \in X <=> other[i] \in X
    BY <1>2
  <2>. QED
    BY <2>1, CountSame
<1>3. ASSUME seq[n] \in X, other[n] \notin X
      PROVE  Count(other, X) = Count(seq, X) - 1
  <2>1. Upto(seq, X, Len(seq)) = Upto(other, X, Len(seq)) \cup {n}
    BY <1>1, <1>3 DEF Upto
  <2>2. n \notin Upto(other, X, Len(seq))
    BY <1>3 DEF Upto
  <2>3. /\ IsFiniteSet(Upto(other, X, Len(seq)))
        /\ Cardinality(Upto(other, X, Len(seq))) \in Nat
    BY <1>1, UptoCounts
  <2>4. Cardinality(Upto(seq, X, Len(seq))) = Cardinality(Upto(other, X, Len(seq))) + 1
    BY <2>1, <2>2, <2>3, FS_AddElement
  <2>. QED
    BY <2>3, <2>4, CountIsUpto
<1>. QED
  BY <1>2, <1>3

LEMMA AddKind ==
  ASSUME Typed, NEW e \in Source, NEW s \in Sink, NEW type \in Types, Add(e, s, type),
         NEW k \in Kind, NEW marks
  PROVE  /\ k[1] = e /\ k[2] = s /\ k[3] = type /\ "new" \in marks => KindCount(k, marks)' = KindCount(k, marks) + 1
         /\ ~(k[1] = e /\ k[2] = s /\ k[3] = type /\ "new" \in marks) => KindCount(k, marks)' = KindCount(k, marks)
<1> DEFINE new == [type |-> type, sink |-> s, mark |-> "new"]
           X == OfKind(k, marks)
<1>1. sinks[e] \in Seq(Entry) /\ sinks[k[1]] \in Seq(Entry)
  BY KindParts DEF Typed
<1>2. new \in Entry /\ new.sink = s /\ new.type = type /\ new.mark = "new"
  BY DEF Entry, Marks
<1>3. /\ \A x \in Source \ {e} : sinks'[x] = sinks[x]
      /\ sinks'[e] = InsertAt(sinks[e], Place(e, type), new)
  BY AddedEntries
<1>. HIDE DEF new
<1>4. new \in X <=> k[3] = type /\ k[2] = s /\ "new" \in marks
  BY <1>2, EntryOfKind
<1>. HIDE DEF X
<1>5. Count(sinks'[e], X) = Count(sinks[e], X) + (IF new \in X THEN 1 ELSE 0)
  <2>1. Place(e, type) \in 1..(Len(sinks[e]) + 1)
    BY PlaceIsIn
  <2>. QED
    BY <1>1, <1>2, <1>3, <2>1, InsertAtCounts
<1>6. Count(sinks[e], X) \in Nat
  BY <1>1, CountType
<1>7. KindCount(k, marks) = Count(sinks[k[1]], X) /\ KindCount(k, marks)' = Count(sinks'[k[1]], X)
  BY DEF KindCount, X, OfKind
<1>8. CASE k[1] # e
  BY <1>3, <1>7, <1>8, KindParts
<1>9. CASE k[1] = e
  BY <1>4, <1>5, <1>6, <1>7, <1>9
<1>. QED
  BY <1>8, <1>9

LEMMA EmptiedKind ==
  ASSUME NEW entries \in Seq(Entry), NEW s \in Sink, NEW types, NEW k \in Kind, NEW marks
  PROVE  Count(Emptied(entries, EntriesFor(s, types)), OfKind(k, marks))
           = Count(entries, Only(OfKind(k, marks), EntriesFor(s, types)))
<1> DEFINE X == EntriesFor(s, types)
           new == Emptied(entries, X)
<1>1. /\ new \in Seq(Entry)
      /\ Len(new) = Len(entries)
      /\ \A i \in 1..Len(entries) :
           /\ new[i].mark = entries[i].mark
           /\ new[i].type = entries[i].type
           /\ new[i].sink = IF entries[i] \in X THEN None ELSE entries[i].sink
  BY EmptiedEntries
<1>2. \A i \in 1..Len(entries) : entries[i] \in Entry /\ new[i] \in Entry
  BY <1>1
<1>. HIDE DEF X, new
<1>3. ASSUME NEW i \in 1..Len(entries)
      PROVE  entries[i] \in Only(OfKind(k, marks), X) <=> new[i] \in OfKind(k, marks)
  <2>1. new[i] \in OfKind(k, marks) <=> new[i].type = k[3] /\ new[i].sink = k[2] /\ new[i].mark \in marks
    BY <1>2, EntryOfKind
  <2>2. entries[i] \in OfKind(k, marks) <=>
          entries[i].type = k[3] /\ entries[i].sink = k[2] /\ entries[i].mark \in marks
    BY <1>2, EntryOfKind
  <2>3. k[2] # None
    BY KindParts
  <2>4. entries[i] \in Only(OfKind(k, marks), X) <=> entries[i] \in OfKind(k, marks) /\ entries[i] \notin X
    BY DEF Only
  <2>. QED
    BY <1>1, <2>1, <2>2, <2>3, <2>4
<1>4. Count(new, OfKind(k, marks)) = Count(entries, Only(OfKind(k, marks), X))
  BY <1>1, <1>3, CountSame
<1>. QED
  BY <1>4 DEF new, X

LEMMA TakeKind ==
  ASSUME Typed, NEW e \in Source, NEW s \in Sink, NEW types \in SUBSET Types, Take(e, s, types),
         NEW k \in Kind, NEW marks
  PROVE  /\ k[1] = e /\ k[2] = s /\ k[3] \in types => KindCount(k, marks)' = 0
         /\ ~(k[1] = e /\ k[2] = s /\ k[3] \in types) => KindCount(k, marks)' = KindCount(k, marks)
<1> DEFINE X == OfKind(k, marks)
           Y == EntriesFor(s, types)
<1>1. sinks[e] \in Seq(Entry)
  BY DEF Typed
<1>2. /\ \A x \in Source \ {e} : sinks'[x] = sinks[x]
      /\ sinks'[e] = Emptied(sinks[e], Y) \/ sinks'[e] = Without(sinks[e], Y)
  BY TakenEntries
<1>3. KindCount(k, marks) = Count(sinks[k[1]], X) /\ KindCount(k, marks)' = Count(sinks'[k[1]], X)
  BY DEF KindCount, OfKind
<1>4. Count(sinks'[e], X) = Count(sinks[e], Only(X, Y))
  <2>1. CASE sinks'[e] = Emptied(sinks[e], Y)
    BY <1>1, <2>1, EmptiedKind
  <2>2. CASE sinks'[e] = Without(sinks[e], Y)
    BY <1>1, <2>2, WithoutCounts DEF Only
  <2>. QED
    BY <1>2, <2>1, <2>2
<1>5. \A i \in 1..Len(sinks[e]) :
        sinks[e][i] \in Only(X, Y) <=> sinks[e][i] \in X /\ ~(k[2] = s /\ k[3] \in types)
  <2>1. ASSUME NEW i \in 1..Len(sinks[e])
        PROVE  sinks[e][i] \in Only(X, Y) <=> sinks[e][i] \in X /\ ~(k[2] = s /\ k[3] \in types)
    <3>1. sinks[e][i] \in Entry
      BY <1>1
    <3>2. sinks[e][i] \in Y <=> sinks[e][i].sink = s /\ sinks[e][i].type \in types
      BY <3>1, EntryFor
    <3>3. sinks[e][i] \in X =>
            sinks[e][i].type = k[3] /\ sinks[e][i].sink = k[2]
      BY <3>1, EntryOfKind
    <3>4. sinks[e][i] \in Only(X, Y) <=> sinks[e][i] \in X /\ sinks[e][i] \notin Y
      BY DEF Only
    <3>. QED
      BY <3>2, <3>3, <3>4
  <2>. QED
    BY <2>1
<1>. HIDE DEF X, Y
<1>6. CASE k[1] # e
  BY <1>2, <1>3, <1>6, KindParts
<1>7. CASE k[1] = e /\ k[2] = s /\ k[3] \in types
  <2>1. \A i \in 1..Len(sinks[e]) : sinks[e][i] \notin Only(X, Y)
    BY <1>5, <1>7
  <2>2. Count(sinks[e], Only(X, Y)) = 0
    BY <1>1, <2>1, CountType
  <2>. QED
    BY <1>3, <1>4, <1>7, <2>2
<1>8. CASE k[1] = e /\ ~(k[2] = s /\ k[3] \in types)
  <2>1. \A i \in 1..Len(sinks[e]) : sinks[e][i] \in X <=> sinks[e][i] \in Only(X, Y)
    BY <1>5, <1>8
  <2>2. Count(sinks[e], Only(X, Y)) = Count(sinks[e], X)
    BY <1>1, <2>1, CountSame
  <2>. QED
    BY <1>3, <1>4, <1>8, <2>2
<1>. QED
  BY <1>6, <1>7, <1>8

LEMMA MarkedKind ==
  ASSUME NEW entries \in Seq(Entry), NEW mark \in Marks, NEW k \in Kind, NEW marks
  PROVE  /\ mark \in marks => Count(Marked(entries, mark), OfKind(k, marks)) = Count(entries, OfKind(k, Marks))
         /\ mark \notin marks => Count(Marked(entries, mark), OfKind(k, marks)) = 0
<1> DEFINE new == Marked(entries, mark)
<1>1. /\ new \in Seq(Entry)
      /\ Len(new) = Len(entries)
      /\ \A i \in 1..Len(entries) :
           new[i].mark = mark /\ new[i].sink = entries[i].sink /\ new[i].type = entries[i].type
  BY MarkedEntries
<1>2. \A i \in 1..Len(entries) : entries[i] \in Entry /\ new[i] \in Entry
  BY <1>1
<1>. HIDE DEF new
<1>3. ASSUME NEW i \in 1..Len(entries)
      PROVE  /\ new[i] \in OfKind(k, marks) <=> new[i].type = k[3] /\ new[i].sink = k[2] /\ new[i].mark \in marks
             /\ entries[i] \in OfKind(k, Marks) <=> entries[i].type = k[3] /\ entries[i].sink = k[2]
  <2>1. entries[i].mark \in Marks
    BY <1>2 DEF Entry
  <2>. QED
    BY <1>2, <2>1, EntryOfKind
<1>4. CASE mark \in marks
  <2>1. \A i \in 1..Len(entries) : entries[i] \in OfKind(k, Marks) <=> new[i] \in OfKind(k, marks)
    BY <1>1, <1>3, <1>4
  <2>2. Count(new, OfKind(k, marks)) = Count(entries, OfKind(k, Marks))
    BY <1>1, <2>1, CountSame
  <2>. QED
    BY <1>4, <2>2 DEF new
<1>5. CASE mark \notin marks
  <2>1. \A i \in 1..Len(new) : new[i] \notin OfKind(k, marks)
    BY <1>1, <1>3, <1>5
  <2>2. Count(new, OfKind(k, marks)) = 0
    BY <1>1, <2>1, CountType
  <2>. QED
    BY <1>5, <2>2 DEF new
<1>. QED
  BY <1>4, <1>5

(* A send makes all links of its source due, and none fresh.               *)
LEMMA StartKind ==
  ASSUME Typed, Places, NEW t \in Thread, StartSend(t), NEW k \in Kind
  PROVE  /\ k[1] # call[t].source => \A marks : KindCount(k, marks)' = KindCount(k, marks)
         /\ k[1] = call[t].source =>
              /\ KindCount(k, Marks)' = KindCount(k, Marks)
              /\ KindCount(k, {"due"})' = KindCount(k, Marks)
              /\ KindCount(k, {"new"})' = 0
<1> DEFINE e == call[t].source
<1>1. /\ e \in Source
      /\ \A x \in Source \ {e} : sinks'[x] = sinks[x]
      /\ sinks'[e] = Marked(sinks[e], "due")
  BY StartedEntries
<1>2. sinks[e] \in Seq(Entry)
  BY <1>1 DEF Typed
<1>3. \A marks : KindCount(k, marks) = Count(sinks[k[1]], OfKind(k, marks))
  BY DEF KindCount
<1>4. \A marks : KindCount(k, marks)' = Count(sinks'[k[1]], OfKind(k, marks))
  BY DEF KindCount, OfKind
<1>. HIDE DEF e
<1>5. CASE k[1] # e
  <2>1. sinks'[k[1]] = sinks[k[1]]
    BY <1>1, <1>5, KindParts
  <2>. QED
    BY <1>3, <1>4, <1>5, <2>1 DEF e
<1>6. CASE k[1] = e
  <2>1. "due" \in Marks /\ "due" \in {"due"} /\ "due" \notin {"new"}
    BY DEF Marks
  <2>2. /\ Count(Marked(sinks[e], "due"), OfKind(k, Marks)) = Count(sinks[e], OfKind(k, Marks))
        /\ Count(Marked(sinks[e], "due"), OfKind(k, {"due"})) = Count(sinks[e], OfKind(k, Marks))
        /\ Count(Marked(sinks[e], "due"), OfKind(k, {"new"})) = 0
    BY <1>2, <2>1, MarkedKind
  <2>. QED
    BY <1>1, <1>3, <1>4, <1>6, <2>2 DEF e
<1>. QED
  BY <1>5, <1>6

(* At its end none is due, and all are fresh again.                        *)
LEMMA EndKind ==
  ASSUME Typed, NEW t \in Thread, NEW e \in Source, EndSend(t, e), NEW k \in Kind
  PROVE  /\ k[1] # e => \A marks : KindCount(k, marks)' = KindCount(k, marks)
         /\ k[1] = e =>
              /\ KindCount(k, Marks)' = KindCount(k, Marks)
              /\ KindCount(k, {"due"})' = 0
              /\ KindCount(k, {"new"})' = KindCount(k, Marks)
<1> DEFINE left == IF dirty[e] THEN Without(sinks[e], EntriesFor(None, Types)) ELSE sinks[e]
<1>1. /\ \A x \in Source \ {e} : sinks'[x] = sinks[x]
      /\ sinks'[e] = Marked(left, "new")
  BY EndedEntries
<1>2. sinks[e] \in Seq(Entry)
  BY DEF Typed
<1>3. \A marks : KindCount(k, marks) = Count(sinks[k[1]], OfKind(k, marks))
  BY DEF KindCount
<1>4. \A marks : KindCount(k, marks)' = Count(sinks'[k[1]], OfKind(k, marks))
  BY DEF KindCount, OfKind
<1>5. left \in Seq(Entry) /\ Count(left, OfKind(k, Marks)) = Count(sinks[e], OfKind(k, Marks))
  <2>1. CASE dirty[e]
    <3>1. Only(OfKind(k, Marks), EntriesFor(None, Types)) = OfKind(k, Marks)
      BY KindParts DEF Only, OfKind, EntriesFor
    <3>2. /\ Without(sinks[e], EntriesFor(None, Types)) \in Seq(Entry)
          /\ Count(Without(sinks[e], EntriesFor(None, Types)), OfKind(k, Marks))
               = Count(sinks[e], Only(OfKind(k, Marks), EntriesFor(None, Types)))
      BY <1>2, WithoutCounts DEF Only
    <3>. QED
      BY <2>1, <3>1, <3>2
  <2>2. CASE ~dirty[e]
    BY <1>2, <2>2
  <2>. QED
    BY <2>1, <2>2
<1>. HIDE DEF left
<1>6. CASE k[1] # e
  <2>1. sinks'[k[1]] = sinks[k[1]]
    BY <1>1, <1>6, KindParts
  <2>. QED
    BY <1>3, <1>4, <1>6, <2>1
<1>7. CASE k[1] = e
  <2>1. "new" \in Marks /\ "new" \in {"new"} /\ "new" \notin {"due"}
    BY DEF Marks
  <2>2. /\ Count(Marked(left, "new"), OfKind(k, Marks)) = Count(left, OfKind(k, Marks))
        /\ Count(Marked(left, "new"), OfKind(k, {"new"})) = Count(left, OfKind(k, Marks))
        /\ Count(Marked(left, "new"), OfKind(k, {"due"})) = 0
    BY <1>5, <2>1, MarkedKind
  <2>. QED
    BY <1>1, <1>3, <1>4, <1>5, <1>7, <2>2
<1>. QED
  BY <1>6, <1>7

(* A delivery takes one link off those that were due, or fresh.            *)
LEMMA VisitKind ==
  ASSUME Core, NEW t \in Thread, Visit(t), sinks[call[t].source][it[call[t].source]].sink # None
  PROVE  \E k \in Kind, M \in {{"due"}, {"new"}} :
           /\ k[1] = call[t].source
           /\ \E i \in 1..Len(sinks[k[1]]) : sinks[k[1]][i] \in OfKind(k, Marks)
           /\ KindCount(k, M) > 0 /\ KindCount(k, M)' = KindCount(k, M) - 1
           /\ \A j \in Kind, marks \in {Marks, {"due"}, {"new"}} :
                ~(j = k /\ marks = M) => KindCount(j, marks)' = KindCount(j, marks)
<1>. USE DEF Core
<1> DEFINE e == call[t].source
           n == it[e]
           old == sinks[e]
           new == sinks'[e]
           m == old[n].mark
<1>1. /\ e \in Source /\ n \in 1..Len(old)
      /\ sinks' \in [Source -> Seq(Entry)]
      /\ \A x \in Source \ {e} : sinks'[x] = sinks[x]
      /\ Len(new) = Len(old)
      /\ \A i \in 1..Len(old) :
           /\ new[i].sink = old[i].sink
           /\ new[i].type = old[i].type
           /\ i # n => new[i].mark = old[i].mark
      /\ old[n].sink # None /\ new[n].mark = "sent"
  BY VisitedEntries
<1>2. old \in Seq(Entry) /\ new \in Seq(Entry)
  BY <1>1 DEF Typed
<1>3. \A i \in 1..Len(old) : old[i] \in Entry /\ new[i] \in Entry
  BY <1>1, <1>2
<1>4. PICK k \in Kind : k[1] = e /\ k[2] = old[n].sink /\ k[3] = old[n].type
  <2>1. old[n].sink \in Sink /\ old[n].type \in Types
    BY <1>1, <1>3 DEF Entry
  <2> DEFINE x == <<e, old[n].sink, old[n].type>>
  <2>2. x \in Kind /\ x[1] = e /\ x[2] = old[n].sink /\ x[3] = old[n].type
    BY <1>1, <2>1 DEF Kind
  <2>. HIDE DEF x
  <2>. QED
    BY <2>2
<1>5. m \in {"due", "new"}
  <2>1. pc[t] = "send" /\ owner[e] = t
    BY OwnSource DEF Visit
  <2>2. sending[e] /\ n > Served(e)
    BY <1>1, <2>1 DEF Sends, Served, Typed
  <2>3. m # "sent"
    BY <1>1, <2>2 DEF InOrder
  <2>. QED
    BY <1>1, <1>3, <2>3 DEF Entry, Marks
<1>6. ASSUME NEW j \in Kind, NEW marks, j[1] # e
      PROVE  KindCount(j, marks)' = KindCount(j, marks)
  <2>1. sinks'[j[1]] = sinks[j[1]]
    BY <1>1, <1>6, KindParts
  <2>. QED
    BY <2>1 DEF KindCount, OfKind
<1>7. PICK M \in {{"due"}, {"new"}} :
      /\ "sent" \notin M
      /\ \A x \in Marks : x \in M <=> x = m
      /\ \A marks \in {Marks, {"due"}, {"new"}} : marks # M => (m \in marks <=> "sent" \in marks)
  BY <1>5 DEF Marks
<1>. HIDE DEF old, new, n, m, e
<1>8. ASSUME NEW j \in Kind, NEW marks, j[1] = e
      PROVE  /\ KindCount(j, marks) = Count(old, OfKind(j, marks))
             /\ KindCount(j, marks)' = Count(new, OfKind(j, marks))
  BY <1>8 DEF KindCount, OfKind, old, new
<1>9. ASSUME NEW j \in Kind, NEW marks, NEW i \in 1..Len(old)
      PROVE  /\ old[i] \in OfKind(j, marks) <=> old[i].type = j[3] /\ old[i].sink = j[2] /\ old[i].mark \in marks
             /\ new[i] \in OfKind(j, marks) <=> new[i].type = j[3] /\ new[i].sink = j[2] /\ new[i].mark \in marks
  BY <1>3, EntryOfKind
<1>10. ASSUME NEW j \in Kind, NEW marks, j[1] = e
      PROVE  /\ (old[n] \in OfKind(j, marks) <=> new[n] \in OfKind(j, marks)) =>
                  KindCount(j, marks)' = KindCount(j, marks)
             /\ old[n] \in OfKind(j, marks) /\ new[n] \notin OfKind(j, marks) =>
                  KindCount(j, marks)' = KindCount(j, marks) - 1
  <2>1. \A i \in 1..Len(old) : i # n => (old[i] \in OfKind(j, marks) <=> new[i] \in OfKind(j, marks))
    <3>1. ASSUME NEW i \in 1..Len(old), i # n
          PROVE  old[i] \in OfKind(j, marks) <=> new[i] \in OfKind(j, marks)
      <4>1. new[i].sink = old[i].sink /\ new[i].type = old[i].type /\ new[i].mark = old[i].mark
        BY <1>1, <3>1
      <4>. QED
        BY <1>9, <4>1
    <3>. QED
      BY <3>1
  <2>2. n \in 1..Len(old) /\ Len(new) = Len(old)
    BY <1>1
  <2>3. /\ (old[n] \in OfKind(j, marks) <=> new[n] \in OfKind(j, marks)) =>
             Count(new, OfKind(j, marks)) = Count(old, OfKind(j, marks))
        /\ old[n] \in OfKind(j, marks) /\ new[n] \notin OfKind(j, marks) =>
             Count(new, OfKind(j, marks)) = Count(old, OfKind(j, marks)) - 1
    BY <1>2, <2>1, <2>2, CountReplaced
  <2>. QED
    BY <1>8, <1>10, <2>3
<1>11. /\ old[n] \in OfKind(k, M) /\ new[n] \notin OfKind(k, M)
       /\ old[n] \in OfKind(k, Marks)
  <2>1. old[n].mark = m /\ m \in Marks /\ m # "sent"
    BY <1>5 DEF m, Marks
  <2>. QED
    BY <1>1, <1>4, <1>7, <1>9, <2>1
<1>12. KindCount(k, M) > 0 /\ KindCount(k, M)' = KindCount(k, M) - 1
  <2>1. KindCount(k, M)' = KindCount(k, M) - 1
    BY <1>4, <1>10, <1>11
  <2>2. KindCount(k, M) = Count(old, OfKind(k, M))
    BY <1>4, <1>8
  <2>3. Count(old, OfKind(k, M)) \in Nat /\ Count(old, OfKind(k, M)) # 0
    BY <1>1, <1>2, <1>11, CountType
  <2>. QED
    BY <2>1, <2>2, <2>3
<1>13. ASSUME NEW j \in Kind, NEW marks \in {Marks, {"due"}, {"new"}}, ~(j = k /\ marks = M)
       PROVE  KindCount(j, marks)' = KindCount(j, marks)
  <2>1. CASE j[1] # e
    BY <1>6, <2>1
  <2>2. CASE j[1] = e /\ j # k
    <3>1. ~(j[3] = old[n].type /\ j[2] = old[n].sink)
      BY <1>4, <2>2 DEF Kind
    <3>2. new[n].sink = old[n].sink /\ new[n].type = old[n].type
      BY <1>1
    <3>3. n \in 1..Len(old)
      BY <1>1
    <3>4. old[n] \notin OfKind(j, marks) /\ new[n] \notin OfKind(j, marks)
      BY <1>9, <3>1, <3>2, <3>3
    <3>. QED
      BY <1>10, <2>2, <3>4
  <2>3. CASE j = k
    <3>1. m \in marks <=> "sent" \in marks
      BY <1>7, <1>13, <2>3
    <3>2. new[n].sink = old[n].sink /\ new[n].type = old[n].type /\ old[n].mark = m
      BY <1>1 DEF m
    <3>3. old[n] \in OfKind(j, marks) <=> new[n] \in OfKind(j, marks)
      BY <1>1, <1>9, <2>3, <3>1, <3>2
    <3>. QED
      BY <1>4, <1>10, <2>3, <3>3
  <2>. QED
    BY <2>1, <2>2, <2>3
<1>14. \E i \in 1..Len(sinks[k[1]]) : sinks[k[1]][i] \in OfKind(k, Marks)
  BY <1>1, <1>4, <1>11 DEF old
<1>. QED
  BY <1>4, <1>7, <1>12, <1>13, <1>14, Zenon DEF e

-----------------------------------------------------------------------------
(* What the threads do to the counts of Delivery.                          *)

LEMMA CountsAre ==
  ASSUME NEW marks
  PROVE  /\ LinksMarked(marks) = [k \in Kind |-> KindCount(k, marks)]
         /\ LinksMarked(marks)' = [k \in Kind |-> KindCount(k, marks)']
         /\ Abstract!Kind = Kind
BY DEF LinksMarked, KindCount, Kind, Abstract!Kind, Abstract!Types, Types

LEMMA TieStep ==
  ASSUME Typed, NEW e \in Source, NEW s \in Sink, NEW type \in Types, Add(e, s, type)
  PROVE  Abstract!Tie(e, s, type)
<1> DEFINE K == Abstract!Between(e, s, {type})
<1>1. \A k \in Kind : k \in K <=> k[1] = e /\ k[2] = s /\ k[3] = type
  BY CountsAre DEF Abstract!Between
<1>2. ASSUME NEW marks, "new" \in marks
      PROVE  LinksMarked(marks)' = Abstract!More(LinksMarked(marks), K)
  <2>1. \A k \in Kind : KindCount(k, marks)' = IF k \in K THEN KindCount(k, marks) + 1 ELSE KindCount(k, marks)
    <3>1. ASSUME NEW k \in Kind
          PROVE  KindCount(k, marks)' = IF k \in K THEN KindCount(k, marks) + 1 ELSE KindCount(k, marks)
      <4>1. k \in K <=> k[1] = e /\ k[2] = s /\ k[3] = type
        BY <1>1
      <4>2. /\ k[1] = e /\ k[2] = s /\ k[3] = type => KindCount(k, marks)' = KindCount(k, marks) + 1
            /\ ~(k[1] = e /\ k[2] = s /\ k[3] = type) => KindCount(k, marks)' = KindCount(k, marks)
        BY <1>2, AddKind
      <4>. QED
        BY <4>1, <4>2
    <3>. QED
      BY <3>1
  <2>2. /\ LinksMarked(marks)' = [k \in Kind |-> KindCount(k, marks)']
        /\ \A k \in Kind : LinksMarked(marks)[k] = KindCount(k, marks)
        /\ Abstract!Kind = Kind
    BY CountsAre
  <2>. QED
    BY <2>1, <2>2 DEF Abstract!More
<1>3. LinksMarked({"due"})' = LinksMarked({"due"})
  <2>1. \A k \in Kind : KindCount(k, {"due"})' = KindCount(k, {"due"})
    BY AddKind
  <2>. QED
    BY <2>1, CountsAre
<1>. QED
  BY <1>2, <1>3 DEF Abstract!Tie, Marks

LEMMA CutStep ==
  ASSUME Typed, NEW e \in Source, NEW s \in Sink, NEW types \in SUBSET Types, Take(e, s, types)
  PROVE  Abstract!Cut(e, s, types)
<1> DEFINE K == Abstract!Between(e, s, types)
<1>1. \A k \in Kind : k \in K <=> k[1] = e /\ k[2] = s /\ k[3] \in types
  BY CountsAre DEF Abstract!Between
<1>2. ASSUME NEW marks
      PROVE  LinksMarked(marks)' = Abstract!NoMore(LinksMarked(marks), K)
  <2>1. \A k \in Kind : KindCount(k, marks)' = IF k \in K THEN 0 ELSE KindCount(k, marks)
    BY <1>1, TakeKind
  <2>2. /\ LinksMarked(marks)' = [k \in Kind |-> KindCount(k, marks)']
        /\ \A k \in Kind : LinksMarked(marks)[k] = KindCount(k, marks)
        /\ Abstract!Kind = Kind
    BY CountsAre
  <2>. QED
    BY <2>1, <2>2 DEF Abstract!NoMore
<1>. QED
  BY <1>2 DEF Abstract!Cut

LEMMA SameCounts ==
  ASSUME sinks' = sinks
  PROVE  UNCHANGED Abstract!counts
<1>1. \A k, marks : KindCount(k, marks)' = KindCount(k, marks)
  BY DEF KindCount, OfKind
<1>2. \A marks : LinksMarked(marks)' = LinksMarked(marks)
  BY <1>1, CountsAre
<1>. QED
  BY <1>2 DEF Abstract!counts

LEMMA UpdateStep ==
  ASSUME Typed, NEW e \in Source, NEW s \in Sink, NEW op \in LinkOps, Update(op, e, s)
  PROVE  \/ op = "connect" /\ Abstract!Tie(e, s, "any")
         \/ op = "subscribe" /\ Abstract!Tie(e, s, "typed")
         \/ op = "disconnect" /\ Abstract!Cut(e, s, Abstract!Types)
         \/ op = "unsubscribe" /\ Abstract!Cut(e, s, {"typed"})
<1>1. Abstract!Types = Types /\ "any" \in Types /\ "typed" \in Types /\ {"typed"} \in SUBSET Types
  BY DEF Abstract!Types, Types
<1>2. CASE op = "connect"
  BY <1>1, <1>2, TieStep DEF Update
<1>3. CASE op = "subscribe"
  BY <1>1, <1>3, TieStep DEF Update
<1>4. CASE op = "disconnect"
  BY <1>1, <1>4, CutStep DEF Update, Disconnect
<1>5. CASE op = "unsubscribe"
  BY <1>1, <1>5, CutStep DEF Update, Unsubscribe
<1>. QED
  BY <1>2, <1>3, <1>4, <1>5 DEF LinkOps

-----------------------------------------------------------------------------
(* Who sends and who receives.                                             *)

LEMMA SendersAre ==
  ASSUME Core, NEW e \in Source
  PROVE  /\ Senders[e] = IF sending[e] THEN owner[e] ELSE None
         /\ \A t \in Thread : owner[e] = t => Senders[e] \in {t, None}
         /\ Senders[e] = None <=> ~sending[e]
         /\ Free(e) => Senders[e] = None
<1>. USE DEF Core
<1>1. Senders[e] = IF sending[e] THEN owner[e] ELSE None
  BY DEF Senders
<1>2. sending[e] => owner[e] \in Thread
  BY DEF Sends, Sender
<1>. QED
  BY <1>1, <1>2 DEF Free

(* A source nobody sends from is locked or released.                       *)
LEMMA SameSenders ==
  ASSUME sending' = sending, \A e \in Source : sending[e] => owner'[e] = owner[e]
  PROVE  Senders' = Senders
BY DEF Senders

LEMMA SameInside ==
  ASSUME Typed, NEW t \in Thread, Step(t), Receiving(t)' = Receiving(t),
         \A u \in Thread : u # t /\ pc[u] = "lockSink" => sending'[call[u].source] = sending[call[u].source]
  PROVE  Inside' = Inside
<1>1. ASSUME NEW u \in Thread
      PROVE  Receiving(u)' = Receiving(u)
  <2>1. CASE u = t
    BY <2>1
  <2>2. CASE u # t
    <3>1. pc'[u] = pc[u] /\ call'[u] = call[u]
      BY <2>2, OthersStay
    <3>. QED
      BY <2>2, <3>1 DEF Receiving
  <2>. QED
    BY <2>1, <2>2
<1>. QED
  BY <1>1 DEF Inside

LEMMA InsideIs ==
  ASSUME Core, NEW t \in Thread
  PROVE  /\ Inside[t] <=> Receiving(t)
         /\ pc[t] = "slot" => Inside[t]
         /\ pc[t] \notin {"slot", "lockSink"} => ~Inside[t]
BY DEF Inside, Receiving

(* A send begins or ends.                                                  *)
LEMMA SendersSet ==
  ASSUME Typed, NEW e \in Source, NEW b \in BOOLEAN, sending' = [sending EXCEPT ![e] = b],
         \A x \in Source \ {e} : sending[x] => owner'[x] = owner[x]
  PROVE  Senders' = [Senders EXCEPT ![e] = IF b THEN owner'[e] ELSE None]
<1>1. \A x \in Source : Senders'[x] = [Senders EXCEPT ![e] = IF b THEN owner'[e] ELSE None][x]
  BY DEF Senders, Typed
<1>. QED
  BY <1>1 DEF Senders

-----------------------------------------------------------------------------
(* The steps, one by one.                                                  *)

LEMMA InitMaps == Init => Abstract!Init
<1>. SUFFICES ASSUME Init PROVE Abstract!Init
  OBVIOUS
<1>1. \A marks : LinksMarked(marks) = [k \in Kind |-> 0]
  <2>1. ASSUME NEW marks, NEW k \in Kind
        PROVE  KindCount(k, marks) = 0
    <3>1. sinks[k[1]] = <<>>
      BY KindParts DEF Init
    <3>. QED
      BY <3>1, CountEmpty DEF KindCount
  <2>. QED
    BY <2>1, CountsAre
<1>2. Senders = [e \in Source |-> None]
  BY DEF Init, Senders
<1>3. Inside = [t \in Thread |-> FALSE]
  BY DEF Init, Inside, Receiving
<1>. QED
  BY <1>1, <1>2, <1>3, CountsAre DEF Init, Abstract!Init, NoCall, Abstract!NoCall

LEMMA CallMaps ==
  ASSUME Core, NEW t \in Thread, Calls(t)
  PROVE  Abstract!Begin(t)
<1>. USE DEF Core
<1>1. PICK op, e, s, label : Begun(t, op, e, s, label)
  BY CallsBegin
<1>2. /\ call' = [call EXCEPT ![t] = [op |-> op, source |-> e, sink |-> s]]
      /\ op \in LinkOps \cup {"send", "deleteSource", "deleteSink"}
      /\ e \in Source \cup {None} /\ s \in Sink \cup {None}
      /\ UNCHANGED <<alive, links, sends, owner>>
      /\ pc'[t] = label /\ call'[t].source = e
  <2>1. op \in LinkOps \/ op \in {"send", "deleteSource", "deleteSink"}
    BY <1>1 DEF Begun, DeleteOps
  <2>. QED
    BY <1>1, <2>1, BegunIs DEF Begun, Enter
<1>3. \/ pc[t] = "idle" /\ label \in {"lockSource", "lockGlobal", "lockSelf"} /\ call[t].op = "none"
      \/ /\ pc[t] = "slot" /\ label = "lockSink" /\ op \in LinkOps /\ e = call[t].source
         /\ call[t].op = "send" /\ sending[e]
  <2>1. op \in LinkOps \/ op \in {"send", "deleteSource", "deleteSink"}
    BY <1>1 DEF Begun, DeleteOps
  <2>2. CASE pc[t] = "idle"
    BY <1>1, <2>1, <2>2, ThreadAt DEF Begun
  <2>3. CASE pc[t] = "slot"
    BY <1>1, <2>3, ThreadAt DEF Begun, Sends
  <2>. QED
    BY <1>1, <2>2, <2>3 DEF Begun
<1>4. Inside' = Inside
  <2>1. Receiving(t)' = Receiving(t)
    BY <1>2, <1>3 DEF Receiving, sends
  <2>. QED
    BY <1>2, <2>1, SameInside DEF Step, sends
<1>5. Senders' = Senders
  BY <1>2, SameSenders DEF sends
<1>6. UNCHANGED Abstract!counts
  BY <1>2, SameCounts DEF links
<1>7. Inside[t] => op \in LinkOps /\ e = call[t].source
  BY <1>3, InsideIs
<1>8. call[t].op = "none" \/ (call[t].op = "send" /\ Inside[t])
  BY <1>3, InsideIs
<1>. QED
  BY <1>2, <1>4, <1>5, <1>6, <1>7, <1>8 DEF Abstract!Begin, Abstract!LinkOps, LinkOps

LEMMA LinkMaps ==
  ASSUME Core, NEW t \in Thread, Link(t)
  PROVE  Abstract!ChangeLink(t)
<1>. USE DEF Core
<1> DEFINE e == call[t].source
           s == call[t].sink
<1>1. /\ e \in Source /\ s \in Sink /\ call[t].op \in LinkOps /\ owner[e] = t
      /\ pc[t] = "lockSink" /\ Update(call[t].op, e, s) /\ alive' = alive /\ sending' = sending
  BY ThreadAt, OwnSource DEF Link
<1>2. e \in alive /\ s \in alive
  BY <1>1 DEF NamedLive, Names
<1>3. /\ \/ Senders[e] = t /\ call' = [call EXCEPT ![t] = Abstract!Sending(e)] /\ pc'[t] = "slot" /\ sending[e]
         \/ Senders[e] = None /\ call' = [call EXCEPT ![t] = NoCall] /\ pc'[t] = "idle" /\ ~sending[e]
      /\ Senders' = Senders
  <2>1. CASE sending[e]
    <3>1. /\ call' = [call EXCEPT ![t] = [op |-> "send", source |-> e, sink |-> None]]
          /\ pc'[t] = "slot" /\ owner' = owner
      BY <2>1 DEF Link, Goto, Typed
    <3>2. Senders' = Senders
      BY <1>1, <3>1, SameSenders
    <3>3. Senders[e] = t
      BY <1>1, <2>1, SendersAre
    <3>. QED
      BY <2>1, <3>1, <3>2, <3>3 DEF Abstract!Sending
  <2>2. CASE ~sending[e]
    <3>1. call' = [call EXCEPT ![t] = NoCall] /\ pc'[t] = "idle" /\ Release({e})
      BY <2>2 DEF Link, Goto, Leave, Typed
    <3>2. \A x \in Source : x # e => owner'[x] = owner[x]
      BY <3>1 DEF Release, Locks
    <3>3. Senders' = Senders
      BY <1>1, <2>2, <3>2, SameSenders
    <3>4. Senders[e] = None
      BY <1>1, <2>2, SendersAre
    <3>. QED
      BY <2>2, <3>1, <3>3, <3>4
  <2>. QED
    BY <2>1, <2>2
<1>4. Inside' = Inside
  <2>1. Receiving(t)' = Receiving(t)
    BY <1>1, <1>3 DEF Receiving
  <2>. QED
    BY <1>1, <2>1, SameInside DEF Step, Proceed
<1>5. NoCall = Abstract!NoCall
  BY DEF NoCall, Abstract!NoCall
<1>6. \/ call[t].op = "connect" /\ Abstract!Tie(e, s, "any")
      \/ call[t].op = "subscribe" /\ Abstract!Tie(e, s, "typed")
      \/ call[t].op = "disconnect" /\ Abstract!Cut(e, s, Abstract!Types)
      \/ call[t].op = "unsubscribe" /\ Abstract!Cut(e, s, {"typed"})
  BY <1>1, UpdateStep
<1>. QED
  BY <1>1, <1>2, <1>3, <1>4, <1>5, <1>6 DEF Abstract!ChangeLink

LEMMA StartMaps ==
  ASSUME Core, NEW t \in Thread, StartSend(t)
  PROVE  Abstract!BeginSend(t)
<1>. USE DEF Core
<1> DEFINE e == call[t].source
<1>1. /\ e \in Source /\ pc[t] = "lockSource" /\ call[t].op = "send" /\ Free(e)
      /\ owner' = [owner EXCEPT ![e] = t] /\ sending' = [sending EXCEPT ![e] = TRUE]
      /\ pc'[t] = "send" /\ alive' = alive /\ call' = call
  <2>1. e \in Source /\ pc[t] = "lockSource" /\ call[t].op = "send"
    BY ThreadAt DEF StartSend
  <2>2. /\ Lock(t, e) /\ sending' = [sending EXCEPT ![e] = TRUE]
        /\ Goto(t, "send") /\ alive' = alive /\ call' = call
    BY DEF StartSend
  <2>3. Free(e) /\ owner' = [owner EXCEPT ![e] = t]
    BY <2>2, Zenon DEF Lock
  <2>4. pc'[t] = "send"
    BY <2>2 DEF Goto, Typed
  <2>. HIDE DEF e
  <2>. QED
    BY <2>1, <2>2, <2>3, <2>4, Zenon
<1>2. e \in alive
  BY <1>1 DEF NamedLive, Names
<1>3. Senders[e] = None
  BY <1>1, SendersAre
<1>4. Senders' = [Senders EXCEPT ![e] = t]
  <2>1. owner'[e] = t /\ \A x \in Source \ {e} : owner'[x] = owner[x]
    BY <1>1 DEF Typed, Locks
  <2>2. Senders' = [Senders EXCEPT ![e] = IF TRUE THEN owner'[e] ELSE None]
    BY <1>1, <2>1, SendersSet
  <2>. QED
    BY <2>1, <2>2
<1>5. Inside' = Inside
  <2>1. Receiving(t)' = Receiving(t)
    BY <1>1 DEF Receiving
  <2>2. ASSUME NEW u \in Thread, u # t, pc[u] = "lockSink"
        PROVE  sending'[call[u].source] = sending[call[u].source]
    <3>1. call[u].source \in Source /\ owner[call[u].source] = u
      BY <2>2, OwnSource
    <3>2. call[u].source # e
      BY <1>1, <3>1 DEF Free
    <3>. QED
      BY <1>1, <3>1, <3>2 DEF Typed
  <2>. QED
    BY <2>1, <2>2, SameInside DEF Step, Proceed
<1>6. ASSUME NEW k \in Kind
      PROVE  /\ KindCount(k, Marks)' = KindCount(k, Marks)
             /\ KindCount(k, {"due"})' = IF k[1] = e THEN KindCount(k, Marks) ELSE KindCount(k, {"due"})
             /\ KindCount(k, {"new"})' = IF k[1] = e THEN 0 ELSE KindCount(k, {"new"})
  BY StartKind
<1>7. /\ LinksMarked(Marks)' = LinksMarked(Marks)
      /\ LinksMarked({"due"})' =
           [k \in Kind |-> IF k[1] = e THEN LinksMarked(Marks)[k] ELSE LinksMarked({"due"})[k]]
      /\ LinksMarked({"new"})' = [k \in Kind |-> IF k[1] = e THEN 0 ELSE LinksMarked({"new"})[k]]
  <2>1. \A marks : \A k \in Kind : LinksMarked(marks)[k] = KindCount(k, marks)
    BY CountsAre
  <2>. QED
    BY <1>6, <2>1, CountsAre
<1>. QED
  BY <1>1, <1>2, <1>3, <1>4, <1>5, <1>7, CountsAre DEF Abstract!BeginSend

LEMMA VisitMaps ==
  ASSUME Core, DeadUnlinked, \A x \in Source, y \in Sink : Agree(x, y), NEW t \in Thread, Visit(t)
  PROVE  Abstract!Deliver(t) \/ UNCHANGED Abstract!dVars
<1>. USE DEF Core
<1> DEFINE e == call[t].source
<1>1. /\ e \in Source /\ pc[t] = "send" /\ call[t].op = "send" /\ owner[e] = t /\ sending[e]
      /\ alive' = alive /\ sending' = sending /\ owner' = owner /\ call' = call
  BY ThreadAt, OwnSource DEF Visit, Sends
<1>2. Senders' = Senders /\ Senders[e] = t
  <2>1. Senders[e] = t
    BY <1>1, SendersAre
  <2>. QED
    BY <1>1, <2>1, SameSenders
<1>3. CASE sinks[e][it[e]].sink = None
  <2>1. sinks' = sinks /\ pc' = pc
    BY <1>3, VisitedEntries
  <2>2. Inside' = Inside
    BY <1>1, <2>1 DEF Inside, Receiving
  <2>. QED
    BY <1>1, <1>2, <2>1, <2>2, SameCounts DEF Abstract!dVars
<1>4. CASE sinks[e][it[e]].sink # None
  <2>1. pc' = [pc EXCEPT ![t] = "slot"]
    BY <1>4 DEF Visit, Goto
  <2>2. Inside' = [Inside EXCEPT ![t] = TRUE]
    <3>1. ASSUME NEW u \in Thread, u # t
          PROVE  Receiving(u)' = Receiving(u)
      <4>1. pc'[u] = pc[u]
        BY <2>1, <3>1 DEF Typed
      <4>. QED
        BY <1>1, <4>1 DEF Receiving
    <3>2. Receiving(t)' = TRUE
      BY <2>1 DEF Receiving, Typed
    <3>. QED
      BY <3>1, <3>2 DEF Inside
  <2>3. ~Inside[t]
    BY <1>1, InsideIs
  <2>4. PICK k \in Kind, M \in {{"due"}, {"new"}} :
          /\ k[1] = e
          /\ \E i \in 1..Len(sinks[k[1]]) : sinks[k[1]][i] \in OfKind(k, Marks)
          /\ KindCount(k, M) > 0 /\ KindCount(k, M)' = KindCount(k, M) - 1
          /\ \A j \in Kind, marks \in {Marks, {"due"}, {"new"}} :
               ~(j = k /\ marks = M) => KindCount(j, marks)' = KindCount(j, marks)
    BY <1>4, VisitKind
  <2>5. k[2] \in alive /\ KindCount(k, Marks) > 0
    <3>1. PICK i \in 1..Len(sinks[e]) : sinks[e][i] \in OfKind(k, Marks)
      BY <2>4
    <3>2. sinks[e] \in Seq(Entry) /\ k[2] \in Sink
      BY <1>1, KindParts DEF Typed
    <3>3. sinks[e][i].sink = k[2]
      BY <3>1 DEF OfKind
    <3>4. Count(sinks[e], OfKind(k, Marks)) \in Nat /\ Count(sinks[e], OfKind(k, Marks)) # 0
      BY <3>1, <3>2, CountType
    <3>. QED
      BY <1>1, <2>4, <3>1, <3>2, <3>3, <3>4, LinkedLive DEF KindCount
  <2>6. LinksMarked(Marks)' = LinksMarked(Marks)
    <3>1. "sent" \in Marks /\ "sent" \notin M
      BY <2>4 DEF Marks
    <3>2. \A j \in Kind : KindCount(j, Marks)' = KindCount(j, Marks)
      BY <2>4, <3>1
    <3>. QED
      BY <3>2, CountsAre
  <2>7. LinksMarked(M)' = [LinksMarked(M) EXCEPT ![k] = @ - 1]
    <3>1. \A j \in Kind : KindCount(j, M)' = IF j = k THEN KindCount(j, M) - 1 ELSE KindCount(j, M)
      BY <2>4
    <3>2. LinksMarked(M) = [j \in Kind |-> KindCount(j, M)]
      BY CountsAre
    <3>3. LinksMarked(M)' = [j \in Kind |-> KindCount(j, M)']
      BY CountsAre
    <3>. QED
      BY <3>1, <3>2, <3>3
  <2>8. ASSUME NEW marks \in {{"due"}, {"new"}}, marks # M
        PROVE  LinksMarked(marks)' = LinksMarked(marks)
    <3>1. \A j \in Kind : KindCount(j, marks)' = KindCount(j, marks)
      BY <2>4, <2>8
    <3>. QED
      BY <3>1, CountsAre
  <2>9. \A marks : LinksMarked(marks)[k] = KindCount(k, marks)
    BY CountsAre
  <2>10. \/ /\ LinksMarked({"due"})[k] > 0 /\ LinksMarked({"due"})' = [LinksMarked({"due"}) EXCEPT ![k] = @ - 1]
            /\ LinksMarked({"new"})' = LinksMarked({"new"})
         \/ /\ LinksMarked({"new"})[k] > 0 /\ LinksMarked({"new"})' = [LinksMarked({"new"}) EXCEPT ![k] = @ - 1]
            /\ LinksMarked({"due"})' = LinksMarked({"due"})
    <3>0. {"due"} # {"new"}
      OBVIOUS
    <3>1. CASE M = {"due"}
      BY <2>4, <2>7, <2>8, <2>9, <3>0, <3>1
    <3>2. CASE M = {"new"}
      BY <2>4, <2>7, <2>8, <2>9, <3>0, <3>2
    <3>. QED
      BY <3>1, <3>2
  <2>11. LinksMarked(Marks)[k] > 0
    BY <2>5, <2>9
  <2>. QED
    BY <1>1, <1>2, <2>2, <2>3, <2>4, <2>5, <2>6, <2>10, <2>11, CountsAre DEF Abstract!Deliver
<1>. QED
  BY <1>3, <1>4

LEMMA ReturnMaps ==
  ASSUME Core, NEW t \in Thread, Return(t)
  PROVE  Abstract!Return(t)
<1>. USE DEF Core
<1>1. /\ pc[t] = "slot" /\ pc' = [pc EXCEPT ![t] = "send"] /\ call[t].op = "send"
      /\ alive' = alive /\ sinks' = sinks /\ sending' = sending /\ owner' = owner /\ call' = call
  BY ThreadAt DEF Return, Goto, links
<1>2. Inside' = [Inside EXCEPT ![t] = FALSE]
  <2>1. ASSUME NEW u \in Thread, u # t
        PROVE  Receiving(u)' = Receiving(u)
    <3>1. pc'[u] = pc[u]
      BY <1>1, <2>1 DEF Typed
    <3>. QED
      BY <1>1, <3>1 DEF Receiving
  <2>2. Receiving(t)' = FALSE
    BY <1>1 DEF Receiving, Typed
  <2>. QED
    BY <2>1, <2>2 DEF Inside
<1>3. Inside[t]
  BY <1>1, InsideIs
<1>4. Senders' = Senders
  BY <1>1, SameSenders
<1>. QED
  BY <1>1, <1>2, <1>3, <1>4, SameCounts DEF Abstract!Return

LEMMA EndMaps ==
  ASSUME Core, NEW t \in Thread, Finish(t) \/ Throw(t)
  PROVE  Abstract!EndSend(t)
<1>. USE DEF Core
<1> DEFINE e == call[t].source
<1>1. /\ e \in Source /\ pc[t] \in {"send", "slot"} /\ call[t].op = "send" /\ owner[e] = t /\ sending[e]
      /\ EndSend(t, e)
  BY ThreadAt, OwnSource DEF Finish, Throw, Sends
<1>2. /\ sending' = [sending EXCEPT ![e] = FALSE] /\ Release({e}) /\ alive' = alive
      /\ call' = [call EXCEPT ![t] = NoCall] /\ pc' = [pc EXCEPT ![t] = "idle"]
  BY <1>1 DEF EndSend, Leave, Goto
<1>3. Senders[e] = t
  BY <1>1, SendersAre
<1>4. Senders' = [Senders EXCEPT ![e] = None]
  <2>1. \A x \in Source \ {e} : owner'[x] = owner[x]
    BY <1>2 DEF Release, Locks
  <2>2. Senders' = [Senders EXCEPT ![e] = IF FALSE THEN owner'[e] ELSE None]
    BY <1>1, <1>2, <2>1, SendersSet
  <2>. QED
    BY <2>2
<1>5. Inside' = [Inside EXCEPT ![t] = FALSE]
  <2>1. ASSUME NEW u \in Thread, u # t
        PROVE  Receiving(u)' = Receiving(u)
    <3>1. pc'[u] = pc[u] /\ call'[u] = call[u]
      BY <1>2, <2>1 DEF Typed
    <3>2. CASE pc[u] = "lockSink"
      <4>1. call[u].source \in Source /\ owner[call[u].source] = u
        BY <3>2, OwnSource
      <4>2. sending'[call[u].source] = sending[call[u].source]
        BY <1>1, <1>2, <2>1, <4>1 DEF Typed
      <4>. QED
        BY <3>1, <4>2 DEF Receiving
    <3>3. CASE pc[u] # "lockSink"
      BY <3>1, <3>3 DEF Receiving
    <3>. QED
      BY <3>2, <3>3
  <2>2. Receiving(t)' = FALSE
    BY <1>2 DEF Receiving, Typed
  <2>. QED
    BY <2>1, <2>2 DEF Inside
<1>6. Inside[t] \/ \A k \in Kind : k[1] = e => LinksMarked({"due"})[k] = 0
  <2>1. CASE Throw(t)
    BY <2>1, InsideIs DEF Throw
  <2>2. CASE Finish(t)
    <3>1. ASSUME NEW k \in Kind, k[1] = e
          PROVE  KindCount(k, {"due"}) = 0
      <4>1. sinks[e] \in Seq(Entry) /\ it[e] \in Nat /\ pc[t] = "send" /\ it[e] > Len(sinks[e])
        BY <1>1, <2>2 DEF Finish, Typed
      <4>2. Served(e) = it[e] - 1
        BY <1>1, <4>1 DEF Served
      <4>3. \A i \in 1..Len(sinks[e]) : sinks[e][i].sink # None => sinks[e][i].mark # "due"
        BY <1>1, <4>1, <4>2 DEF InOrder
      <4>4. \A i \in 1..Len(sinks[e]) : sinks[e][i] \notin OfKind(k, {"due"})
        BY <4>3, KindParts DEF OfKind
      <4>. QED
        BY <3>1, <4>1, <4>4, CountType DEF KindCount
    <3>. QED
      BY <3>1, CountsAre
  <2>. QED
    BY <2>1, <2>2
<1>7. ASSUME NEW k \in Kind
      PROVE  /\ KindCount(k, Marks)' = KindCount(k, Marks)
             /\ KindCount(k, {"due"})' = IF k[1] = e THEN 0 ELSE KindCount(k, {"due"})
             /\ KindCount(k, {"new"})' = IF k[1] = e THEN KindCount(k, Marks) ELSE KindCount(k, {"new"})
  BY <1>1, EndKind
<1>8. /\ LinksMarked(Marks)' = LinksMarked(Marks)
      /\ LinksMarked({"due"})' = [k \in Kind |-> IF k[1] = e THEN 0 ELSE LinksMarked({"due"})[k]]
      /\ LinksMarked({"new"})' =
           [k \in Kind |-> IF k[1] = e THEN LinksMarked(Marks)[k] ELSE LinksMarked({"new"})[k]]
  <2>1. \A marks : \A k \in Kind : LinksMarked(marks)[k] = KindCount(k, marks)
    BY CountsAre
  <2>. QED
    BY <1>7, <2>1, CountsAre
<1>. QED
  BY <1>1, <1>2, <1>3, <1>4, <1>5, <1>6, <1>8, CountsAre DEF Abstract!EndSend, NoCall, Abstract!NoCall

(* Steps that Delivery does not see: a mutex is taken or given back by one *)
(* who sends from nowhere.                                                 *)
LEMMA MutexMaps ==
  ASSUME Core, NEW t \in Thread, Step(t), alive' = alive, links' = links, sends' = sends, call' = call,
         ~Receiving(t), ~Receiving(t)',
         \A x \in Source : owner'[x] # owner[x] => ~sending[x]
  PROVE  UNCHANGED Abstract!dVars
<1>. USE DEF Core
<1>1. Senders' = Senders
  BY SameSenders DEF sends
<1>2. Receiving(t)' = Receiving(t)
  <2>1. ~Receiving(t) /\ ~Receiving(t)'
    OBVIOUS
  <2>. QED
    BY <2>1 DEF Receiving
<1>3. Inside' = Inside
  BY <1>2, SameInside DEF sends
<1>. QED
  BY <1>1, <1>3, SameCounts DEF Abstract!dVars, links

LEMMA LocksMap ==
  ASSUME Core, NEW t \in Thread, LockSource(t) \/ LockGlobal(t) \/ Try(t)
  PROVE  UNCHANGED Abstract!dVars
<1>. USE DEF Core
<1>1. CASE LockSource(t)
  <2> DEFINE e == call[t].source
  <2>1. /\ e \in Source /\ Free(e) /\ owner' = [owner EXCEPT ![e] = t] /\ pc[t] = "lockSource" /\ pc'[t] = "lockSink"
        /\ alive' = alive /\ links' = links /\ sends' = sends /\ call' = call
    BY <1>1, ThreadAt DEF LockSource, Lock, Goto, Typed
  <2>2. ~sending[e]
    BY <2>1, FreeNotSending
  <2>3. \A x \in Source : owner'[x] # owner[x] => ~sending[x]
    BY <2>1, <2>2 DEF Typed, Locks
  <2>. QED
    BY <1>1, <2>1, <2>2, <2>3, MutexMaps DEF Receiving, sends, Step, Proceed
<1>2. CASE LockGlobal(t)
  <2>1. /\ owner' = [owner EXCEPT ![Dmx] = t] /\ pc[t] = "lockGlobal" /\ pc'[t] = "lockOwn"
        /\ alive' = alive /\ links' = links /\ sends' = sends /\ call' = call
    BY <1>2 DEF LockGlobal, Lock, Goto, Typed
  <2>2. \A x \in Source : owner'[x] # owner[x] => ~sending[x]
    BY <2>1 DEF Typed, Locks
  <2>. QED
    BY <1>2, <2>1, <2>2, MutexMaps DEF Receiving, Step, Proceed
<1>3. CASE Try(t)
  <2>1. /\ pc[t] = "try" /\ pc'[t] \in {"cutSource", "lockSelf"} /\ call[t].sink \in Sink
        /\ owner' = [owner EXCEPT ![Dmx] = t] \/ Release({call[t].sink})
        /\ alive' = alive /\ links' = links /\ sends' = sends /\ call' = call
    BY <1>3, ThreadAt DEF Try, Lock, Goto, Typed
  <2>2. \A x \in Source : owner'[x] = owner[x]
    BY <2>1 DEF Typed, Locks, Release
  <2>. QED
    BY <1>3, <2>1, <2>2, MutexMaps DEF Receiving, Step, Proceed
<1>. QED
  BY <1>1, <1>2, <1>3

(* A destructor has the mutex of a source, and both sides of the link.     *)
LEMMA CutMaps ==
  ASSUME Core, DeadUnlinked, \A x \in Source, y \in Sink : Agree(x, y), NEW t \in Thread, CutSink(t) \/ CutSource(t)
  PROVE  Abstract!CutLink(t)
<1>. USE DEF Core
<1>1. PICK e \in Source, s \in Sink :
        /\ Disconnect(e, s)
        /\ \/ call[t].op = "deleteSource" /\ call[t].source = e
           \/ call[t].op = "deleteSink" /\ call[t].sink = s
        /\ ~sending[e]
        /\ (\E i \in 1..Len(sinks[e]) : sinks[e][i].sink = s) \/ (\E i \in 1..Len(sources[s]) : sources[s][i] = e)
  <2>1. CASE CutSink(t)
    <3> DEFINE e == call[t].source
               s == sinks[e][1].sink
    <3>1. /\ e \in Source /\ s \in Sink /\ Disconnect(e, s) /\ sinks[e] # <<>> /\ ~sending[e]
          /\ call[t].op = "deleteSource"
      BY <2>1, CutsALink, ThreadAt DEF CutSink
    <3>2. 1 \in 1..Len(sinks[e])
      BY <3>1 DEF Typed
    <3>. QED
      BY <3>1, <3>2
  <2>2. CASE CutSource(t)
    <3> DEFINE s == call[t].sink
               e == Head(sources[s])
    <3>1. /\ e \in Source /\ s \in Sink /\ Disconnect(e, s) /\ sources[s] # <<>> /\ Free(e)
          /\ call[t].op = "deleteSink"
      BY <2>2, CutsALink, ThreadAt DEF CutSource
    <3>2. 1 \in 1..Len(sources[s]) /\ sources[s][1] = e
      BY <3>1 DEF Typed
    <3>3. ~sending[e]
      BY <3>1, FreeNotSending
    <3>. QED
      BY <3>1, <3>2, <3>3
  <2>. QED
    BY <2>1, <2>2
<1>2. e \in alive /\ s \in alive
  BY <1>1, LinkedLive
<1>3. /\ alive' = alive /\ sending' = sending /\ call' = call
      /\ pc[t] \in {"cutSink", "cutSource"} /\ pc'[t] \in {"lockOwn", "lockSelf"}
      /\ \A x \in Source : owner'[x] # owner[x] => ~sending[x]
  <2>1. CASE CutSink(t)
    <3>1. /\ alive' = alive /\ sending' = sending /\ call' = call /\ Release({call[t].source})
          /\ pc[t] = "cutSink" /\ pc'[t] = "lockOwn"
      BY <2>1 DEF CutSink, Goto, Typed
    <3>2. ~sending[call[t].source]
      BY <3>1, CutsALink
    <3>3. \A x \in Source : x # call[t].source => owner'[x] = owner[x]
      BY <3>1 DEF Release, Locks
    <3>. QED
      BY <3>1, <3>2, <3>3
  <2>2. CASE CutSource(t)
    <3>1. /\ alive' = alive /\ sending' = sending /\ call' = call /\ Release({call[t].sink, Dmx})
          /\ pc[t] = "cutSource" /\ pc'[t] = "lockSelf" /\ call[t].sink \in Sink
      BY <2>2, CutsALink DEF CutSource, Goto, Typed
    <3>2. \A x \in Source : owner'[x] = owner[x]
      BY <3>1 DEF Release, Locks
    <3>. QED
      BY <3>1, <3>2
  <2>. QED
    BY <2>1, <2>2
<1>4. Senders' = Senders /\ Senders[e] = None
  BY <1>1, <1>3, SameSenders, SendersAre
<1>5. Inside' = Inside
  <2>1. Receiving(t)' = Receiving(t)
    BY <1>3 DEF Receiving
  <2>. QED
    BY <1>3, <2>1, SameInside DEF Step, Proceed
<1>6. Abstract!Cut(e, s, Abstract!Types)
  <2>1. Types \in SUBSET Types /\ Abstract!Types = Types
    BY DEF Abstract!Types, Types
  <2>2. Take(e, s, Types)
    BY <1>1 DEF Disconnect
  <2>. QED
    BY <2>1, <2>2, CutStep
<1>7. \E k \in Abstract!Between(e, s, Abstract!Types) : LinksMarked(Marks)[k] > 0
  <2>1. sinks[e] \in Seq(Entry) /\ sources[s] \in Seq(Source)
    BY DEF Typed
  <2>2. \E i \in 1..Len(sinks[e]) : sinks[e][i].sink = s
    <3>1. CASE \E i \in 1..Len(sources[s]) : sources[s][i] = e
      <4>1. Count(sources[s], {e}) # 0
        BY <2>1, <3>1, CountType
      <4>2. Count(sinks[e], EntriesFor(s, Types)) # 0
        BY <4>1 DEF Agree
      <4>3. PICK i \in 1..Len(sinks[e]) : sinks[e][i] \in EntriesFor(s, Types)
        BY <2>1, <4>2, CountType
      <4>. QED
        BY <4>3 DEF EntriesFor
    <3>. QED
      BY <1>1, <3>1
  <2>3. PICK i \in 1..Len(sinks[e]) : sinks[e][i].sink = s
    BY <2>2
  <2>4. sinks[e][i] \in Entry /\ sinks[e][i].type \in Types /\ sinks[e][i].mark \in Marks
    <3>1. sinks[e][i] \in Entry
      BY <2>1
    <3>2. \A x \in Entry : x.type \in Types /\ x.mark \in Marks
      BY DEF Entry
    <3>. QED
      BY <3>1, <3>2
  <2>5. PICK k \in Kind : k[1] = e /\ k[2] = s /\ k[3] = sinks[e][i].type
    <3> DEFINE x == <<e, s, sinks[e][i].type>>
    <3>1. x \in Kind /\ x[1] = e /\ x[2] = s /\ x[3] = sinks[e][i].type
      BY <2>4 DEF Kind
    <3>. HIDE DEF x
    <3>. QED
      BY <3>1
  <2>6. sinks[e][i] \in OfKind(k, Marks)
    BY <2>3, <2>4, <2>5, EntryOfKind
  <2>7. Count(sinks[e], OfKind(k, Marks)) \in Nat /\ Count(sinks[e], OfKind(k, Marks)) # 0
    BY <2>1, <2>6, CountType
  <2>8. KindCount(k, Marks) > 0 /\ KindCount(k, Marks) = LinksMarked(Marks)[k]
    BY <2>5, <2>7, CountsAre DEF KindCount
  <2>9. k \in Abstract!Between(e, s, Abstract!Types)
    BY <2>4, <2>5, CountsAre DEF Abstract!Between, Abstract!Types, Types
  <2>. QED
    BY <2>8, <2>9
<1>. QED
  BY <1>1, <1>2, <1>3, <1>4, <1>5, <1>6, <1>7 DEF Abstract!CutLink

LEMMA DeleteSourceMaps ==
  ASSUME Core, NEW t \in Thread, LockOwn(t)
  PROVE  Abstract!DeleteSource(t) \/ UNCHANGED Abstract!dVars
<1>. USE DEF Core
<1> DEFINE e == call[t].source
<1>1. /\ e \in Source /\ call[t].op = "deleteSource" /\ pc[t] = "lockOwn" /\ Free(e) /\ ~sending[e]
      /\ links' = links /\ sends' = sends
  BY ThreadAt, FreeNotSending DEF LockOwn
<1>2. CASE sinks[e] = <<>>
  <2>1. /\ alive' = alive \ {e} /\ Release({Dmx}) /\ call' = [call EXCEPT ![t] = NoCall] /\ pc'[t] = "idle"
    BY <1>1, <1>2 DEF LockOwn, Leave, Goto, Typed
  <2>2. e \in alive
    BY <1>1 DEF NamedLive, Names
  <2>3. \A x \in Source : owner'[x] = owner[x]
    BY <2>1 DEF Release, Locks
  <2>4. Senders' = Senders /\ Senders[e] = None
    BY <1>1, <2>3, SameSenders, SendersAre DEF sends
  <2>5. Inside' = Inside
    <3>1. Receiving(t)' = Receiving(t)
      BY <1>1, <2>1 DEF Receiving
    <3>. QED
      BY <1>1, <3>1, SameInside DEF Step, Proceed, sends
  <2>6. \A k \in Kind : k[1] = e => LinksMarked(Marks)[k] = 0
    BY <1>2, CountEmpty, CountsAre DEF KindCount
  <2>. QED
    BY <1>1, <2>1, <2>2, <2>4, <2>5, <2>6, SameCounts, CountsAre
       DEF Abstract!DeleteSource, NoCall, Abstract!NoCall, links
<1>3. CASE sinks[e] # <<>>
  <2>1. /\ alive' = alive /\ owner' = [owner EXCEPT ![e] = t] /\ call' = call /\ pc'[t] = "cutSink"
    BY <1>1, <1>3 DEF LockOwn, Lock, Goto, Typed
  <2>2. \A x \in Source : owner'[x] # owner[x] => ~sending[x]
    BY <1>1, <2>1 DEF Typed, Locks
  <2>. QED
    BY <1>1, <2>1, <2>2, MutexMaps DEF Receiving, Step, Proceed
<1>. QED
  BY <1>2, <1>3

(* No source has an entry for a sink that lists none: its destructor ends  *)
(* when nothing leads to it.                                               *)
LEMMA DeleteSinkMaps ==
  ASSUME Core, \A x \in Source, y \in Sink : Agree(x, y), NEW t \in Thread, LockSelf(t)
  PROVE  Abstract!DeleteSink(t) \/ UNCHANGED Abstract!dVars
<1>. USE DEF Core
<1> DEFINE s == call[t].sink
<1>1. /\ s \in Sink /\ call[t].op = "deleteSink" /\ pc[t] = "lockSelf"
      /\ links' = links /\ sends' = sends
  BY ThreadAt DEF LockSelf
<1>2. CASE sources[s] = <<>>
  <2>1. /\ alive' = alive \ {s} /\ owner' = owner /\ call' = [call EXCEPT ![t] = NoCall] /\ pc'[t] = "idle"
    BY <1>1, <1>2 DEF LockSelf, Leave, Goto, Typed
  <2>2. s \in alive
    BY <1>1 DEF NamedLive, Names
  <2>3. Senders' = Senders
    BY <1>1, <2>1, SameSenders DEF sends
  <2>4. Inside' = Inside
    <3>1. Receiving(t)' = Receiving(t)
      BY <1>1, <2>1 DEF Receiving
    <3>. QED
      BY <1>1, <3>1, SameInside DEF Step, Proceed, sends
  <2>5. ASSUME NEW k \in Kind, k[2] = s
        PROVE  KindCount(k, Marks) = 0
    <3> DEFINE e == k[1]
    <3>1. e \in Source /\ k[3] \in Types /\ sinks[e] \in Seq(Entry)
      BY KindParts DEF Typed
    <3>2. Count(sinks[e], EntriesFor(s, Types)) = 0
      BY <1>1, <1>2, <3>1, CountEmpty DEF Agree
    <3>3. \A i \in 1..Len(sinks[e]) : sinks[e][i] \notin EntriesFor(s, Types)
      BY <3>1, <3>2, CountType
    <3>4. \A i \in 1..Len(sinks[e]) : sinks[e][i] \notin OfKind(k, Marks)
      BY <2>5, <3>1, <3>3 DEF OfKind, EntriesFor
    <3>. QED
      BY <3>1, <3>4, CountType DEF KindCount
  <2>6. \A k \in Kind : k[2] = s => LinksMarked(Marks)[k] = 0
    BY <2>5, CountsAre
  <2>. QED
    BY <1>1, <2>1, <2>2, <2>3, <2>4, <2>6, SameCounts, CountsAre
       DEF Abstract!DeleteSink, NoCall, Abstract!NoCall, links
<1>3. CASE sources[s] # <<>>
  <2>1. /\ alive' = alive /\ owner' = [owner EXCEPT ![s] = t] /\ call' = call /\ pc'[t] = "try"
    BY <1>1, <1>3 DEF LockSelf, Lock, Goto, Typed
  <2>2. \A x \in Source : owner'[x] = owner[x]
    BY <1>1, <2>1 DEF Typed, Locks
  <2>. QED
    BY <1>1, <2>1, <2>2, MutexMaps DEF Receiving, Step, Proceed
<1>. QED
  BY <1>2, <1>3

LEMMA StepMaps ==
  ASSUME Core, DeadUnlinked, \A x \in Source, y \in Sink : Agree(x, y), [Next]_vars
  PROVE  [Abstract!Next]_Abstract!dVars
<1>1. ASSUME NEW t \in Thread, Step(t)
      PROVE  Abstract!Next \/ UNCHANGED Abstract!dVars
  <2>1. CASE Calls(t)
    BY <2>1, CallMaps DEF Abstract!Next
  <2>2. CASE LockSource(t) \/ LockGlobal(t) \/ Try(t)
    BY <2>2, LocksMap
  <2>3. CASE Link(t)
    BY <2>3, LinkMaps DEF Abstract!Next
  <2>4. CASE StartSend(t)
    BY <2>4, StartMaps DEF Abstract!Next
  <2>5. CASE Visit(t)
    BY <2>5, VisitMaps DEF Abstract!Next
  <2>6. CASE Return(t)
    BY <2>6, ReturnMaps DEF Abstract!Next
  <2>7. CASE Finish(t) \/ Throw(t)
    BY <2>7, EndMaps DEF Abstract!Next
  <2>8. CASE LockOwn(t)
    BY <2>8, DeleteSourceMaps DEF Abstract!Next
  <2>9. CASE CutSink(t) \/ CutSource(t)
    BY <2>9, CutMaps DEF Abstract!Next
  <2>10. CASE LockSelf(t)
    BY <2>10, DeleteSinkMaps DEF Abstract!Next
  <2>. QED
    BY <1>1, <2>1, <2>2, <2>3, <2>4, <2>5, <2>6, <2>7, <2>8, <2>9, <2>10 DEF Step, Proceed
<1>2. CASE UNCHANGED vars
  <2>1. /\ alive' = alive /\ sinks' = sinks /\ sending' = sending /\ owner' = owner /\ pc' = pc /\ call' = call
    BY <1>2 DEF vars, links, sends
  <2>2. Senders' = Senders /\ Inside' = Inside
    BY <2>1 DEF Senders, Inside, Receiving
  <2>. QED
    BY <2>1, <2>2, SameCounts DEF Abstract!dVars
<1>. QED
  BY <1>1, <1>2, NextIsStep

(* Whatever the threads do, every call takes effect at once, a send serves *)
(* what it found and is still linked, once, and an object is destroyed     *)
(* when nothing leads to it any more: EventSource implements Delivery,     *)
(* when no sink is subscribed twice.                                       *)
THEOREM Refinement ==
  ASSUME ~SubscribeTwice
  PROVE  Spec => ImplementsDelivery
<1>1. Core /\ Linked /\ [Next]_vars => [Abstract!Next]_Abstract!dVars
  BY StepMaps DEF Linked
<1>. QED
  BY <1>1, InitMaps, CoreHolds, LinkedHolds, PTL DEF Spec, ImplementsDelivery, Abstract!Spec
=============================================================================
