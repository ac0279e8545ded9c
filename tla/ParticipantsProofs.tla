------------------------- MODULE ParticipantsProofs -------------------------
(***************************************************************************)
(* Participants for any number of peers, nicknames and messages.           *)
(*                                                                         *)
(* Keep and Sorted are taken apart into the places they take (lemma        *)
(* PlacesInOrder and its consequences), folds into their steps             *)
(* (FoldDefined, MergeWalk, ReplayWalk).  The walk of updateParticipants   *)
(* through the sorted peers then has an invariant of its own, Walked: the  *)
(* children left are exactly those of peers still to come.  It needs that  *)
(* the children of listed peers are in the order of the peers and that     *)
(* none of them is fading out, which is what IInv says, the inductive      *)
(* invariant.                                                              *)
(***************************************************************************)
EXTENDS Participants, FiniteSetTheorems, TLAPS

----------------------------------------------------------------------------
(* Places in an order *)

\* R orders the members of I: strictly, and every two of them.
StrictOrder(R, I) ==
  /\ \A i, j \in I : i # j => <<i, j>> \in R \/ <<j, i>> \in R
  /\ \A i, j \in I : ~(<<i, j>> \in R /\ <<j, i>> \in R)
  /\ \A i, j, k \in I : <<i, j>> \in R /\ <<j, k>> \in R => <<i, k>> \in R

\* Places gives every member of a finite set a number, in the order.
LEMMA PlacesInOrder ==
  ASSUME NEW I, IsFiniteSet(I), NEW R, StrictOrder(R, I)
  PROVE  LET at == Places(I, R)
             n  == Cardinality(I)
         IN  /\ n \in Nat /\ at \in [1..n -> I]
             /\ \A i \in I : \E k \in 1..n : at[k] = i
             /\ \A j, k \in 1..n : j < k => <<at[j], at[k]>> \in R
<1> DEFINE n == Cardinality(I)
           Low(i) == {j \in I : <<j, i>> \in R}
           rank == [i \in I |-> Cardinality(Low(i)) + 1]
<1>1. n \in Nat
  BY FS_CardinalityType
<1>2. ASSUME NEW i \in I
      PROVE  /\ IsFiniteSet(Low(i)) /\ Cardinality(Low(i)) \in Nat
             /\ Cardinality(Low(i)) < n
  <2>1. Low(i) \in SUBSET I /\ i \notin Low(i)
    BY DEF StrictOrder
  <2> HIDE DEF Low
  <2>2. IsFiniteSet(Low(i)) /\ Cardinality(Low(i)) <= n
        /\ (Cardinality(Low(i)) = n => I = Low(i))
    BY <2>1, FS_Subset
  <2>3. Cardinality(Low(i)) \in Nat
    BY <2>2, FS_CardinalityType
  <2> QED
    BY <1>1, <2>1, <2>2, <2>3
<1>3. ASSUME NEW i \in I, NEW j \in I, <<i, j>> \in R
      PROVE  Cardinality(Low(i)) < Cardinality(Low(j))
  <2>1. Low(i) \in SUBSET Low(j) /\ i \in Low(j) /\ i \notin Low(i)
    BY <1>3 DEF StrictOrder
  <2> HIDE DEF Low
  <2>2. Cardinality(Low(i)) <= Cardinality(Low(j))
        /\ (Cardinality(Low(i)) = Cardinality(Low(j)) => Low(j) = Low(i))
    BY <1>2, <2>1, FS_Subset
  <2> QED
    BY <1>2, <2>1, <2>2
<1>4. rank \in [I -> 1..n]
  <2> HIDE DEF Low
  <2> QED
    BY <1>1, <1>2
<1>5. ASSUME NEW i \in I, NEW j \in I, rank[i] = rank[j] PROVE i = j
  <2> HIDE DEF Low
  <2>1. Cardinality(Low(i)) = Cardinality(Low(j))
    BY <1>2, <1>5
  <2>2. <<i, j>> \notin R
    BY <1>2, <1>3, <2>1
  <2>3. <<j, i>> \notin R
    BY <1>2, <1>3, <2>1
  <2> QED
    BY <2>2, <2>3 DEF StrictOrder
<1>6. \A k \in 1..n : \E i \in I : rank[i] = k
  <2> HIDE DEF rank
  <2>1. rank \in Injection(I, 1..n)
    BY <1>4, <1>5 DEF Injection, IsInjective
  <2>2. IsFiniteSet(1..n) /\ Cardinality(1..n) = n
    BY <1>1, FS_Interval
  <2>3. rank \in Surjection(I, 1..n)
    BY <2>1, <2>2, FS_Injection
  <2> QED
    BY <2>3 DEF Surjection
<1> DEFINE at == Places(I, R)
<1>7. ASSUME NEW k \in 1..n
      PROVE  at[k] \in I /\ Cardinality(Low(at[k])) = k - 1
  <2>1. \E i \in I : Cardinality(Low(i)) = k - 1
    <3>1. PICK i \in I : rank[i] = k
      BY <1>6
    <3> HIDE DEF Low
    <3> QED
      BY <1>2, <3>1
  <2>2. at[k] = CHOOSE i \in I : Cardinality(Low(i)) = k - 1
    BY DEF Places
  <2> QED
    BY <2>1, <2>2
<1>8. at \in [1..n -> I]
  BY <1>7 DEF Places
<1>9. ASSUME NEW i \in I PROVE \E k \in 1..n : at[k] = i
  <2>1. rank[i] \in 1..n /\ Cardinality(Low(i)) = rank[i] - 1
    BY <1>2, <1>4
  <2>2. at[rank[i]] \in I /\ rank[at[rank[i]]] = rank[i]
    <3> HIDE DEF Low, at
    <3> QED
      BY <1>7, <2>1
  <2> QED
    BY <1>5, <2>1, <2>2
<1>10. ASSUME NEW j \in 1..n, NEW k \in 1..n, j < k
       PROVE  <<at[j], at[k]>> \in R
  <2> HIDE DEF Low, at
  <2>1. /\ at[j] \in I /\ at[k] \in I
        /\ Cardinality(Low(at[j])) < Cardinality(Low(at[k]))
    BY <1>7, <1>10
  <2>2. at[j] # at[k] /\ <<at[k], at[j]>> \notin R
    BY <1>2, <1>3, <2>1
  <2> QED
    BY <2>1, <2>2 DEF StrictOrder
<1> QED
  BY <1>1, <1>8, <1>9, <1>10

----------------------------------------------------------------------------
(* Induction over places *)

\* A set of numbers has a least one.
LEMMA Least ==
  ASSUME NEW T \in SUBSET Nat, T # {}
  PROVE  \E n \in T : \A m \in T : n <= m
<1> DEFINE Less == OpToRel(<, Nat)
<1>1. \A i, j \in Nat : i < j => <<i, j>> \in Less
  BY DEF OpToRel
<1>2. IsWellFoundedOn(Less, Nat)
  BY NatLessThanWellFounded
<1> HIDE DEF Less
<1>3. PICK n \in T : \A m \in T : <<m, n>> \notin Less
  BY <1>2, WFMin
<1>4. ASSUME NEW m \in T PROVE n <= m
  <2>1. m \in Nat /\ n \in Nat /\ ~(m < n)
    BY <1>1, <1>3
  <2> QED
    BY <2>1
<1> QED
  BY <1>4

\* What holds at 0 and goes on from place to place holds at all of them.
LEMMA PlaceByPlace ==
  ASSUME NEW n \in Nat, NEW T, 0 \in T,
         \A k \in 1..n : k - 1 \in T => k \in T
  PROVE  \A k \in 0..n : k \in T
<1> SUFFICES ASSUME NEW k \in 0..n, k \notin T PROVE FALSE
  OBVIOUS
<1> DEFINE Missed == {i \in 0..n : i \notin T}
<1>1. Missed \in SUBSET Nat /\ Missed # {}
  OBVIOUS
<1>2. PICK i \in Missed : \A j \in Missed : i <= j
  <2> HIDE DEF Missed
  <2> QED
    BY <1>1, Least
<1>3. i \in 1..n /\ i - 1 \in 0..n /\ i - 1 \notin Missed
  BY <1>2
<1> QED
  BY <1>2, <1>3

\* Two lists of the same members in the same order are the same.
LEMMA SameOrder ==
  ASSUME NEW X, NEW s \in Seq(X), NEW t \in Seq(X), NEW R,
         ToSet(s) = ToSet(t),
         \A x, y \in X : ~(<<x, y>> \in R /\ <<y, x>> \in R),
         \A i, j \in DOMAIN s : i < j => <<s[i], s[j]>> \in R,
         \A i, j \in DOMAIN t : i < j => <<t[i], t[j]>> \in R
  PROVE  s = t
<1>1. /\ \A i \in DOMAIN s : \E j \in DOMAIN t : t[j] = s[i]
      /\ \A i \in DOMAIN t : \E j \in DOMAIN s : s[j] = t[i]
  BY ZenonT(30) DEF ToSet
<1>2. /\ DOMAIN s = 1..Len(s) /\ DOMAIN t = 1..Len(t)
      /\ Len(s) \in Nat /\ Len(t) \in Nat
      /\ \A i \in DOMAIN s : s[i] \in X
      /\ \A i \in DOMAIN t : t[i] \in X
  OBVIOUS
<1>3. /\ \A i, j \in DOMAIN s : s[i] = s[j] => i = j
      /\ \A i, j \in DOMAIN t : t[i] = t[j] => i = j
  <2>1. \A x \in X : <<x, x>> \notin R
    OBVIOUS
  <2>2. ASSUME NEW i \in DOMAIN s, NEW j \in DOMAIN s, s[i] = s[j] PROVE i = j
    <3>1. ~(i < j) /\ ~(j < i)
      BY <1>2, <2>1, <2>2
    <3> QED
      BY <1>2, <3>1
  <2>3. ASSUME NEW i \in DOMAIN t, NEW j \in DOMAIN t, t[i] = t[j] PROVE i = j
    <3>1. ~(i < j) /\ ~(j < i)
      BY <1>2, <2>1, <2>3
    <3> QED
      BY <1>2, <3>1
  <2> QED
    BY <2>2, <2>3
<1>4. ASSUME NEW i \in 1..Len(s), i \in 1..Len(t) PROVE s[i] = t[i]
  <2> DEFINE Wrong == {k \in 1..Len(s) : k \in 1..Len(t) /\ s[k] # t[k]}
  <2> SUFFICES ASSUME Wrong # {} PROVE FALSE
    BY <1>4
  <2>1. PICK k \in Wrong : \A j \in Wrong : k <= j
    <3>1. Wrong \in SUBSET Nat
      OBVIOUS
    <3> HIDE DEF Wrong
    <3> QED
      BY <3>1, Least
  <2>2. \A j \in 1..(k - 1) : s[j] = t[j]
    BY <1>2, <2>1
  <2>3. PICK j \in DOMAIN t : t[j] = s[k]
    BY <1>1, <1>2
  <2>4. PICK l \in DOMAIN s : s[l] = t[k]
    BY <1>1, <1>2
  <2>5. k < j
    BY <1>2, <1>3, <2>2, <2>3
  <2>6. k < l
    BY <1>2, <1>3, <2>2, <2>4
  <2>7. <<s[k], t[k]>> \in R /\ <<t[k], s[k]>> \in R
    BY <1>2, <2>3, <2>4, <2>5, <2>6
  <2> QED
    BY <1>2, <2>7
<1>5. Len(s) = Len(t)
  <2>1. ~(Len(s) < Len(t))
    <3> SUFFICES ASSUME Len(s) < Len(t) PROVE FALSE
      OBVIOUS
    <3>0. Len(s) + 1 \in DOMAIN t
      BY <1>2
    <3>1. PICK j \in DOMAIN s : s[j] = t[Len(s) + 1]
      BY <1>1, <3>0
    <3>2. j \in 1..Len(s) /\ j \in 1..Len(t) /\ j < Len(s) + 1
      BY <1>2, <3>1
    <3>3. t[j] = t[Len(s) + 1]
      BY <1>4, <3>1, <3>2
    <3>4. j \in DOMAIN t
      BY <1>2, <3>2
    <3> QED
      BY <1>3, <3>0, <3>2, <3>3, <3>4
  <2>2. ~(Len(t) < Len(s))
    <3> SUFFICES ASSUME Len(t) < Len(s) PROVE FALSE
      OBVIOUS
    <3>0. Len(t) + 1 \in DOMAIN s
      BY <1>2
    <3>1. PICK j \in DOMAIN t : t[j] = s[Len(t) + 1]
      BY <1>1, <3>0
    <3>2. j \in 1..Len(s) /\ j \in 1..Len(t) /\ j < Len(t) + 1
      BY <1>2, <3>1
    <3>3. s[j] = s[Len(t) + 1]
      BY <1>4, <3>1, <3>2
    <3>4. j \in DOMAIN s
      BY <1>2, <3>2
    <3> QED
      BY <1>3, <3>0, <3>2, <3>3, <3>4
  <2>3. Len(s) \in Nat /\ Len(t) \in Nat
    OBVIOUS
  <2> QED
    BY <2>1, <2>2, <2>3
<1> QED
  BY <1>4, <1>5

----------------------------------------------------------------------------
(* Keep and Sorted *)

\* The list k takes the places at of s, which are those with a member of S.
Takes(k, s, S, at) ==
  /\ at \in [DOMAIN k -> DOMAIN s]
  /\ \A i \in DOMAIN k : k[i] = s[at[i]] /\ k[i] \in S
  /\ \A i, j \in DOMAIN k : i < j => at[i] < at[j]
  /\ \A j \in DOMAIN s : s[j] \in S => \E i \in DOMAIN k : at[i] = j

\* Keep takes the places with a member of S, in their order.
LEMMA KeepTakes ==
  ASSUME NEW X, NEW s \in Seq(X), NEW S
  PROVE  Keep(s, S) \in Seq(X) /\ \E at : Takes(Keep(s, S), s, S, at)
<1> DEFINE I == {i \in DOMAIN s : s[i] \in S}
           R == {r \in I \X I : r[1] < r[2]}
           at == Places(I, R)
           n == Cardinality(I)
<1>1. DOMAIN s = 1..Len(s) /\ Len(s) \in Nat /\ I \in SUBSET (1..Len(s))
  OBVIOUS
<1>2. IsFiniteSet(I)
  <2>1. IsFiniteSet(1..Len(s))
    BY <1>1, FS_Interval
  <2> HIDE DEF I
  <2> QED
    BY <1>1, <2>1, FS_Subset
<1>3. StrictOrder(R, I)
  <2>1. \A i, j \in I : <<i, j>> \in R <=> i < j
    OBVIOUS
  <2> HIDE DEF R
  <2> QED
    BY <1>1, <2>1 DEF StrictOrder
<1>4. /\ n \in Nat /\ at \in [1..n -> I]
      /\ \A i \in I : \E k \in 1..n : at[k] = i
      /\ \A j, k \in 1..n : j < k => <<at[j], at[k]>> \in R
  <2> HIDE DEF I, R
  <2> QED
    BY <1>2, <1>3, PlacesInOrder
<1>5. \A j, k \in 1..n : j < k => at[j] < at[k]
  BY <1>4
<1>6. Keep(s, S) = [k \in 1..n |-> s[at[k]]]
  <2>1. DOMAIN at = 1..n
    BY <1>4
  <2> QED
    BY <2>1 DEF Keep, Taken
<1> HIDE DEF n, at, R
<1>7. Keep(s, S) \in Seq(X) /\ DOMAIN Keep(s, S) = 1..n
  BY <1>1, <1>4, <1>6
<1>8. at \in [1..n -> DOMAIN s]
  BY <1>4
<1>9. Takes(Keep(s, S), s, S, at)
  BY <1>4, <1>5, <1>6, <1>7, <1>8 DEF Takes
<1> QED
  BY <1>7, <1>9

\* What follows from that: Keep selects, and keeps an order and a difference.
LEMMA KeepSelects ==
  ASSUME NEW X, NEW s \in Seq(X), NEW S
  PROVE  /\ Keep(s, S) \in Seq(X)
         /\ ToSet(Keep(s, S)) = ToSet(s) \cap S
         /\ IsInjective(s) => IsInjective(Keep(s, S))
<1> DEFINE k == Keep(s, S)
<1>1. k \in Seq(X)
  BY KeepTakes
<1>2. PICK at : Takes(k, s, S, at)
  BY KeepTakes
<1> HIDE DEF k
<1> USE DEF Takes
<1>3. ToSet(k) \subseteq ToSet(s) \cap S
  BY <1>2 DEF ToSet
<1>4. ToSet(s) \cap S \subseteq ToSet(k)
  BY <1>2 DEF ToSet
<1>5. ASSUME IsInjective(s), NEW i \in DOMAIN k, NEW j \in DOMAIN k, k[i] = k[j]
      PROVE  i = j
  <2>1. at[i] = at[j]
    BY <1>2, <1>5 DEF IsInjective
  <2>2. i \in Nat /\ j \in Nat /\ at[i] \in Nat /\ at[j] \in Nat
    BY <1>1, <1>2
  <2>3. ~(i < j) /\ ~(j < i)
    BY <1>2, <2>1, <2>2
  <2> QED
    BY <2>2, <2>3
<1> QED
  BY <1>1, <1>3, <1>4, <1>5 DEF k, IsInjective

\* The peer p comes before q when the peers of map are sorted.
Before(map, p, q) ==
  \E i, j \in DOMAIN map :
    map[i] = p /\ map[j] = q /\ <<i, j>> \in cmpPeers(map)

\* Sorting changes the order of the peers, and nothing else.
LEMMA SortedSorts ==
  ASSUME NEW map \in Seq(Peer), peerName \in [Peer -> Nick]
  PROVE  LET s == Sorted(map)
         IN  /\ s \in Seq(Peer) /\ ToSet(s) = ToSet(map)
             /\ \A i, j \in DOMAIN s : i < j => Before(map, s[i], s[j])
             /\ IsInjective(map) => IsInjective(s)
<1> DEFINE I == DOMAIN map
           R == cmpPeers(map)
           at == Places(I, R)
           n == Cardinality(I)
           s == Sorted(map)
<1>1. I = 1..Len(map) /\ Len(map) \in Nat
  OBVIOUS
<1>2. IsFiniteSet(I)
  BY <1>1, FS_Interval
<1>3. StrictOrder(R, I)
  <2> DEFINE name(i) == peerName[map[i]]
  <2>1. ASSUME NEW i \in I PROVE name(i) \in Nat /\ i \in Nat
    <3>1. map[i] \in Peer /\ i \in Nat
      BY <1>1
    <3> QED
      BY <3>1, ParticipantsAssumption
  <2>2. \A i, j \in I :
          <<i, j>> \in R <=>
             name(i) < name(j) \/ (name(i) = name(j) /\ i < j)
    BY DEF cmpPeers
  <2> HIDE DEF R, I, name
  <2> QED
    BY <2>1, <2>2 DEF StrictOrder
<1>4. /\ n \in Nat /\ at \in [1..n -> I]
      /\ \A i \in I : \E k \in 1..n : at[k] = i
      /\ \A j, k \in 1..n : j < k => <<at[j], at[k]>> \in R
  <2> HIDE DEF I, R
  <2> QED
    BY <1>2, <1>3, PlacesInOrder
<1>5. s = [k \in 1..n |-> map[at[k]]]
  <2>1. DOMAIN at = 1..n
    BY <1>4
  <2> QED
    BY <2>1 DEF Sorted, Taken
<1> HIDE DEF n, at, R, s
<1>6. s \in Seq(Peer) /\ DOMAIN s = 1..n
  BY <1>1, <1>4, <1>5
<1>7. ToSet(s) = ToSet(map)
  BY <1>4, <1>5, <1>6 DEF ToSet
<1>8. ASSUME NEW i \in DOMAIN s, NEW j \in DOMAIN s, i < j
      PROVE  Before(map, s[i], s[j])
  BY <1>4, <1>5, <1>6, <1>8 DEF Before, R
<1>9. ASSUME IsInjective(map), NEW i \in DOMAIN s, NEW j \in DOMAIN s, s[i] = s[j]
      PROVE  i = j
  <2>1. at[i] = at[j] /\ at[i] \in I
    BY <1>4, <1>5, <1>6, <1>9 DEF IsInjective
  <2>2. <<at[i], at[i]>> \notin R
    BY <1>3, <2>1 DEF StrictOrder
  <2>3. ~(i < j) /\ ~(j < i)
    BY <1>4, <1>6, <2>1, <2>2
  <2> QED
    BY <1>4, <1>6, <2>3
<1> QED
  BY <1>6, <1>7, <1>8, <1>9 DEF s, IsInjective

----------------------------------------------------------------------------
(* Folds *)

\* Sets of places have a greatest member.
LEMMA Greatest ==
  ASSUME NEW n \in Nat, NEW T \in SUBSET (1..n), T # {}
  PROVE  Max(T) \in T
<1> DEFINE Left == {m \in Nat : \E i \in T : m = n - i}
<1>1. Left \in SUBSET Nat /\ Left # {}
  <2>1. PICK i \in T : TRUE
    OBVIOUS
  <2>2. n - i \in Left
    OBVIOUS
  <2> QED
    BY <2>2
<1>2. PICK m \in Left : \A l \in Left : m <= l
  <2> HIDE DEF Left
  <2> QED
    BY <1>1, Least
<1>3. PICK i \in T : m = n - i
  BY <1>2
<1>4. ASSUME NEW j \in T PROVE i >= j
  <2>1. n - j \in Left
    OBVIOUS
  <2>2. m <= n - j
    BY <1>2, <2>1
  <2> QED
    BY <1>3, <2>2
<1> QED
  BY <1>4 DEF Max

\* The last of the places up to k.
LEMMA LastPlace ==
  ASSUME NEW k \in Nat \ {0}, NEW T \in SUBSET (1..k), k \in T
  PROVE  Max(T) = k
<1>1. \A j \in T : k >= j
  OBVIOUS
<1>2. \A i \in T : (\A j \in T : i >= j) => i = k
  OBVIOUS
<1> QED
  BY <1>1, <1>2 DEF Max

\* f is the fold over the places 1..n where g is what it does at a place.
IsFold(f, base, n, g) ==
  \A s \in SUBSET (1..n) :
    f[s] = IF s = {} THEN base ELSE g[Max(s)][f[s \ {Max(s)}]]

\* The function that a fold is defined by exists.
LEMMA FoldDefined ==
  ASSUME NEW D, NEW base \in D, NEW n \in Nat, NEW g \in [1..n -> [D -> D]]
  PROVE  \E f \in [SUBSET (1..n) -> D] : IsFold(f, base, n, g)
<1> DEFINE Folds(f, k) ==
             f = [s \in SUBSET (1..k) |->
                    IF s = {} THEN base ELSE g[Max(s)][f[s \ {Max(s)}]]]
           T == {k \in 0..n : \E f \in [SUBSET (1..k) -> D] : Folds(f, k)}
<1>1. 0 \in T
  <2> DEFINE f == [s \in SUBSET (1..0) |-> base]
  <2>1. \A s \in SUBSET (1..0) : s = {}
    OBVIOUS
  <2>2. f \in [SUBSET (1..0) -> D] /\ Folds(f, 0)
    BY <2>1
  <2> QED
    BY <2>2
<1>2. ASSUME NEW k \in 1..n, k - 1 \in T PROVE k \in T
  <2>1. PICK f \in [SUBSET (1..(k - 1)) -> D] : Folds(f, k - 1)
    BY <1>2
  <2> DEFINE h == [s \in SUBSET (1..k) |->
                     IF k \in s THEN g[k][f[s \ {k}]] ELSE f[s]]
  <2>2. ASSUME NEW s \in SUBSET (1..k)
        PROVE  /\ h[s] \in D
               /\ h[s] = IF s = {} THEN base ELSE g[Max(s)][h[s \ {Max(s)}]]
    <3>1. CASE k \in s
      <4>1. Max(s) = k
        BY <3>1, LastPlace
      <4>2. s \ {k} \in SUBSET (1..(k - 1)) /\ s \ {k} \in SUBSET (1..k)
        OBVIOUS
      <4>3. h[s] = g[k][f[s \ {k}]] /\ h[s \ {k}] = f[s \ {k}]
        BY <3>1, <4>2
      <4>4. f[s \ {k}] \in D
        BY <4>2
      <4> HIDE DEF h
      <4> QED
        BY <3>1, <4>1, <4>3, <4>4
    <3>2. CASE k \notin s
      <4>0. \A i \in s : i \in 1..(k - 1)
        <5> SUFFICES ASSUME NEW i \in s PROVE i \in 1..(k - 1)
          OBVIOUS
        <5>1. i \in 1..k /\ i # k
          BY <3>2
        <5> QED
          BY <5>1
      <4>1. s \in SUBSET (1..(k - 1)) /\ s \ {Max(s)} \in SUBSET (1..(k - 1))
            /\ s \ {Max(s)} \in SUBSET (1..k) /\ k \notin s \ {Max(s)}
        BY <3>2, <4>0
      <4>2. h[s] = f[s] /\ h[s \ {Max(s)}] = f[s \ {Max(s)}]
        BY <3>2, <4>1
      <4>3. f[s] \in D
        BY <4>1
      <4>4. f[s] = IF s = {} THEN base ELSE g[Max(s)][f[s \ {Max(s)}]]
        BY <2>1, <4>1
      <4> HIDE DEF h
      <4> QED
        BY <4>2, <4>3, <4>4
    <3> QED
      BY <3>1, <3>2
  <2>3. h \in [SUBSET (1..k) -> D]
    BY <2>2
  <2>4. Folds(h, k)
    <3>1. h = [s \in SUBSET (1..k) |-> h[s]]
      OBVIOUS
    <3> HIDE DEF h
    <3> QED
      BY <2>2, <3>1
  <2>5. \E f0 \in [SUBSET (1..k) -> D] : Folds(f0, k)
    <3> HIDE DEF h, Folds
    <3> QED
      BY <2>3, <2>4
  <2>6. k \in 0..n
    OBVIOUS
  <2> HIDE DEF Folds
  <2> QED
    BY <2>5, <2>6
<1>3. n \in T
  <2>1. n \in 0..n
    OBVIOUS
  <2> HIDE DEF T
  <2> QED
    BY <1>1, <1>2, <2>1, PlaceByPlace
<1>4. PICK f \in [SUBSET (1..n) -> D] : Folds(f, n)
  BY <1>3
<1> QED
  BY <1>4 DEF IsFold

----------------------------------------------------------------------------
(* The merge *)

\* A child is inserted at the place of another, which moves on.
LEMMA InsertPlaces ==
  ASSUME NEW c \in Seq(Peer), NEW new \in Peer, NEW child \in ToSet(c)
  PROVE  LET r == InsertBefore(c, new, child)
         IN  /\ r \in Seq(Peer) /\ DOMAIN r = 1..(Len(c) + 1)
             /\ \E k \in DOMAIN c :
                  /\ c[k] = child
                  /\ \A i \in DOMAIN r :
                       r[i] = IF i < k THEN c[i]
                              ELSE IF i = k THEN new ELSE c[i - 1]
<1> DEFINE I == {i \in 1..Len(c) : c[i] = child}
           k == SelectInSeq(c, LAMBDA q : q = child)
           r == InsertBefore(c, new, child)
<1>1. I # {} /\ I \in SUBSET Nat
  BY DEF ToSet
<1>2. k \in I
  <2>1. k = Min(I)
    BY <1>1 DEF SelectInSeq
  <2>2. PICK m \in I : \A j \in I : m <= j
    <3> HIDE DEF I
    <3> QED
      BY <1>1, Least
  <2> QED
    BY <2>1, <2>2 DEF Min
<1>3. r = SubSeq(c, 1, k - 1) \o <<new>> \o SubSeq(c, k, Len(c))
  BY DEF InsertBefore, InsertAt
<1> HIDE DEF k, r
<1>4. /\ k \in 1..Len(c) /\ c[k] = child /\ Len(c) \in Nat
      /\ DOMAIN c = 1..Len(c) /\ \A i \in 1..Len(c) : c[i] \in Peer
  BY <1>2
<1>5. /\ SubSeq(c, 1, k - 1) \in Seq(Peer) /\ Len(SubSeq(c, 1, k - 1)) = k - 1
      /\ \A i \in 1..(k - 1) : SubSeq(c, 1, k - 1)[i] = c[i]
  BY <1>4
<1>6. /\ SubSeq(c, k, Len(c)) \in Seq(Peer)
      /\ Len(SubSeq(c, k, Len(c))) = Len(c) - k + 1
      /\ \A i \in 1..(Len(c) - k + 1) : SubSeq(c, k, Len(c))[i] = c[k + i - 1]
  BY <1>4
<1> DEFINE a == SubSeq(c, 1, k - 1)
           b == SubSeq(c, k, Len(c))
<1> HIDE DEF a, b
<1>7. /\ r \in Seq(Peer) /\ Len(r) = Len(c) + 1
      /\ \A i \in 1..Len(r) :
           r[i] = IF i < k THEN a[i] ELSE IF i = k THEN new ELSE b[i - k]
  <2>1. a \in Seq(Peer) /\ Len(a) = k - 1 /\ b \in Seq(Peer)
        /\ Len(b) = Len(c) - k + 1 /\ r = (a \o <<new>>) \o b
    BY <1>3, <1>5, <1>6 DEF a, b
  <2>2. a \o <<new>> \in Seq(Peer) /\ Len(a \o <<new>>) = k
        /\ \A i \in 1..k : (a \o <<new>>)[i] = IF i < k THEN a[i] ELSE new
    BY <1>4, <2>1
  <2> DEFINE an == a \o <<new>>
  <2> HIDE DEF an
  <2>3. r = an \o b /\ an \in Seq(Peer) /\ Len(an) = k
        /\ \A i \in 1..k : an[i] = IF i < k THEN a[i] ELSE new
    BY <2>1, <2>2 DEF an
  <2>4. r \in Seq(Peer) /\ Len(r) = Len(c) + 1
    <3>1. k \in Int /\ Len(c) \in Int /\ Len(an) = k /\ Len(b) = Len(c) - k + 1
          /\ an \in Seq(Peer) /\ b \in Seq(Peer)
      BY <1>4, <2>1, <2>3
    <3>2. an \o b \in Seq(Peer) /\ Len(an \o b) = Len(an) + Len(b)
      BY <3>1
    <3>3. r = an \o b
      BY <2>3
    <3> QED
      BY <3>1, <3>2, <3>3
  <2>5. \A i \in 1..Len(r) : r[i] = IF i <= k THEN an[i] ELSE b[i - k]
    BY <1>4, <2>1, <2>3, <2>4
  <2> QED
    BY <1>4, <2>3, <2>4, <2>5
<1>8. ASSUME NEW i \in DOMAIN r
      PROVE  r[i] = IF i < k THEN c[i] ELSE IF i = k THEN new ELSE c[i - 1]
  <2>1. i \in 1..(Len(c) + 1) /\ i \in Int
    BY <1>4, <1>7
  <2>2. i < k => a[i] = c[i]
    BY <1>4, <1>5, <2>1 DEF a
  <2>3. i > k => b[i - k] = c[i - 1]
    <3> SUFFICES ASSUME i > k PROVE b[i - k] = c[i - 1]
      OBVIOUS
    <3>1. i - k \in 1..(Len(c) - k + 1) /\ k + (i - k) - 1 = i - 1
      BY <1>4, <2>1
    <3> QED
      BY <1>6, <3>1 DEF b
  <2> QED
    BY <1>4, <1>7, <2>1, <2>2, <2>3
<1>9. DOMAIN r = 1..(Len(c) + 1)
  BY <1>7
<1> QED
  BY <1>4, <1>7, <1>8, <1>9 DEF r

\* What the walk through the peers changes: the children, and those of the
\* children that are left.
Walks == {w \in [children : Seq(Peer), left : Seq(Peer)] :
            ToSet(w.left) \subseteq ToSet(w.children)}

\* What the fold of Merge stands for.
LEMMA MergeFold ==
  ASSUME NEW pg, NEW left, NEW peers
  PROVE  LET base == [children |-> pg.children, left |-> left]
             iter == CHOOSE f : f = [s \in SUBSET (DOMAIN peers) |->
                       IF s = {} THEN base
                       ELSE MergePeer(pg.peerId, f[s \ {Max(s)}], peers[Max(s)])]
         IN  Merge(pg, left, peers)
               = [pg EXCEPT !.children = iter[DOMAIN peers].children,
                            !.error = @ \/ iter[DOMAIN peers].left # << >>]
  BY DEF Merge, FoldLeft, MapThenFoldSet

\* What is inserted is one more child.
LEMMA InsertSet ==
  ASSUME NEW c \in Seq(Peer), NEW new \in Peer, NEW child \in ToSet(c)
  PROVE  ToSet(InsertBefore(c, new, child)) = ToSet(c) \cup {new}
<1> DEFINE r == InsertBefore(c, new, child)
<1>0. DOMAIN r = 1..(Len(c) + 1) /\ DOMAIN c = 1..Len(c) /\ Len(c) \in Nat
  BY InsertPlaces
<1>1. PICK k \in DOMAIN c :
        /\ DOMAIN r = 1..(Len(c) + 1) /\ DOMAIN c = 1..Len(c) /\ Len(c) \in Nat
        /\ \A i \in DOMAIN r :
             r[i] = IF i < k THEN c[i] ELSE IF i = k THEN new ELSE c[i - 1]
  <2>1. \E k \in DOMAIN c :
          \A i \in DOMAIN r :
             r[i] = IF i < k THEN c[i] ELSE IF i = k THEN new ELSE c[i - 1]
    BY InsertPlaces
  <2> HIDE DEF r
  <2> QED
    BY <1>0, <2>1
<1> HIDE DEF r
<1>2. ASSUME NEW i \in DOMAIN r PROVE r[i] \in ToSet(c) \cup {new}
  <2>1. i \in 1..(Len(c) + 1) /\ k \in 1..Len(c)
    BY <1>1
  <2>2. CASE i < k
    <3>1. i \in DOMAIN c /\ r[i] = c[i]
      BY <1>1, <2>1, <2>2
    <3> QED
      BY <3>1 DEF ToSet
  <2>3. CASE i = k
    BY <1>1, <2>3
  <2>4. CASE i > k
    <3>1. i - 1 \in DOMAIN c /\ r[i] = c[i - 1]
      BY <1>1, <2>1, <2>4
    <3> QED
      BY <3>1 DEF ToSet
  <2> QED
    BY <2>1, <2>2, <2>3, <2>4
<1>3. new \in ToSet(r)
  <2>1. k \in DOMAIN r /\ r[k] = new
    BY <1>1
  <2> QED
    BY <2>1 DEF ToSet
<1>4. ASSUME NEW i \in DOMAIN c PROVE c[i] \in ToSet(r)
  <2>1. i \in 1..Len(c) /\ k \in 1..Len(c)
    BY <1>1
  <2>2. CASE i < k
    <3>1. i \in DOMAIN r /\ r[i] = c[i]
      BY <1>1, <2>1, <2>2
    <3> QED
      BY <3>1 DEF ToSet
  <2>3. CASE i >= k
    <3>1. i + 1 \in DOMAIN r /\ ~(i + 1 < k) /\ i + 1 # k /\ (i + 1) - 1 = i
      BY <1>1, <2>1, <2>3
    <3>2. r[i + 1] = c[i]
      BY <1>1, <3>1
    <3> QED
      BY <3>1, <3>2 DEF ToSet
  <2> QED
    BY <2>1, <2>2, <2>3
<1>5. ToSet(c) \subseteq ToSet(r) /\ ToSet(r) \subseteq ToSet(c) \cup {new}
  BY <1>2, <1>4 DEF ToSet
<1> QED
  BY <1>3, <1>5 DEF r

\* What is appended is one more member.
LEMMA AppendSet ==
  ASSUME NEW c \in Seq(Peer), NEW new \in Peer
  PROVE  ToSet(Append(c, new)) = ToSet(c) \cup {new}
<1> DEFINE r == Append(c, new)
<1>1. /\ Len(c) \in Nat /\ DOMAIN c = 1..Len(c) /\ DOMAIN r = 1..(Len(c) + 1)
      /\ \A i \in 1..Len(c) : r[i] = c[i]
      /\ r[Len(c) + 1] = new
  OBVIOUS
<1> HIDE DEF r
<1>2. ASSUME NEW i \in DOMAIN r PROVE r[i] \in ToSet(c) \cup {new}
  <2>1. i \in 1..Len(c) \/ i = Len(c) + 1
    BY <1>1
  <2> QED
    BY <1>1, <2>1 DEF ToSet
<1>3. ASSUME NEW i \in DOMAIN c PROVE c[i] \in ToSet(r)
  BY <1>1 DEF ToSet
<1>4. new \in ToSet(r)
  BY <1>1 DEF ToSet
<1>5. ToSet(c) \subseteq ToSet(r) /\ ToSet(r) \subseteq ToSet(c) \cup {new}
  BY <1>2, <1>3 DEF ToSet
<1> QED
  BY <1>4, <1>5 DEF r

\* The places and the members of a Tail.
LEMMA TailSet ==
  ASSUME NEW c \in Seq(Peer), c # << >>
  PROVE  /\ Tail(c) \in Seq(Peer) /\ Head(c) \in ToSet(c)
         /\ Head(c) = c[1] /\ 1 \in DOMAIN c
         /\ DOMAIN c = 1..Len(c) /\ DOMAIN Tail(c) = 1..(Len(c) - 1)
         /\ \A i \in DOMAIN Tail(c) : Tail(c)[i] = c[i + 1] /\ i + 1 \in DOMAIN c
         /\ \A i \in DOMAIN c : i # 1 => i - 1 \in DOMAIN Tail(c)
         /\ ToSet(Tail(c)) \subseteq ToSet(c)
<1> DEFINE t == Tail(c)
<1>1. /\ Len(c) \in Nat /\ Len(c) >= 1 /\ DOMAIN c = 1..Len(c) /\ t \in Seq(Peer)
      /\ Len(t) = Len(c) - 1
      /\ \A i \in 1..Len(t) : t[i] = c[i + 1]
      /\ Head(c) = c[1]
  OBVIOUS
<1> HIDE DEF t
<1>2. DOMAIN t = 1..(Len(c) - 1)
  BY <1>1
<1>3. \A i \in DOMAIN t : t[i] = c[i + 1] /\ i + 1 \in DOMAIN c
  BY <1>1, <1>2
<1>4. \A i \in DOMAIN c : i # 1 => i - 1 \in DOMAIN t
  BY <1>1, <1>2
<1>5. 1 \in DOMAIN c
  BY <1>1
<1>6. ToSet(t) \subseteq ToSet(c)
  BY <1>3 DEF ToSet
<1>7. Head(c) \in ToSet(c)
  BY <1>1, <1>5 DEF ToSet
<1> QED
  BY <1>1, <1>2, <1>3, <1>4, <1>5, <1>6, <1>7 DEF t

\* A record of Walks from its parts.
LEMMA InWalks ==
  ASSUME NEW c \in Seq(Peer), NEW l \in Seq(Peer), ToSet(l) \subseteq ToSet(c)
  PROVE  [children |-> c, left |-> l] \in Walks
  BY DEF Walks

\* One step of the walk stays within its types.
LEMMA MergeStep ==
  ASSUME NEW self, NEW w \in Walks, NEW peer \in Peer
  PROVE  MergePeer(self, w, peer) \in Walks
<1>1. /\ w.children \in Seq(Peer) /\ w.left \in Seq(Peer)
      /\ ToSet(w.left) \subseteq ToSet(w.children)
      /\ w = [children |-> w.children, left |-> w.left]
  BY DEF Walks
<1>2. CASE peer = self
  BY <1>2 DEF MergePeer
<1>3. CASE peer # self /\ w.left = << >>
  <2>1. MergePeer(self, w, peer)
          = [children |-> Append(w.children, peer), left |-> w.left]
    BY <1>1, <1>3 DEF MergePeer
  <2>2. ToSet(Append(w.children, peer)) = ToSet(w.children) \cup {peer}
    BY <1>1, AppendSet
  <2>3. Append(w.children, peer) \in Seq(Peer)
    BY <1>1
  <2> QED
    BY <1>1, <2>1, <2>2, <2>3, InWalks
<1>4. CASE peer # self /\ w.left # << >> /\ peer = Head(w.left)
  <2>1. MergePeer(self, w, peer)
          = [children |-> w.children, left |-> Tail(w.left)]
    BY <1>1, <1>4 DEF MergePeer
  <2>2. Tail(w.left) \in Seq(Peer) /\ ToSet(Tail(w.left)) \subseteq ToSet(w.left)
    BY <1>1, <1>4, TailSet
  <2> QED
    BY <1>1, <2>1, <2>2, InWalks
<1>5. CASE peer # self /\ w.left # << >> /\ peer # Head(w.left)
  <2> DEFINE c == InsertBefore(w.children, peer, Head(w.left))
  <2>1. MergePeer(self, w, peer) = [children |-> c, left |-> w.left]
    BY <1>1, <1>5 DEF MergePeer
  <2>2. Head(w.left) \in ToSet(w.children)
    BY <1>1, <1>5, TailSet
  <2>3. c \in Seq(Peer)
    BY <1>1, <2>2, InsertPlaces
  <2>4. ToSet(c) = ToSet(w.children) \cup {peer}
    BY <1>1, <2>2, InsertSet
  <2> HIDE DEF c
  <2> QED
    BY <1>1, <2>1, <2>3, <2>4 DEF Walks
<1> QED
  BY <1>2, <1>3, <1>4, <1>5

\* at are the steps of the merge, which take one peer each.
IsWalk(at, pg, left, peers) ==
  /\ at[0] = [children |-> pg.children, left |-> left]
  /\ \A k \in 1..Len(peers) : at[k] = MergePeer(pg.peerId, at[k - 1], peers[k])
  /\ Merge(pg, left, peers)
       = [pg EXCEPT !.children = at[Len(peers)].children,
                    !.error = @ \/ at[Len(peers)].left # << >>]

\* The merge does make such steps.
LEMMA MergeWalk ==
  ASSUME NEW pg \in Page, NEW left \in Seq(Peer),
         ToSet(left) \subseteq ToSet(pg.children), NEW peers \in Seq(Peer)
  PROVE  \E at \in [0..Len(peers) -> Walks] : IsWalk(at, pg, left, peers)
<1> DEFINE n == Len(peers)
           base == [children |-> pg.children, left |-> left]
           op(w, i) == MergePeer(pg.peerId, w, peers[i])
           Folds(f) == f = [s \in SUBSET (DOMAIN peers) |->
                              IF s = {} THEN base
                              ELSE op(f[s \ {Max(s)}], Max(s))]
           iter == CHOOSE f : Folds(f)
           at == [k \in 0..n |-> iter[1..k]]
           g == [i \in 1..n |-> [w \in Walks |-> op(w, i)]]
<1>1. /\ n \in Nat /\ DOMAIN peers = 1..n
      /\ \A i \in 1..n : peers[i] \in Peer
  OBVIOUS
<1>2. base \in Walks
  BY DEF Walks, Page
<1>3. \A w \in Walks, i \in 1..n : op(w, i) \in Walks
  BY <1>1, MergeStep
<1>4. Merge(pg, left, peers)
        = [pg EXCEPT !.children = iter[DOMAIN peers].children,
                     !.error = @ \/ iter[DOMAIN peers].left # << >>]
  BY MergeFold
<1> HIDE DEF base, op
<1>5. Folds(iter)
  <2>1. g \in [1..n -> [Walks -> Walks]]
    BY <1>3
  <2>2. PICK f \in [SUBSET (1..n) -> Walks] : IsFold(f, base, n, g)
    <3>1. n \in Nat /\ base \in Walks /\ g \in [1..n -> [Walks -> Walks]]
      BY <1>1, <1>2, <2>1
    <3> HIDE DEF g, n
    <3> QED
      BY <3>1, FoldDefined
  <2>3. ASSUME NEW s \in SUBSET (1..n), s # {}
        PROVE  g[Max(s)][f[s \ {Max(s)}]] = op(f[s \ {Max(s)}], Max(s))
    <3>1. Max(s) \in s
      BY <1>1, <2>3, Greatest
    <3>2. Max(s) \in 1..n /\ s \ {Max(s)} \in SUBSET (1..n)
      BY <3>1
    <3>3. f[s \ {Max(s)}] \in Walks
      BY <2>2, <3>2
    <3> QED
      BY <3>2, <3>3
  <2>4. Folds(f)
    <3>1. ASSUME NEW s \in SUBSET (1..n)
          PROVE  f[s] = IF s = {} THEN base ELSE op(f[s \ {Max(s)}], Max(s))
      <4> HIDE DEF g, n
      <4> QED
        BY <2>2, <2>3 DEF IsFold
    <3>2. f = [s \in SUBSET (1..n) |-> f[s]]
      BY <2>2
    <3> HIDE DEF g, n
    <3> QED
      BY <1>1, <3>1, <3>2
  <2> HIDE DEF Folds
  <2> QED
    BY <2>4
<1> HIDE DEF iter
<1>6. iter[{}] = base
  BY <1>5
<1>7. ASSUME NEW k \in 1..n PROVE iter[1..k] = op(iter[1..(k - 1)], k)
  <2>0. 1..k \in SUBSET (1..n) /\ k \in 1..k
    BY <1>1
  <2>1. 1..k \in SUBSET (DOMAIN peers) /\ 1..k # {} /\ k \in 1..k
        /\ (1..k) \ {k} = 1..(k - 1)
    <3>1. (1..k) \ {k} = 1..(k - 1)
      OBVIOUS
    <3>2. 1..k # {}
      BY <2>0
    <3>3. 1..k \in SUBSET (DOMAIN peers)
      <4> HIDE DEF n
      <4> QED
        BY <1>1, <2>0
    <3> QED
      BY <2>0, <3>1, <3>2, <3>3
  <2>2. Max(1..k) = k
    BY <2>1, LastPlace
  <2> QED
    BY <1>5, <2>1, <2>2
<1>8. at[0] = base /\ \A k \in 1..n : at[k] = op(at[k - 1], k)
  <2>1. 1..0 = {}
    OBVIOUS
  <2> QED
    BY <1>1, <1>6, <1>7, <2>1
<1>9. at \in [0..n -> Walks]
  <2> DEFINE T == {k \in 0..n : at[k] \in Walks}
  <2> HIDE DEF at
  <2>1. 0 \in T
    BY <1>1, <1>2, <1>8
  <2>2. \A k \in 1..n : k - 1 \in T => k \in T
    BY <1>1, <1>3, <1>8
  <2>3. \A k \in 0..n : k \in T
    <3> HIDE DEF T, n
    <3> QED
      BY <1>1, <2>1, <2>2, PlaceByPlace
  <2>4. at = [k \in 0..n |-> at[k]]
    BY DEF at
  <2> QED
    BY <2>3, <2>4
<1>10. iter[DOMAIN peers] = at[n]
  BY <1>1
<1> HIDE DEF at
<1> QED
  BY <1>4, <1>8, <1>9, <1>10 DEF base, op, IsWalk

----------------------------------------------------------------------------
(* The merge is right *)

\* r is c with new at place k.
Inserted(r, c, new, k) ==
  /\ DOMAIN r = 1..(Len(c) + 1) /\ k \in 1..(Len(c) + 1)
  /\ \A i \in DOMAIN r :
       r[i] = IF i < k THEN c[i] ELSE IF i = k THEN new ELSE c[i - 1]

\* The members of M in c are in the order of P, and new is to be at place k.
Rising(c, M, P) ==
  \A i, j \in DOMAIN c :
    i < j /\ c[i] \in M /\ c[j] \in M => P[c[i]] < P[c[j]]

Fits(c, new, k, M, P) ==
  \A i \in DOMAIN c :
    c[i] \in M => IF i < k THEN P[c[i]] < P[new] ELSE P[new] < P[c[i]]

\* Where the walk is after the first k of the sorted peers s, with P their
\* places and C the children at the start: the children left are those of
\* later peers, and the children of peers of the list are in its order.
Walked(w, k, s, P, C, self) ==
  /\ \A i, j \in DOMAIN w.left : i < j => P[w.left[i]] < P[w.left[j]]
  /\ ToSet(w.left) = {x \in C \cap ToSet(s) : P[x] > k}
  /\ ToSet(w.children) = C \cup ({x \in ToSet(s) : P[x] <= k} \ {self})
  /\ IsInjective(w.children) /\ Rising(w.children, ToSet(s), P)

\* An insertion where it fits into a list without the new element keeps a
\* difference and an order.
LEMMA InsertOrdered ==
  ASSUME NEW c \in Seq(Peer), NEW r \in Seq(Peer), NEW new \in Peer,
         new \notin ToSet(c), IsInjective(c), NEW k \in Nat,
         NEW M, NEW P \in [M -> Nat], new \in M,
         Inserted(r, c, new, k), Rising(c, M, P), Fits(c, new, k, M, P)
  PROVE  IsInjective(r) /\ Rising(r, M, P)
<1>0. /\ DOMAIN r = 1..(Len(c) + 1) /\ k \in 1..(Len(c) + 1)
      /\ \A i \in DOMAIN r : r[i] = IF i < k THEN c[i]
                                    ELSE IF i = k THEN new ELSE c[i - 1]
      /\ \A i, j \in DOMAIN c : i < j /\ c[i] \in M /\ c[j] \in M
                                  => P[c[i]] < P[c[j]]
      /\ \A i \in DOMAIN c : c[i] \in M => IF i < k THEN P[c[i]] < P[new]
                                                     ELSE P[new] < P[c[i]]
  BY DEF Inserted, Rising, Fits
<1>1. Len(c) \in Nat /\ DOMAIN c = 1..Len(c)
  OBVIOUS
<1>2. \A i \in DOMAIN c : c[i] # new
  BY DEF ToSet
<1>3. ASSUME NEW i \in DOMAIN r, NEW j \in DOMAIN r, i < j
      PROVE  r[i] # r[j] /\ (r[i] \in M /\ r[j] \in M => P[r[i]] < P[r[j]])
  <2>1. i \in 1..(Len(c) + 1) /\ j \in 1..(Len(c) + 1)
    BY <1>0
  <2>2. CASE j < k
    <3>1. i \in DOMAIN c /\ j \in DOMAIN c /\ r[i] = c[i] /\ r[j] = c[j]
      BY <1>0, <1>1, <1>3, <2>1, <2>2
    <3> QED
      BY <1>0, <1>3, <3>1, <2>1 DEF IsInjective
  <2>3. CASE j = k
    <3>1. i \in DOMAIN c /\ r[i] = c[i] /\ r[j] = new /\ i < k
      BY <1>0, <1>1, <1>3, <2>1, <2>3
    <3> QED
      BY <1>0, <1>2, <3>1
  <2>4. CASE i < k /\ j > k
    <3>1. /\ i \in DOMAIN c /\ j - 1 \in DOMAIN c /\ r[i] = c[i]
          /\ r[j] = c[j - 1] /\ i < j - 1
      BY <1>0, <1>1, <1>3, <2>1, <2>4
    <3>2. c[i] # c[j - 1]
      BY <2>1, <3>1 DEF IsInjective
    <3> QED
      BY <1>0, <3>1, <3>2
  <2>5. CASE i = k
    <3>1. /\ j - 1 \in DOMAIN c /\ r[i] = new /\ r[j] = c[j - 1] /\ ~(j - 1 < k)
      BY <1>0, <1>1, <1>3, <2>1, <2>5
    <3> QED
      BY <1>0, <1>2, <3>1
  <2>6. CASE i > k
    <3>1. /\ i - 1 \in DOMAIN c /\ j - 1 \in DOMAIN c /\ r[i] = c[i - 1]
          /\ r[j] = c[j - 1] /\ i - 1 < j - 1
      BY <1>0, <1>1, <1>3, <2>1, <2>6
    <3>2. c[i - 1] # c[j - 1]
      BY <2>1, <3>1 DEF IsInjective
    <3> QED
      BY <1>0, <3>1, <3>2
  <2> QED
    BY <1>3, <2>1, <2>2, <2>3, <2>4, <2>5, <2>6
<1>4. ASSUME NEW i \in DOMAIN r, NEW j \in DOMAIN r, r[i] = r[j] PROVE i = j
  <2>1. ~(i < j) /\ ~(j < i)
    BY <1>3, <1>4
  <2> QED
    BY <1>0, <1>1, <2>1
<1> QED
  BY <1>3, <1>4 DEF IsInjective, Rising

\* A step of the walk takes Walked from one peer to the next.
LEMMA WalkStep ==
  ASSUME NEW s \in Seq(Peer), NEW P \in [ToSet(s) -> Nat], NEW self,
         NEW C, self \notin C,
         \A i \in DOMAIN s : P[s[i]] = i,
         \A x \in ToSet(s) : P[x] \in DOMAIN s /\ s[P[x]] = x,
         NEW k \in DOMAIN s, NEW w \in Walks, Walked(w, k - 1, s, P, C, self)
  PROVE  Walked(MergePeer(self, w, s[k]), k, s, P, C, self)
<1> DEFINE peer == s[k]
           M == ToSet(s)
           v == MergePeer(self, w, peer)
           c == w.children
           l == w.left
<1>1. k \in Nat /\ peer \in Peer /\ peer \in M /\ P[peer] = k
  BY DEF ToSet
<1>2. /\ c \in Seq(Peer) /\ l \in Seq(Peer) /\ ToSet(l) \subseteq ToSet(c)
      /\ w = [children |-> c, left |-> l]
  BY DEF Walks
<1>3. /\ \A i, j \in DOMAIN l : i < j => P[l[i]] < P[l[j]]
      /\ ToSet(l) = {x \in C \cap M : P[x] > k - 1}
      /\ ToSet(c) = C \cup ({x \in M : P[x] <= k - 1} \ {self})
      /\ IsInjective(c) /\ Rising(c, M, P)
  BY DEF Walked
<1>4. ASSUME NEW x \in M PROVE P[x] \in Nat /\ (P[x] = k => x = peer)
  OBVIOUS
<1> HIDE DEF peer, M
<1>5. {x \in M : P[x] <= k} = {x \in M : P[x] <= k - 1} \cup {peer}
  <2>1. ASSUME NEW x \in M PROVE P[x] <= k <=> P[x] <= k - 1 \/ x = peer
    BY <1>1, <1>4
  <2> QED
    BY <1>1, <2>1
<1>6. {x \in C \cap M : P[x] > k} = {x \in C \cap M : P[x] > k - 1} \ {peer}
  <2>1. ASSUME NEW x \in M PROVE P[x] > k <=> P[x] > k - 1 /\ x # peer
    BY <1>1, <1>4
  <2> QED
    BY <2>1
<1> HIDE DEF c, l
<1>7. CASE peer = self
  <2>1. v.children = c /\ v.left = l
    BY <1>2, <1>7 DEF MergePeer
  <2> HIDE DEF v
  <2>2. ToSet(l) = {x \in C \cap M : P[x] > k}
    BY <1>3, <1>6, <1>7
  <2>3. ToSet(c) = C \cup ({x \in M : P[x] <= k} \ {self})
    BY <1>3, <1>5, <1>7
  <2> QED
    BY <1>3, <2>1, <2>2, <2>3 DEF Walked, v, peer, M
<1>8. CASE peer # self /\ l = << >>
  <2>1. v.children = Append(c, peer) /\ v.left = << >>
    BY <1>2, <1>8 DEF MergePeer
  <2> HIDE DEF v
  <2>2. \A x \in C \cap M : P[x] <= k - 1
    <3>1. ToSet(l) = {}
      BY <1>8 DEF ToSet
    <3> QED
      BY <1>1, <1>3, <1>4, <3>1
  <2>3. peer \notin ToSet(c)
    BY <1>1, <1>3, <2>2
  <2>4. \A i \in DOMAIN c : c[i] \in M => P[c[i]] < P[peer]
    <3> SUFFICES ASSUME NEW i \in DOMAIN c, c[i] \in M PROVE P[c[i]] < P[peer]
      OBVIOUS
    <3>1. c[i] \in ToSet(c)
      BY DEF ToSet
    <3>2. P[c[i]] <= k - 1
      BY <1>3, <2>2, <3>1
    <3> QED
      BY <1>1, <1>4, <3>2
  <2>5. /\ Append(c, peer) \in Seq(Peer) /\ Len(c) \in Nat
        /\ DOMAIN Append(c, peer) = 1..(Len(c) + 1)
        /\ DOMAIN c = 1..Len(c)
    BY <1>1, <1>2
  <2>6. ASSUME NEW i \in DOMAIN Append(c, peer)
        PROVE  Append(c, peer)[i] = IF i < Len(c) + 1 THEN c[i]
                 ELSE IF i = Len(c) + 1 THEN peer ELSE c[i - 1]
    BY <1>1, <1>2, <2>5
  <2> DEFINE r == Append(c, peer)
  <2> HIDE DEF r
  <2>7. IsInjective(r) /\ Rising(r, M, P)
    <3>1. Fits(c, peer, Len(c) + 1, M, P)
      BY <2>4, <2>5 DEF Fits
    <3>2. P \in [M -> Nat]
      BY DEF M
    <3>3. r \in Seq(Peer) /\ Len(c) + 1 \in Nat
      BY <2>5 DEF r
    <3>4. Inserted(r, c, peer, Len(c) + 1)
      BY <2>5, <2>6 DEF r, Inserted
    <3> QED
      BY <1>1, <1>2, <1>3, <2>3, <3>1, <3>2, <3>3, <3>4, InsertOrdered
  <2>8. ToSet(r) = C \cup ({x \in M : P[x] <= k} \ {self})
    <3>1. ToSet(r) = ToSet(c) \cup {peer}
      BY <1>1, <1>2, AppendSet DEF r
    <3> QED
      BY <1>3, <1>5, <1>8, <3>1
  <2>9. ToSet(v.left) = {x \in C \cap M : P[x] > k}
    <3>1. ToSet(v.left) = {} /\ ToSet(l) = {}
      BY <1>8, <2>1 DEF ToSet
    <3> QED
      BY <1>3, <1>6, <3>1
  <2>10. v.children = r /\ \A i, j \in DOMAIN v.left : FALSE
    BY <2>1 DEF r
  <2> QED
    BY <2>7, <2>8, <2>9, <2>10 DEF Walked, v, peer, M
<1>9. CASE peer # self /\ l # << >> /\ peer = Head(l)
  <2>1. v.children = c /\ v.left = Tail(l)
    BY <1>2, <1>9 DEF MergePeer
  <2> HIDE DEF v
  <2> DEFINE t == Tail(l)
  <2>2. /\ Head(l) \in ToSet(l) /\ Head(l) = l[1] /\ 1 \in DOMAIN l
        /\ DOMAIN l = 1..Len(l) /\ DOMAIN t = 1..(Len(l) - 1)
        /\ \A i \in DOMAIN t : t[i] = l[i + 1] /\ i + 1 \in DOMAIN l
        /\ \A i \in DOMAIN l : i # 1 => i - 1 \in DOMAIN t
        /\ Len(l) \in Nat
    BY <1>2, <1>9, TailSet
  <2> HIDE DEF t
  <2>3. \A i, j \in DOMAIN t : i < j => P[t[i]] < P[t[j]]
    <3> SUFFICES ASSUME NEW i \in DOMAIN t, NEW j \in DOMAIN t, i < j
                 PROVE  P[t[i]] < P[t[j]]
      OBVIOUS
    <3>1. i + 1 \in DOMAIN l /\ j + 1 \in DOMAIN l /\ i + 1 < j + 1
      BY <2>2
    <3> QED
      BY <1>3, <2>2, <3>1
  <2>4. ToSet(t) = ToSet(l) \ {peer}
    <3>1. ASSUME NEW i \in DOMAIN t PROVE t[i] \in ToSet(l) \ {peer}
      <4>1. i + 1 \in DOMAIN l /\ 1 < i + 1 /\ t[i] = l[i + 1]
        BY <2>2
      <4>2. P[l[1]] < P[l[i + 1]]
        BY <1>3, <2>2, <4>1
      <4>3. l[1] \in M /\ P[l[1]] \in Nat
        BY <1>1, <1>4, <1>9, <2>2
      <4>4. l[i + 1] # peer
        BY <1>9, <2>2, <4>2, <4>3
      <4> QED
        BY <4>1, <4>4 DEF ToSet
    <3>2. ASSUME NEW i \in DOMAIN l, l[i] # peer PROVE l[i] \in ToSet(t)
      <4>1. i - 1 \in DOMAIN t /\ (i - 1) + 1 = i
        BY <1>9, <2>2, <3>2
      <4>2. t[i - 1] = l[i]
        BY <2>2, <4>1
      <4> QED
        BY <4>1, <4>2 DEF ToSet
    <3>3. ToSet(t) \subseteq ToSet(l) \ {peer}
      BY <3>1 DEF ToSet
    <3>4. ToSet(l) \ {peer} \subseteq ToSet(t)
      BY <3>2 DEF ToSet
    <3> QED
      BY <3>3, <3>4
  <2>5. ToSet(t) = {x \in C \cap M : P[x] > k}
    BY <1>3, <1>6, <2>4
  <2>6. peer \in C
    BY <1>3, <1>9, <2>2
  <2>7. ToSet(c) = C \cup ({x \in M : P[x] <= k} \ {self})
    BY <1>3, <1>5, <1>9, <2>6
  <2>8. v.left = t
    BY <2>1 DEF t
  <2> QED
    BY <1>3, <2>1, <2>3, <2>5, <2>7, <2>8 DEF Walked, v, peer, M
<1>10. CASE peer # self /\ l # << >> /\ peer # Head(l)
  <2> DEFINE h == Head(l)
             r == InsertBefore(c, peer, h)
  <2>1. v.children = r /\ v.left = l
    BY <1>2, <1>10 DEF MergePeer
  <2> HIDE DEF v
  <2>2. h \in ToSet(l) /\ h = l[1] /\ 1 \in DOMAIN l /\ DOMAIN l = 1..Len(l)
    BY <1>2, <1>10, TailSet
  <2>3. r \in Seq(Peer) /\ DOMAIN r = 1..(Len(c) + 1)
    BY <1>1, <1>2, <2>2, InsertPlaces
  <2>4. PICK m \in DOMAIN c :
          /\ c[m] = h
          /\ \A i \in DOMAIN r :
               r[i] = IF i < m THEN c[i] ELSE IF i = m THEN peer ELSE c[i - 1]
    BY <1>1, <1>2, <2>2, InsertPlaces
  <2>5. ToSet(r) = ToSet(c) \cup {peer}
    BY <1>1, <1>2, <2>2, InsertSet
  <2> HIDE DEF h, r
  <2>6. h \in C /\ h \in M /\ P[h] > k /\ P[h] \in Nat
    BY <1>1, <1>3, <1>4, <1>10, <2>2 DEF h
  <2>7. \A x \in ToSet(l) : x = h \/ P[x] > P[h]
    <3> SUFFICES ASSUME NEW i \in DOMAIN l PROVE l[i] = h \/ P[l[i]] > P[h]
      BY DEF ToSet
    <3>1. i \in Nat /\ (i = 1 \/ 1 < i)
      BY <1>2, <2>2
    <3>2. l[i] \in M /\ P[l[i]] \in Nat
      <4>1. l[i] \in ToSet(l)
        BY DEF ToSet
      <4> QED
        BY <1>3, <1>4, <4>1
    <3>3. 1 < i => P[l[1]] < P[l[i]]
      BY <1>3, <2>2
    <3> QED
      BY <2>2, <2>6, <3>1, <3>2, <3>3
  <2>8. \A x \in C \cap M : P[x] <= k - 1 \/ P[x] >= P[h]
    <3> SUFFICES ASSUME NEW x \in C \cap M, P[x] > k - 1 PROVE P[x] >= P[h]
      BY <1>1, <1>4
    <3>1. x \in ToSet(l)
      BY <1>3
    <3> QED
      BY <1>4, <2>6, <2>7, <3>1
  <2>9. peer \notin ToSet(c)
    BY <1>1, <1>3, <2>6, <2>8
  <2>10. ASSUME NEW i \in DOMAIN c, c[i] \in M
         PROVE  IF i < m THEN P[c[i]] < P[peer] ELSE P[peer] < P[c[i]]
    <3>1. c[i] \in ToSet(c) /\ P[c[i]] \in Nat /\ i \in Nat /\ m \in Nat
      BY <1>2, <1>4, <2>10 DEF ToSet
    <3>2. P[c[i]] <= k - 1 \/ P[c[i]] >= P[h]
      BY <1>3, <2>8, <2>10, <3>1
    <3>3. CASE i < m
      <4>1. P[c[i]] < P[h]
        BY <1>3, <2>4, <2>6, <2>10, <3>3 DEF Rising
      <4> QED
        BY <1>1, <2>6, <3>1, <3>2, <3>3, <4>1
    <3>4. CASE i = m
      BY <1>1, <2>4, <2>6, <3>4
    <3>5. CASE m < i
      <4>1. P[h] < P[c[i]]
        BY <1>3, <2>4, <2>6, <2>10, <3>5 DEF Rising
      <4> QED
        BY <1>1, <2>6, <3>1, <3>5, <4>1
    <3> QED
      BY <3>1, <3>3, <3>4, <3>5
  <2>11. IsInjective(r) /\ Rising(r, M, P)
    <3>1. m \in Nat /\ m \in 1..(Len(c) + 1)
      BY <1>2
    <3>2. P \in [M -> Nat]
      BY DEF M
    <3>3. Fits(c, peer, m, M, P)
      BY <2>10 DEF Fits
    <3>4. Inserted(r, c, peer, m)
      BY <2>3, <2>4, <3>1 DEF Inserted
    <3> QED
      BY <1>1, <1>2, <1>3, <2>3, <2>9, <3>1, <3>2, <3>3, <3>4, InsertOrdered
  <2>12. ToSet(l) = {x \in C \cap M : P[x] > k}
    <3>1. peer \notin ToSet(l)
      BY <1>2, <2>9
    <3> QED
      BY <1>3, <1>6, <3>1
  <2>13. ToSet(r) = C \cup ({x \in M : P[x] <= k} \ {self})
    BY <1>3, <1>5, <1>10, <2>5
  <2> QED
    BY <1>3, <2>1, <2>11, <2>12, <2>13 DEF Walked, v, peer, M
<1> QED
  BY <1>7, <1>8, <1>9, <1>10

\* The children of listed peers are in the order of the sorted peers.
InOrder(children, map) ==
  \A i, j \in DOMAIN children :
    i < j /\ children[i] \in ToSet(map) /\ children[j] \in ToSet(map)
      => Before(map, children[i], children[j])

\* Before is the order of the places in the sorted list.
LEMMA BeforePlaces ==
  ASSUME NEW map \in Seq(Peer), IsInjective(map), peerName \in [Peer -> Nick]
  PROVE  \E P \in [ToSet(Sorted(map)) -> Nat] :
           /\ \A i \in DOMAIN Sorted(map) : P[Sorted(map)[i]] = i
           /\ \A x \in ToSet(map) :
                P[x] \in DOMAIN Sorted(map) /\ Sorted(map)[P[x]] = x
           /\ \A x, y \in ToSet(map) : Before(map, x, y) <=> P[x] < P[y]
<1> DEFINE s == Sorted(map)
           P == [x \in ToSet(s) |-> CHOOSE i \in DOMAIN s : s[i] = x]
<1>1. /\ s \in Seq(Peer) /\ ToSet(s) = ToSet(map) /\ IsInjective(s)
      /\ \A i, j \in DOMAIN s : i < j => Before(map, s[i], s[j])
  BY SortedSorts
<1> HIDE DEF s
<1>2. ASSUME NEW x \in ToSet(s) PROVE P[x] \in DOMAIN s /\ s[P[x]] = x
  <2>1. \E i \in DOMAIN s : s[i] = x
    BY DEF ToSet
  <2> QED
    BY <2>1
<1>3. P \in [ToSet(s) -> Nat]
  <2>1. \A x \in ToSet(s) : P[x] \in Nat
    BY <1>1, <1>2
  <2>2. P = [x \in ToSet(s) |-> P[x]]
    OBVIOUS
  <2> HIDE DEF P
  <2> QED
    BY <2>1, <2>2
<1> HIDE DEF P
<1>4. ASSUME NEW i \in DOMAIN s PROVE P[s[i]] = i
  <2>1. s[i] \in ToSet(s)
    BY DEF ToSet
  <2> QED
    BY <1>1, <1>2, <2>1 DEF IsInjective
<1>5. ASSUME NEW x, NEW y, Before(map, x, y), Before(map, y, x) PROVE FALSE
  <2>1. PICK i \in DOMAIN map, j \in DOMAIN map :
          map[i] = x /\ map[j] = y /\ <<i, j>> \in cmpPeers(map)
    BY <1>5 DEF Before
  <2>2. <<j, i>> \in cmpPeers(map)
    BY <1>5, <2>1 DEF Before, IsInjective
  <2>3. peerName[x] \in Nat /\ peerName[y] \in Nat
    <3>1. x \in Peer /\ y \in Peer
      BY <2>1
    <3> QED
      BY <3>1, ParticipantsAssumption
  <2> QED
    BY <2>1, <2>2, <2>3 DEF cmpPeers
<1>6. ASSUME NEW x \in ToSet(map), NEW y \in ToSet(map)
      PROVE  Before(map, x, y) <=> P[x] < P[y]
  <2>1. /\ P[x] \in DOMAIN s /\ s[P[x]] = x /\ P[x] \in Nat
        /\ P[y] \in DOMAIN s /\ s[P[y]] = y /\ P[y] \in Nat
    BY <1>1, <1>2, <1>3
  <2>2. P[x] < P[y] => Before(map, x, y)
    BY <1>1, <2>1
  <2>3. P[y] < P[x] => Before(map, y, x)
    BY <1>1, <2>1
  <2>4. P[x] = P[y] => x = y
    BY <2>1
  <2> QED
    BY <1>5, <2>1, <2>2, <2>3, <2>4
<1>7. \A x \in ToSet(map) : P[x] \in DOMAIN s /\ s[P[x]] = x
  BY <1>1, <1>2
<1> QED
  BY <1>3, <1>4, <1>6, <1>7 DEF s

\* The merge shows every other peer of the list once and in order, does not
\* fail, and leaves alone what is no longer of the list.
LEMMA MergeRight ==
  ASSUME NEW pg \in Page, peerName \in [Peer -> Nick],
         IsInjective(pg.peersMap), IsInjective(pg.children),
         pg.peerId \notin ToSet(pg.children), InOrder(pg.children, pg.peersMap)
  PROVE  \E c \in Seq(Peer) :
           /\ Merge(pg, ChildrenLeft(pg), Sorted(pg.peersMap))
                = [pg EXCEPT !.children = c]
           /\ IsInjective(c) /\ InOrder(c, pg.peersMap)
           /\ ToSet(c) = ToSet(pg.children) \cup (ToSet(pg.peersMap) \ {pg.peerId})
<1> DEFINE map == pg.peersMap
           s == Sorted(map)
           n == Len(s)
           C == ToSet(pg.children)
           left == ChildrenLeft(pg)
           self == pg.peerId
<1>1. /\ map \in Seq(Peer) /\ pg.children \in Seq(Peer) /\ pg.error \in BOOLEAN
      /\ DOMAIN pg = {"peerId", "peersMap", "made", "count", "children",
                      "fading", "error"}
  BY DEF Page
<1>2. /\ s \in Seq(Peer) /\ ToSet(s) = ToSet(map)
      /\ n \in Nat /\ DOMAIN s = 1..n
  <2>1. s \in Seq(Peer) /\ ToSet(s) = ToSet(map)
    BY <1>1, SortedSorts
  <2> HIDE DEF s
  <2> QED
    BY <2>1
<1>3. PICK P \in [ToSet(s) -> Nat] :
        /\ \A i \in DOMAIN s : P[s[i]] = i
        /\ \A x \in ToSet(map) : P[x] \in DOMAIN s /\ s[P[x]] = x
        /\ \A x, y \in ToSet(map) : Before(map, x, y) <=> P[x] < P[y]
  BY <1>1, BeforePlaces
<1>4. left \in Seq(Peer) /\ ToSet(left) = C \cap ToSet(map)
  BY <1>1, KeepSelects DEF ChildrenLeft
<1>5. PICK at : Takes(left, pg.children, ToSet(map), at)
  BY <1>1, KeepTakes DEF ChildrenLeft
<1>6. ASSUME NEW i \in DOMAIN left, NEW j \in DOMAIN left, i < j
      PROVE  P[left[i]] < P[left[j]]
  <2>1. /\ at[i] \in DOMAIN pg.children /\ at[j] \in DOMAIN pg.children
        /\ at[i] < at[j]
        /\ left[i] = pg.children[at[i]] /\ left[i] \in ToSet(map)
        /\ left[j] = pg.children[at[j]] /\ left[j] \in ToSet(map)
    BY <1>5, <1>6 DEF Takes
  <2>2. Before(map, left[i], left[j])
    BY <2>1 DEF InOrder
  <2> QED
    BY <1>3, <2>1, <2>2
<1> HIDE DEF left, s, n
<1>7. PICK at2 \in [0..n -> Walks] :
        /\ at2[0] = [children |-> pg.children, left |-> left]
        /\ \A k \in 1..n : at2[k] = MergePeer(self, at2[k - 1], s[k])
        /\ Merge(pg, left, s)
             = [pg EXCEPT !.children = at2[n].children,
                          !.error = @ \/ at2[n].left # << >>]
  <2>1. ToSet(left) \subseteq ToSet(pg.children)
    BY <1>4
  <2>2. PICK w \in [0..Len(s) -> Walks] : IsWalk(w, pg, left, s)
    BY <1>2, <1>4, <2>1, MergeWalk
  <2> QED
    BY <2>2 DEF IsWalk, n
<1> DEFINE W(k) == Walked(at2[k], k, s, P, C, self)
<1>8. W(0)
  <2>1. at2[0].children = pg.children /\ at2[0].left = left
    BY <1>7
  <2>2. ToSet(left) = {x \in C \cap ToSet(s) : P[x] > 0}
    BY <1>2, <1>3, <1>4
  <2>3. C = C \cup ({x \in ToSet(s) : P[x] <= 0} \ {self})
    BY <1>2, <1>3
  <2>4. ASSUME NEW i \in DOMAIN pg.children, NEW j \in DOMAIN pg.children, i < j,
               pg.children[i] \in ToSet(s), pg.children[j] \in ToSet(s)
        PROVE  P[pg.children[i]] < P[pg.children[j]]
    <3>1. Before(map, pg.children[i], pg.children[j])
      BY <1>2, <2>4 DEF InOrder
    <3> QED
      BY <1>2, <1>3, <2>4, <3>1
  <2> QED
    BY <1>6, <2>1, <2>2, <2>3, <2>4 DEF Walked, Rising
<1>9. ASSUME NEW k \in 1..n, W(k - 1) PROVE W(k)
  <2>1. at2[k - 1] \in Walks /\ k \in DOMAIN s
    BY <1>2
  <2>2. \A i \in DOMAIN s : P[s[i]] = i
    BY <1>3
  <2>3. \A x \in ToSet(s) : P[x] \in DOMAIN s /\ s[P[x]] = x
    BY <1>2, <1>3
  <2>4. Walked(MergePeer(self, at2[k - 1], s[k]), k, s, P, C, self)
    BY <1>2, <1>9, <2>1, <2>2, <2>3, WalkStep
  <2> QED
    BY <1>7, <2>4
<1>10. W(n)
  <2> DEFINE T == {k \in 0..n : W(k)}
  <2>1. 0 \in T
    BY <1>2, <1>8
  <2>2. \A k \in 1..n : k - 1 \in T => k \in T
    BY <1>2, <1>9, SMTT(30)
  <2>3. \A k \in 0..n : k \in T
    <3> HIDE DEF T
    <3> QED
      BY <1>2, <2>1, <2>2, PlaceByPlace
  <2>4. n \in 0..n
    BY <1>2
  <2> QED
    BY <2>3, <2>4
<1> DEFINE c == at2[n].children
<1>11. c \in Seq(Peer) /\ at2[n].left \in Seq(Peer)
  BY <1>2 DEF Walks
<1>12. \A x \in ToSet(s) : P[x] <= n
  BY <1>2, <1>3
<1>13. at2[n].left = << >>
  <2>1. ToSet(at2[n].left) = {}
    BY <1>2, <1>3, <1>10, <1>12 DEF Walked
  <2> QED
    BY <1>11, <2>1, TailSet
<1>14. ToSet(c) = C \cup (ToSet(map) \ {self})
  BY <1>2, <1>10, <1>12 DEF Walked
<1>15. IsInjective(c) /\ InOrder(c, map)
  <2>1. /\ IsInjective(c)
        /\ \A i, j \in DOMAIN c : i < j /\ c[i] \in ToSet(s) /\ c[j] \in ToSet(s)
             => P[c[i]] < P[c[j]]
    BY <1>10 DEF Walked, Rising
  <2> HIDE DEF c
  <2> QED
    BY <1>2, <1>3, <2>1 DEF InOrder
<1>16. Merge(pg, left, s) = [pg EXCEPT !.children = c]
  <2>1. Merge(pg, left, s) = [pg EXCEPT !.children = c, !.error = pg.error]
    BY <1>1, <1>7, <1>13
  <2>2. [pg EXCEPT !.children = c, !.error = pg.error] = [pg EXCEPT !.children = c]
    BY DEF Page
  <2> QED
    BY <2>1, <2>2
<1> QED
  BY <1>11, <1>14, <1>15, <1>16 DEF left, s

----------------------------------------------------------------------------
(* updateParticipants *)

\* The page when it may be updated: the children of listed peers are in the
\* order of the peers, and no peer of the list is fading out.
Ready(pg) ==
  /\ IsInjective(pg.peersMap) /\ ~pg.error
  /\ pg.made => /\ pg.peerId # NoPeer /\ IsInjective(pg.children)
                /\ pg.peerId \notin ToSet(pg.children)
  /\ ~pg.made => pg.children = << >> /\ pg.fading = {}
  /\ pg.fading \subseteq ToSet(pg.children)
  /\ pg.fading \cap ToSet(pg.peersMap) = {}
  /\ InOrder(pg.children, pg.peersMap)

\* The page after an update: it also shows the list, the own peer excepted.
Good(pg) ==
  /\ Ready(pg)
  /\ pg.made <=> pg.peerId # NoPeer
  /\ pg.made => /\ pg.count = Len(pg.peersMap)
                /\ ToSet(pg.children) \ pg.fading
                     = ToSet(pg.peersMap) \ {pg.peerId}

\* The fields of a page, one by one.
LEMMA PageFields ==
  ASSUME NEW pg \in Page
  PROVE  /\ pg.peerId \in Peer \cup {NoPeer} /\ pg.peersMap \in Seq(Peer)
         /\ pg.made \in BOOLEAN /\ pg.count \in Nat /\ pg.children \in Seq(Peer)
         /\ pg.fading \in SUBSET Peer /\ pg.error \in BOOLEAN
         /\ Len(pg.peersMap) \in Nat
         /\ ToSet(pg.children) \subseteq Peer
<1>1. pg.peersMap \in Seq(Peer) /\ pg.children \in Seq(Peer)
  BY DEF Page
<1>2. Len(pg.peersMap) \in Nat
  BY <1>1
<1>3. ToSet(pg.children) \subseteq Peer
  BY <1>1 DEF ToSet
<1> QED
  BY <1>1, <1>2, <1>3 DEF Page

\* Marking changes the count and what is fading.
LEMMA MarkedFields ==
  ASSUME NEW pg \in Page
  PROVE  LET m == Marked(pg)
         IN  /\ m \in Page
             /\ m.peerId = pg.peerId /\ m.peersMap = pg.peersMap
             /\ m.made = pg.made /\ m.count = Len(pg.peersMap)
             /\ m.children = pg.children /\ m.error = pg.error
             /\ m.fading
                  = pg.fading \cup (ToSet(pg.children) \ ToSet(pg.peersMap))
             /\ ChildrenLeft(m) = ChildrenLeft(pg)
<1> DEFINE gone == ToSet(pg.children) \ ToSet(pg.peersMap)
           m == Marked(pg)
<1>1. gone \in SUBSET Peer /\ Len(pg.peersMap) \in Nat
  BY PageFields
<1>2. m = [pg EXCEPT !.count = Len(pg.peersMap), !.fading = @ \cup gone]
  BY DEF Marked
<1> HIDE DEF gone, m
<1>3. /\ m \in Page
      /\ m.peerId = pg.peerId /\ m.peersMap = pg.peersMap
      /\ m.made = pg.made /\ m.count = Len(pg.peersMap)
      /\ m.children = pg.children /\ m.error = pg.error
      /\ m.fading = pg.fading \cup gone
  BY <1>1, <1>2 DEF Page
<1>4. ChildrenLeft(m) = ChildrenLeft(pg)
  BY <1>3 DEF ChildrenLeft
<1> QED
  BY <1>3, <1>4 DEF m, gone

\* The list that is shown first.
LEMMA Created ==
  ASSUME NEW pg \in Page, peerName \in [Peer -> Nick], pg.peerId # NoPeer
  PROVE  \E c \in Seq(Peer) :
           /\ createParticipantsList(pg)
                = [pg EXCEPT !.made = TRUE, !.count = Len(pg.peersMap),
                             !.children = c]
           /\ ToSet(c) = ToSet(pg.peersMap) \ {pg.peerId}
           /\ InOrder(c, pg.peersMap)
           /\ IsInjective(pg.peersMap) => IsInjective(c)
<1> DEFINE map == pg.peersMap
           s == Sorted(map)
           S == Peer \ {pg.peerId}
           c == Keep(s, S)
<1>1. map \in Seq(Peer) /\ ToSet(map) \subseteq Peer
  <2>1. map \in Seq(Peer)
    BY PageFields
  <2> QED
    BY <2>1 DEF ToSet
<1>2. /\ s \in Seq(Peer) /\ ToSet(s) = ToSet(map)
      /\ \A i, j \in DOMAIN s : i < j => Before(map, s[i], s[j])
      /\ IsInjective(map) => IsInjective(s)
  BY <1>1, SortedSorts
<1>3. createParticipantsList(pg)
        = [pg EXCEPT !.made = TRUE, !.count = Len(pg.peersMap), !.children = c]
  BY DEF createParticipantsList
<1> HIDE DEF s
<1>4. /\ c \in Seq(Peer) /\ ToSet(c) = ToSet(s) \cap S
      /\ IsInjective(s) => IsInjective(c)
  BY <1>2, KeepSelects
<1>5. PICK at : Takes(c, s, S, at)
  BY <1>2, KeepTakes
<1> HIDE DEF c
<1>6. \A i, j \in DOMAIN c : i < j => Before(map, c[i], c[j])
  BY <1>2, <1>5 DEF Takes
<1>7. InOrder(c, map)
  BY <1>6 DEF InOrder
<1>8. ToSet(c) = ToSet(map) \ {pg.peerId}
  BY <1>1, <1>2, <1>4
<1> QED
  BY <1>2, <1>3, <1>4, <1>7, <1>8

\* An update keeps the types, and shows the list once the own peer is known.
LEMMA UpdateType ==
  ASSUME NEW pg \in Page, peerName \in [Peer -> Nick]
  PROVE  LET u == updateParticipants(pg)
         IN  /\ u \in Page
             /\ u.peerId = pg.peerId /\ u.peersMap = pg.peersMap
             /\ u.made <=> pg.made \/ pg.peerId # NoPeer
<1> DEFINE u == updateParticipants(pg)
<1>1. CASE ~pg.made /\ pg.peerId = NoPeer
  <2>1. u = pg
    BY <1>1 DEF updateParticipants, createParticipantsList
  <2> QED
    BY <1>1, <2>1
<1>2. CASE ~pg.made /\ pg.peerId # NoPeer
  <2>1. u = createParticipantsList(pg)
    BY <1>2 DEF updateParticipants
  <2>2. PICK c \in Seq(Peer) :
          createParticipantsList(pg)
            = [pg EXCEPT !.made = TRUE, !.count = Len(pg.peersMap),
                         !.children = c]
    BY <1>2, Created
  <2>3. Len(pg.peersMap) \in Nat
    BY PageFields
  <2> HIDE DEF u
  <2> QED
    BY <1>2, <2>1, <2>2, <2>3, ZenonT(30) DEF Page, u
<1>3. CASE pg.made
  <2> DEFINE m == Marked(pg)
             left == ChildrenLeft(pg)
             s == Sorted(pg.peersMap)
  <2>1. u = Merge(m, left, s)
    BY <1>3 DEF updateParticipants
  <2>2. /\ m \in Page /\ m.peerId = pg.peerId /\ m.peersMap = pg.peersMap
        /\ m.made = pg.made /\ m.children = pg.children
    BY MarkedFields
  <2>3. s \in Seq(Peer)
    BY PageFields, SortedSorts
  <2>4. left \in Seq(Peer) /\ ToSet(left) \subseteq ToSet(pg.children)
    BY PageFields, KeepSelects DEF ChildrenLeft
  <2> HIDE DEF m, left, s, u
  <2>5. PICK w \in [0..Len(s) -> Walks] : IsWalk(w, m, left, s)
    BY <2>2, <2>3, <2>4, MergeWalk
  <2> DEFINE c == w[Len(s)].children
             e == m.error \/ w[Len(s)].left # << >>
  <2>6. u = [m EXCEPT !.children = c, !.error = e]
    BY <2>1, <2>5 DEF IsWalk
  <2>7. c \in Seq(Peer) /\ e \in BOOLEAN
    BY <2>3 DEF Walks
  <2> HIDE DEF c, e
  <2>8. /\ u \in Page /\ u.peerId = m.peerId /\ u.peersMap = m.peersMap
        /\ u.made = m.made
    BY <2>2, <2>6, <2>7 DEF Page
  <2> QED
    BY <1>3, <2>2, <2>8 DEF u
<1> QED
  BY <1>1, <1>2, <1>3

\* An update of a page that is ready shows the list, and only lets fade out
\* the children of peers that are gone.
LEMMA UpdateGood ==
  ASSUME NEW pg \in Page, peerName \in [Peer -> Nick], Ready(pg)
  PROVE  LET u == updateParticipants(pg)
         IN  /\ Good(u)
             /\ u.fading
                  = pg.fading \cup (ToSet(pg.children) \ ToSet(pg.peersMap))
<1> DEFINE u == updateParticipants(pg)
           map == pg.peersMap
           C == ToSet(pg.children)
<1>1. /\ IsInjective(map) /\ ~pg.error
      /\ pg.made => /\ pg.peerId # NoPeer /\ IsInjective(pg.children)
                    /\ pg.peerId \notin C
      /\ ~pg.made => pg.children = << >> /\ pg.fading = {}
      /\ pg.fading \subseteq C /\ pg.fading \cap ToSet(map) = {}
      /\ InOrder(pg.children, map)
  BY DEF Ready
<1>2. CASE ~pg.made /\ pg.peerId = NoPeer
  <2>1. u = pg
    BY <1>2 DEF updateParticipants, createParticipantsList
  <2>2. C = {}
    BY <1>1, <1>2 DEF ToSet
  <2>3. Good(pg)
    BY <1>2 DEF Good
  <2> HIDE DEF u
  <2> QED
    BY <2>1, <2>2, <2>3 DEF u
<1>3. CASE ~pg.made /\ pg.peerId # NoPeer
  <2>1. u = createParticipantsList(pg)
    BY <1>3 DEF updateParticipants
  <2>2. PICK c \in Seq(Peer) :
          /\ createParticipantsList(pg)
               = [pg EXCEPT !.made = TRUE, !.count = Len(pg.peersMap),
                            !.children = c]
          /\ ToSet(c) = ToSet(map) \ {pg.peerId} /\ InOrder(c, map)
          /\ IsInjective(map) => IsInjective(c)
    BY <1>3, Created
  <2> HIDE DEF u
  <2>3. /\ u.peerId = pg.peerId /\ u.peersMap = map /\ u.made
        /\ u.count = Len(map) /\ u.children = c /\ u.fading = pg.fading
        /\ u.error = pg.error
    BY <2>1, <2>2 DEF Page
  <2>4. C = {} /\ u.fading = {}
    BY <1>1, <1>3, <2>3 DEF ToSet
  <2>5. Ready(u)
    BY <1>1, <1>3, <2>2, <2>3, <2>4 DEF Ready
  <2>6. Good(u)
    BY <1>3, <2>2, <2>3, <2>4, <2>5 DEF Good
  <2> QED
    BY <2>3, <2>4, <2>6 DEF u
<1>4. CASE pg.made
  <2> DEFINE m == Marked(pg)
             left == ChildrenLeft(pg)
             s == Sorted(map)
  <2>1. u = Merge(m, left, s)
    BY <1>4 DEF updateParticipants
  <2>2. /\ m \in Page /\ m.peerId = pg.peerId /\ m.peersMap = map
        /\ m.made = pg.made /\ m.children = pg.children /\ m.error = pg.error
        /\ m.count = Len(map) /\ ChildrenLeft(m) = left
        /\ m.fading = pg.fading \cup (C \ ToSet(map))
    BY MarkedFields
  <2> HIDE DEF m
  <2>3. \E c \in Seq(Peer) :
          /\ Merge(m, ChildrenLeft(m), Sorted(m.peersMap))
               = [m EXCEPT !.children = c]
          /\ IsInjective(c) /\ InOrder(c, m.peersMap)
          /\ ToSet(c) = ToSet(m.children) \cup (ToSet(m.peersMap) \ {m.peerId})
    BY <1>1, <1>4, <2>2, MergeRight
  <2>4. PICK c \in Seq(Peer) :
          /\ u = [m EXCEPT !.children = c]
          /\ IsInjective(c) /\ InOrder(c, map)
          /\ ToSet(c) = C \cup (ToSet(map) \ {pg.peerId})
    BY <2>1, <2>2, <2>3
  <2> HIDE DEF u
  <2>5. /\ u.peerId = pg.peerId /\ u.peersMap = map /\ u.made
        /\ u.count = Len(map) /\ u.children = c /\ u.error = pg.error
        /\ u.fading = pg.fading \cup (C \ ToSet(map))
    BY <1>4, <2>2, <2>4 DEF Page
  <2>6. u.fading \subseteq ToSet(c) /\ u.fading \cap ToSet(map) = {}
    BY <1>1, <2>4, <2>5
  <2>7. pg.peerId \notin ToSet(c)
    BY <1>1, <1>4, <2>4
  <2>8. Ready(u)
    BY <1>1, <1>4, <2>4, <2>5, <2>6, <2>7 DEF Ready
  <2>9. ToSet(c) \ u.fading = ToSet(map) \ {pg.peerId}
    BY <1>1, <1>4, <2>4, <2>5
  <2>10. Good(u)
    BY <1>1, <1>4, <2>5, <2>8, <2>9 DEF Good
  <2> QED
    BY <2>5, <2>10 DEF u
<1> QED
  BY <1>2, <1>3, <1>4

\* A page stays ready for another list if the children on it are those that
\* were, in the order they were in.
LEMMA Relisted ==
  ASSUME NEW pg \in Page, Good(pg), NEW map \in Seq(Peer), IsInjective(map),
         pg.fading \cap ToSet(map) = {},
         ToSet(pg.children) \cap ToSet(map) \subseteq ToSet(pg.peersMap),
         \A x, y \in ToSet(map) :
           Before(pg.peersMap, x, y) => Before(map, x, y)
  PROVE  LET new == [pg EXCEPT !.peersMap = map]
         IN  new \in Page /\ Ready(new)
<1> DEFINE new == [pg EXCEPT !.peersMap = map]
<1>1. /\ new \in Page
      /\ new.peerId = pg.peerId /\ new.peersMap = map /\ new.made = pg.made
      /\ new.children = pg.children /\ new.fading = pg.fading
      /\ new.error = pg.error
  BY DEF Page
<1> HIDE DEF new
<1>2. ASSUME NEW i \in DOMAIN pg.children, NEW j \in DOMAIN pg.children, i < j,
             pg.children[i] \in ToSet(map), pg.children[j] \in ToSet(map)
      PROVE  Before(map, pg.children[i], pg.children[j])
  <2>1. pg.children[i] \in ToSet(pg.children) /\ pg.children[j] \in ToSet(pg.children)
    BY DEF ToSet
  <2>2. pg.children[i] \in ToSet(pg.peersMap) /\ pg.children[j] \in ToSet(pg.peersMap)
    BY <1>2, <2>1
  <2>3. Before(pg.peersMap, pg.children[i], pg.children[j])
    BY <1>2, <2>2 DEF Good, Ready, InOrder
  <2> QED
    BY <1>2, <2>3
<1>3. InOrder(pg.children, map)
  BY <1>2 DEF InOrder
<1>4. Ready(new)
  BY <1>1, <1>3 DEF Good, Ready
<1> QED
  BY <1>1, <1>4 DEF new

\* set adds the peer and keeps the order of the others.
LEMMA SetMap ==
  ASSUME NEW map \in Seq(Peer), NEW p \in Peer
  PROVE  /\ set(map, p) \in Seq(Peer)
         /\ ToSet(set(map, p)) = ToSet(map) \cup {p}
         /\ IsInjective(map) => IsInjective(set(map, p))
         /\ \A x, y : Before(map, x, y) => Before(set(map, p), x, y)
<1> DEFINE new == set(map, p)
<1>1. CASE p \in ToSet(map)
  BY <1>1 DEF set
<1>2. CASE p \notin ToSet(map)
  <2>1. new = Append(map, p)
    BY <1>2 DEF set
  <2>2. /\ new \in Seq(Peer) /\ Len(map) \in Nat /\ DOMAIN map = 1..Len(map)
        /\ DOMAIN new = 1..(Len(map) + 1)
        /\ \A i \in 1..Len(map) : new[i] = map[i]
        /\ new[Len(map) + 1] = p
    BY <2>1
  <2>3. ToSet(new) = ToSet(map) \cup {p}
    BY <2>1, AppendSet
  <2> HIDE DEF new
  <2>4. \A i \in 1..Len(map) : map[i] # p
    BY <1>2, <2>2 DEF ToSet
  <2>5. ASSUME IsInjective(map), NEW i \in DOMAIN new, NEW j \in DOMAIN new,
               new[i] = new[j]
        PROVE  i = j
    <3>1. i \in 1..Len(map) \/ i = Len(map) + 1
      BY <2>2
    <3>2. j \in 1..Len(map) \/ j = Len(map) + 1
      BY <2>2
    <3> QED
      BY <2>2, <2>4, <2>5, <3>1, <3>2 DEF IsInjective
  <2>6. ASSUME NEW x, NEW y, Before(map, x, y) PROVE Before(new, x, y)
    <3>1. PICK i \in DOMAIN map, j \in DOMAIN map :
            map[i] = x /\ map[j] = y /\ <<i, j>> \in cmpPeers(map)
      BY <2>6 DEF Before
    <3>2. /\ i \in DOMAIN new /\ j \in DOMAIN new
          /\ new[i] = map[i] /\ new[j] = map[j]
      BY <2>2
    <3>3. <<i, j>> \in cmpPeers(new)
      BY <3>1, <3>2 DEF cmpPeers
    <3> QED
      BY <3>1, <3>2, <3>3 DEF Before
  <2> QED
    BY <2>2, <2>3, <2>5, <2>6 DEF IsInjective, new
<1> QED
  BY <1>1, <1>2

\* The same for delete, without the peer that is deleted.
LEMMA DeleteMap ==
  ASSUME NEW map \in Seq(Peer), NEW p \in Peer
  PROVE  /\ delete(map, p) \in Seq(Peer)
         /\ ToSet(delete(map, p)) = ToSet(map) \ {p}
         /\ IsInjective(map) => IsInjective(delete(map, p))
         /\ \A x, y : x # p /\ y # p /\ Before(map, x, y)
                        => Before(delete(map, p), x, y)
<1> DEFINE S == Peer \ {p}
           new == Keep(map, S)
<1>1. /\ new \in Seq(Peer) /\ ToSet(new) = ToSet(map) \cap S
      /\ IsInjective(map) => IsInjective(new)
  BY KeepSelects
<1>2. PICK at : Takes(new, map, S, at)
  BY KeepTakes
<1> HIDE DEF new
<1>3. ToSet(new) = ToSet(map) \ {p}
  <2>1. ToSet(map) \subseteq Peer
    BY DEF ToSet
  <2> QED
    BY <1>1, <2>1
<1>4. ASSUME NEW x, NEW y, x # p, y # p, Before(map, x, y)
      PROVE  Before(new, x, y)
  <2>1. PICK i \in DOMAIN map, j \in DOMAIN map :
          map[i] = x /\ map[j] = y /\ <<i, j>> \in cmpPeers(map)
    BY <1>4 DEF Before
  <2>2. map[i] \in S /\ map[j] \in S /\ i \in Nat /\ j \in Nat
    BY <1>4, <2>1
  <2>3. PICK a \in DOMAIN new, b \in DOMAIN new : at[a] = i /\ at[b] = j
    BY <1>2, <2>2 DEF Takes
  <2>4. new[a] = map[i] /\ new[b] = map[j] /\ a \in Nat /\ b \in Nat
    BY <1>1, <1>2, <2>3 DEF Takes
  <2>5. i < j => a < b
    BY <1>2, <2>2, <2>3, <2>4 DEF Takes
  <2>6. <<a, b>> \in cmpPeers(new)
    BY <2>1, <2>3, <2>4, <2>5 DEF cmpPeers
  <2> QED
    BY <2>1, <2>3, <2>4, <2>6 DEF Before
<1> QED
  BY <1>1, <1>3, <1>4 DEF delete, new

----------------------------------------------------------------------------
(* onPresence *)

\* A presence message keeps the types.
LEMMA PresenceType ==
  ASSUME NEW pg \in Page, peerName \in [Peer -> Nick], NEW m \in Presence
  PROVE  LET u == onPresence(pg, m)
         IN  /\ u \in Page /\ u.peerId = pg.peerId
             /\ u.made <=> pg.made \/ pg.peerId # NoPeer
<1>1. pg.peersMap \in Seq(Peer) /\ m.peer \in Peer
  BY PageFields DEF Presence
<1>2. ASSUME NEW map \in Seq(Peer)
      PROVE  LET new == [pg EXCEPT !.peersMap = map]
             IN  new \in Page /\ new.peerId = pg.peerId /\ new.made = pg.made
  BY DEF Page
<1>3. CASE m.code = "joined"
  <2> DEFINE new == [pg EXCEPT !.peersMap = set(pg.peersMap, m.peer)]
  <2>1. onPresence(pg, m) = updateParticipants(new)
    BY <1>3 DEF onPresence
  <2>2. new \in Page /\ new.peerId = pg.peerId /\ new.made = pg.made
    BY <1>1, <1>2, SetMap
  <2> HIDE DEF new
  <2> QED
    BY <2>1, <2>2, UpdateType
<1>4. CASE m.code # "joined"
  <2> DEFINE new == [pg EXCEPT !.peersMap = delete(pg.peersMap, m.peer)]
  <2>1. onPresence(pg, m) = updateParticipants(new)
    BY <1>4 DEF onPresence
  <2>2. new \in Page /\ new.peerId = pg.peerId /\ new.made = pg.made
    BY <1>1, <1>2, DeleteMap
  <2> HIDE DEF new
  <2> QED
    BY <2>1, <2>2, UpdateType
<1> QED
  BY <1>3, <1>4

\* A join of a peer that is not fading out, and any leave, keep the page good;
\* only a leave lets a child fade out, that of the peer.
LEMMA PresenceGood ==
  ASSUME NEW pg \in Page, Good(pg), peerName \in [Peer -> Nick],
         NEW m \in Presence, m.code = "joined" => m.peer \notin pg.fading
  PROVE  LET u == onPresence(pg, m)
         IN  /\ Good(u)
             /\ u.fading \subseteq
                  pg.fading \cup IF m.code = "left" THEN {m.peer} ELSE {}
<1> DEFINE M == ToSet(pg.peersMap)
           C == ToSet(pg.children)
           u == onPresence(pg, m)
<1>1. pg.peersMap \in Seq(Peer) /\ m.peer \in Peer /\ m.code \in {"joined", "left"}
  BY PageFields DEF Presence
<1>2. /\ IsInjective(pg.peersMap) /\ pg.fading \cap M = {}
      /\ C \ pg.fading \subseteq M
      /\ pg.fading \subseteq C
  <2>1. ~pg.made => C = {}
    BY DEF Good, Ready, ToSet
  <2> QED
    BY <2>1 DEF Good, Ready
<1>3. ASSUME NEW map \in Seq(Peer), IsInjective(map), pg.fading \cap ToSet(map) = {},
             C \cap ToSet(map) \subseteq M,
             \A x, y \in ToSet(map) :
               Before(pg.peersMap, x, y) => Before(map, x, y),
             u = updateParticipants([pg EXCEPT !.peersMap = map])
      PROVE  Good(u) /\ u.fading = pg.fading \cup (C \ ToSet(map))
  <2> DEFINE new == [pg EXCEPT !.peersMap = map]
  <2>1. new \in Page /\ Ready(new)
    BY <1>3, Relisted
  <2>2. new.peersMap = map /\ new.children = pg.children /\ new.fading = pg.fading
    BY DEF Page
  <2> HIDE DEF new
  <2>3. /\ Good(updateParticipants(new))
        /\ updateParticipants(new).fading
             = new.fading \cup (ToSet(new.children) \ ToSet(new.peersMap))
    BY <2>1, UpdateGood
  <2> QED
    BY <1>3, <2>2, <2>3 DEF new
<1>4. CASE m.code = "joined"
  <2> DEFINE map == set(pg.peersMap, m.peer)
  <2>1. /\ map \in Seq(Peer) /\ ToSet(map) = M \cup {m.peer} /\ IsInjective(map)
        /\ \A x, y : Before(pg.peersMap, x, y) => Before(map, x, y)
    BY <1>1, <1>2, SetMap
  <2>2. u = updateParticipants([pg EXCEPT !.peersMap = map])
    BY <1>4 DEF onPresence
  <2> HIDE DEF map, u
  <2>3. pg.fading \cap ToSet(map) = {} /\ C \cap ToSet(map) \subseteq M
    BY <1>2, <1>4, <2>1
  <2>4. Good(u) /\ u.fading = pg.fading \cup (C \ ToSet(map))
    BY <1>3, <2>1, <2>2, <2>3
  <2>5. u.fading \subseteq pg.fading
    BY <1>2, <2>1, <2>4
  <2> QED
    BY <1>4, <2>4, <2>5 DEF u
<1>5. CASE m.code = "left"
  <2> DEFINE map == delete(pg.peersMap, m.peer)
  <2>1. /\ map \in Seq(Peer) /\ ToSet(map) = M \ {m.peer} /\ IsInjective(map)
        /\ \A x, y : x # m.peer /\ y # m.peer /\ Before(pg.peersMap, x, y)
                       => Before(map, x, y)
    BY <1>1, <1>2, DeleteMap
  <2>2. u = updateParticipants([pg EXCEPT !.peersMap = map])
    BY <1>5 DEF onPresence
  <2> HIDE DEF map, u
  <2>3. pg.fading \cap ToSet(map) = {} /\ C \cap ToSet(map) \subseteq M
    BY <1>2, <2>1
  <2>4. \A x, y \in ToSet(map) : Before(pg.peersMap, x, y) => Before(map, x, y)
    BY <2>1
  <2>5. Good(u) /\ u.fading = pg.fading \cup (C \ ToSet(map))
    BY <1>3, <2>1, <2>2, <2>3, <2>4
  <2>6. u.fading \subseteq pg.fading \cup {m.peer}
    BY <1>2, <2>1, <2>5
  <2> QED
    BY <1>5, <2>5, <2>6 DEF u
<1> QED
  BY <1>1, <1>4, <1>5

\* at are the pages of a history that is replayed message by message.
IsReplay(at, base, history) ==
  /\ at[0] = base
  /\ \A k \in 1..Len(history) : at[k] = onPresence(at[k - 1], history[k])
  /\ FoldLeft(onPresence, base, history) = at[Len(history)]

\* What the fold of onInfo stands for.
LEMMA ReplayFold ==
  ASSUME NEW base, NEW history
  PROVE  LET iter == CHOOSE f : f = [s \in SUBSET (DOMAIN history) |->
                       IF s = {} THEN base
                       ELSE onPresence(f[s \ {Max(s)}], history[Max(s)])]
         IN  FoldLeft(onPresence, base, history) = iter[DOMAIN history]
  BY DEF FoldLeft, MapThenFoldSet

\* The replay is made of such steps.
LEMMA ReplayWalk ==
  ASSUME NEW base \in Page, NEW history \in Seq(Presence),
         peerName \in [Peer -> Nick]
  PROVE  \E at \in [0..Len(history) -> Page] : IsReplay(at, base, history)
<1> DEFINE n == Len(history)
           op(pg, i) == onPresence(pg, history[i])
           Folds(f) == f = [s \in SUBSET (DOMAIN history) |->
                              IF s = {} THEN base
                              ELSE op(f[s \ {Max(s)}], Max(s))]
           iter == CHOOSE f : Folds(f)
           at == [k \in 0..n |-> iter[1..k]]
           g == [i \in 1..n |-> [pg \in Page |-> op(pg, i)]]
<1>1. /\ n \in Nat /\ DOMAIN history = 1..n
      /\ \A i \in 1..n : history[i] \in Presence
  OBVIOUS
<1>2. base \in Page
  OBVIOUS
<1>3. \A pg \in Page, i \in 1..n : op(pg, i) \in Page
  BY <1>1, PresenceType
<1>4. FoldLeft(onPresence, base, history) = iter[DOMAIN history]
  BY ReplayFold
<1> HIDE DEF op
<1>5. Folds(iter)
  <2>1. g \in [1..n -> [Page -> Page]]
    BY <1>3
  <2>2. PICK f \in [SUBSET (1..n) -> Page] : IsFold(f, base, n, g)
    <3>1. n \in Nat /\ base \in Page /\ g \in [1..n -> [Page -> Page]]
      BY <1>1, <1>2, <2>1
    <3> HIDE DEF g, n
    <3> QED
      BY <3>1, FoldDefined
  <2>3. ASSUME NEW s \in SUBSET (1..n), s # {}
        PROVE  g[Max(s)][f[s \ {Max(s)}]] = op(f[s \ {Max(s)}], Max(s))
    <3>1. Max(s) \in s
      BY <1>1, <2>3, Greatest
    <3>2. Max(s) \in 1..n /\ s \ {Max(s)} \in SUBSET (1..n)
      BY <3>1
    <3>3. f[s \ {Max(s)}] \in Page
      BY <2>2, <3>2
    <3> QED
      BY <3>2, <3>3
  <2>4. Folds(f)
    <3>1. ASSUME NEW s \in SUBSET (1..n)
          PROVE  f[s] = IF s = {} THEN base ELSE op(f[s \ {Max(s)}], Max(s))
      <4> HIDE DEF g, n
      <4> QED
        BY <2>2, <2>3 DEF IsFold
    <3>2. f = [s \in SUBSET (1..n) |-> f[s]]
      BY <2>2
    <3> HIDE DEF g, n
    <3> QED
      BY <1>1, <3>1, <3>2
  <2> HIDE DEF Folds
  <2> QED
    BY <2>4
<1> HIDE DEF iter
<1>6. iter[{}] = base
  BY <1>5
<1>7. ASSUME NEW k \in 1..n PROVE iter[1..k] = op(iter[1..(k - 1)], k)
  <2>0. 1..k \in SUBSET (1..n) /\ k \in 1..k
    BY <1>1
  <2>1. 1..k \in SUBSET (DOMAIN history) /\ 1..k # {} /\ (1..k) \ {k} = 1..(k - 1)
    <3>1. (1..k) \ {k} = 1..(k - 1)
      OBVIOUS
    <3>2. 1..k # {}
      BY <2>0
    <3>3. 1..k \in SUBSET (DOMAIN history)
      <4> HIDE DEF n
      <4> QED
        BY <1>1, <2>0
    <3> QED
      BY <3>1, <3>2, <3>3
  <2>2. Max(1..k) = k
    BY <2>0, LastPlace
  <2> QED
    BY <1>5, <2>1, <2>2
<1>8. at[0] = base /\ \A k \in 1..n : at[k] = op(at[k - 1], k)
  <2>1. 1..0 = {}
    OBVIOUS
  <2> QED
    BY <1>1, <1>6, <1>7, <2>1
<1>9. at \in [0..n -> Page]
  <2> DEFINE T == {k \in 0..n : at[k] \in Page}
  <2> HIDE DEF at
  <2>1. 0 \in T
    BY <1>1, <1>2, <1>8
  <2>2. \A k \in 1..n : k - 1 \in T => k \in T
    BY <1>1, <1>3, <1>8
  <2>3. \A k \in 0..n : k \in T
    <3> HIDE DEF T, n
    <3> QED
      BY <1>1, <2>1, <2>2, PlaceByPlace
  <2>4. at = [k \in 0..n |-> at[k]]
    BY DEF at
  <2> QED
    BY <2>3, <2>4
<1>10. iter[DOMAIN history] = at[n]
  BY <1>1
<1> HIDE DEF at
<1> QED
  BY <1>4, <1>8, <1>9, <1>10 DEF op, IsReplay

----------------------------------------------------------------------------
(* onInfo *)

\* A history in which a leave is the last word on its peer.
LastWord(history) ==
  \A i, j \in DOMAIN history :
    i < j /\ history[i].peer = history[j].peer => history[i].code = "joined"

\* The peers that have left within the first k messages.
LeftBy(history, k) ==
  {history[i].peer : i \in {j \in DOMAIN history :
                              j <= k /\ history[j].code = "left"}}

\* The page after the answer to a join knows itself.
LEMMA InfoType ==
  ASSUME NEW pg \in Page, peerName \in [Peer -> Nick], NEW self \in Peer,
         NEW peers \in Seq(Peer), NEW history \in Seq(Presence)
  PROVE  LET u == onInfo(pg, self, peers, history)
         IN  u \in Page /\ u.peerId = self /\ u.made
<1> DEFINE map == setAll(pg.peersMap, peers)
           known == [pg EXCEPT !.peerId = self, !.peersMap = map]
           base == updateParticipants(known)
           replay == IF history # << >> THEN history
                     ELSE << [code |-> "joined", peer |-> self] >>
           n == Len(replay)
<1>1. map \in Seq(Peer)
  <2>1. Keep(peers, Peer \ ToSet(pg.peersMap)) \in Seq(Peer)
    BY KeepSelects
  <2>2. pg.peersMap \in Seq(Peer)
    BY PageFields
  <2> QED
    BY <2>1, <2>2 DEF setAll
<1>2. onInfo(pg, self, peers, history) = FoldLeft(onPresence, base, replay)
  BY DEF onInfo
<1>3. known \in Page /\ known.peerId = self
  <2> HIDE DEF map
  <2> QED
    BY <1>1 DEF Page
<1>4. self # NoPeer
  BY ParticipantsAssumption
<1> HIDE DEF map, known
<1>5. base \in Page /\ base.peerId = self /\ base.made
  BY <1>3, <1>4, UpdateType
<1>6. replay \in Seq(Presence)
  <2>1. [code |-> "joined", peer |-> self] \in Presence
    BY DEF Presence
  <2> QED
    BY <2>1
<1> HIDE DEF base, replay
<1>7. PICK at \in [0..n -> Page] : IsReplay(at, base, replay)
  BY <1>5, <1>6, ReplayWalk
<1>8. n \in Nat /\ DOMAIN replay = 1..n /\ \A k \in 1..n : replay[k] \in Presence
  BY <1>6
<1> DEFINE T == {k \in 0..n : at[k].peerId = self /\ at[k].made}
<1>9. 0 \in T
  BY <1>5, <1>7, <1>8 DEF IsReplay
<1>10. ASSUME NEW k \in 1..n, k - 1 \in T PROVE k \in T
  <2>1. at[k - 1] \in Page /\ replay[k] \in Presence /\ k \in 0..n
    BY <1>8, <1>10
  <2>2. at[k] = onPresence(at[k - 1], replay[k])
    BY <1>7 DEF IsReplay
  <2> DEFINE pre == at[k - 1]
             m == replay[k]
  <2> HIDE DEF pre, m
  <2>3. pre \in Page /\ m \in Presence /\ pre.peerId = self /\ pre.made
    BY <1>10, <2>1 DEF pre, m
  <2>4. onPresence(pre, m).peerId = self /\ onPresence(pre, m).made
    BY <2>3, PresenceType
  <2> QED
    BY <2>1, <2>2, <2>4 DEF pre, m
<1>11. n \in T
  <2>1. n \in 0..n
    BY <1>8
  <2> HIDE DEF T, n
  <2> QED
    BY <1>8, <1>9, <1>10, <2>1, PlaceByPlace
<1>12. onInfo(pg, self, peers, history) = at[n] /\ at[n] \in Page
  BY <1>2, <1>7, <1>8 DEF IsReplay
<1> QED
  BY <1>11, <1>12

\* It is good if no peer joins after its leave, and only peers that have left
\* are fading out.
LEMMA InfoGood ==
  ASSUME NEW pg \in Page, Good(pg), pg.peerId = NoPeer,
         peerName \in [Peer -> Nick], NEW self \in Peer,
         NEW peers \in Seq(Peer), IsInjective(peers),
         NEW history \in Seq(Presence), LastWord(history)
  PROVE  LET u == onInfo(pg, self, peers, history)
         IN  Good(u) /\ u.fading \subseteq LeftBy(history, Len(history))
<1> DEFINE old == pg.peersMap
           more == Keep(peers, Peer \ ToSet(old))
           map == setAll(old, peers)
           known == [pg EXCEPT !.peerId = self, !.peersMap = map]
           base == updateParticipants(known)
           replay == IF history # << >> THEN history
                     ELSE << [code |-> "joined", peer |-> self] >>
           n == Len(replay)
<1>1. map \in Seq(Peer) /\ IsInjective(map)
  <2>1. /\ more \in Seq(Peer) /\ IsInjective(more)
        /\ ToSet(more) = ToSet(peers) \cap (Peer \ ToSet(old))
    BY KeepSelects
  <2>2. old \in Seq(Peer) /\ IsInjective(old)
    BY PageFields DEF Good, Ready
  <2>3. map = old \o more
    BY DEF setAll
  <2> HIDE DEF more, map, old
  <2>4. /\ map \in Seq(Peer) /\ Len(old) \in Nat /\ Len(more) \in Nat
        /\ DOMAIN old = 1..Len(old) /\ DOMAIN more = 1..Len(more)
        /\ DOMAIN map = 1..(Len(old) + Len(more))
    BY <2>1, <2>2, <2>3
  <2>5. \A i \in DOMAIN map :
          map[i] = IF i <= Len(old) THEN old[i] ELSE more[i - Len(old)]
    BY <2>1, <2>2, <2>3, <2>4
  <2>6. \A i \in DOMAIN old, j \in DOMAIN more : old[i] # more[j]
    BY <2>1 DEF ToSet
  <2>7. ASSUME NEW i \in DOMAIN map, NEW j \in DOMAIN map, map[i] = map[j]
        PROVE  i = j
    <3>1. i \in DOMAIN old \/ (i > Len(old) /\ i - Len(old) \in DOMAIN more)
      BY <2>4
    <3>2. j \in DOMAIN old \/ (j > Len(old) /\ j - Len(old) \in DOMAIN more)
      BY <2>4
    <3>3. CASE i \in DOMAIN old /\ j \in DOMAIN old
      <4>1. old[i] = old[j]
        BY <2>4, <2>5, <2>7, <3>3
      <4> QED
        BY <2>2, <3>3, <4>1 DEF IsInjective
    <3>4. CASE ~(i \in DOMAIN old) /\ ~(j \in DOMAIN old)
      <4>1. /\ i - Len(old) \in DOMAIN more /\ j - Len(old) \in DOMAIN more
            /\ i > Len(old) /\ j > Len(old)
        BY <3>1, <3>2, <3>4
      <4>2. more[i - Len(old)] = more[j - Len(old)]
        BY <2>4, <2>5, <2>7, <4>1
      <4>3. i - Len(old) = j - Len(old)
        BY <2>1, <4>1, <4>2 DEF IsInjective
      <4> QED
        BY <2>4, <4>3
    <3>5. CASE i \in DOMAIN old /\ ~(j \in DOMAIN old)
      BY <2>4, <2>5, <2>6, <2>7, <3>2, <3>5
    <3>6. CASE ~(i \in DOMAIN old) /\ j \in DOMAIN old
      BY <2>4, <2>5, <2>6, <2>7, <3>1, <3>6
    <3> QED
      BY <3>3, <3>4, <3>5, <3>6
  <2> QED
    BY <2>4, <2>7 DEF IsInjective
<1>2. onInfo(pg, self, peers, history) = FoldLeft(onPresence, base, replay)
  BY DEF onInfo
<1> HIDE DEF map
<1>3. /\ known \in Page /\ known.peersMap = map /\ known.made = pg.made
      /\ known.children = pg.children /\ known.fading = pg.fading
      /\ known.error = pg.error
  BY <1>1 DEF Page
<1> HIDE DEF known
<1>4. pg.children = << >> /\ pg.fading = {} /\ ~pg.made /\ ~pg.error
  BY DEF Good, Ready
<1>5. Ready(known)
  <2>1. InOrder(known.children, map)
    BY <1>3, <1>4 DEF InOrder
  <2> QED
    BY <1>1, <1>3, <1>4, <2>1 DEF Ready
<1>6. base \in Page /\ Good(base) /\ base.fading = {}
  <2>1. ToSet(known.children) = {} /\ known.fading = {}
    BY <1>3, <1>4 DEF ToSet
  <2> QED
    BY <1>3, <1>5, <2>1, UpdateType, UpdateGood
<1>7. replay \in Seq(Presence) /\ LastWord(replay)
  <2>1. [code |-> "joined", peer |-> self] \in Presence
    BY DEF Presence
  <2>2. LastWord(<< [code |-> "joined", peer |-> self] >>)
    BY DEF LastWord
  <2> QED
    BY <2>1, <2>2
<1>8. LeftBy(replay, n) \subseteq LeftBy(history, Len(history))
  BY DEF LeftBy
<1> HIDE DEF base, replay
<1>9. PICK at \in [0..n -> Page] : IsReplay(at, base, replay)
  BY <1>6, <1>7, ReplayWalk
<1>10. n \in Nat /\ DOMAIN replay = 1..n /\ \A k \in 1..n : replay[k] \in Presence
  BY <1>7
<1> DEFINE T == {k \in 0..n : Good(at[k]) /\ at[k].fading \subseteq LeftBy(replay, k)}
<1>11. 0 \in T
  BY <1>6, <1>9, <1>10 DEF IsReplay
<1>12. ASSUME NEW k \in 1..n, k - 1 \in T PROVE k \in T
  <2> DEFINE m == replay[k]
  <2>1. /\ at[k - 1] \in Page /\ m \in Presence /\ k \in 0..n
        /\ Good(at[k - 1]) /\ at[k - 1].fading \subseteq LeftBy(replay, k - 1)
    BY <1>10, <1>12
  <2>2. at[k] = onPresence(at[k - 1], m)
    BY <1>9 DEF IsReplay
  <2>3. m.peer \notin LeftBy(replay, k - 1)
    <3> SUFFICES ASSUME NEW i \in DOMAIN replay, i <= k - 1,
                        replay[i].code = "left", replay[i].peer = m.peer
                 PROVE  FALSE
      BY DEF LeftBy
    <3>1. i < k /\ k \in DOMAIN replay
      BY <1>10
    <3> QED
      BY <1>7, <3>1 DEF LastWord
  <2>4. /\ Good(at[k])
        /\ at[k].fading \subseteq
             at[k - 1].fading \cup IF m.code = "left" THEN {m.peer} ELSE {}
    BY <2>1, <2>2, <2>3, PresenceGood, SMTT(60)
  <2>5. LeftBy(replay, k - 1) \subseteq LeftBy(replay, k)
    BY <1>10 DEF LeftBy
  <2>6. m.code = "left" => m.peer \in LeftBy(replay, k)
    <3>1. k \in DOMAIN replay /\ k <= k
      BY <1>10
    <3> QED
      BY <3>1 DEF LeftBy
  <2> HIDE DEF m
  <2> QED
    BY <2>1, <2>4, <2>5, <2>6
<1>13. n \in T
  <2>1. n \in 0..n
    BY <1>10
  <2> HIDE DEF T, n
  <2> QED
    BY <1>10, <1>11, <1>12, <2>1, PlaceByPlace
<1>14. onInfo(pg, self, peers, history) = at[n]
  BY <1>2, <1>9 DEF IsReplay
<1> QED
  BY <1>8, <1>13, <1>14

----------------------------------------------------------------------------
(* The invariant *)

\* The page knows itself as soon as it shows the list; without an overtaken
\* leave the page is good, and who is fading out has left.
IInv ==
  /\ TypeOK
  /\ page.made <=> page.peerId # NoPeer
  /\ ordered => Good(page)
  /\ ordered /\ online => page.fading \subseteq departed

\* Being good only looks at the page and the nicknames.
LEMMA GoodStays ==
  ASSUME NEW v, Good(v), page' = v, peerName' = peerName
  PROVE  Good(page)'
<1>1. InOrder(v.children, v.peersMap)
  BY DEF Good, Ready
<1>2. InOrder(page.children, page.peersMap)'
  <2>1. ASSUME NEW i \in DOMAIN v.children, NEW j \in DOMAIN v.children, i < j,
               v.children[i] \in ToSet(v.peersMap),
               v.children[j] \in ToSet(v.peersMap)
        PROVE  Before(page.peersMap, page.children[i], page.children[j])'
    <3>1. Before(v.peersMap, v.children[i], v.children[j])
      BY <1>1, <2>1 DEF InOrder
    <3>2. PICK k \in DOMAIN v.peersMap, l \in DOMAIN v.peersMap :
            /\ v.peersMap[k] = v.children[i] /\ v.peersMap[l] = v.children[j]
            /\ <<k, l>> \in cmpPeers(v.peersMap)
      BY <3>1 DEF Before
    <3>3. <<k, l>> \in cmpPeers(page.peersMap)'
      BY <3>2 DEF cmpPeers
    <3> QED
      BY <3>2, <3>3 DEF Before
  <2> QED
    BY <2>1 DEF InOrder
<1>3. Ready(page)'
  BY <1>2 DEF Good, Ready
<1> QED
  BY <1>3 DEF Good

\* Before the first message the page is good.
LEMMA InitIInv == Init => IInv
<1> SUFFICES ASSUME Init PROVE IInv
  OBVIOUS
<1>1. page = Blank /\ Blank \in Page
  BY DEF Init, Blank, Page
<1>2. TypeOK
  BY <1>1 DEF TypeOK, Init
<1>3. /\ page.peersMap = << >> /\ ~page.made /\ page.children = << >>
      /\ page.fading = {} /\ ~page.error /\ page.peerId = NoPeer
  BY <1>1 DEF Blank
<1>4. Ready(page)
  BY <1>3 DEF Ready, IsInjective, InOrder
<1> QED
  BY <1>2, <1>3, <1>4 DEF IInv, Good, Init

\* A presence message.
LEMMA ReceivePresenceIInv ==
  ASSUME IInv, NEW m \in Presence, ReceivePresence(m)
  PROVE  IInv'
<1> DEFINE gone == IF m.code = "left" THEN {m.peer} ELSE {}
<1>1. /\ peerName \in [Peer -> Nick] /\ page \in Page /\ received \subseteq Presence
      /\ departed \subseteq Peer /\ online \in BOOLEAN /\ ordered \in BOOLEAN
      /\ (page.made <=> page.peerId # NoPeer)
      /\ (ordered => Good(page))
      /\ (ordered /\ online => page.fading \subseteq departed)
  BY DEF IInv, TypeOK
<1>2. /\ online /\ received' = received \cup {m} /\ page' = onPresence(page, m)
      /\ departed' = departed \cup gone
      /\ ordered' = (ordered /\ (m.code = "joined" => m.peer \notin departed))
      /\ peerName' = peerName /\ online' = online
  BY DEF ReceivePresence
<1>3. gone \subseteq Peer
  BY DEF Presence
<1>4. /\ onPresence(page, m) \in Page
      /\ (onPresence(page, m).made <=> onPresence(page, m).peerId # NoPeer)
  BY <1>1, PresenceType
<1>5. TypeOK'
  <2> HIDE DEF gone
  <2> QED
    BY <1>1, <1>2, <1>3, <1>4 DEF TypeOK
<1>6. ASSUME ordered'
      PROVE  /\ Good(onPresence(page, m))
             /\ onPresence(page, m).fading \subseteq page.fading \cup gone
             /\ page.fading \subseteq departed
  <2>1. /\ Good(page) /\ page.fading \subseteq departed
        /\ (m.code = "joined" => m.peer \notin page.fading)
    BY <1>1, <1>2, <1>6
  <2> QED
    BY <1>1, <2>1, PresenceGood
<1> HIDE DEF gone
<1>7. ordered' => page'.fading \subseteq departed'
  BY <1>2, <1>6
<1>8. Good(onPresence(page, m)) => Good(page)'
  <2>1. PICK v : v = onPresence(page, m)
    OBVIOUS
  <2> QED
    BY <1>2, <2>1, GoodStays
<1>9. page'.made <=> page'.peerId # NoPeer
  BY <1>2, <1>4
<1> QED
  BY <1>5, <1>6, <1>7, <1>8, <1>9 DEF IInv

\* The answer to the join.
LEMMA ReceiveInfoIInv ==
  ASSUME IInv, NEW P \in SUBSET Peer, NEW peers \in SetToSeqs(P),
         NEW history \in Histories, NEW self \in P,
         ReceiveInfo(self, peers, history)
  PROVE  IInv'
<1> DEFINE gone == {history[i].peer : i \in {j \in DOMAIN history :
                                               history[j].code = "left"}}
<1>1. /\ peerName \in [Peer -> Nick] /\ page \in Page /\ received \subseteq Presence
      /\ departed \subseteq Peer /\ online \in BOOLEAN /\ ordered \in BOOLEAN
      /\ (ordered => Good(page))
  BY DEF IInv, TypeOK
<1>2. /\ page.peerId = NoPeer /\ page' = onInfo(page, self, peers, history)
      /\ departed' = departed \cup gone
      /\ received' = received /\ ordered' = ordered
      /\ peerName' = peerName /\ online' = online
  BY DEF ReceiveInfo
<1>3. peers \in Seq(Peer) /\ IsInjective(peers)
  <2>1. IsFiniteSet(P)
    BY ParticipantsAssumption, FS_Subset
  <2>2. Cardinality(P) \in Nat
    BY <2>1, FS_CardinalityType
  <2>3. /\ peers \in [1..Cardinality(P) -> P]
        /\ \A i, j \in 1..Cardinality(P) : i # j => peers[i] # peers[j]
    BY DEF SetToSeqs
  <2> QED
    BY <2>2, <2>3 DEF IsInjective
<1>4. history \in Seq(Presence) /\ LastWord(history)
  <2>1. history \in SeqOf(Presence, MaxReplay) /\ LastWord(history)
    BY DEF Histories, LastWord
  <2>2. PICK k \in 0..MaxReplay : history \in [1..k -> Presence]
    BY <2>1 DEF SeqOf
  <2>3. k \in Nat
    BY ParticipantsAssumption
  <2> QED
    BY <2>1, <2>2, <2>3
<1>5. gone \subseteq Peer
  <2>1. \A i \in DOMAIN history : history[i] \in Presence
    BY <1>4
  <2> QED
    BY <2>1 DEF Presence
<1>6. LeftBy(history, Len(history)) = gone
  <2>1. \A i \in DOMAIN history : i <= Len(history)
    BY <1>4
  <2> QED
    BY <2>1 DEF LeftBy
<1> DEFINE u == onInfo(page, self, peers, history)
<1>7. u \in Page /\ u.peerId # NoPeer /\ u.made
  <2>1. self \in Peer /\ self # NoPeer
    BY ParticipantsAssumption
  <2> QED
    BY <1>1, <1>3, <1>4, <2>1, InfoType
<1>8. ordered => Good(u) /\ u.fading \subseteq gone
  BY <1>1, <1>2, <1>3, <1>4, <1>6, InfoGood
<1> HIDE DEF gone, u
<1>9. TypeOK'
  BY <1>1, <1>2, <1>5, <1>7 DEF TypeOK, u
<1>10. Good(u) => Good(page)'
  <2>1. PICK v : v = u
    OBVIOUS
  <2> QED
    BY <1>2, <2>1, GoodStays DEF u
<1>11. (page.made <=> page.peerId # NoPeer)'
  BY <1>2, <1>7 DEF u
<1>12. (ordered /\ online => page.fading \subseteq departed)'
  BY <1>2, <1>8 DEF u
<1> QED
  BY <1>2, <1>8, <1>9, <1>10, <1>11, <1>12 DEF IInv

\* The end of the connection.
LEMMA oncloseIInv ==
  ASSUME IInv, onclose
  PROVE  IInv'
<1> DEFINE new == [page EXCEPT !.peersMap = << >>]
           u == updateParticipants(new)
<1>1. /\ peerName \in [Peer -> Nick] /\ page \in Page /\ received \subseteq Presence
      /\ departed \subseteq Peer /\ ordered \in BOOLEAN
      /\ (page.made <=> page.peerId # NoPeer)
      /\ (ordered => Good(page))
  BY DEF IInv, TypeOK
<1>2. /\ online' = FALSE /\ page' = u /\ peerName' = peerName
      /\ received' = received /\ departed' = departed /\ ordered' = ordered
  BY DEF onclose
<1>3. /\ << >> \in Seq(Peer) /\ IsInjective(<< >>) /\ ToSet(<< >>) = {}
  BY DEF IsInjective, ToSet
<1>4. new \in Page /\ new.peerId = page.peerId /\ new.made = page.made
  <2> DEFINE none == << >>
  <2> HIDE DEF none
  <2>1. none \in Seq(Peer)
    BY <1>3 DEF none
  <2>2. LET n == [page EXCEPT !.peersMap = none]
        IN  n \in Page /\ n.peerId = page.peerId /\ n.made = page.made
    BY <1>1, <2>1 DEF Page
  <2> QED
    BY <2>2 DEF none
<1>5. ordered => Ready(new)
  <2> SUFFICES ASSUME Good(page) PROVE Ready(new)
    BY <1>1
  <2> DEFINE none == << >>
  <2>1. /\ none \in Seq(Peer) /\ IsInjective(none)
        /\ page.fading \cap ToSet(none) = {}
        /\ ToSet(page.children) \cap ToSet(none) \subseteq ToSet(page.peersMap)
        /\ \A x, y \in ToSet(none) :
             Before(page.peersMap, x, y) => Before(none, x, y)
    BY <1>3
  <2> HIDE DEF none
  <2>2. Ready([page EXCEPT !.peersMap = none])
    BY <1>1, <2>1, Relisted
  <2> QED
    BY <2>2 DEF none
<1> HIDE DEF new
<1>6. u \in Page /\ (u.made <=> u.peerId # NoPeer)
  BY <1>1, <1>4, UpdateType
<1>7. ordered => Good(u)
  BY <1>1, <1>4, <1>5, UpdateGood
<1> HIDE DEF u
<1>8. TypeOK'
  BY <1>1, <1>2, <1>6 DEF TypeOK
<1>9. Good(u) => Good(page)'
  <2>1. PICK v : v = u
    OBVIOUS
  <2> QED
    BY <1>2, <2>1, GoodStays
<1>10. (page.made <=> page.peerId # NoPeer)'
  BY <1>2, <1>6
<1> QED
  BY <1>2, <1>7, <1>8, <1>9, <1>10 DEF IInv

\* The end of a fade.
LEMMA TransitionEndIInv ==
  ASSUME IInv, NEW p \in Peer, TransitionEnd(p)
  PROVE  IInv'
<1> DEFINE S == Peer \ {p}
           c == Keep(page.children, S)
<1>1. /\ peerName \in [Peer -> Nick] /\ page \in Page /\ received \subseteq Presence
      /\ departed \subseteq Peer /\ online \in BOOLEAN /\ ordered \in BOOLEAN
      /\ (page.made <=> page.peerId # NoPeer)
      /\ (ordered => Good(page))
      /\ (ordered /\ online => page.fading \subseteq departed)
  BY DEF IInv, TypeOK
<1>2. /\ p \in page.fading
      /\ page' = [page EXCEPT !.fading = @ \ {p}, !.children = c]
      /\ peerName' = peerName /\ online' = online
      /\ received' = received /\ departed' = departed /\ ordered' = ordered
  BY DEF TransitionEnd, delete
<1>3. page.children \in Seq(Peer) /\ ToSet(page.children) \subseteq Peer
  BY <1>1, PageFields
<1>4. /\ c \in Seq(Peer) /\ ToSet(c) = ToSet(page.children) \cap S
      /\ IsInjective(page.children) => IsInjective(c)
  BY <1>3, KeepSelects
<1>5. PICK at : Takes(c, page.children, S, at)
  BY <1>3, KeepTakes
<1> HIDE DEF c
<1>6. /\ page' \in Page
      /\ page'.peerId = page.peerId /\ page'.peersMap = page.peersMap
      /\ page'.made = page.made /\ page'.count = page.count
      /\ page'.children = c /\ page'.fading = page.fading \ {p}
      /\ page'.error = page.error
  BY <1>1, <1>2, <1>4 DEF Page
<1>7. ToSet(c) = ToSet(page.children) \ {p}
  BY <1>3, <1>4
<1>8. TypeOK'
  BY <1>1, <1>2, <1>6 DEF TypeOK
<1>9. ASSUME Good(page) PROVE Good(page)'
  <2>1. ASSUME NEW i \in DOMAIN c, NEW j \in DOMAIN c, i < j,
               c[i] \in ToSet(page.peersMap), c[j] \in ToSet(page.peersMap)
        PROVE  Before(page.peersMap, c[i], c[j])
    <3>1. /\ at[i] \in DOMAIN page.children /\ at[j] \in DOMAIN page.children
          /\ at[i] < at[j]
          /\ c[i] = page.children[at[i]] /\ c[j] = page.children[at[j]]
      BY <1>5, <2>1 DEF Takes
    <3> QED
      BY <1>9, <2>1, <3>1 DEF Good, Ready, InOrder
  <2>2. InOrder(c, page.peersMap)
    BY <2>1 DEF InOrder
  <2>3. InOrder(page.children, page.peersMap)'
    BY <1>2, <1>6, <2>2 DEF InOrder, Before, cmpPeers
  <2>4. page.made
    BY <1>2, <1>9 DEF Good, Ready
  <2>5. Ready(page)'
    BY <1>4, <1>6, <1>7, <1>9, <2>3, <2>4 DEF Good, Ready
  <2>6. ToSet(c) \ (page.fading \ {p}) = ToSet(page.children) \ page.fading
    BY <1>2, <1>7
  <2> QED
    BY <1>6, <1>9, <2>4, <2>5, <2>6 DEF Good
<1> QED
  BY <1>1, <1>2, <1>6, <1>8, <1>9 DEF IInv

\* Every handler of the page keeps the invariant.
LEMMA NextIInv == IInv /\ [Next]_vars => IInv'
<1> SUFFICES ASSUME IInv, [Next]_vars PROVE IInv'
  OBVIOUS
<1>1. ASSUME NEW m \in Presence, ReceivePresence(m) PROVE IInv'
  BY <1>1, ReceivePresenceIInv
<1>2. ASSUME NEW P \in SUBSET Peer, NEW peers \in SetToSeqs(P),
             NEW history \in Histories, NEW self \in P,
             ReceiveInfo(self, peers, history)
      PROVE  IInv'
  BY <1>2, ReceiveInfoIInv
<1>3. ASSUME onclose PROVE IInv'
  BY <1>3, oncloseIInv
<1>4. ASSUME NEW p \in Peer, TransitionEnd(p) PROVE IInv'
  BY <1>4, TransitionEndIInv
<1>5. CASE UNCHANGED vars
  BY <1>5 DEF IInv, TypeOK, Good, Ready, InOrder, Before, cmpPeers, vars
<1> QED
  BY <1>1, <1>2, <1>3, <1>4, <1>5 DEF Next

\* It is an invariant.
LEMMA AlwaysIInv == Spec => []IInv
  BY InitIInv, NextIInv, PTL DEF Spec

\* No peer is twice in peersMap, nor has two children in the document, one of
\* them fading out: Map.set and the merge of updateParticipants see to it.
NobodyTwice ==
  ordered => IsInjective(page.peersMap) /\ IsInjective(page.children)

\* The page is always a Page, the messages received are presence messages and
\* who departed is a peer: after every handler of chat.js, also one that an
\* overtaken leave makes throw.  Without an overtaken leave every peer is in
\* peersMap and among the children at most once.
THEOREM ParticipantsTypeCorrect == Spec => [](TypeOK /\ NobodyTwice)
<1>1. IInv => TypeOK
  BY DEF IInv
<1>2. IInv => NobodyTwice
  <2>1. IsInjective(<< >>)
    BY DEF IsInjective
  <2> QED
    BY <2>1 DEF IInv, Good, Ready, NobodyTwice
<1> QED
  BY <1>1, <1>2, AlwaysIInv, PTL

\* updateParticipants never runs out of peers while a child is left, for any
\* number of peers, nicknames and messages, as long as no join overtakes the
\* leave before it.
THEOREM ParticipantsMergeNeverFails == Spec => []MergeNeverFails
<1>1. IInv => MergeNeverFails
  BY DEF IInv, Good, Ready, MergeNeverFails
<1> QED
  BY <1>1, AlwaysIInv, PTL

\* The children that are not fading out are the sorted peersMap without the
\* own peer, and the caption counts it.
THEOREM ParticipantsListIsExact == Spec => []ListIsExact
<1>1. IInv => ListIsExact
  <2> SUFFICES ASSUME IInv, page.made, ordered
               PROVE  /\ page.count = Len(page.peersMap)
                      /\ Keep(page.children, Peer \ page.fading)
                           = Keep(Sorted(page.peersMap), Peer \ {page.peerId})
    BY DEF ListIsExact
  <2> DEFINE map == page.peersMap
             s == Sorted(map)
             A == Peer \ page.fading
             B == Peer \ {page.peerId}
             shown == Keep(page.children, A)
             wanted == Keep(s, B)
             R == {r \in Peer \X Peer : Before(map, r[1], r[2])}
  <2>1. page \in Page /\ peerName \in [Peer -> Nick] /\ Good(page)
    BY DEF IInv, TypeOK
  <2>2. /\ map \in Seq(Peer) /\ page.children \in Seq(Peer)
        /\ ToSet(page.children) \subseteq Peer /\ ToSet(map) \subseteq Peer
    <3>1. map \in Seq(Peer)
      BY <2>1, PageFields
    <3>2. ToSet(map) \subseteq Peer
      BY <3>1 DEF ToSet
    <3> QED
      BY <2>1, <3>1, <3>2, PageFields
  <2>3. /\ IsInjective(map) /\ InOrder(page.children, map)
        /\ page.count = Len(map)
        /\ ToSet(page.children) \ page.fading = ToSet(map) \ {page.peerId}
    BY <2>1 DEF Good, Ready
  <2>4. /\ s \in Seq(Peer) /\ ToSet(s) = ToSet(map)
        /\ \A i, j \in DOMAIN s : i < j => Before(map, s[i], s[j])
    BY <2>1, <2>2, SortedSorts
  <2>5. \A x, y : ~(Before(map, x, y) /\ Before(map, y, x))
    <3> SUFFICES ASSUME NEW x, NEW y, Before(map, x, y), Before(map, y, x)
                 PROVE  FALSE
      OBVIOUS
    <3>1. x \in ToSet(map) /\ y \in ToSet(map)
      BY DEF Before, ToSet
    <3>2. PICK Q \in [ToSet(Sorted(map)) -> Nat] :
            /\ \A z \in ToSet(map) :
                 Q[z] \in DOMAIN Sorted(map) /\ Sorted(map)[Q[z]] = z
            /\ \A z, t \in ToSet(map) : Before(map, z, t) <=> Q[z] < Q[t]
      BY <2>1, <2>2, <2>3, BeforePlaces
    <3>3. Q[x] \in Nat /\ Q[y] \in Nat
      BY <2>4, <3>1, <3>2
    <3> QED
      BY <3>1, <3>2, <3>3
  <2> HIDE DEF s
  <2>6. PICK at : Takes(shown, page.children, A, at)
    BY <2>2, KeepTakes
  <2>7. PICK at2 : Takes(wanted, s, B, at2)
    BY <2>4, KeepTakes
  <2>8. /\ shown \in Seq(Peer) /\ ToSet(shown) = ToSet(page.children) \cap A
        /\ wanted \in Seq(Peer) /\ ToSet(wanted) = ToSet(s) \cap B
    BY <2>2, <2>4, KeepSelects
  <2> HIDE DEF shown, wanted
  <2>9. ToSet(shown) = ToSet(wanted) /\ ToSet(shown) \subseteq ToSet(map)
    BY <2>2, <2>3, <2>4, <2>8
  <2>10. ASSUME NEW i \in DOMAIN shown, NEW j \in DOMAIN shown, i < j
         PROVE  <<shown[i], shown[j]>> \in R
    <3>1. shown[i] \in ToSet(map) /\ shown[j] \in ToSet(map)
      BY <2>9 DEF ToSet
    <3>2. /\ at[i] \in DOMAIN page.children /\ at[j] \in DOMAIN page.children
          /\ at[i] < at[j]
          /\ shown[i] = page.children[at[i]] /\ shown[j] = page.children[at[j]]
      BY <2>6, <2>10 DEF Takes
    <3>3. Before(map, shown[i], shown[j])
      BY <2>3, <3>1, <3>2 DEF InOrder
    <3> QED
      BY <2>2, <3>1, <3>3
  <2>11. ASSUME NEW i \in DOMAIN wanted, NEW j \in DOMAIN wanted, i < j
         PROVE  <<wanted[i], wanted[j]>> \in R
    <3>1. wanted[i] \in Peer /\ wanted[j] \in Peer
      BY <2>8
    <3>2. /\ at2[i] \in DOMAIN s /\ at2[j] \in DOMAIN s /\ at2[i] < at2[j]
          /\ wanted[i] = s[at2[i]] /\ wanted[j] = s[at2[j]]
      BY <2>7, <2>11 DEF Takes
    <3>3. Before(map, wanted[i], wanted[j])
      BY <2>4, <3>2
    <3> QED
      BY <3>1, <3>3
  <2>12. \A x, y \in Peer : ~(<<x, y>> \in R /\ <<y, x>> \in R)
    BY <2>5
  <2> HIDE DEF R
  <2>13. shown = wanted
    <3>1. shown \in Seq(Peer) /\ wanted \in Seq(Peer) /\ ToSet(shown) = ToSet(wanted)
      BY <2>8, <2>9
    <3> QED
      BY <2>10, <2>11, <2>12, <3>1, SameOrder
  <2> QED
    BY <2>3, <2>13 DEF shown, wanted, s
<1> QED
  BY <1>1, AlwaysIInv, PTL
=============================================================================
