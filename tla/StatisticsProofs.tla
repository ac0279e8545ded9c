-------------------------- MODULE StatisticsProofs --------------------------
(***************************************************************************)
(* What module Statistics promises, for any period, interval and clock and *)
(* any number of connections.                                              *)
(*                                                                         *)
(* That the points are a history rests on the order of the loads, which is *)
(* the order of the events: whatever is counted as disconnected was        *)
(* connected before.                                                       *)
(***************************************************************************)
EXTENDS Statistics, FiniteSetTheorems, SequenceTheorems, TLAPS

\* A set of numbers has a least one: of the intervals 1 .. n, finite sets all
\* of them, one has no other inside.
LEMMA Least ==
  ASSUME NEW T \in SUBSET Nat, T # {}
  PROVE  \E n \in T : \A m \in T : n <= m
<1> DEFINE Below == {1 .. n : n \in T}
<1>1. Below \subseteq FiniteSubsetsOf(Nat) /\ Below # {}
  <2>1. ASSUME NEW n \in T PROVE 1 .. n \in FiniteSubsetsOf(Nat)
    <3>1. IsFiniteSet(1 .. n)
      BY FS_Interval
    <3> QED
      BY <3>1 DEF FiniteSubsetsOf
  <2> QED
    BY <2>1
<1>2. PICK x \in Below :
        \A y \in Below : <<y, x>> \notin StrictSubsetOrdering(Nat)
  <2> HIDE DEF Below
  <2>1. IsWellFoundedOn(StrictSubsetOrdering(Nat), FiniteSubsetsOf(Nat))
    BY FS_StrictSubsetOrderingWellFounded
  <2> QED
    BY <1>1, <2>1, WFMin
<1>3. PICK n \in T : x = 1 .. n
  OBVIOUS
<1>4. ASSUME NEW m \in T, m < n PROVE FALSE
  <2>1. 1 .. m \in SUBSET Nat /\ 1 .. n \in SUBSET Nat /\ 1 .. m \subseteq 1 .. n
    BY <1>4
  <2>2. n \in 1 .. n /\ n \notin 1 .. m
    BY <1>4
  <2>3. <<1 .. m, x>> \in StrictSubsetOrdering(Nat)
    BY <1>3, <2>1, <2>2 DEF StrictSubsetOrdering
  <2> QED
    BY <1>2, <2>3
<1> QED
  BY <1>4

\* The loop of takeSample stops, at a point that is young enough.
LEMMA OldestInDomain ==
  ASSUME NEW points \in Seq(StatPointDto), points # << >>,
         now \in Nat, MaxPeriod \in Nat, points[Len(points)].timestamp = now
  PROVE  /\ Oldest(points) \in DOMAIN points
         /\ now - points[Oldest(points)].timestamp <= MaxPeriod
<1> DEFINE young == {k \in DOMAIN points : now - points[k].timestamp <= MaxPeriod}
<1>1. young \in SUBSET Nat
  OBVIOUS
<1>2. Len(points) \in young
  <2>1. Len(points) \in DOMAIN points
    OBVIOUS
  <2> QED
    BY <2>1
<1>3. PICK k \in young : \A j \in young : k <= j
  <2> HIDE DEF young
  <2> QED
    BY <1>1, <1>2, Least
<1>4. ASSUME NEW i \in 1 .. (k - 1) PROVE now - points[i].timestamp > MaxPeriod
  <2>1. i \in DOMAIN points /\ i \notin young
    <3>1. k \in 1 .. Len(points) /\ i \in Nat /\ i < k
      BY <1>3, <1>4
    <3> QED
      BY <1>3, <3>1
  <2>2. points[i] \in StatPointDto
    BY <2>1
  <2>3. points[i].timestamp \in Nat
    BY <2>2 DEF StatPointDto
  <2> QED
    BY <2>1, <2>3
<1> QED
  BY <1>3, <1>4 DEF Oldest

\* What is left of a sequence after a push at its back and pops at its front.
LEMMA PushAndPop ==
  ASSUME NEW S, NEW points \in Seq(S), NEW p \in S,
         NEW k \in 1 .. (Len(points) + 1)
  PROVE  LET n == Len(points)
             m == n + 2 - k
             left == SubSeq(Append(points, p), k, n + 1)
         IN  /\ left \in Seq(S) /\ Len(left) = m /\ m \in Nat \ {0}
             /\ left[m] = p
             /\ \A i \in 1 .. (m - 1) : /\ i + k - 1 \in 1 .. n
                                        /\ left[i] = points[i + k - 1]
<1> DEFINE n == Len(points)
           m == n + 2 - k
           all == Append(points, p)
           left == SubSeq(all, k, n + 1)
<1>1. n \in Nat /\ k \in Nat \ {0} /\ k <= n + 1
  OBVIOUS
<1>2. /\ all \in Seq(S) /\ Len(all) = n + 1 /\ all[n + 1] = p
      /\ \A i \in 1 .. n : all[i] = points[i]
  BY AppendProperties
<1> HIDE DEF all, n
<1>3. /\ left \in Seq(S) /\ Len(left) = m
      /\ \A i \in 1 .. m : left[i] = all[k + i - 1]
  <2>1. k \in Int /\ n + 1 \in Int /\ k <= n + 1 /\ (n + 1) - k + 1 = m
    BY <1>1
  <2>2. \A i \in k .. (n + 1) : all[i] \in S
    <3>1. \A i \in 1 .. Len(all) : all[i] \in S
      BY <1>2
    <3>2. k .. (n + 1) \subseteq 1 .. Len(all)
      BY <1>1, <1>2
    <3> QED
      BY <3>1, <3>2
  <2>3. /\ left \in Seq(S)
        /\ Len(left) = IF k <= n + 1 THEN (n + 1) - k + 1 ELSE 0
        /\ \A i \in 1 .. ((n + 1) - k + 1) : left[i] = all[k + i - 1]
    <3> HIDE DEF m
    <3> QED
      BY <2>1, <2>2, SubSeqProperties
  <2> QED
    BY <2>1, <2>3
<1>4. m \in Nat \ {0} /\ m \in 1 .. m /\ k + m - 1 = n + 1
  BY <1>1
<1>5. left[m] = p
  BY <1>2, <1>3, <1>4
<1>6. ASSUME NEW i \in 1 .. (m - 1)
      PROVE  i + k - 1 \in 1 .. n /\ left[i] = points[i + k - 1]
  <2>1. i \in 1 .. m /\ i + k - 1 \in 1 .. n /\ k + i - 1 = i + k - 1
    BY <1>1, <1>4
  <2> QED
    BY <1>2, <1>3, <2>1
<1> QED
  BY <1>3, <1>4, <1>5, <1>6 DEF n, all

----------------------------------------------------------------------------
(* The inductive invariant *)

\* A point was loaded from counters that have not fallen since, and only the
\* one that is being filled lacks a field.
Loaded ==
  /\ \A i \in DOMAIN dataPoints :
       /\ dataPoints[i].evPeerConnected <= connected
       /\ dataPoints[i].evPeerDisconnected <= disconnected
       /\ i < Len(dataPoints) \/ sampler = "sleeps" =>
            /\ dataPoints[i].evPeerConnected # Null
            /\ dataPoints[i].evPeerDisconnected # Null
  /\ sampler = "loads disconnected" =>
       dataPoints[Len(dataPoints)].evPeerConnected # Null

\* JsonIsHistory for the points themselves, as far as they are loaded.
Ordered ==
  \A i \in DOMAIN dataPoints : i # 1 =>
    /\ dataPoints[i].evPeerConnected # Null =>
         /\ dataPoints[i - 1].evPeerConnected <= dataPoints[i].evPeerConnected
         /\ dataPoints[i - 1].evPeerDisconnected <= dataPoints[i].evPeerConnected
    /\ dataPoints[i].evPeerDisconnected # Null =>
         dataPoints[i - 1].evPeerDisconnected <= dataPoints[i].evPeerDisconnected

IInv == TypeOK /\ PointsBounded /\ JsonIsHistory /\ Loaded /\ Ordered

LEMMA InitIInv == Init => IInv
<1> SUFFICES ASSUME Init PROVE IInv
  OBVIOUS
<1> USE StatisticsAssumption DEF Init
<1>1. TypeOK
  BY DEF TypeOK
<1>2. PointsBounded /\ JsonIsHistory
  BY DEF PointsBounded, JsonIsHistory
<1>3. Loaded /\ Ordered
  BY DEF Loaded, Ordered
<1> QED
  BY <1>1, <1>2, <1>3 DEF IInv

\* The types, one by one.
LEMMA Types ==
  ASSUME TypeOK
  PROVE  /\ now \in Nat /\ connected \in Nat /\ disconnected \in Nat
         /\ disconnected <= connected
         /\ dataPoints \in Seq(StatPointDto) /\ json \in Seq(StatPointDto)
<1>1. now \in 0 .. MaxTime /\ MaxTime \in Nat
  BY StatisticsAssumption DEF TypeOK
<1>2. /\ connected \in 0 .. MaxConnected /\ MaxConnected \in Nat
      /\ disconnected \in 0 .. connected
  BY StatisticsAssumption DEF TypeOK
<1>3. dataPoints \in Seq(StatPointDto) /\ json \in Seq(StatPointDto)
  BY DEF TypeOK
<1> QED
  BY <1>1, <1>2, <1>3

\* The fields of a point, one by one.
LEMMA Fields ==
  ASSUME TypeOK, NEW i \in DOMAIN dataPoints
  PROVE  /\ dataPoints[i] \in StatPointDto
         /\ dataPoints[i].timestamp \in Nat
         /\ dataPoints[i].evPeerConnected \in Int
         /\ dataPoints[i].evPeerDisconnected \in Int
<1>1. dataPoints \in Seq(StatPointDto)
  BY Types
<1>2. dataPoints[i] \in StatPointDto
  BY <1>1
<1> QED
  BY <1>2 DEF StatPointDto, Null

----------------------------------------------------------------------------
(* The actions *)

\* A push: the new points are the end of the old ones and an empty point.
LEMMA PushStep ==
  ASSUME IInv, TakePoint,
         ~(dataPoints # << >> /\ now - Last(dataPoints).timestamp < PushInterval)
  PROVE  PointsBounded' /\ Loaded' /\ Ordered' /\ dataPoints' \in Seq(StatPointDto)
<1> DEFINE p == [timestamp |-> now, evPeerConnected |-> Null,
                 evPeerDisconnected |-> Null]
           n == Len(dataPoints)
           all == Append(dataPoints, p)
           k == Oldest(all)
           m == n + 2 - k
<1>1. /\ now \in Nat /\ connected \in Nat /\ disconnected \in Nat
      /\ dataPoints \in Seq(StatPointDto) /\ n \in Nat
      /\ MaxPeriod \in Nat /\ PushInterval \in Nat
  BY Types, StatisticsAssumption DEF IInv
<1>2. /\ p \in StatPointDto /\ p.timestamp = now
      /\ p.evPeerConnected = Null /\ p.evPeerDisconnected = Null
  BY <1>1 DEF StatPointDto
<1>3. /\ sampler = "sleeps" /\ sampler' = "loads connected"
      /\ connected' = connected /\ disconnected' = disconnected
  BY DEF TakePoint
<1> HIDE DEF p
<1>4. all \in Seq(StatPointDto) /\ Len(all) = n + 1 /\ all # << >>
  BY <1>1, <1>2, AppendProperties
<1>5. all[n + 1] = p /\ \A i \in 1 .. n : all[i] = dataPoints[i]
  BY <1>1, <1>2, AppendProperties
<1>6. dataPoints' = SubSeq(all, k, n + 1)
  BY <1>4 DEF TakePoint, Pruned, p
<1> HIDE DEF all
<1>7. k \in 1 .. (n + 1) /\ now - all[k].timestamp <= MaxPeriod
  BY <1>1, <1>2, <1>4, <1>5, OldestInDomain
<1> HIDE DEF k
<1>8. /\ dataPoints' \in Seq(StatPointDto) /\ Len(dataPoints') = m
      /\ m \in Nat \ {0} /\ dataPoints'[m] = p
      /\ \A i \in 1 .. (m - 1) : /\ i + k - 1 \in 1 .. n
                                 /\ dataPoints'[i] = dataPoints[i + k - 1]
  <2>1. k \in 1 .. (Len(dataPoints) + 1)
    BY <1>7
  <2>2. dataPoints' = SubSeq(Append(dataPoints, p), k, Len(dataPoints) + 1)
    BY <1>6 DEF all
  <2>3. p \in StatPointDto /\ dataPoints \in Seq(StatPointDto)
    BY <1>1, <1>2
  <2> QED
    BY <2>1, <2>2, <2>3, PushAndPop
<1>9. DOMAIN dataPoints' = 1 .. m /\ DOMAIN dataPoints = 1 .. n
  BY <1>1, <1>8
<1>10. dataPoints'[1] = all[k]
  <2>1. CASE m = 1
    BY <1>1, <1>5, <1>7, <1>8, <2>1
  <2>2. CASE m # 1
    <3>1. 1 \in 1 .. (m - 1) /\ 1 + k - 1 = k
      BY <1>1, <1>7, <1>8, <2>2
    <3> QED
      BY <1>5, <1>8, <3>1
  <2> QED
    BY <2>1, <2>2
<1>11. ASSUME m # 1
       PROVE  /\ m - 1 \in 1 .. (m - 1) /\ dataPoints'[m - 1] = dataPoints[n]
              /\ now - dataPoints[n].timestamp >= PushInterval
  <2>1. m - 1 \in 1 .. (m - 1) /\ (m - 1) + k - 1 = n
    BY <1>1, <1>7, <1>8, <1>11
  <2>2. dataPoints'[m - 1] = dataPoints[n] /\ n \in 1 .. n
    BY <1>8, <2>1
  <2>3. dataPoints # << >>
    BY <1>1, <2>2
  <2>4. dataPoints[n].timestamp \in Nat
    BY <1>9, <2>2, Fields DEF IInv
  <2>5. ~(now - dataPoints[n].timestamp < PushInterval)
    BY <2>3 DEF Last
  <2> QED
    BY <1>1, <2>1, <2>2, <2>4, <2>5
<1>12. ASSUME NEW i \in 2 .. m, i # m
       PROVE  \E j \in 2 .. n : /\ dataPoints'[i] = dataPoints[j]
                                /\ dataPoints'[i - 1] = dataPoints[j - 1]
  <2>1. /\ i \in 1 .. (m - 1) /\ i - 1 \in 1 .. (m - 1)
        /\ i + k - 1 >= 2 /\ (i - 1) + k - 1 = (i + k - 1) - 1
    <3>1. k \in Nat \ {0} /\ m \in Nat
      BY <1>1, <1>7, <1>8
    <3> HIDE DEF m
    <3> QED
      BY <1>12, <3>1
  <2>2. i + k - 1 \in 2 .. n
    BY <1>1, <1>8, <2>1
  <2> QED
    BY <1>8, <2>1, <2>2
<1>13. PointsBounded'
  <2>1. ASSUME NEW i \in 2 .. m
        PROVE  dataPoints'[i].timestamp - dataPoints'[i - 1].timestamp
                 >= PushInterval
    <3>1. CASE i = m
      BY <1>2, <1>8, <1>11, <3>1
    <3>2. CASE i # m
      BY <1>12, <3>2 DEF IInv, PointsBounded
    <3> QED
      BY <3>1, <3>2
  <2>2. dataPoints'[m].timestamp - dataPoints'[1].timestamp <= MaxPeriod
    BY <1>2, <1>7, <1>8, <1>10
  <2>3. Last(dataPoints') = dataPoints'[m] /\ Head(dataPoints') = dataPoints'[1]
    BY <1>8 DEF Last
  <2>4. dataPoints' # << >>
    BY <1>8
  <2>5. \A i \in 2 .. Len(dataPoints') :
          dataPoints'[i].timestamp - dataPoints'[i - 1].timestamp >= PushInterval
    BY <1>8, <2>1
  <2> QED
    BY <2>2, <2>3, <2>4, <2>5 DEF PointsBounded
<1>14. Loaded'
  <2>1. ASSUME NEW i \in DOMAIN dataPoints'
        PROVE  /\ dataPoints'[i].evPeerConnected <= connected
               /\ dataPoints'[i].evPeerDisconnected <= disconnected
               /\ i < Len(dataPoints') =>
                    /\ dataPoints'[i].evPeerConnected # Null
                    /\ dataPoints'[i].evPeerDisconnected # Null
    <3>1. CASE i = m
      BY <1>1, <1>2, <1>8, <3>1 DEF Null
    <3>2. CASE i # m
      <4>1. i \in 1 .. (m - 1)
        BY <1>8, <1>9, <3>2
      <4> QED
        BY <1>3, <1>8, <1>9, <4>1 DEF IInv, Loaded
    <3> QED
      BY <3>1, <3>2
  <2> QED
    BY <1>3, <2>1 DEF Loaded
<1>15. Ordered'
  <2> SUFFICES ASSUME NEW i \in 2 .. m
               PROVE  /\ dataPoints'[i].evPeerConnected # Null =>
                           /\ dataPoints'[i - 1].evPeerConnected <= dataPoints'[i].evPeerConnected
                           /\ dataPoints'[i - 1].evPeerDisconnected <= dataPoints'[i].evPeerConnected
                      /\ dataPoints'[i].evPeerDisconnected # Null =>
                           dataPoints'[i - 1].evPeerDisconnected <= dataPoints'[i].evPeerDisconnected
    <3>1. \A i \in DOMAIN dataPoints' : i # 1 => i \in 2 .. m
      BY <1>8, <1>9
    <3> QED
      BY <3>1 DEF Ordered
  <2>1. CASE i = m
    BY <1>2, <1>8, <2>1
  <2>2. CASE i # m
    <3>1. PICK j \in 2 .. n : /\ dataPoints'[i] = dataPoints[j]
                              /\ dataPoints'[i - 1] = dataPoints[j - 1]
      BY <1>12, <2>2
    <3>2. j \in DOMAIN dataPoints /\ j # 1
      BY <1>1, <1>9
    <3> QED
      BY <3>1, <3>2 DEF IInv, Ordered
  <2> QED
    BY <2>1, <2>2
<1> QED
  BY <1>8, <1>13, <1>14, <1>15

\* A point that young is filled again: the points do not change.
LEMMA ReuseStep ==
  ASSUME IInv, TakePoint,
         dataPoints # << >> /\ now - Last(dataPoints).timestamp < PushInterval
  PROVE  PointsBounded' /\ Loaded' /\ Ordered' /\ dataPoints' \in Seq(StatPointDto)
<1>1. /\ dataPoints' = dataPoints /\ sampler' = "loads connected"
      /\ connected' = connected /\ disconnected' = disconnected
      /\ sampler = "sleeps"
  BY DEF TakePoint
<1>2. PointsBounded'
  BY <1>1 DEF IInv, PointsBounded
<1>3. Loaded'
  BY <1>1 DEF IInv, Loaded
<1>4. Ordered'
  BY <1>1 DEF IInv, Ordered
<1> QED
  BY <1>1, <1>2, <1>3, <1>4, Types DEF IInv

LEMMA TakePointStep == IInv /\ TakePoint => IInv'
<1> SUFFICES ASSUME IInv, TakePoint PROVE IInv'
  OBVIOUS
<1>1. PointsBounded' /\ Loaded' /\ Ordered' /\ dataPoints' \in Seq(StatPointDto)
  BY PushStep, ReuseStep
<1>2. TypeOK'
  BY <1>1 DEF IInv, TypeOK, TakePoint
<1>3. JsonIsHistory'
  BY DEF IInv, JsonIsHistory, TakePoint
<1> QED
  BY <1>1, <1>2, <1>3 DEF IInv

\* A point to load into is there while takeSample holds the lock.
LEMMA NewestIsThere ==
  ASSUME IInv, sampler # "sleeps"
  PROVE  /\ Len(dataPoints) \in DOMAIN dataPoints
         /\ dataPoints \in Seq(StatPointDto)
<1>1. dataPoints # << >> /\ dataPoints \in Seq(StatPointDto)
  BY Types DEF IInv, PointsBounded
<1> QED
  BY <1>1

\* Loading into the points keeps them as far apart as they were.
LEMMA SameStamps ==
  ASSUME IInv, sampler # "sleeps",
         dataPoints' \in Seq(StatPointDto), Len(dataPoints') = Len(dataPoints),
         \A i \in 1 .. Len(dataPoints) :
           dataPoints'[i].timestamp = dataPoints[i].timestamp
  PROVE  PointsBounded'
<1> DEFINE n == Len(dataPoints)
<1>1. n \in DOMAIN dataPoints /\ dataPoints \in Seq(StatPointDto)
  BY NewestIsThere
<1>2. 1 \in 1 .. n /\ n \in 1 .. n /\ dataPoints # << >> /\ dataPoints' # << >>
  BY <1>1
<1>3. \A i \in 2 .. n : dataPoints'[i].timestamp - dataPoints'[i - 1].timestamp
                          >= PushInterval
  <2>1. ASSUME NEW i \in 2 .. n PROVE i \in 1 .. n /\ i - 1 \in 1 .. n
    BY <1>1
  <2> QED
    BY <2>1 DEF IInv, PointsBounded
<1>4. dataPoints[n].timestamp - dataPoints[1].timestamp <= MaxPeriod
  BY <1>1, <1>2 DEF IInv, PointsBounded, Last
<1>5. Last(dataPoints').timestamp - Head(dataPoints').timestamp <= MaxPeriod
  BY <1>2, <1>4 DEF Last
<1> QED
  BY <1>2, <1>3, <1>5 DEF PointsBounded

LEMMA LoadConnectedStep == IInv /\ LoadConnected => IInv'
<1> SUFFICES ASSUME IInv, LoadConnected PROVE IInv'
  OBVIOUS
<1> DEFINE n == Len(dataPoints)
<1>1. /\ sampler = "loads connected" /\ sampler' = "loads disconnected"
      /\ now' = now /\ connected' = connected /\ disconnected' = disconnected
      /\ json' = json
      /\ dataPoints' = [dataPoints EXCEPT ![n].evPeerConnected = connected]
  BY DEF LoadConnected
<1>2. /\ n \in DOMAIN dataPoints /\ DOMAIN dataPoints = 1 .. n /\ n \in Nat
      /\ dataPoints \in Seq(StatPointDto)
  <2>1. n \in DOMAIN dataPoints /\ dataPoints \in Seq(StatPointDto)
    BY <1>1, NewestIsThere
  <2> QED
    BY <2>1
<1>3. /\ connected \in Nat /\ disconnected \in Nat /\ disconnected <= connected
  BY Types DEF IInv
<1> HIDE DEF n
<1>4. /\ DOMAIN dataPoints' = DOMAIN dataPoints
      /\ \A i \in DOMAIN dataPoints : i # n => dataPoints'[i] = dataPoints[i]
      /\ dataPoints'[n] = [dataPoints[n] EXCEPT !.evPeerConnected = connected]
  BY <1>1, <1>2
<1>5. dataPoints[n] \in StatPointDto
  BY <1>2
<1>6. /\ dataPoints'[n].evPeerConnected = connected
      /\ dataPoints'[n].evPeerDisconnected = dataPoints[n].evPeerDisconnected
      /\ dataPoints'[n].timestamp = dataPoints[n].timestamp
      /\ dataPoints'[n] \in StatPointDto
  BY <1>3, <1>4, <1>5 DEF StatPointDto
<1>7. dataPoints' \in Seq(StatPointDto) /\ Len(dataPoints') = n
  <2>1. dataPoints' = [i \in 1 .. n |-> dataPoints'[i]]
    BY <1>1, <1>2
  <2>2. \A i \in 1 .. n : dataPoints'[i] \in StatPointDto
    BY <1>2, <1>4, <1>6
  <2> QED
    BY <1>2, <2>1, <2>2
<1>8. TypeOK'
  BY <1>1, <1>7 DEF IInv, TypeOK
<1>9. PointsBounded'
  <2>1. \A i \in 1 .. n : dataPoints'[i].timestamp = dataPoints[i].timestamp
    BY <1>2, <1>4, <1>6
  <2> QED
    BY <1>1, <1>7, <2>1, SameStamps DEF n
<1>10. JsonIsHistory'
  BY <1>1 DEF IInv, JsonIsHistory
<1>11. Loaded'
  <2>1. ASSUME NEW i \in DOMAIN dataPoints
        PROVE  /\ dataPoints'[i].evPeerConnected <= connected
               /\ dataPoints'[i].evPeerDisconnected <= disconnected
               /\ i < n => /\ dataPoints'[i].evPeerConnected # Null
                           /\ dataPoints'[i].evPeerDisconnected # Null
    <3>1. CASE i = n
      <4>1. dataPoints[n].evPeerDisconnected <= disconnected
        BY <1>2 DEF IInv, Loaded
      <4>2. connected <= connected /\ ~(n < n)
        BY <1>2, <1>3
      <4> QED
        BY <1>6, <3>1, <4>1, <4>2
    <3>2. CASE i # n
      BY <1>4, <3>2 DEF IInv, Loaded, n
    <3> QED
      BY <3>1, <3>2
  <2>2. connected # Null
    BY <1>3 DEF Null
  <2> QED
    BY <1>1, <1>4, <1>6, <1>7, <2>1, <2>2 DEF Loaded
<1>12. Ordered'
  <2> SUFFICES ASSUME NEW i \in DOMAIN dataPoints, i # 1
               PROVE  /\ dataPoints'[i].evPeerConnected # Null =>
                           /\ dataPoints'[i - 1].evPeerConnected <= dataPoints'[i].evPeerConnected
                           /\ dataPoints'[i - 1].evPeerDisconnected <= dataPoints'[i].evPeerConnected
                      /\ dataPoints'[i].evPeerDisconnected # Null =>
                           dataPoints'[i - 1].evPeerDisconnected <= dataPoints'[i].evPeerDisconnected
    BY <1>4 DEF Ordered
  <2>1. i - 1 \in DOMAIN dataPoints /\ i - 1 # n
    BY <1>2
  <2>2. dataPoints'[i - 1] = dataPoints[i - 1]
    BY <1>4, <2>1
  <2>3. /\ dataPoints[i - 1].evPeerConnected <= connected
        /\ dataPoints[i - 1].evPeerDisconnected <= connected
    <3>1. /\ dataPoints[i - 1].evPeerConnected <= connected
          /\ dataPoints[i - 1].evPeerDisconnected <= disconnected
      BY <2>1 DEF IInv, Loaded
    <3>2. dataPoints[i - 1].evPeerDisconnected \in Int
      BY <2>1, Fields DEF IInv
    <3> QED
      BY <1>3, <3>1, <3>2
  <2>4. CASE i = n
    BY <1>6, <2>2, <2>3, <2>4 DEF IInv, Ordered
  <2>5. CASE i # n
    BY <1>4, <2>2, <2>5 DEF IInv, Ordered
  <2> QED
    BY <2>4, <2>5
<1> QED
  BY <1>8, <1>9, <1>10, <1>11, <1>12 DEF IInv

LEMMA LoadDisconnectedStep == IInv /\ LoadDisconnected => IInv'
<1> SUFFICES ASSUME IInv, LoadDisconnected PROVE IInv'
  OBVIOUS
<1> DEFINE n == Len(dataPoints)
<1>1. /\ sampler = "loads disconnected" /\ sampler' = "sleeps"
      /\ now' = now /\ connected' = connected /\ disconnected' = disconnected
      /\ json' = json
      /\ dataPoints' = [dataPoints EXCEPT ![n].evPeerDisconnected = disconnected]
  BY DEF LoadDisconnected
<1>2. /\ n \in DOMAIN dataPoints /\ DOMAIN dataPoints = 1 .. n /\ n \in Nat
      /\ dataPoints \in Seq(StatPointDto)
  <2>1. n \in DOMAIN dataPoints /\ dataPoints \in Seq(StatPointDto)
    BY <1>1, NewestIsThere
  <2> QED
    BY <2>1
<1>3. connected \in Nat /\ disconnected \in Nat /\ disconnected # Null
  BY Types DEF IInv, Null
<1>4. dataPoints[n].evPeerConnected # Null
  BY <1>1 DEF IInv, Loaded
<1> HIDE DEF n
<1>5. /\ DOMAIN dataPoints' = DOMAIN dataPoints
      /\ \A i \in DOMAIN dataPoints : i # n => dataPoints'[i] = dataPoints[i]
      /\ dataPoints'[n] = [dataPoints[n] EXCEPT !.evPeerDisconnected = disconnected]
  BY <1>1, <1>2
<1>6. dataPoints[n] \in StatPointDto
  BY <1>2
<1>7. /\ dataPoints'[n].evPeerConnected = dataPoints[n].evPeerConnected
      /\ dataPoints'[n].evPeerDisconnected = disconnected
      /\ dataPoints'[n].timestamp = dataPoints[n].timestamp
      /\ dataPoints'[n] \in StatPointDto
  BY <1>3, <1>5, <1>6 DEF StatPointDto
<1>8. dataPoints' \in Seq(StatPointDto) /\ Len(dataPoints') = n
  <2>1. dataPoints' = [i \in 1 .. n |-> dataPoints'[i]]
    BY <1>1, <1>2
  <2>2. \A i \in 1 .. n : dataPoints'[i] \in StatPointDto
    BY <1>2, <1>5, <1>7
  <2> QED
    BY <1>2, <2>1, <2>2
<1>9. TypeOK'
  BY <1>1, <1>8 DEF IInv, TypeOK
<1>10. PointsBounded'
  <2>1. \A i \in 1 .. n : dataPoints'[i].timestamp = dataPoints[i].timestamp
    BY <1>2, <1>5, <1>7
  <2> QED
    BY <1>1, <1>8, <2>1, SameStamps DEF n
<1>11. JsonIsHistory'
  BY <1>1 DEF IInv, JsonIsHistory
<1>12. Loaded'
  <2>1. ASSUME NEW i \in DOMAIN dataPoints
        PROVE  /\ dataPoints'[i].evPeerConnected <= connected
               /\ dataPoints'[i].evPeerDisconnected <= disconnected
               /\ dataPoints'[i].evPeerConnected # Null
               /\ dataPoints'[i].evPeerDisconnected # Null
    <3>1. CASE i = n
      <4>1. dataPoints[n].evPeerConnected <= connected
        BY <1>2 DEF IInv, Loaded
      <4>2. disconnected <= disconnected
        BY <1>3
      <4> QED
        BY <1>3, <1>4, <1>7, <3>1, <4>1, <4>2
    <3>2. CASE i # n
      <4>1. i < n
        BY <1>2, <3>2
      <4> QED
        BY <1>5, <3>2, <4>1 DEF IInv, Loaded, n
    <3> QED
      BY <3>1, <3>2
  <2> QED
    BY <1>1, <1>5, <2>1 DEF Loaded
<1>13. Ordered'
  <2> SUFFICES ASSUME NEW i \in DOMAIN dataPoints, i # 1
               PROVE  /\ dataPoints'[i].evPeerConnected # Null =>
                           /\ dataPoints'[i - 1].evPeerConnected <= dataPoints'[i].evPeerConnected
                           /\ dataPoints'[i - 1].evPeerDisconnected <= dataPoints'[i].evPeerConnected
                      /\ dataPoints'[i].evPeerDisconnected # Null =>
                           dataPoints'[i - 1].evPeerDisconnected <= dataPoints'[i].evPeerDisconnected
    BY <1>5 DEF Ordered
  <2>1. i - 1 \in DOMAIN dataPoints /\ i - 1 # n
    BY <1>2
  <2>2. dataPoints'[i - 1] = dataPoints[i - 1]
    BY <1>5, <2>1
  <2>3. dataPoints[i - 1].evPeerDisconnected <= disconnected
    BY <2>1 DEF IInv, Loaded
  <2>4. CASE i = n
    BY <1>7, <2>2, <2>3, <2>4 DEF IInv, Ordered
  <2>5. CASE i # n
    BY <1>5, <2>2, <2>5 DEF IInv, Ordered
  <2> QED
    BY <2>4, <2>5
<1> QED
  BY <1>9, <1>10, <1>11, <1>12, <1>13 DEF IInv

\* The lock makes the answer wait until the newest point is filled.
LEMMA getJsonDataStep == IInv /\ getJsonData => IInv'
<1> SUFFICES ASSUME IInv, getJsonData PROVE IInv'
  OBVIOUS
<1>1. /\ sampler = "sleeps" /\ json' = dataPoints
      /\ UNCHANGED <<now, connected, disconnected, dataPoints, sampler>>
  BY DEF getJsonData
<1>2. TypeOK'
  BY <1>1 DEF IInv, TypeOK
<1>3. PointsBounded' /\ Loaded' /\ Ordered'
  <2>1. PointsBounded'
    BY <1>1 DEF IInv, PointsBounded
  <2>2. Loaded'
    BY <1>1 DEF IInv, Loaded
  <2>3. Ordered'
    BY <1>1 DEF IInv, Ordered
  <2> QED
    BY <2>1, <2>2, <2>3
<1>4. JsonIsHistory'
  <2>1. \A i \in DOMAIN dataPoints :
          /\ dataPoints[i].evPeerConnected # Null
          /\ dataPoints[i].evPeerDisconnected # Null
    BY <1>1 DEF IInv, Loaded
  <2>2. ASSUME NEW i \in 2 .. Len(dataPoints)
        PROVE  /\ dataPoints[i - 1].evPeerConnected <= dataPoints[i].evPeerConnected
               /\ dataPoints[i - 1].evPeerDisconnected <= dataPoints[i].evPeerDisconnected
               /\ dataPoints[i - 1].evPeerDisconnected <= dataPoints[i].evPeerConnected
    <3>1. i \in DOMAIN dataPoints /\ i # 1
      BY Types DEF IInv
    <3> QED
      BY <2>1, <3>1 DEF IInv, Ordered
  <2> QED
    BY <1>1, <2>1, <2>2 DEF JsonIsHistory
<1> QED
  BY <1>2, <1>3, <1>4 DEF IInv

\* The clock and the counters move on; no point looks different for it.
LEMMA OtherSteps ==
  ASSUME IInv, \/ Tick \/ Connected \/ Disconnected \/ UNCHANGED vars
  PROVE  IInv'
<1>1. /\ dataPoints' = dataPoints /\ sampler' = sampler /\ json' = json
      /\ connected' \in {connected, connected + 1}
      /\ disconnected' \in {disconnected, disconnected + 1}
  BY DEF Tick, Connected, Disconnected, vars
<1>2. connected \in Nat /\ disconnected \in Nat
  BY Types DEF IInv
<1>3. TypeOK'
  <2>1. /\ now \in 0 .. MaxTime /\ connected \in 0 .. MaxConnected
        /\ disconnected \in 0 .. connected /\ MaxConnected \in Nat
    BY StatisticsAssumption DEF IInv, TypeOK
  <2>2. now' \in 0 .. MaxTime
    BY <2>1 DEF Tick, Connected, Disconnected, vars
  <2>3. connected' \in 0 .. MaxConnected /\ disconnected' \in 0 .. connected'
    <3>1. CASE Connected
      BY <2>1, <3>1 DEF Connected
    <3>2. CASE Disconnected
      BY <2>1, <3>2 DEF Disconnected
    <3>3. CASE Tick \/ UNCHANGED vars
      BY <2>1, <3>3 DEF Tick, vars
    <3> QED
      BY <3>1, <3>2, <3>3
  <2> QED
    BY <1>1, <2>2, <2>3 DEF IInv, TypeOK
<1>4. PointsBounded' /\ JsonIsHistory' /\ Ordered'
  <2>1. PointsBounded'
    BY <1>1 DEF IInv, PointsBounded
  <2>2. JsonIsHistory'
    BY <1>1 DEF IInv, JsonIsHistory
  <2>3. Ordered'
    BY <1>1 DEF IInv, Ordered
  <2> QED
    BY <2>1, <2>2, <2>3
<1>5. Loaded'
  <2>1. ASSUME NEW i \in DOMAIN dataPoints
        PROVE  /\ dataPoints[i].evPeerConnected <= connected'
               /\ dataPoints[i].evPeerDisconnected <= disconnected'
    <3>1. /\ dataPoints[i].evPeerConnected \in Int
          /\ dataPoints[i].evPeerDisconnected \in Int
      BY Fields DEF IInv
    <3>2. /\ dataPoints[i].evPeerConnected <= connected
          /\ dataPoints[i].evPeerDisconnected <= disconnected
      BY DEF IInv, Loaded
    <3> QED
      BY <1>1, <1>2, <3>1, <3>2
  <2> QED
    BY <1>1, <2>1 DEF IInv, Loaded
<1> QED
  BY <1>3, <1>4, <1>5 DEF IInv

LEMMA Invariance == Spec => []IInv
<1>1. IInv /\ [Next]_vars => IInv'
  BY TakePointStep, LoadConnectedStep, LoadDisconnectedStep, getJsonDataStep,
     OtherSteps DEF Next, takeSample
<1> QED
  BY <1>1, InitIInv, PTL DEF Spec

----------------------------------------------------------------------------
(* The theorems *)

\* Every field of every point has a value of its type, and nobody is counted
\* as disconnected who did not connect.
THEOREM StatisticsTypeCorrect == Spec => []TypeOK
<1>1. IInv => TypeOK
  BY DEF IInv
<1> QED
  BY <1>1, Invariance, PTL

\* takeSample never loads into an empty list and keeps no more points than
\* the period has room for, however the clock is set.
THEOREM StatisticsPointsBounded == Spec => []PointsBounded
<1>1. IInv => PointsBounded
  BY DEF IInv
<1> QED
  BY <1>1, Invariance, PTL

\* What getJsonData answers is whole and no counter falls in it, though the
\* other threads count on while a point is filled.
THEOREM StatisticsJsonIsHistory == Spec => []JsonIsHistory
<1>1. IInv => JsonIsHistory
  BY DEF IInv
<1> QED
  BY <1>1, Invariance, PTL
=============================================================================
