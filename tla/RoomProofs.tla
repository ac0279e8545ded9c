----------------------------- MODULE RoomProofs -----------------------------
(***************************************************************************)
(* JoinerMissesNothing, KnowsEveryMember and ReplayOmitsLeavers for any     *)
(* number of peers, any history length and any order of delivery.          *)
(*                                                                         *)
(* The argument follows the order of the code: a message is recorded       *)
(* before it is broadcast (Recorded), a joiner is in m_peerById before it  *)
(* reads the history (Roster), so what was broadcast before the reading is *)
(* in the history or evicted, and what is broadcast later has a frame for  *)
(* the joiner (Covered).  The joins it is told of stay on its list, since  *)
(* a departure is recorded before anyone is told of it (Departed), and in  *)
(* the history it comes after the join (LeftLast).                         *)
(***************************************************************************)
EXTENDS Room, FiniteSetTheorems, TLAPS

\* m_peerById is exactly the peers between addPeer and removePeerById.
Roster ==
  m_peerById = {c \in Peer : pc[c] \in {"added", "listed", "briefed",
                                        "member", "saying", "sharing"}}

\* Everything that was ever pushed to the history.
Pushed == evicted \cup Range(m_history)

\* A message that is broadcast, or about to be, has been pushed.
Recorded ==
  /\ sent \subseteq Pushed
  /\ \A c \in Peer :
       /\ pc[c] = "welcoming" => Joined(c) \in Pushed
       /\ pc[c] = "saying" => Said(c, said[c]) \in Pushed
       /\ pc[c] = "sharing" => Shared(c, said[c]) \in Pushed
       /\ pc[c] = "parting" => Left(c) \in Pushed

\* Messages that have come to the browser, shown or not, or will once its
\* frames arrive.
Reaching(c) ==
  seen[c] \cup early[c] \cup Range(frames[c]) \cup Range(briefing[c])
    \cup UNION {Range(f.history) : f \in {g \in Range(frames[c]) :
                                           g.kind = "info"}}

\* Once the history is read, every broadcast message reaches the joiner or
\* was evicted before.
Covered ==
  \A c \in Peer : pc[c] \in {"briefed", "member", "saying", "sharing"} =>
    sent \subseteq Reaching(c) \cup excused[c]

\* The copy of the history is consumed when INFO is sent.
BriefingSent ==
  \A c \in Peer : pc[c] \in {"member", "saying", "sharing"} => briefing[c] = << >>

IInv == TypeOK /\ Roster /\ Recorded /\ Covered /\ BriefingSent

(* For KnowsEveryMember and ReplayOmitsLeavers, on top of it. *)

\* Only a peer that is over has a departure on record.
Departed ==
  \A m \in Pushed : m.kind = "left" => pc[m.peer] \in {"parting", "gone"}

\* A peer announces itself before it is added.
JoinSent ==
  \A p \in Peer : pc[p] \notin {"idle", "welcoming"} => Joined(p) \in sent

\* Nothing is on its way to a browser that was not recorded.
FrameRecorded(f) ==
  IF f.kind = "info" THEN Range(f.history) \subseteq Pushed ELSE f \in Pushed

FromHistory ==
  \A c \in Peer :
    /\ seen[c] \cup Range(briefing[c]) \subseteq Pushed
    /\ \A f \in Range(frames[c]) : FrameRecorded(f)

\* A browser that was told of a join keeps the peer on its list.
Shows ==
  \A c, p \in Peer :
    Joined(p) \in seen[c] /\ pc[p] \notin {"parting", "gone"} => p \in peersMap[c]

Tells(m, kind, c) == m.kind = kind /\ m.peer = c

\* No join of a peer that is over is the last word on it.
Outdated(history, c) ==
  \A i \in DOMAIN history : Tells(history[i], "joined", c) =>
    \E j \in DOMAIN history : j > i /\ Tells(history[j], "left", c)

LeftLast ==
  \A c \in Peer : pc[c] \in {"parting", "gone"} => Outdated(m_history, c)

JInv == Departed /\ JoinSent /\ FromHistory /\ Shows /\ LeftLast

----------------------------------------------------------------------------
(* Sequences *)

\* Appending adds one element to the range.
LEMMA RangeAppend ==
  ASSUME NEW S, NEW s \in Seq(S), NEW e \in S
  PROVE  /\ Append(s, e) \in Seq(S)
         /\ Range(Append(s, e)) = Range(s) \cup {e}
<1>1. Append(s, e) \in Seq(S) /\ Len(Append(s, e)) = Len(s) + 1
  OBVIOUS
<1>2. \A i \in 1..Len(s) : Append(s, e)[i] = s[i]
  OBVIOUS
<1>3. Append(s, e)[Len(s) + 1] = e
  OBVIOUS
<1>4. Range(Append(s, e)) \subseteq Range(s) \cup {e}
  BY <1>1, <1>2, <1>3 DEF Range
<1>5. Range(s) \cup {e} \subseteq Range(Append(s, e))
  BY <1>1, <1>2, <1>3 DEF Range
<1> QED
  BY <1>1, <1>4, <1>5

\* Taking one position out loses at most that element and adds nothing.
LEMMA RangeRemoveAt ==
  ASSUME NEW S, NEW s \in Seq(S), NEW i \in 1..Len(s)
  PROVE  /\ RemoveAt(s, i) \in Seq(S)
         /\ Range(s) \subseteq Range(RemoveAt(s, i)) \cup {s[i]}
         /\ Range(RemoveAt(s, i)) \subseteq Range(s)
<1> DEFINE a == SubSeq(s, 1, i - 1)
           b == SubSeq(s, i + 1, Len(s))
<1>1. /\ a \in Seq(S) /\ Len(a) = i - 1
      /\ b \in Seq(S) /\ Len(b) = Len(s) - i
  OBVIOUS
<1>2. \A k \in 1..(i - 1) : a[k] = s[k]
  OBVIOUS
<1>3. \A k \in 1..(Len(s) - i) : b[k] = s[i + k]
  OBVIOUS
<1>4. RemoveAt(s, i) = a \o b
  BY DEF RemoveAt
<1> HIDE DEF a, b
<1>5. (a \o b) \in Seq(S) /\ Len(a \o b) = Len(s) - 1
  BY <1>1
<1>6. ASSUME NEW k \in 1..Len(s), k # i
      PROVE  s[k] \in Range(a \o b)
  <2>1. CASE k < i
    <3>1. k \in 1..(i - 1) /\ (a \o b)[k] = a[k]
      BY <1>1, <2>1
    <3> QED
      BY <1>2, <1>5, <3>1 DEF Range
  <2>2. CASE k > i
    <3>1. /\ k - i \in 1..Len(b)
          /\ (a \o b)[Len(a) + (k - i)] = b[k - i]
      BY <1>1, <2>2
    <3>2. b[k - i] = s[k]
      BY <1>1, <1>3, <3>1
    <3>3. Len(a) + (k - i) \in 1..Len(a \o b)
      BY <1>1, <1>5, <2>2
    <3>4. PICK j \in 1..Len(a \o b) : (a \o b)[j] = s[k]
      BY <3>1, <3>2, <3>3
    <3> QED
      BY <1>5, <3>4 DEF Range
  <2> QED
    BY <1>6, <2>1, <2>2
<1>7. Range(s) \subseteq Range(a \o b) \cup {s[i]}
  <2> SUFFICES ASSUME NEW e \in Range(s) PROVE e \in Range(a \o b) \cup {s[i]}
    OBVIOUS
  <2>1. PICK k \in 1..Len(s) : e = s[k]
    BY DEF Range
  <2> QED
    BY <1>6, <2>1
<1>8. ASSUME NEW k \in 1..(Len(s) - 1)
      PROVE  \E j \in 1..Len(s) : (a \o b)[k] = s[j]
  <2>1. CASE k <= i - 1
    <3>1. k \in 1..(i - 1) /\ (a \o b)[k] = a[k] /\ k \in 1..Len(s)
      BY <1>1, <2>1
    <3> QED
      BY <1>2, <3>1
  <2>2. CASE ~(k <= i - 1)
    <3>1. /\ k - (i - 1) \in 1..(Len(s) - i)
          /\ (a \o b)[k] = b[k - (i - 1)]
      BY <1>1, <2>2
    <3>2. i + (k - (i - 1)) \in 1..Len(s)
      BY <3>1
    <3> QED
      BY <1>3, <3>1, <3>2
  <2> QED
    BY <2>1, <2>2
<1>9. ASSUME NEW e \in Range(a \o b) PROVE e \in Range(s)
  <2>1. PICK k \in 1..(Len(s) - 1) : e = (a \o b)[k]
    BY <1>5 DEF Range
  <2>2. PICK j \in 1..Len(s) : e = s[j]
    BY <1>8, <2>1
  <2> QED
    BY <2>2 DEF Range
<1> QED
  BY <1>4, <1>5, <1>7, <1>9

\* push and pop of the history.
LEMMA RoundedKeeps ==
  ASSUME NEW h \in Seq(Message), Len(h) <= MaxHistory + 1
  PROVE  Rounded(h) \in Seq(Message) /\ Len(Rounded(h)) <= MaxHistory
BY RoomAssumption DEF Rounded

----------------------------------------------------------------------------
\* Initially there is no peer and no message.
LEMMA InitIInv == Init => IInv
<1> SUFFICES ASSUME Init PROVE IInv
  OBVIOUS
<1> USE RoomAssumption DEF Init
<1>1. TypeOK
  BY DEF TypeOK, PC
<1>2. Roster /\ Covered /\ BriefingSent
  BY DEF Roster, Covered, BriefingSent
<1>3. Recorded
  BY DEF Recorded
<1> QED
  BY <1>1, <1>2, <1>3 DEF IInv

\* What addHistoryMessage does to the type invariant and to Pushed.
LEMMA AddHistory ==
  ASSUME TypeOK, NEW m \in Message, addHistoryMessage(m)
  PROVE  /\ m_history' \in Seq(Message) /\ Len(m_history') <= MaxHistory
         /\ evicted' \in SUBSET Message
         /\ Pushed' = Pushed \cup {m}
<1> DEFINE h == Append(m_history, m)
<1>1. /\ h \in Seq(Message) /\ Len(h) = Len(m_history) + 1
      /\ Range(h) = Range(m_history) \cup {m}
  BY RangeAppend DEF TypeOK
<1>2. m_history' = Rounded(h)
  BY DEF addHistoryMessage
<1>3. evicted' = evicted \cup (Range(h) \ Range(Rounded(h)))
  BY DEF addHistoryMessage
<1> HIDE DEF h
<1>4. Rounded(h) \in Seq(Message) /\ Len(Rounded(h)) <= MaxHistory
  <2>1. Len(m_history) \in Nat /\ Len(m_history) <= MaxHistory
    BY DEF TypeOK
  <2> QED
    BY <1>1, <2>1, RoundedKeeps, RoomAssumption
<1>5. Range(Rounded(h)) \subseteq Range(h)
  <2>1. CASE Len(h) > MaxHistory
    <3>1. /\ Rounded(h) = Tail(h)
          /\ Len(Tail(h)) = Len(h) - 1
          /\ \A i \in 1..(Len(h) - 1) : Tail(h)[i] = h[i + 1]
      BY <1>1, <2>1, RoomAssumption DEF Rounded
    <3> QED
      BY <1>1, <1>4, <3>1 DEF Range
  <2>2. CASE ~(Len(h) > MaxHistory)
    BY <2>2 DEF Rounded
  <2> QED
    BY <2>1, <2>2
<1>6. Range(m_history) \subseteq Message
  BY DEF TypeOK, Range
<1>7. Pushed' = evicted \cup Range(h)
  BY <1>2, <1>3, <1>5 DEF Pushed
<1> QED
  BY <1>1, <1>2, <1>3, <1>4, <1>6, <1>7 DEF TypeOK, Pushed

\* More frames, more messages that reach the browser.
LEMMA ReachingGrows ==
  ASSUME NEW d \in Peer, seen[d] \subseteq seen'[d], early[d] \subseteq early'[d],
         briefing'[d] = briefing[d],
         Range(frames[d]) \subseteq Range(frames'[d])
  PROVE  Reaching(d) \subseteq Reaching(d)'
<1> SUFFICES ASSUME NEW e \in Reaching(d) PROVE e \in Reaching(d)'
  OBVIOUS
<1>1. CASE e \in seen[d] \cup early[d] \cup Range(frames[d]) \cup Range(briefing[d])
  <2> HIDE DEF Range
  <2> QED
    BY <1>1 DEF Reaching
<1>2. ASSUME NEW f \in Range(frames[d]), f.kind = "info",
             e \in Range(f.history)
      PROVE  e \in Reaching(d)'
  <2>1. f \in Range(frames'[d])
    BY <1>2
  <2> QED
    BY <1>2, <2>1, Zenon DEF Reaching
<1> QED
  BY <1>1, <1>2 DEF Reaching

\* The first half of every announcement: record the message.
LEMMA RecordStep ==
  ASSUME IInv, NEW c \in Peer, NEW m \in Message, addHistoryMessage(m),
         NEW to, said' \in [Peer -> Nat],
         \A d \in Peer \ {c} : said'[d] = said[d],
         \/ Moves(c, "idle", "welcoming") /\ m = Joined(c)
         \/ Moves(c, "member", "saying") /\ m = Said(c, said'[c])
         \/ Moves(c, "member", "sharing") /\ m = Shared(c, said'[c])
         \/ Moves(c, "removed", "parting") /\ m = Left(c)
  PROVE  IInv'
<1> USE DEF Moves
<1>1. /\ m_history' \in Seq(Message) /\ Len(m_history') <= MaxHistory
      /\ evicted' \in SUBSET Message
      /\ Pushed' = Pushed \cup {m}
  BY AddHistory DEF IInv
<1>2. UNCHANGED <<m_peerById, listed, briefing, frames, peersMap, seen, early,
                  sent, excused>>
  BY DEF addHistoryMessage, clientVars
<1>3. pc \in [Peer -> PC]
  BY DEF IInv, TypeOK
<1>4. TypeOK'
  BY <1>1, <1>2, <1>3 DEF IInv, TypeOK, PC
<1>5. Roster'
  BY <1>2, <1>3 DEF IInv, Roster
<1>6. Recorded'
  BY <1>1, <1>2, <1>3 DEF IInv, Recorded, Joined, Left, Said, Shared
<1>7. \A d \in Peer : Reaching(d)' = Reaching(d)
  BY <1>2 DEF Reaching
<1>8. Covered' /\ BriefingSent'
  BY <1>2, <1>3, <1>7 DEF IInv, Covered, BriefingSent
<1> QED
  BY <1>4, <1>5, <1>6, <1>8 DEF IInv

\* The second half: every present peer gets a frame.
LEMMA BroadcastStep ==
  ASSUME IInv, NEW c \in Peer, NEW m \in Message, sendMessageAsync(m),
         UNCHANGED said,
         \/ Moves(c, "welcoming", "welcomed") /\ m = Joined(c)
         \/ Moves(c, "saying", "member") /\ m = Said(c, said[c])
         \/ Moves(c, "sharing", "member") /\ m = Shared(c, said[c])
         \/ Moves(c, "parting", "gone") /\ m = Left(c)
  PROVE  IInv'
<1> USE DEF Moves
<1>1. /\ UNCHANGED <<m_peerById, m_history, said, listed, briefing, peersMap,
                     seen, early, evicted, excused>>
      /\ sent' = sent \cup {m}
      /\ frames' = [p \in Peer |->
           IF p \in m_peerById THEN Append(frames[p], m) ELSE frames[p]]
  BY DEF sendMessageAsync, clientVars
<1>2. pc \in [Peer -> PC]
  BY DEF IInv, TypeOK
<1> DEFINE Frame == Message \cup [kind : {"info"}, peers : SUBSET Peer,
                                  history : Seq(Message)]
<1>3. ASSUME NEW p \in Peer
      PROVE  /\ frames'[p] \in Seq(Frame)
             /\ Range(frames'[p]) =
                  Range(frames[p]) \cup IF p \in m_peerById THEN {m} ELSE {}
  <2>1. frames[p] \in Seq(Frame) /\ m \in Frame
    BY DEF IInv, TypeOK
  <2> HIDE DEF Frame
  <2>2. /\ Append(frames[p], m) \in Seq(Frame)
        /\ Range(Append(frames[p], m)) = Range(frames[p]) \cup {m}
    BY <2>1, RangeAppend
  <2> QED
    BY <1>1, <2>1, <2>2
<1>4. TypeOK'
  <2>1. frames' \in [Peer -> Seq(Frame)]
    <3> HIDE DEF Frame
    <3> QED
      BY <1>1, <1>3
  <2> QED
    BY <1>1, <1>2, <2>1 DEF IInv, TypeOK, PC
<1>5. Roster'
  BY <1>1, <1>2 DEF IInv, Roster
<1>6. Pushed' = Pushed /\ m \in Pushed
  BY <1>1 DEF IInv, Pushed, Recorded
<1>7. Recorded'
  BY <1>1, <1>2, <1>6 DEF IInv, Recorded, Joined, Left, Said, Shared
<1>8. ASSUME NEW d \in Peer
      PROVE  /\ Reaching(d) \subseteq Reaching(d)'
             /\ d \in m_peerById => m \in Reaching(d)'
  <2>1. /\ seen'[d] = seen[d] /\ early'[d] = early[d]
        /\ briefing'[d] = briefing[d]
        /\ Range(frames[d]) \subseteq Range(frames'[d])
        /\ d \in m_peerById => m \in Range(frames'[d])
    BY <1>1, <1>3
  <2> QED
    BY <2>1, ReachingGrows DEF Reaching
<1>9. Covered'
  BY <1>1, <1>2, <1>8 DEF IInv, Covered, Roster
<1>10. BriefingSent'
  BY <1>1, <1>2 DEF IInv, BriefingSent
<1> QED
  BY <1>4, <1>5, <1>7, <1>9, <1>10 DEF IInv

\* addPeer and the copy of the map send and record nothing.
LEMMA AddPeerStep == ASSUME IInv, NEW c \in Peer, AddPeer(c) PROVE IInv'
<1> USE DEF IInv, AddPeer, Moves, clientVars, ghostVars
<1>1. TypeOK'
  BY DEF TypeOK, PC
<1>2. Roster'
  BY DEF Roster, TypeOK
<1>3. Recorded'
  BY DEF Recorded, Pushed, TypeOK
<1>4. Covered' /\ BriefingSent'
  BY DEF Covered, Reaching, BriefingSent, TypeOK
<1> QED
  BY <1>1, <1>2, <1>3, <1>4

LEMMA ListPeersStep == ASSUME IInv, NEW c \in Peer, ListPeers(c) PROVE IInv'
<1> USE DEF IInv, ListPeers, Moves, clientVars, ghostVars
<1>1. TypeOK'
  BY DEF TypeOK, PC
<1>2. Roster'
  BY DEF Roster, TypeOK
<1>3. Recorded'
  BY DEF Recorded, Pushed, TypeOK
<1>4. Covered' /\ BriefingSent'
  BY DEF Covered, Reaching, BriefingSent, TypeOK
<1> QED
  BY <1>1, <1>2, <1>3, <1>4

\* At the moment of reading, the history and what was evicted make up all
\* that was recorded, hence all that was broadcast.
LEMMA GetHistoryStep == ASSUME IInv, NEW c \in Peer, getHistory(c) PROVE IInv'
<1> USE DEF IInv, getHistory, Moves, clientVars
<1>1. TypeOK'
  BY DEF TypeOK, PC
<1>2. Roster'
  BY DEF Roster, TypeOK
<1>3. Recorded'
  BY DEF Recorded, Pushed, TypeOK
<1>4. /\ briefing'[c] = m_history /\ excused'[c] = evicted
      /\ \A d \in Peer \ {c} : /\ briefing'[d] = briefing[d]
                               /\ excused'[d] = excused[d]
                               /\ pc'[d] = pc[d]
      /\ sent' = sent /\ seen' = seen /\ early' = early /\ frames' = frames
  BY DEF TypeOK
<1>5. sent \subseteq evicted \cup Range(m_history)
  BY DEF Recorded, Pushed
<1>6. Covered'
  <2>1. ASSUME NEW d \in Peer, d # c PROVE Reaching(d)' = Reaching(d)
    BY <1>4, <2>1 DEF Reaching
  <2>2. Range(m_history) \subseteq Reaching(c)'
    BY <1>4 DEF Reaching
  <2> QED
    BY <1>4, <1>5, <2>1, <2>2 DEF Covered
<1>7. BriefingSent'
  BY <1>4 DEF BriefingSent, TypeOK
<1> QED
  BY <1>1, <1>2, <1>3, <1>6, <1>7

\* INFO carries the copied history to the browser.
LEMMA SendInfoStep == ASSUME IInv, NEW c \in Peer, SendInfo(c) PROVE IInv'
<1> DEFINE m == Info(listed[c], briefing[c])
           Frame == Message \cup [kind : {"info"}, peers : SUBSET Peer,
                                  history : Seq(Message)]
<1>1. /\ pc[c] = "briefed" /\ pc' = [pc EXCEPT ![c] = "member"]
      /\ frames' = [frames EXCEPT ![c] = Append(@, m)]
      /\ listed' = [listed EXCEPT ![c] = {}]
      /\ briefing' = [briefing EXCEPT ![c] = << >>]
      /\ UNCHANGED <<m_peerById, m_history, said, peersMap, seen, early, sent,
                     evicted, excused>>
  BY DEF SendInfo, Moves, clientVars, ghostVars
<1>2. m \in Frame
  BY DEF IInv, TypeOK, Info
<1>3. /\ Append(frames[c], m) \in Seq(Frame)
      /\ Range(Append(frames[c], m)) = Range(frames[c]) \cup {m}
  <2>1. frames[c] \in Seq(Frame)
    BY DEF IInv, TypeOK
  <2> HIDE DEF Frame, m
  <2> QED
    BY <1>2, <2>1, RangeAppend
<1>4. m.kind = "info" /\ m.history = briefing[c]
  BY DEF Info
<1> HIDE DEF m
<1>5. TypeOK'
  <2>1. frames' \in [Peer -> Seq(Frame)]
    BY <1>1, <1>3 DEF IInv, TypeOK
  <2> QED
    BY <1>1, <2>1 DEF IInv, TypeOK, PC
<1>6. Roster' /\ BriefingSent'
  BY <1>1 DEF IInv, TypeOK, Roster, BriefingSent
<1>7. Recorded'
  BY <1>1 DEF IInv, TypeOK, Recorded, Pushed
<1>8. ASSUME NEW d \in Peer, d # c PROVE Reaching(d)' = Reaching(d)
  BY <1>1, <1>8 DEF IInv, TypeOK, Reaching
<1>9. Reaching(c) \subseteq Reaching(c)'
  <2>1. /\ frames'[c] = Append(frames[c], m) /\ seen'[c] = seen[c]
        /\ early'[c] = early[c]
        /\ Range(frames'[c]) = Range(frames[c]) \cup {m}
    BY <1>1, <1>3 DEF IInv, TypeOK
  <2> SUFFICES ASSUME NEW e \in Reaching(c) PROVE e \in Reaching(c)'
    OBVIOUS
  <2>2. CASE e \in seen[c] \cup early[c] \cup Range(frames[c])
    <3> HIDE DEF Range
    <3> QED
      BY <2>1, <2>2 DEF Reaching
  <2>3. ASSUME NEW f \in Range(frames'[c]), f.kind = "info",
               e \in Range(f.history)
        PROVE  e \in Reaching(c)'
    BY <2>3, Zenon DEF Reaching
  <2>4. CASE e \in Range(briefing[c])
    <3>1. m \in Range(frames'[c])
      BY <2>1
    <3> QED
      BY <1>4, <2>3, <2>4, <3>1
  <2>5. ASSUME NEW f \in Range(frames[c]), f.kind = "info",
               e \in Range(f.history)
        PROVE  e \in Reaching(c)'
    <3>1. f \in Range(frames'[c])
      BY <2>1, <2>5
    <3> QED
      BY <2>3, <2>5, <3>1
  <2> QED
    BY <2>2, <2>4, <2>5 DEF Reaching
<1>10. Covered'
  BY <1>1, <1>8, <1>9 DEF IInv, TypeOK, Covered
<1> QED
  BY <1>5, <1>6, <1>7, <1>10 DEF IInv

\* A leaver is no longer owed anything.
LEMMA RemovePeerStep == ASSUME IInv, NEW c \in Peer, RemovePeer(c) PROVE IInv'
<1> USE DEF IInv, RemovePeer, Moves
<1>1. TypeOK'
  BY DEF TypeOK, PC
<1>2. Roster'
  BY DEF Roster, TypeOK
<1>3. Recorded'
  BY DEF Recorded, Pushed, TypeOK
<1>4. ASSUME NEW d \in Peer, d # c
      PROVE  Reaching(d)' = Reaching(d) /\ excused'[d] = excused[d]
  BY <1>4 DEF Reaching, TypeOK
<1>5. Covered' /\ BriefingSent'
  BY <1>4 DEF Covered, BriefingSent, TypeOK
<1> QED
  BY <1>1, <1>2, <1>3, <1>5

\* The browser's list of participants stays a set of peers.
LEMMA BrowserType ==
  ASSUME NEW c \in Peer, NEW peers \in SUBSET Peer
  PROVE  /\ \A m \in Message : Shown(peers, m) \in SUBSET Peer
         /\ \A m \in [kind : {"info"}, peers : SUBSET Peer,
                      history : Seq(Message)] :
              OnInfo(c, peers, m) \in SUBSET Peer
<1>1. ASSUME NEW m \in Message PROVE Shown(peers, m) \in SUBSET Peer
  BY DEF Message, Shown
<1>2. ASSUME NEW h, NEW ps PROVE Replayed(ps, h) \in SUBSET Peer
  BY DEF Replayed
<1> QED
  BY <1>1, <1>2 DEF OnInfo

\* A frame that arrives moves its messages to what the browser has shown.
LEMMA DeliverStep == ASSUME IInv, NEW c \in Peer, Deliver(c) PROVE IInv'
<1> DEFINE InfoFrame == [kind : {"info"}, peers : SUBSET Peer,
                         history : Seq(Message)]
           Frame == Message \cup InfoFrame
<1>1. PICK i \in 1..Len(frames[c]) :
        /\ frames' = [frames EXCEPT ![c] = RemoveAt(@, i)]
        /\ IF frames[c][i].kind = "info"
           THEN /\ peersMap' = [peersMap EXCEPT
                                  ![c] = OnInfo(c, @, frames[c][i])]
                /\ seen' = [seen EXCEPT
                              ![c] = @ \cup Range(frames[c][i].history)]
                /\ UNCHANGED early
           ELSE /\ peersMap' = [peersMap EXCEPT
                                  ![c] = Shown(@, frames[c][i])]
                /\ IF Fails(c, frames[c][i])
                   THEN /\ early' = [early EXCEPT ![c] = @ \cup {frames[c][i]}]
                        /\ UNCHANGED seen
                   ELSE /\ seen' = [seen EXCEPT ![c] = @ \cup {frames[c][i]}]
                        /\ UNCHANGED early
        /\ UNCHANGED <<serverVars, ghostVars>>
  BY DEF Deliver
<1> DEFINE m == frames[c][i]
<1>2. frames[c] \in Seq(Frame) /\ m \in Frame
  BY DEF IInv, TypeOK
<1>3. /\ m \in InfoFrame <=> m.kind = "info"
      /\ m \in Message <=> m.kind # "info"
  BY <1>2 DEF Message
<1>4. /\ RemoveAt(frames[c], i) \in Seq(Frame)
      /\ Range(frames[c]) \subseteq Range(RemoveAt(frames[c], i)) \cup {m}
  <2> HIDE DEF Frame
  <2> QED
    BY <1>2, RangeRemoveAt
<1>5. /\ UNCHANGED <<m_peerById, m_history, pc, said, listed, briefing, sent,
                     evicted, excused>>
      /\ frames' \in [Peer -> Seq(Frame)]
      /\ frames'[c] = RemoveAt(frames[c], i)
      /\ \A d \in Peer \ {c} : /\ frames'[d] = frames[d] /\ seen'[d] = seen[d]
                               /\ early'[d] = early[d]
  <2>1. /\ frames \in [Peer -> Seq(Frame)] /\ seen \in [Peer -> SUBSET Message]
        /\ DOMAIN early = Peer
    BY DEF IInv, TypeOK
  <2> HIDE DEF Frame
  <2> QED
    BY <1>1, <1>4, <2>1 DEF serverVars, ghostVars
<1> DEFINE Announcement == [kind : {"files"}, peer : Peer, no : Nat]
<1>6. /\ peersMap' \in [Peer -> SUBSET Peer]
      /\ seen' \in [Peer -> SUBSET Message]
      /\ early' \in [Peer -> SUBSET Announcement]
      /\ seen[c] \subseteq seen'[c] /\ early[c] \subseteq early'[c]
      /\ m.kind = "info" => Range(m.history) \subseteq seen'[c]
      /\ m.kind # "info" => m \in seen'[c] \cup early'[c]
  <2>1. /\ peersMap \in [Peer -> SUBSET Peer]
        /\ seen \in [Peer -> SUBSET Message]
        /\ early \in [Peer -> SUBSET Announcement]
    BY DEF IInv, TypeOK
  <2>2. CASE m.kind = "info"
    <3>1. OnInfo(c, peersMap[c], m) \in SUBSET Peer
      BY <1>3, <2>1, <2>2, BrowserType
    <3>2. m.history \in Seq(Message)
      BY <1>3, <2>2
    <3>3. Range(m.history) \subseteq Message
      BY <3>2 DEF Range
    <3> HIDE DEF m, Announcement
    <3> QED
      BY <1>1, <2>1, <2>2, <3>1, <3>3 DEF m
  <2>3. CASE m.kind # "info"
    <3>1. Shown(peersMap[c], m) \in SUBSET Peer
      BY <1>3, <2>1, <2>3, BrowserType
    <3>2. peersMap' \in [Peer -> SUBSET Peer]
      BY <1>1, <2>1, <2>3, <3>1
    <3>3. CASE Fails(c, m)
      <4>1. m \in Announcement
        BY <1>3, <2>3, <3>3 DEF Fails, Message
      <4>2. early' = [early EXCEPT ![c] = @ \cup {m}] /\ seen' = seen
        BY <1>1, <2>3, <3>3
      <4> HIDE DEF m, Announcement
      <4> QED
        BY <2>1, <2>3, <3>2, <4>1, <4>2
    <3>4. CASE ~Fails(c, m)
      <4>1. seen' = [seen EXCEPT ![c] = @ \cup {m}] /\ early' = early
        BY <1>1, <2>3, <3>4
      <4>2. m \in Message
        BY <1>3, <2>3
      <4> HIDE DEF m, Announcement
      <4> QED
        BY <2>1, <2>3, <3>2, <4>1, <4>2
    <3> QED
      BY <3>3, <3>4
  <2> QED
    BY <2>2, <2>3
<1> HIDE DEF m
<1>7. TypeOK'
  BY <1>5, <1>6 DEF IInv, TypeOK
<1>8. Roster' /\ Recorded' /\ BriefingSent'
  BY <1>5 DEF IInv, Roster, Recorded, Pushed, BriefingSent
<1>9. ASSUME NEW d \in Peer, d # c PROVE Reaching(d)' = Reaching(d)
  BY <1>5, <1>9 DEF Reaching
<1>10. Reaching(c) \cap Message \subseteq Reaching(c)'
  <2>1. /\ seen[c] \subseteq seen'[c] /\ early[c] \subseteq early'[c]
        /\ briefing'[c] = briefing[c]
    BY <1>5, <1>6
  <2>2. /\ seen'[c] \cup early'[c] \subseteq Reaching(c)'
        /\ Range(frames'[c]) \subseteq Reaching(c)'
    BY DEF Reaching
  <2>3. ASSUME NEW f \in Range(frames[c]), f.kind = "info",
               NEW e \in Range(f.history)
        PROVE  e \in Reaching(c)'
    <3>1. CASE f = m
      BY <1>6, <2>2, <2>3, <3>1
    <3>2. CASE f \in Range(frames'[c])
      BY <2>3, <3>2, Zenon DEF Reaching
    <3> QED
      BY <1>4, <1>5, <3>1, <3>2
  <2>4. ASSUME NEW f \in Range(frames[c]) PROVE f \in Reaching(c)' \/ f.kind = "info"
    BY <1>4, <1>5, <1>6, <2>2
  <2> SUFFICES ASSUME NEW e \in Reaching(c), e \in Message
               PROVE  e \in Reaching(c)'
    OBVIOUS
  <2>5. e.kind # "info"
    BY DEF Message
  <2>6. CASE e \in seen[c] \cup early[c] \cup Range(briefing[c])
    BY <2>1, <2>2, <2>6 DEF Reaching
  <2>7. CASE e \in Range(frames[c])
    BY <2>4, <2>5, <2>7
  <2> QED
    BY <2>3, <2>6, <2>7 DEF Reaching
<1>11. Covered'
  <2>1. sent \subseteq Message
    BY DEF IInv, TypeOK
  <2> QED
    BY <1>5, <1>9, <1>10, <2>1 DEF IInv, Covered
<1> QED
  BY <1>7, <1>8, <1>11 DEF IInv

LEMMA StepIInv == IInv /\ [Next]_vars => IInv'
<1> SUFFICES ASSUME IInv, [Next]_vars PROVE IInv'
  OBVIOUS
<1>0. said \in [Peer -> Nat]
  BY DEF IInv, TypeOK
<1>1. ASSUME NEW c \in Peer, WelcomeHistory(c) PROVE IInv'
  <2>1. Joined(c) \in Message
    BY DEF Joined, Message
  <2> QED
    BY <1>0, <1>1, <2>1, RecordStep DEF WelcomeHistory
<1>2. ASSUME NEW c \in Peer, WelcomeSend(c) PROVE IInv'
  <2>1. Joined(c) \in Message
    BY DEF Joined, Message
  <2> QED
    BY <1>2, <2>1, BroadcastStep DEF WelcomeSend, sendMessageAsync
<1>3. ASSUME NEW c \in Peer, SayHistory(c) PROVE IInv'
  <2>1. /\ Said(c, said[c] + 1) \in Message
        /\ said' \in [Peer -> Nat] /\ said'[c] = said[c] + 1
        /\ \A d \in Peer \ {c} : said'[d] = said[d]
    BY <1>0, <1>3 DEF Said, Message, SayHistory
  <2> QED
    BY <1>3, <2>1, RecordStep DEF SayHistory
<1>4. ASSUME NEW c \in Peer, SaySend(c) PROVE IInv'
  <2>1. Said(c, said[c]) \in Message
    BY <1>0 DEF Said, Message
  <2> QED
    BY <1>4, <2>1, BroadcastStep DEF SaySend, sendMessageAsync
<1>5. ASSUME NEW c \in Peer, GoodbyeHistory(c) PROVE IInv'
  <2>1. Left(c) \in Message
    BY DEF Left, Message
  <2> QED
    BY <1>0, <1>5, <2>1, RecordStep DEF GoodbyeHistory
<1>6. ASSUME NEW c \in Peer, GoodbyeSend(c) PROVE IInv'
  <2>1. Left(c) \in Message
    BY DEF Left, Message
  <2> QED
    BY <1>6, <2>1, BroadcastStep DEF GoodbyeSend, sendMessageAsync
<1>7. ASSUME NEW c \in Peer, ShareHistory(c) PROVE IInv'
  <2>1. /\ Shared(c, said[c] + 1) \in Message
        /\ said' \in [Peer -> Nat] /\ said'[c] = said[c] + 1
        /\ \A d \in Peer \ {c} : said'[d] = said[d]
    BY <1>0, <1>7 DEF Shared, Message, ShareHistory
  <2> QED
    BY <1>7, <2>1, RecordStep DEF ShareHistory
<1>8. ASSUME NEW c \in Peer, ShareSend(c) PROVE IInv'
  <2>1. Shared(c, said[c]) \in Message
    BY <1>0 DEF Shared, Message
  <2> QED
    BY <1>8, <2>1, BroadcastStep DEF ShareSend, sendMessageAsync
<1>9. CASE UNCHANGED vars
  BY <1>9 DEF vars, serverVars, clientVars, ghostVars, IInv, TypeOK, Roster,
              Recorded, Pushed, Covered, Reaching, BriefingSent
<1> QED
  BY <1>1, <1>2, <1>3, <1>4, <1>5, <1>6, <1>7, <1>8, <1>9, AddPeerStep, ListPeersStep,
     GetHistoryStep, SendInfoStep, RemovePeerStep, DeliverStep DEF Next

LEMMA SpecIInv == Spec => []IInv
<1> QED
  BY InitIInv, StepIInv, PTL DEF Spec

----------------------------------------------------------------------------
(* The second invariant *)

\* A bounded set of numbers has a greatest one: of the intervals i .. n, finite
\* sets all of them, one has no other inside.
LEMMA Greatest ==
  ASSUME NEW n \in Nat, NEW T \in SUBSET (1 .. n), T # {}
  PROVE  Max(T) \in T /\ \A i \in T : i <= Max(T)
<1> DEFINE Above == {i .. n : i \in T}
<1>1. Above \subseteq FiniteSubsetsOf(Nat) /\ Above # {}
  <2>1. ASSUME NEW i \in T PROVE i .. n \in FiniteSubsetsOf(Nat)
    <3>1. IsFiniteSet(i .. n)
      BY FS_Interval
    <3> QED
      BY <3>1 DEF FiniteSubsetsOf
  <2> QED
    BY <2>1
<1>2. PICK x \in Above :
        \A y \in Above : <<y, x>> \notin StrictSubsetOrdering(Nat)
  <2> HIDE DEF Above
  <2>1. IsWellFoundedOn(StrictSubsetOrdering(Nat), FiniteSubsetsOf(Nat))
    BY FS_StrictSubsetOrderingWellFounded
  <2> QED
    BY <1>1, <2>1, WFMin
<1>3. PICK k \in T : x = k .. n
  OBVIOUS
<1>4. ASSUME NEW i \in T, k < i PROVE FALSE
  <2>1. i .. n \in SUBSET Nat /\ k .. n \in SUBSET Nat /\ i .. n \subseteq k .. n
    BY <1>4
  <2>2. k \in k .. n /\ k \notin i .. n
    BY <1>4
  <2>3. <<i .. n, x>> \in StrictSubsetOrdering(Nat)
    BY <1>3, <2>1, <2>2 DEF StrictSubsetOrdering
  <2> QED
    BY <1>2, <2>3
<1>5. \A i \in T : k >= i
  BY <1>4
<1>6. Max(T) \in T /\ \A i \in T : Max(T) >= i
  <2> HIDE DEF Above
  <2> QED
    BY <1>5 DEF Max
<1> QED
  BY <1>6

\* The last word of a history on a peer is one of its words.
LEMMA LastWord ==
  ASSUME NEW h \in Seq(Message), NEW p \in Peer
  PROVE  LET words == {i \in DOMAIN h : /\ h[i].kind \in {"joined", "left"}
                                        /\ h[i].peer = p}
         IN  words # {} => /\ Max(words) \in words
                           /\ \A i \in words : i <= Max(words)
                           /\ h[Max(words)].kind \in {"joined", "left"}
<1> DEFINE words == {i \in DOMAIN h : /\ h[i].kind \in {"joined", "left"}
                                      /\ h[i].peer = p}
<1>1. words \in SUBSET (1 .. Len(h)) /\ Len(h) \in Nat
  OBVIOUS
<1> SUFFICES ASSUME words # {}
             PROVE  /\ Max(words) \in words
                    /\ \A i \in words : i <= Max(words)
                    /\ h[Max(words)].kind \in {"joined", "left"}
  OBVIOUS
<1>2. Max(words) \in words /\ \A i \in words : i <= Max(words)
  <2> HIDE DEF words
  <2> QED
    BY <1>1, Greatest
<1> QED
  BY <1>2

\* A replay keeps whom it does not name and shows whom it only welcomes.
LEMMA ReplayKeeps ==
  ASSUME NEW h \in Seq(Message), NEW p \in Peer, NEW peers,
         \A i \in DOMAIN h : ~Tells(h[i], "left", p),
         p \in peers \/ Joined(p) \in Range(h)
  PROVE  p \in Replayed(peers, h)
<1> DEFINE words == {i \in DOMAIN h : /\ h[i].kind \in {"joined", "left"}
                                      /\ h[i].peer = p}
<1>1. CASE words = {}
  <2>1. Joined(p) \notin Range(h)
    BY <1>1 DEF Range, Joined
  <2> QED
    BY <1>1, <2>1 DEF Replayed
<1>2. CASE words # {}
  <2>1. Max(words) \in words /\ h[Max(words)].kind \in {"joined", "left"}
    BY <1>2, LastWord
  <2>2. h[Max(words)].kind = "joined"
    <3>1. /\ Max(words) \in DOMAIN h /\ h[Max(words)].peer = p
      BY <2>1
    <3> HIDE DEF words
    <3> QED
      BY <2>1, <3>1 DEF Tells
  <2> QED
    BY <1>2, <2>2 DEF Replayed
<1> QED
  BY <1>1, <1>2

\* A replay drops whom it last bids farewell.
LEMMA ReplayDrops ==
  ASSUME NEW h \in Seq(Message), NEW p \in Peer, Outdated(h, p)
  PROVE  p \notin Replayed({}, h)
<1> DEFINE words == {i \in DOMAIN h : /\ h[i].kind \in {"joined", "left"}
                                      /\ h[i].peer = p}
<1>1. CASE words = {}
  BY <1>1 DEF Replayed
<1>2. CASE words # {}
  <2>1. Max(words) \in words /\ \A i \in words : i <= Max(words)
    BY <1>2, LastWord
  <2>2. h[Max(words)].kind # "joined"
    <3> SUFFICES ASSUME h[Max(words)].kind = "joined" PROVE FALSE
      OBVIOUS
    <3>1. Max(words) \in DOMAIN h /\ h[Max(words)].peer = p
      BY <2>1
    <3>2. PICK j \in DOMAIN h : j > Max(words) /\ Tells(h[j], "left", p)
      <4> HIDE DEF words
      <4> QED
        BY <3>1 DEF Outdated, Tells
    <3>3. j \in words
      BY <3>2 DEF Tells
    <3>4. j \in Nat /\ Max(words) \in Nat
      BY <3>1
    <3> HIDE DEF words
    <3> QED
      BY <2>1, <3>2, <3>3, <3>4
  <2> QED
    BY <1>2, <2>2 DEF Replayed
<1> QED
  BY <1>1, <1>2

\* The newest word decides whether a join is outdated ...
LEMMA OutdatedAppend ==
  ASSUME NEW h \in Seq(Message), NEW d \in Peer, NEW m \in Message,
         \/ Tells(m, "left", d)
         \/ Outdated(h, d) /\ ~Tells(m, "joined", d)
  PROVE  Outdated(Append(h, m), d)
<1> DEFINE all == Append(h, m)
           n == Len(h)
<1>1. /\ n \in Nat /\ DOMAIN h = 1 .. n /\ DOMAIN all = 1 .. (n + 1)
      /\ all[n + 1] = m /\ \A i \in 1 .. n : all[i] = h[i]
  OBVIOUS
<1> HIDE DEF all, n
<1> SUFFICES ASSUME NEW i \in 1 .. (n + 1), Tells(all[i], "joined", d)
             PROVE  \E j \in 1 .. (n + 1) : j > i /\ Tells(all[j], "left", d)
  BY <1>1 DEF Outdated, all
<1>2. i # n + 1
  BY <1>1 DEF Tells
<1>3. i \in 1 .. n /\ n + 1 \in 1 .. (n + 1) /\ n + 1 > i
  BY <1>1, <1>2
<1>4. CASE Tells(m, "left", d)
  BY <1>1, <1>3, <1>4
<1>5. CASE Outdated(h, d)
  <2>1. PICK j \in 1 .. n : j > i /\ Tells(h[j], "left", d)
    BY <1>1, <1>3, <1>5 DEF Outdated
  <2> QED
    BY <1>1, <2>1
<1> QED
  BY <1>4, <1>5

\* ... and dropping the oldest one changes nothing.
LEMMA OutdatedRounded ==
  ASSUME NEW h \in Seq(Message), NEW d \in Peer, Outdated(h, d)
  PROVE  Outdated(Rounded(h), d)
<1>1. CASE Len(h) > MaxHistory
  <2> DEFINE n == Len(h)
  <2>1. /\ Rounded(h) = Tail(h) /\ n \in Nat \ {0} /\ DOMAIN h = 1 .. n
        /\ DOMAIN Tail(h) = 1 .. (n - 1)
        /\ \A i \in 1 .. (n - 1) : Tail(h)[i] = h[i + 1]
    BY <1>1, RoomAssumption DEF Rounded
  <2> HIDE DEF n
  <2> SUFFICES ASSUME NEW i \in 1 .. (n - 1), Tells(Tail(h)[i], "joined", d)
               PROVE  \E j \in 1 .. (n - 1) : j > i /\ Tells(Tail(h)[j], "left", d)
    BY <2>1 DEF Outdated
  <2>2. i + 1 \in 1 .. n /\ Tells(h[i + 1], "joined", d)
    BY <2>1
  <2>3. PICK j \in 1 .. n : j > i + 1 /\ Tells(h[j], "left", d)
    BY <2>1, <2>2 DEF Outdated
  <2>4. j - 1 \in 1 .. (n - 1) /\ j - 1 > i /\ (j - 1) + 1 = j
    BY <2>1, <2>3
  <2> QED
    BY <2>1, <2>3, <2>4
<1>2. CASE ~(Len(h) > MaxHistory)
  BY <1>2 DEF Rounded
<1> QED
  BY <1>1, <1>2

LEMMA PushedType == ASSUME IInv PROVE Pushed \subseteq Message
<1>1. m_history \in Seq(Message) /\ evicted \subseteq Message
  BY DEF IInv, TypeOK
<1> QED
  BY <1>1 DEF Pushed, Range

LEMMA InitJInv == Init => JInv
<1> SUFFICES ASSUME Init PROVE JInv
  OBVIOUS
<1> USE DEF Init
<1>1. Departed /\ JoinSent /\ LeftLast
  BY DEF Departed, Pushed, Range, JoinSent, LeftLast
<1>2. FromHistory /\ Shows
  BY DEF FromHistory, Range, Shows
<1> QED
  BY <1>1, <1>2 DEF JInv

\* Recording a departure is the first thing that tells of it.
LEMMA RecordKeeps ==
  ASSUME IInv, JInv, NEW c \in Peer, NEW m \in Message, addHistoryMessage(m),
         m.peer = c,
         \/ Moves(c, "idle", "welcoming") /\ m.kind = "joined"
         \/ Moves(c, "member", "saying") /\ m.kind = "said"
         \/ Moves(c, "member", "sharing") /\ m.kind = "files"
         \/ Moves(c, "removed", "parting") /\ m.kind = "left"
  PROVE  JInv'
<1> USE DEF Moves
<1>1. Pushed' = Pushed \cup {m} /\ m_history \in Seq(Message)
  BY AddHistory DEF IInv, TypeOK
<1>2. UNCHANGED <<briefing, frames, peersMap, seen, sent>>
  BY DEF addHistoryMessage, clientVars
<1>3. pc \in [Peer -> PC] /\ Pushed \subseteq Message
  BY PushedType DEF IInv, TypeOK
<1>4. /\ \A d \in Peer \ {c} : pc'[d] = pc[d]
      /\ pc[c] \notin {"parting", "gone"}
      /\ pc'[c] \in {"parting", "gone"} <=> m.kind = "left"
      /\ pc[c] \in {"idle", "welcoming"} <=> pc'[c] \in {"idle", "welcoming"}
  BY <1>3
<1>5. Departed'
  <2> SUFFICES ASSUME NEW x \in Pushed', x.kind = "left"
               PROVE  pc'[x.peer] \in {"parting", "gone"}
    BY DEF Departed
  <2>1. CASE x = m
    BY <1>4, <2>1
  <2>2. CASE x \in Pushed
    <3>1. x.peer \in Peer /\ pc[x.peer] \in {"parting", "gone"}
      BY <1>3, <2>2 DEF JInv, Departed, Message
    <3> QED
      BY <1>4, <3>1
  <2> QED
    BY <1>1, <2>1, <2>2
<1>6. JoinSent'
  BY <1>2, <1>4 DEF JInv, JoinSent
<1>7. FromHistory'
  BY <1>1, <1>2 DEF JInv, FromHistory, FrameRecorded
<1>8. Shows'
  BY <1>2, <1>4 DEF JInv, Shows
<1>9. LeftLast'
  <2> SUFFICES ASSUME NEW d \in Peer, pc'[d] \in {"parting", "gone"}
               PROVE  Outdated(m_history', d)
    BY DEF LeftLast
  <2>1. Outdated(Append(m_history, m), d)
    <3>1. CASE d = c
      BY <1>1, <1>4, <3>1, OutdatedAppend DEF Tells
    <3>2. CASE d # c
      <4>1. Outdated(m_history, d) /\ ~Tells(m, "joined", d)
        BY <1>4, <3>2 DEF JInv, LeftLast, Tells
      <4> QED
        BY <1>1, <4>1, OutdatedAppend
    <3> QED
      BY <3>1, <3>2
  <2>2. Append(m_history, m) \in Seq(Message)
    BY <1>1
  <2>3. m_history' = Rounded(Append(m_history, m))
    BY DEF addHistoryMessage
  <2> QED
    BY <2>1, <2>2, <2>3, OutdatedRounded
<1> QED
  BY <1>5, <1>6, <1>7, <1>8, <1>9 DEF JInv

\* What is broadcast was recorded.
LEMMA BroadcastKeeps ==
  ASSUME IInv, JInv, NEW c \in Peer, NEW m \in Message, sendMessageAsync(m),
         \/ Moves(c, "welcoming", "welcomed") /\ m = Joined(c)
         \/ Moves(c, "saying", "member") /\ m = Said(c, said[c])
         \/ Moves(c, "sharing", "member") /\ m = Shared(c, said[c])
         \/ Moves(c, "parting", "gone") /\ m = Left(c)
  PROVE  JInv'
<1> USE DEF Moves
<1>1. /\ UNCHANGED <<m_history, briefing, peersMap, seen, evicted>>
      /\ sent' = sent \cup {m}
      /\ frames' = [p \in Peer |->
           IF p \in m_peerById THEN Append(frames[p], m) ELSE frames[p]]
  BY DEF sendMessageAsync, clientVars
<1>2. pc \in [Peer -> PC] /\ Pushed' = Pushed
  BY <1>1 DEF IInv, TypeOK, Pushed
<1>3. m \in Pushed /\ m.kind # "info"
  BY DEF IInv, Recorded, Message
<1>4. /\ \A d \in Peer \ {c} : pc'[d] = pc[d]
      /\ pc'[c] \in {"parting", "gone"} <=> pc[c] \in {"parting", "gone"}
      /\ pc[c] # "idle" /\ pc'[c] \notin {"idle", "welcoming"}
      /\ pc[c] = "welcoming" => m = Joined(c)
  BY <1>2
<1>5. Departed'
  <2>1. \A x \in Pushed : x.peer \in Peer
    BY PushedType DEF Message
  <2> QED
    BY <1>2, <1>4, <2>1 DEF JInv, Departed
<1>6. JoinSent'
  BY <1>1, <1>4 DEF JInv, JoinSent
<1>7. FromHistory'
  <2>1. ASSUME NEW d \in Peer, NEW f \in Range(frames'[d]) PROVE FrameRecorded(f)
    <3>1. f \in Range(frames[d]) \cup {m}
      <4>1. CASE d \in m_peerById
        <5> DEFINE Frame == Message \cup [kind : {"info"}, peers : SUBSET Peer,
                                          history : Seq(Message)]
        <5>1. frames[d] \in Seq(Frame) /\ m \in Frame
          BY DEF IInv, TypeOK
        <5> HIDE DEF Frame
        <5>2. Range(Append(frames[d], m)) = Range(frames[d]) \cup {m}
          BY <5>1, RangeAppend
        <5> QED
          BY <1>1, <2>1, <4>1, <5>2
      <4>2. CASE d \notin m_peerById
        BY <1>1, <2>1, <4>2
      <4> QED
        BY <4>1, <4>2
    <3> QED
      BY <1>3, <3>1 DEF JInv, FromHistory, FrameRecorded
  <2> QED
    BY <1>1, <1>2, <2>1 DEF JInv, FromHistory, FrameRecorded
<1>8. Shows'
  BY <1>1, <1>4 DEF JInv, Shows
<1>9. LeftLast'
  BY <1>1, <1>4 DEF JInv, LeftLast
<1> QED
  BY <1>5, <1>6, <1>7, <1>8, <1>9 DEF JInv

\* Joining: what is copied was recorded.
LEMMA JoinKeeps ==
  ASSUME IInv, JInv, NEW c \in Peer,
         AddPeer(c) \/ ListPeers(c) \/ getHistory(c) \/ SendInfo(c)
  PROVE  JInv'
<1>1. UNCHANGED <<m_history, evicted, seen, peersMap, sent>> /\ Pushed' = Pushed
  BY DEF AddPeer, ListPeers, getHistory, SendInfo, clientVars, ghostVars, Pushed
<1>2. /\ \A d \in Peer \ {c} : pc'[d] = pc[d]
      /\ {pc[c], pc'[c]} \cap {"idle", "welcoming", "parting", "gone"} = {}
  BY DEF AddPeer, ListPeers, getHistory, SendInfo, Moves, IInv, TypeOK
<1>3. Departed'
  <2>1. \A x \in Pushed : x.peer \in Peer
    BY PushedType DEF IInv, Message
  <2> QED
    BY <1>1, <1>2, <2>1 DEF JInv, Departed
<1>4. JoinSent' /\ Shows'
  BY <1>1, <1>2 DEF JInv, JoinSent, Shows
<1>5. LeftLast'
  BY <1>1, <1>2 DEF JInv, LeftLast
<1>6. FromHistory'
  <2>1. CASE AddPeer(c) \/ ListPeers(c)
    BY <1>1, <2>1 DEF AddPeer, ListPeers, ghostVars, JInv, FromHistory, FrameRecorded
  <2>2. CASE getHistory(c)
    <3>1. /\ frames' = frames
          /\ \A d \in Peer : briefing'[d] = briefing[d] \/ briefing'[d] = m_history
      BY <2>2 DEF getHistory, IInv, TypeOK
    <3>2. Range(m_history) \subseteq Pushed
      BY DEF Pushed
    <3>3. ASSUME NEW d \in Peer PROVE Range(briefing'[d]) \subseteq Pushed
      BY <3>1, <3>2 DEF JInv, FromHistory
    <3> QED
      BY <1>1, <3>1, <3>3 DEF JInv, FromHistory, FrameRecorded
  <2>3. CASE SendInfo(c)
    <3> DEFINE m == Info(listed[c], briefing[c])
               Frame == Message \cup [kind : {"info"}, peers : SUBSET Peer,
                                      history : Seq(Message)]
    <3>1. /\ frames[c] \in Seq(Frame) /\ m \in Frame
          /\ frames' = [frames EXCEPT ![c] = Append(@, m)]
          /\ briefing' = [briefing EXCEPT ![c] = << >>]
          /\ briefing \in [Peer -> Seq(Message)]
      BY <2>3 DEF SendInfo, IInv, TypeOK, Info
    <3>2. frames'[c] = Append(frames[c], m) /\ \A d \in Peer \ {c} : frames'[d] = frames[d]
      BY <3>1 DEF IInv, TypeOK
    <3>3. FrameRecorded(m)
      BY DEF FrameRecorded, Info, JInv, FromHistory
    <3> HIDE DEF m, Frame
    <3>4. Range(frames'[c]) = Range(frames[c]) \cup {m}
      BY <3>1, <3>2, RangeAppend
    <3>5. ASSUME NEW d \in Peer PROVE Range(briefing'[d]) \subseteq Pushed
      <4>1. briefing'[d] = briefing[d] \/ briefing'[d] = << >>
        BY <3>1
      <4> QED
        BY <4>1 DEF JInv, FromHistory, Range
    <3>6. ASSUME NEW d \in Peer, NEW f \in Range(frames'[d]) PROVE FrameRecorded(f)
      BY <3>2, <3>3, <3>4, <3>6 DEF JInv, FromHistory
    <3> QED
      BY <1>1, <3>5, <3>6 DEF JInv, FromHistory, FrameRecorded
  <2> QED
    BY <2>1, <2>2, <2>3
<1> QED
  BY <1>3, <1>4, <1>5, <1>6 DEF JInv

LEMMA RemovePeerKeeps ==
  ASSUME IInv, JInv, NEW c \in Peer, RemovePeer(c) PROVE JInv'
<1>1. /\ UNCHANGED <<m_history, evicted, sent, briefing>> /\ Pushed' = Pushed
      /\ frames' = [frames EXCEPT ![c] = << >>]
      /\ peersMap' = [peersMap EXCEPT ![c] = {}]
      /\ seen' = [seen EXCEPT ![c] = {}]
  BY DEF RemovePeer, Pushed
<1>2. /\ \A d \in Peer \ {c} : pc'[d] = pc[d]
      /\ {pc[c], pc'[c]} \cap {"idle", "welcoming", "parting", "gone"} = {}
  BY DEF RemovePeer, Moves, IInv, TypeOK
<1>3. /\ frames'[c] = << >> /\ seen'[c] = {}
      /\ \A d \in Peer \ {c} : /\ frames'[d] = frames[d] /\ seen'[d] = seen[d]
                               /\ peersMap'[d] = peersMap[d]
  BY <1>1 DEF IInv, TypeOK
<1>4. Departed'
  <2>1. \A x \in Pushed : x.peer \in Peer
    BY PushedType DEF IInv, Message
  <2> QED
    BY <1>1, <1>2, <2>1 DEF JInv, Departed
<1>5. JoinSent' /\ LeftLast'
  BY <1>1, <1>2 DEF JInv, JoinSent, LeftLast
<1>6. Shows'
  BY <1>2, <1>3 DEF JInv, Shows
<1>7. FromHistory'
  <2>1. Range(frames'[c]) = {}
    BY <1>3 DEF Range
  <2> QED
    BY <1>1, <1>3, <2>1 DEF JInv, FromHistory, FrameRecorded
<1> QED
  BY <1>4, <1>5, <1>6, <1>7 DEF JInv

\* A message of the live stream removes nobody but the one who left.
LEMMA ShownKeeps ==
  ASSUME NEW m, NEW p \in Peer, NEW peers, ~Tells(m, "left", p),
         p \in peers \/ m = Joined(p)
  PROVE  p \in Shown(peers, m)
<1>1. CASE m.kind = "joined"
  <2>1. Shown(peers, m) = peers \cup {m.peer}
    BY <1>1 DEF Shown
  <2> QED
    BY <2>1 DEF Joined
<1>2. CASE m.kind = "left"
  <2>1. Shown(peers, m) = peers \ {m.peer}
    BY <1>2 DEF Shown
  <2>2. m.peer # p /\ p \in peers
    BY <1>2 DEF Tells, Joined
  <2> QED
    BY <2>1, <2>2
<1>3. CASE m.kind \notin {"joined", "left"}
  <2>1. Shown(peers, m) = peers
    BY <1>3 DEF Shown
  <2> QED
    BY <1>3, <2>1 DEF Joined
<1> QED
  BY <1>1, <1>2, <1>3

\* Neither does a history, without a word on his departure.
LEMMA OnInfoKeeps ==
  ASSUME NEW c \in Peer, NEW p \in Peer, NEW peers,
         NEW m, m.history \in Seq(Message),
         \A i \in DOMAIN m.history : ~Tells(m.history[i], "left", p),
         p \in peers \/ Joined(p) \in Range(m.history)
  PROVE  p \in OnInfo(c, peers, m)
<1>1. CASE m.history = << >>
  <2>1. Range(m.history) = {}
    BY <1>1 DEF Range
  <2> QED
    BY <1>1, <2>1 DEF OnInfo
<1>2. CASE m.history # << >>
  <2>1. p \in Replayed(peers \cup m.peers, m.history)
    BY ReplayKeeps
  <2> QED
    BY <1>2, <2>1 DEF OnInfo
<1> QED
  BY <1>1, <1>2

LEMMA DeliverKeeps ==
  ASSUME IInv, JInv, NEW c \in Peer, Deliver(c) PROVE JInv'
<1> DEFINE InfoFrame == [kind : {"info"}, peers : SUBSET Peer,
                         history : Seq(Message)]
           Frame == Message \cup InfoFrame
<1>1. PICK i \in 1..Len(frames[c]) :
        /\ frames' = [frames EXCEPT ![c] = RemoveAt(@, i)]
        /\ IF frames[c][i].kind = "info"
           THEN /\ peersMap' = [peersMap EXCEPT
                                  ![c] = OnInfo(c, @, frames[c][i])]
                /\ seen' = [seen EXCEPT
                              ![c] = @ \cup Range(frames[c][i].history)]
                /\ UNCHANGED early
           ELSE /\ peersMap' = [peersMap EXCEPT
                                  ![c] = Shown(@, frames[c][i])]
                /\ IF Fails(c, frames[c][i])
                   THEN /\ early' = [early EXCEPT ![c] = @ \cup {frames[c][i]}]
                        /\ UNCHANGED seen
                   ELSE /\ seen' = [seen EXCEPT ![c] = @ \cup {frames[c][i]}]
                        /\ UNCHANGED early
        /\ UNCHANGED <<serverVars, ghostVars>>
  BY DEF Deliver
<1> DEFINE m == frames[c][i]
<1>2. frames[c] \in Seq(Frame) /\ m \in Frame
  BY DEF IInv, TypeOK
<1>3. m.kind = "info" => m.history \in Seq(Message)
  BY <1>2 DEF Message
<1>4. Range(RemoveAt(frames[c], i)) \subseteq Range(frames[c])
  <2> HIDE DEF Frame
  <2> QED
    BY <1>2, RangeRemoveAt
<1>5. FrameRecorded(m)
  <2>1. m \in Range(frames[c])
    <3> HIDE DEF Frame
    <3> QED
      BY <1>2 DEF Range
  <2> QED
    BY <2>1 DEF JInv, FromHistory
<1>6. /\ UNCHANGED <<m_history, pc, briefing, sent, evicted>> /\ Pushed' = Pushed
      /\ frames'[c] = RemoveAt(frames[c], i)
      /\ \A d \in Peer \ {c} : /\ frames'[d] = frames[d] /\ seen'[d] = seen[d]
                               /\ peersMap'[d] = peersMap[d]
  BY <1>1 DEF IInv, TypeOK, serverVars, ghostVars, Pushed
<1>7. /\ m.kind = "info" => /\ peersMap'[c] = OnInfo(c, peersMap[c], m)
                            /\ seen'[c] = seen[c] \cup Range(m.history)
      /\ m.kind # "info" => /\ peersMap'[c] = Shown(peersMap[c], m)
                            /\ seen'[c] \in {seen[c], seen[c] \cup {m}}
  <2>1. peersMap \in [Peer -> SUBSET Peer] /\ seen \in [Peer -> SUBSET Message]
    BY DEF IInv, TypeOK
  <2>2. CASE m.kind = "info"
    <3> HIDE DEF m
    <3> QED
      BY <1>1, <2>1, <2>2 DEF m
  <2>3. CASE m.kind # "info"
    <3> HIDE DEF m
    <3> QED
      BY <1>1, <2>1, <2>3 DEF m
  <2> QED
    BY <2>2, <2>3
<1> HIDE DEF m, Frame
<1>8. Departed' /\ JoinSent' /\ LeftLast'
  BY <1>6 DEF JInv, Departed, JoinSent, LeftLast
<1>9. FromHistory'
  <2>1. seen'[c] \subseteq Pushed
    BY <1>5, <1>7 DEF JInv, FromHistory, FrameRecorded
  <2>2. \A d \in Peer : \A f \in Range(frames'[d]) : FrameRecorded(f)
    BY <1>4, <1>6 DEF JInv, FromHistory
  <2> QED
    BY <1>6, <2>1, <2>2 DEF JInv, FromHistory, FrameRecorded
<1>10. ASSUME NEW p \in Peer, Joined(p) \in seen'[c],
              pc[p] \notin {"parting", "gone"}
       PROVE  p \in peersMap'[c]
  <2>1. \A x \in Pushed : ~Tells(x, "left", p)
    BY <1>10 DEF JInv, Departed, Tells
  <2>2. Joined(p) \in seen[c] => p \in peersMap[c]
    BY <1>10 DEF JInv, Shows
  <2>3. CASE m.kind = "info"
    <3>1. Range(m.history) \subseteq Pushed /\ m.history \in Seq(Message)
      BY <1>3, <1>5, <2>3 DEF FrameRecorded
    <3>2. \A j \in DOMAIN m.history : ~Tells(m.history[j], "left", p)
      BY <2>1, <3>1 DEF Range
    <3>3. p \in peersMap[c] \/ Joined(p) \in Range(m.history)
      BY <1>7, <1>10, <2>2, <2>3
    <3> QED
      BY <1>7, <2>3, <3>1, <3>2, <3>3, OnInfoKeeps
  <2>4. CASE m.kind # "info"
    <3>1. ~Tells(m, "left", p)
      BY <1>5, <2>1, <2>4 DEF FrameRecorded
    <3>2. p \in peersMap[c] \/ m = Joined(p)
      BY <1>7, <1>10, <2>2, <2>4
    <3> QED
      BY <1>7, <2>4, <3>1, <3>2, ShownKeeps
  <2> QED
    BY <2>3, <2>4
<1>11. Shows'
  BY <1>6, <1>10 DEF JInv, Shows
<1> QED
  BY <1>8, <1>9, <1>11 DEF JInv

LEMMA StepJInv == IInv /\ JInv /\ [Next]_vars => JInv'
<1> SUFFICES ASSUME IInv, JInv, [Next]_vars PROVE JInv'
  OBVIOUS
<1>0. said \in [Peer -> Nat]
  BY DEF IInv, TypeOK
<1>1. ASSUME NEW c \in Peer, WelcomeHistory(c) PROVE JInv'
  <2>1. Joined(c) \in Message /\ Joined(c).peer = c /\ Joined(c).kind = "joined"
    BY DEF Joined, Message
  <2> QED
    BY <1>1, <2>1, RecordKeeps DEF WelcomeHistory
<1>2. ASSUME NEW c \in Peer, WelcomeSend(c) PROVE JInv'
  <2>1. Joined(c) \in Message
    BY DEF Joined, Message
  <2> QED
    BY <1>2, <2>1, BroadcastKeeps DEF WelcomeSend
<1>3. ASSUME NEW c \in Peer, SayHistory(c) PROVE JInv'
  <2> DEFINE m == Said(c, said[c] + 1)
  <2>1. m \in Message /\ m.peer = c /\ m.kind = "said"
    BY <1>0 DEF Said, Message
  <2> QED
    BY <1>3, <2>1, RecordKeeps DEF SayHistory
<1>4. ASSUME NEW c \in Peer, SaySend(c) PROVE JInv'
  <2>1. Said(c, said[c]) \in Message
    BY <1>0 DEF Said, Message
  <2> QED
    BY <1>4, <2>1, BroadcastKeeps DEF SaySend
<1>5. ASSUME NEW c \in Peer, GoodbyeHistory(c) PROVE JInv'
  <2>1. Left(c) \in Message /\ Left(c).peer = c /\ Left(c).kind = "left"
    BY DEF Left, Message
  <2> QED
    BY <1>5, <2>1, RecordKeeps DEF GoodbyeHistory
<1>6. ASSUME NEW c \in Peer, GoodbyeSend(c) PROVE JInv'
  <2>1. Left(c) \in Message
    BY DEF Left, Message
  <2> QED
    BY <1>6, <2>1, BroadcastKeeps DEF GoodbyeSend
<1>7. ASSUME NEW c \in Peer, ShareHistory(c) PROVE JInv'
  <2> DEFINE m == Shared(c, said[c] + 1)
  <2>1. m \in Message /\ m.peer = c /\ m.kind = "files"
    BY <1>0 DEF Shared, Message
  <2> QED
    BY <1>7, <2>1, RecordKeeps DEF ShareHistory
<1>8. ASSUME NEW c \in Peer, ShareSend(c) PROVE JInv'
  <2>1. Shared(c, said[c]) \in Message
    BY <1>0 DEF Shared, Message
  <2> QED
    BY <1>8, <2>1, BroadcastKeeps DEF ShareSend
<1>9. CASE UNCHANGED vars
  <2>1. UNCHANGED <<m_history, pc, briefing, frames, peersMap, seen, sent, evicted>>
    BY <1>9 DEF vars, serverVars, clientVars, ghostVars
  <2>2. Departed' /\ JoinSent' /\ Shows' /\ LeftLast'
    BY <2>1 DEF JInv, Departed, Pushed, JoinSent, Shows, LeftLast
  <2>3. FromHistory'
    BY <2>1 DEF JInv, FromHistory, FrameRecorded, Pushed
  <2> QED
    BY <2>2, <2>3 DEF JInv
<1> QED
  BY <1>1, <1>2, <1>3, <1>4, <1>5, <1>6, <1>7, <1>8, <1>9, JoinKeeps, RemovePeerKeeps,
     DeliverKeeps DEF Next

LEMMA SpecJInv == Spec => []JInv
<1> QED
  BY InitJInv, StepJInv, SpecIInv, PTL DEF Spec

----------------------------------------------------------------------------
\* Type correctness; in particular the history never exceeds its limit.
THEOREM RoomTypeCorrect == Spec => []TypeOK
<1>1. IInv => TypeOK
  BY DEF IInv
<1> QED
  BY <1>1, SpecIInv, PTL

\* The join handshake loses nothing: whatever the handlers of other peers do
\* between welcomePeer, addPeer, the two halves of onboardPeer and the
\* delivery of INFO, an up-to-date browser has shown every broadcast message
\* that was not evicted before its history was read, but for the file
\* announcements that came before INFO and made its script fail.
THEOREM RoomJoinerMissesNothing == Spec => []JoinerMissesNothing
<1>1. IInv => JoinerMissesNothing
  <2> SUFFICES ASSUME IInv, NEW c \in Peer, UpToDate(c)
               PROVE  sent \subseteq seen[c] \cup excused[c] \cup early[c]
    BY DEF JoinerMissesNothing
  <2>1. Range(frames[c]) = {} /\ Range(briefing[c]) = {}
    BY DEF UpToDate, Range, IInv, BriefingSent
  <2>2. Reaching(c) = seen[c] \cup early[c]
    BY <2>1 DEF Reaching
  <2> QED
    BY <2>2 DEF IInv, Covered, UpToDate
<1> QED
  BY <1>1, SpecIInv, PTL

\* Whoever replays the history, rounded at any point, does not see a peer
\* whose departure is recorded: the farewell comes after the welcome and the
\* history is shortened at its front.
THEOREM RoomReplayOmitsLeavers == Spec => []ReplayOmitsLeavers
<1>1. IInv /\ JInv => ReplayOmitsLeavers
  <2> SUFFICES ASSUME IInv, JInv, NEW c \in Peer, pc[c] \in {"parting", "gone"}
               PROVE  c \notin Replayed({}, m_history)
    BY DEF ReplayOmitsLeavers
  <2>1. m_history \in Seq(Message) /\ Outdated(m_history, c)
    BY DEF IInv, TypeOK, JInv, LeftLast
  <2> QED
    BY <2>1, ReplayDrops
<1> QED
  BY <1>1, SpecIInv, SpecJInv, PTL

\* In whatever order INFO and the live messages arrive, an up-to-date browser
\* has every member on its list, unless the member's join had been evicted
\* before the history was read.
THEOREM RoomKnowsEveryMember == Spec => []KnowsEveryMember
<1>1. IInv /\ JInv /\ JoinerMissesNothing => KnowsEveryMember
  <2> SUFFICES ASSUME IInv, JInv, JoinerMissesNothing, NEW c \in Peer, UpToDate(c),
                      NEW p \in m_peerById
               PROVE  p \in peersMap[c] \/ Joined(p) \in excused[c]
    BY DEF KnowsEveryMember
  <2>1. /\ p \in Peer /\ pc[p] \notin {"idle", "welcoming", "parting", "gone"}
    BY DEF IInv, Roster
  <2>2. Joined(p) \in seen[c] \cup excused[c] \cup early[c]
    BY <2>1 DEF JInv, JoinSent, JoinerMissesNothing
  <2>3. Joined(p) \notin early[c]
    <3>1. early[c] \subseteq [kind : {"files"}, peer : Peer, no : Nat]
      BY DEF IInv, TypeOK
    <3> QED
      BY <3>1 DEF Joined
  <2>4. Joined(p) \in seen[c] => p \in peersMap[c]
    BY <2>1 DEF JInv, Shows
  <2> QED
    BY <2>2, <2>3, <2>4
<1> QED
  BY <1>1, SpecIInv, SpecJInv, RoomJoinerMissesNothing, PTL
=============================================================================
