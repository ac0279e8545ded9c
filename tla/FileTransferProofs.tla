------------------------- MODULE FileTransferProofs -------------------------
(***************************************************************************)
(* FileTransfer for any number of downloads, any file and any buffer.      *)
(*                                                                         *)
(* At any time at most one thing is on its way for a download: a request,  *)
(* a reply or a chunk, and it is always for the bytes that come next.      *)
(* That is the inductive invariant; the properties and the refinement of   *)
(* FileStream follow from it.                                              *)
(***************************************************************************)
EXTENDS FileTransfer, TLAPS

Waiting == {"waiting", "parking", "parked"}

\* The chunk that comes next in the file.
NextChunk(d) ==
  <<m_progress[d] + 1, Min(m_progress[d] + BufSize, FileSize)>>

\* Before its first chunk a download has nothing; only a waiting one has
\* something on the way; whatever is on the way is the next chunk.
Flow(d) ==
  /\ pc[d] \in {"idle", "found", "notfound"} =>
       m_progress[d] = 0 /\ m_chunk[d] = NoChunk
  /\ pc[d] \notin Waiting \/ host # "up" =>
       requests[d] = << >> /\ replies[d] = << >>
  /\ Outstanding(d) <= 1
  /\ Outstanding(d) = 1 => m_progress[d] < FileSize
  /\ \A i \in 1..Len(requests[d]) : requests[d][i] = m_progress[d]
  /\ \A i \in 1..Len(replies[d]) : replies[d][i] = NextChunk(d)
  /\ m_chunk[d] # NoChunk => m_chunk[d] = NextChunk(d)

\* Subscribers are valid and active; an active download that is no
\* subscriber any more has been invalidated by the host's removal.
Membership(d) ==
  /\ d \in m_subscribers => m_valid[d] /\ pc[d] \in Active
  /\ pc[d] \in Active /\ (~m_valid[d] \/ d \notin m_subscribers) =>
       host = "removed"
  /\ pc[d] \in Waiting /\ m_valid[d] /\ host = "up" => Outstanding(d) = 1
  /\ pc[d] = "parked" => ~Awake(d)

\* What the downloader has is a prefix of the file.
Served(d) == body[d] = [i \in 1..m_progress[d] |-> i]

\* The File is registered until removePeerById has cleared it.
IInv == /\ TypeOK
        /\ registered <=> host # "removed"
        /\ \A d \in Download : Flow(d) /\ Membership(d) /\ Served(d)

----------------------------------------------------------------------------
LEMMA InitIInv == Init => IInv
<1> SUFFICES ASSUME Init PROVE IInv
  OBVIOUS
<1> USE TransferAssumption DEF Init
<1>1. TypeOK
  BY DEF TypeOK, Active, Ended
<1>2. ASSUME NEW d \in Download PROVE Flow(d) /\ Membership(d) /\ Served(d)
  <2>1. requests[d] = << >> /\ replies[d] = << >> /\ m_chunk[d] = NoChunk
    OBVIOUS
  <2>2. Outstanding(d) = 0
    BY <2>1 DEF Outstanding
  <2> QED
    BY <2>1, <2>2 DEF Flow, Membership, Served, Waiting, Active
<1> QED
  BY <1>1, <1>2 DEF IInv

\* The next chunk is a chunk of the file that fits the buffer.
LEMMA NextChunkFits ==
  ASSUME TypeOK, NEW d \in Download, m_progress[d] < FileSize
  PROVE  /\ NextChunk(d) \in Chunk
         /\ Size(NextChunk(d)) \in 1..BufSize
         /\ m_progress[d] + Size(NextChunk(d)) \in 1..FileSize
<1> DEFINE p == m_progress[d]
<1>1. p \in Nat /\ p < FileSize /\ FileSize \in Nat /\ BufSize \in Nat \ {0}
  BY TransferAssumption DEF TypeOK
<1>2. PICK last \in Nat : last = Min(p + BufSize, FileSize)
  BY <1>1 DEF Min
<1>3. last \in (p + 1)..FileSize /\ last - p \in 1..BufSize
  BY <1>1, <1>2 DEF Min
<1>4. NextChunk(d) = <<p + 1, last>>
  BY <1>2 DEF NextChunk
<1> HIDE DEF p
<1>5. NextChunk(d) \in Chunk
  BY <1>1, <1>3, <1>4 DEF Chunk
<1>6. Size(NextChunk(d)) = last - p
  BY <1>1, <1>4 DEF Size
<1>7. Size(NextChunk(d)) \in 1..BufSize /\ p + Size(NextChunk(d)) \in 1..FileSize
  BY <1>1, <1>3, <1>6
<1> QED
  BY <1>5, <1>7 DEF p

\* Two consecutive runs of bytes are one run.
LEMMA RunsJoin ==
  ASSUME NEW p \in Nat, NEW n \in Nat
  PROVE  [i \in 1..p |-> i] \o [i \in 1..n |-> p + 1 + i - 1]
           = [i \in 1..(p + n) |-> i]
<1> DEFINE a == [i \in 1..p |-> i]
           b == [i \in 1..n |-> p + 1 + i - 1]
           c == [i \in 1..(p + n) |-> i]
<1>1. a \in Seq(Nat) /\ Len(a) = p
  OBVIOUS
<1>2. b \in Seq(Nat) /\ Len(b) = n
  OBVIOUS
<1>3. c \in Seq(Nat) /\ Len(c) = p + n
  OBVIOUS
<1>4. a \o b \in Seq(Nat) /\ Len(a \o b) = p + n
  <2> HIDE DEF a, b
  <2> QED
    BY <1>1, <1>2, SMTT(30)
<1>5. ASSUME NEW i \in 1..(p + n) PROVE (a \o b)[i] = c[i]
  <2>1. CASE i <= p
    <3>1. (a \o b)[i] = a[i]
      <4> HIDE DEF a, b
      <4> QED
        BY <1>1, <1>2, <2>1
    <3> QED
      BY <2>1, <3>1
  <2>2. CASE i > p
    <3>1. (a \o b)[i] = b[i - p]
      <4> HIDE DEF a, b
      <4> QED
        BY <1>1, <1>2, <2>2, SMTT(30)
    <3> QED
      BY <2>2, <3>1
  <2> QED
    BY <2>1, <2>2
<1> HIDE DEF a, b, c
<1> QED
  BY <1>3, <1>4, <1>5 DEF a, b, c

Local(d) == Flow(d) /\ Membership(d) /\ Served(d)

\* A step that leaves a download's fields and the host alone keeps its part
\* of the invariant.
LEMMA Frame ==
  ASSUME NEW e \in Download, Local(e), host' = host,
         pc'[e] = pc[e], m_progress'[e] = m_progress[e],
         m_chunk'[e] = m_chunk[e], m_valid'[e] = m_valid[e],
         requests'[e] = requests[e], replies'[e] = replies[e],
         body'[e] = body[e],
         e \in m_subscribers' <=> e \in m_subscribers
  PROVE  Local(e)'
<1>1. Outstanding(e)' = Outstanding(e)
  BY DEF Outstanding
<1>2. NextChunk(e)' = NextChunk(e) /\ Awake(e)' = Awake(e)
  BY DEF NextChunk, Awake
<1> QED
  BY <1>1, <1>2 DEF Local, Flow, Membership, Served

\* The steps of one coroutine that only move it.
LEMMA MoveStep ==
  ASSUME IInv, NEW d \in Download, NEW to \in {"idle", "found"} \cup Active \cup Ended,
         pc' = [pc EXCEPT ![d] = to],
         UNCHANGED <<registered, host, chunkVars, body, netVars>>,
         m_subscribers' \subseteq Download,
         m_subscribers' \ {d} = m_subscribers \ {d},
         Local(d)'
  PROVE  IInv'
<1>1. TypeOK'
  BY DEF IInv, TypeOK, chunkVars, netVars
<1>2. ASSUME NEW e \in Download, e # d PROVE Local(e)'
  <2>1. pc'[e] = pc[e] /\ (e \in m_subscribers' <=> e \in m_subscribers)
    BY <1>2 DEF IInv, TypeOK
  <2> QED
    BY <2>1, Frame DEF IInv, Local, chunkVars, netVars
<1> QED
  BY <1>1, <1>2 DEF IInv, Local

LEMMA GetFileStep ==
  ASSUME IInv, NEW d \in Download, GetFile(d) PROVE IInv'
<1> DEFINE to == IF registered THEN "found" ELSE "notfound"
<1>1. /\ pc[d] = "idle" /\ pc' = [pc EXCEPT ![d] = to]
      /\ UNCHANGED <<fileVars, chunkVars, body, netVars>>
  BY DEF GetFile, Moves
<1>2. pc'[d] \in {"found", "notfound"}
  BY <1>1 DEF IInv, TypeOK
<1>3. Outstanding(d)' = Outstanding(d) /\ NextChunk(d)' = NextChunk(d)
  BY <1>1 DEF Outstanding, NextChunk, chunkVars, netVars
<1>4. Local(d)'
  BY <1>1, <1>2, <1>3 DEF IInv, Local, Flow, Membership, Served, Waiting,
     Active, fileVars, chunkVars, netVars
<1>5. to \in {"idle", "found"} \cup Active \cup Ended
  BY DEF Ended
<1>6. /\ m_subscribers' = m_subscribers /\ m_subscribers \subseteq Download
      /\ UNCHANGED <<registered, host, chunkVars, body, netVars>>
  BY <1>1 DEF fileVars, IInv, TypeOK
<1> HIDE DEF to
<1> QED
  BY <1>1, <1>4, <1>5, <1>6, MoveStep

\* readChunk's ends: an exception, the end of the file, a failed write.
LEMMA EndStep ==
  ASSUME IInv, NEW d \in Download, NEW how \in Ended, how # "notfound",
         EndResponse(d, how)
  PROVE  IInv'
<1>1. /\ pc[d] = "reading" /\ pc' = [pc EXCEPT ![d] = how]
      /\ m_subscribers' = m_subscribers \ {d}
      /\ UNCHANGED <<registered, host, chunkVars, body, netVars>>
  BY DEF EndResponse, Moves
<1>2. pc'[d] = how /\ d \notin m_subscribers'
  BY <1>1 DEF IInv, TypeOK
<1>3. Outstanding(d)' = Outstanding(d) /\ NextChunk(d)' = NextChunk(d)
  BY <1>1 DEF Outstanding, NextChunk, chunkVars, netVars
<1>4. Local(d)'
  BY <1>1, <1>2, <1>3 DEF IInv, Local, Flow, Membership, Served, Waiting,
     Active, Ended, chunkVars, netVars
<1>5. /\ m_subscribers' \subseteq Download
      /\ m_subscribers' \ {d} = m_subscribers \ {d}
      /\ how \in {"idle", "found"} \cup Active \cup Ended
  BY <1>1 DEF IInv, TypeOK
<1> QED
  BY <1>1, <1>4, <1>5, MoveStep

LEMMA WaitStep ==
  ASSUME IInv, NEW d \in Download, waitForChunk(d) \/ onNewItem(d)
  PROVE  IInv'
<1>1. PICK to \in {"reading", "waiting", "parking", "parked"} :
        /\ pc[d] \in {"waiting", "parking"}
        /\ pc' = [pc EXCEPT ![d] = to]
        /\ to = "reading" => Awake(d)
        /\ to = "parked" => ~Awake(d)
  BY DEF waitForChunk, onNewItem, Moves
<1>2. UNCHANGED <<fileVars, chunkVars, body, netVars>>
  BY DEF waitForChunk, onNewItem
<1>3. pc'[d] = to
  BY <1>1 DEF IInv, TypeOK
<1>4. Outstanding(d)' = Outstanding(d) /\ NextChunk(d)' = NextChunk(d)
      /\ Awake(d)' = Awake(d)
  BY <1>2 DEF Outstanding, NextChunk, Awake, chunkVars, netVars
<1>5. /\ Flow(d) /\ Membership(d) /\ Served(d)
      /\ Len(requests[d]) \in Nat /\ Len(replies[d]) \in Nat
      /\ requests[d] \in Seq(0..FileSize) /\ replies[d] \in Seq(Chunk)
  BY DEF IInv, TypeOK
<1>6. to = "reading" => requests[d] = << >> /\ replies[d] = << >>
  <2>1. CASE m_chunk[d] # NoChunk
    <3>1. Outstanding(d) <= 1
      BY <1>5 DEF Flow
    <3>2. Outstanding(d) = Len(requests[d]) + Len(replies[d]) + 1
      BY <2>1 DEF Outstanding
    <3>3. Len(requests[d]) + Len(replies[d]) + 1 <= 1
      BY <3>1, <3>2
    <3>4. \A a, b \in Nat : a + b + 1 <= 1 => a = 0 /\ b = 0
      OBVIOUS
    <3>5. Len(requests[d]) = 0 /\ Len(replies[d]) = 0
      BY <1>5, <3>3, <3>4
    <3> QED
      BY <1>5, <3>5
  <2>2. CASE ~m_valid[d]
    BY <1>1, <1>5, <2>2 DEF Flow, Membership, Active
  <2> QED
    BY <1>1, <2>1, <2>2 DEF Awake
<1>7. Flow(d)'
  BY <1>1, <1>2, <1>3, <1>4, <1>5, <1>6
  DEF Flow, Waiting, fileVars, chunkVars, netVars
<1>8. Membership(d)'
  BY <1>1, <1>2, <1>3, <1>4, <1>5
  DEF Membership, Waiting, Active, fileVars, chunkVars, netVars
<1>9. Served(d)'
  BY <1>2, <1>5 DEF Served, chunkVars
<1>10. /\ to \in {"idle", "found"} \cup Active \cup Ended
       /\ m_subscribers' = m_subscribers /\ m_subscribers \subseteq Download
       /\ UNCHANGED <<registered, host, chunkVars, body, netVars>>
  BY <1>2 DEF Active, fileVars, IInv, TypeOK
<1> QED
  BY <1>1, <1>7, <1>8, <1>9, <1>10, MoveStep DEF Local

LEMMA SubscribeStep ==
  ASSUME IInv, NEW d \in Download, Subscribe(d) PROVE IInv'
<1>1. /\ pc[d] = "found" /\ pc' = [pc EXCEPT ![d] = "reading"]
      /\ m_subscribers' = m_subscribers \cup {d}
      /\ m_valid' = [m_valid EXCEPT ![d] = TRUE]
      /\ UNCHANGED <<registered, host, m_progress, m_chunk, body, netVars>>
  BY DEF Subscribe, Moves
<1>2. pc'[d] = "reading" /\ m_valid'[d] /\ d \in m_subscribers'
  BY <1>1 DEF IInv, TypeOK
<1>3. TypeOK'
  BY <1>1 DEF IInv, TypeOK, Active, netVars
<1>4. ASSUME NEW e \in Download, e # d PROVE Local(e)'
  <2>1. /\ pc'[e] = pc[e] /\ m_valid'[e] = m_valid[e]
        /\ e \in m_subscribers' <=> e \in m_subscribers
    BY <1>1, <1>4 DEF IInv, TypeOK
  <2> QED
    BY <1>1, <2>1, Frame DEF IInv, Local, netVars
<1>5. Outstanding(d)' = Outstanding(d) /\ NextChunk(d)' = NextChunk(d)
  BY <1>1 DEF Outstanding, NextChunk, netVars
<1>6. Local(d)'
  BY <1>1, <1>2, <1>5 DEF IInv, Local, Flow, Membership, Served, Waiting,
     Active, netVars
<1> QED
  BY <1>1, <1>3, <1>4, <1>6 DEF IInv, Local

\* Copying the chunk extends the prefix and leaves nothing on the way.
LEMMA ReadChunkStep ==
  ASSUME IInv, NEW d \in Download, ReadChunk(d) PROVE IInv'
<1> DEFINE c == m_chunk[d]
           p == m_progress[d]
           n == Size(c)
<1>1. /\ pc[d] = "reading" /\ p < FileSize /\ c # NoChunk /\ ~Throws(d)
      /\ body' = [body EXCEPT
                    ![d] = @ \o [i \in 1..n |-> c[1] + i - 1]]
      /\ m_progress' = [m_progress EXCEPT ![d] = @ + n]
      /\ m_chunk' = [m_chunk EXCEPT ![d] = NoChunk]
      /\ UNCHANGED <<fileVars, m_valid, pc, netVars>>
  BY DEF ReadChunk
<1>2. Local(d) /\ TypeOK
  BY DEF IInv, Local
<1>3. c = NextChunk(d) /\ c[1] = p + 1
  BY <1>1, <1>2 DEF Local, Flow, NextChunk
<1>4. p \in Nat /\ n \in Nat /\ p + n \in 1..FileSize
  BY <1>1, <1>2, <1>3, NextChunkFits DEF TypeOK
<1>5. /\ m_progress'[d] = p + n /\ m_chunk'[d] = NoChunk
      /\ body'[d] = body[d] \o [i \in 1..n |-> p + 1 + i - 1]
  BY <1>1, <1>2, <1>3 DEF TypeOK
<1> HIDE DEF c, p, n
<1>6. body'[d] = [i \in 1..(p + n) |-> i]
  <2>1. body[d] = [i \in 1..p |-> i]
    BY <1>2 DEF Local, Served, p
  <2> QED
    BY <1>4, <1>5, <2>1, RunsJoin
<1>7. TypeOK'
  <2>1. body'[d] \in Seq(1..FileSize)
    BY <1>4, <1>6, TransferAssumption
  <2>2. body' \in [Download -> Seq(1..FileSize)]
    BY <1>1, <1>2, <2>1 DEF TypeOK
  <2>3. m_progress' \in [Download -> 0..FileSize]
    BY <1>1, <1>2, <1>4 DEF TypeOK, p
  <2> QED
    BY <1>1, <1>2, <2>2, <2>3 DEF TypeOK, fileVars, netVars
<1>8. ASSUME NEW e \in Download, e # d PROVE Local(e)'
  <2>1. /\ body'[e] = body[e] /\ m_progress'[e] = m_progress[e]
        /\ m_chunk'[e] = m_chunk[e]
    BY <1>1, <1>2, <1>8 DEF TypeOK
  <2> QED
    BY <1>1, <2>1, Frame DEF IInv, Local, fileVars, netVars
<1>9. requests'[d] = << >> /\ replies'[d] = << >>
  BY <1>1, <1>2 DEF Local, Flow, Waiting, netVars
<1>10. Outstanding(d)' = 0
  BY <1>5, <1>9 DEF Outstanding
<1>11. Local(d)'
  <2>1. pc'[d] = "reading" /\ m_valid'[d] = m_valid[d] /\ host' = host
        /\ m_subscribers' = m_subscribers
    BY <1>1 DEF fileVars
  <2>2. Flow(d)'
    BY <1>5, <1>9, <1>10, <2>1 DEF Flow, Waiting
  <2>3. Membership(d)'
    BY <1>1, <1>2, <2>1 DEF Local, Membership, Waiting, Active
  <2>4. Served(d)'
    BY <1>5, <1>6 DEF Served
  <2> QED
    BY <2>2, <2>3, <2>4 DEF Local
<1> QED
  BY <1>1, <1>7, <1>8, <1>11 DEF IInv, Local, fileVars

LEMMA RequestStep ==
  ASSUME IInv, NEW d \in Download, requestChunk(d) PROVE IInv'
<1>1. /\ m_valid[d] /\ m_progress[d] < FileSize /\ m_chunk[d] = NoChunk
      /\ pc[d] = "reading" /\ pc' = [pc EXCEPT ![d] = "waiting"]
      /\ requests' = IF host = "up"
                     THEN [requests EXCEPT ![d] = Append(@, m_progress[d])]
                     ELSE requests
      /\ UNCHANGED <<fileVars, chunkVars, body, replies>>
  BY DEF requestChunk, Moves
<1>2. Local(d) /\ TypeOK
  BY DEF IInv, Local
<1>3. requests[d] = << >> /\ replies[d] = << >> /\ pc'[d] = "waiting"
  BY <1>1, <1>2 DEF Local, Flow, Waiting, TypeOK
<1>4. requests'[d] = IF host = "up" THEN <<m_progress[d]>> ELSE << >>
  BY <1>1, <1>2, <1>3 DEF TypeOK
<1>5. TypeOK'
  <2>1. requests'[d] \in Seq(0..FileSize)
    <3>1. m_progress[d] \in 0..FileSize
      BY <1>2 DEF TypeOK
    <3>2. requests[d] \in Seq(0..FileSize)
      BY <1>2 DEF TypeOK
    <3>3. Append(requests[d], m_progress[d]) \in Seq(0..FileSize)
      BY <3>1, <3>2
    <3> QED
      BY <1>1, <1>2, <3>2, <3>3 DEF TypeOK
  <2>2. requests' \in [Download -> Seq(0..FileSize)]
    BY <1>1, <1>2, <2>1 DEF TypeOK
  <2> QED
    BY <1>1, <1>2, <2>2 DEF TypeOK, Active, fileVars, chunkVars
<1>6. ASSUME NEW e \in Download, e # d PROVE Local(e)'
  <2>1. pc'[e] = pc[e] /\ requests'[e] = requests[e]
    BY <1>1, <1>2, <1>6 DEF TypeOK
  <2> QED
    BY <1>1, <2>1, Frame DEF IInv, Local, fileVars, chunkVars
<1>7. Outstanding(d)' = IF host = "up" THEN 1 ELSE 0
  BY <1>1, <1>3, <1>4 DEF Outstanding, chunkVars
<1>8. Local(d)'
  BY <1>1, <1>2, <1>3, <1>4, <1>7 DEF Local, Flow, Membership, Served,
     Waiting, Active, NextChunk, fileVars, chunkVars
<1> QED
  BY <1>1, <1>5, <1>6, <1>8 DEF IInv, Local, fileVars

\* If a request or a reply is on the way, nothing else is.
LEMMA OneThing ==
  ASSUME TypeOK, NEW d \in Download, Outstanding(d) <= 1,
         requests[d] # << >> \/ replies[d] # << >>
  PROVE  /\ m_chunk[d] = NoChunk /\ Outstanding(d) = 1
         /\ requests[d] # << >> => Len(requests[d]) = 1 /\ Len(replies[d]) = 0
         /\ replies[d] # << >> => Len(replies[d]) = 1 /\ Len(requests[d]) = 0
<1> DEFINE a == Len(requests[d])
           b == Len(replies[d])
<1>1. requests[d] \in Seq(0..FileSize) /\ replies[d] \in Seq(Chunk)
  BY DEF TypeOK
<1>2. /\ a \in Nat /\ b \in Nat
      /\ requests[d] # << >> => a # 0
      /\ replies[d] # << >> => b # 0
  BY <1>1
<1>3. CASE m_chunk[d] = NoChunk
  <2>1. Outstanding(d) = a + b
    BY <1>2, <1>3 DEF Outstanding
  <2> HIDE DEF a, b
  <2>2. /\ a + b = 1
        /\ requests[d] # << >> => a = 1 /\ b = 0
        /\ replies[d] # << >> => b = 1 /\ a = 0
    BY <1>2, <2>1
  <2> QED
    BY <1>3, <2>1, <2>2 DEF a, b
<1>4. CASE m_chunk[d] # NoChunk
  <2>1. Outstanding(d) = a + b + 1
    BY <1>4 DEF Outstanding
  <2> HIDE DEF a, b
  <2> QED
    BY <1>2, <2>1
<1> QED
  BY <1>3, <1>4

\* The browser turns the request into the reply for the same bytes.
LEMMA SendFileChunksStep ==
  ASSUME IInv, NEW d \in Download, sendFileChunks(d) PROVE IInv'
<1> DEFINE first == Head(requests[d])
           c == <<first + 1, Min(first + BufSize, FileSize)>>
<1>1. /\ host = "up" /\ requests[d] # << >>
      /\ replies' = [replies EXCEPT ![d] = Append(@, c)]
      /\ requests' = [requests EXCEPT ![d] = Tail(@)]
      /\ UNCHANGED <<fileVars, chunkVars, pc, body>>
  BY DEF sendFileChunks
<1>2. Local(d) /\ TypeOK
  BY DEF IInv, Local
<1>3. /\ requests[d] \in Seq(0..FileSize) /\ replies[d] \in Seq(Chunk)
      /\ requests'[d] = Tail(requests[d])
      /\ replies'[d] = Append(replies[d], c)
  BY <1>1, <1>2 DEF TypeOK
<1>4. /\ Len(requests[d]) = 1 /\ Len(replies[d]) = 0 /\ m_chunk[d] = NoChunk
      /\ Outstanding(d) = 1
  BY <1>1, <1>2, OneThing DEF Local, Flow
<1>5. first = m_progress[d] /\ m_progress[d] < FileSize
  <2>1. first = requests[d][1]
    BY <1>1, <1>3
  <2> QED
    BY <1>2, <1>4, <2>1 DEF Local, Flow
<1>6. c = NextChunk(d) /\ c \in Chunk
  BY <1>2, <1>5, NextChunkFits DEF NextChunk
<1> HIDE DEF c, first
<1>7. /\ requests'[d] = << >> /\ Len(requests'[d]) = 0
      /\ requests'[d] \in Seq(0..FileSize)
  <2>1. ASSUME NEW s \in Seq(0..FileSize), Len(s) = 1
        PROVE  Tail(s) \in Seq(0..FileSize) /\ Len(Tail(s)) = 0
    BY <2>1
  <2>2. Len(requests'[d]) = 0 /\ requests'[d] \in Seq(0..FileSize)
    BY <1>3, <1>4, <2>1
  <2> QED
    BY <2>2
<1>8. /\ Len(replies'[d]) = 1 /\ replies'[d][1] = c
      /\ replies'[d] \in Seq(Chunk)
  BY <1>3, <1>4, <1>6
<1>9. TypeOK'
  <2>1. /\ requests' \in [Download -> Seq(0..FileSize)]
        /\ replies' \in [Download -> Seq(Chunk)]
    BY <1>1, <1>2, <1>7, <1>8 DEF TypeOK
  <2> QED
    BY <1>1, <1>2, <2>1 DEF TypeOK, fileVars, chunkVars
<1>10. ASSUME NEW e \in Download, e # d PROVE Local(e)'
  <2>1. requests'[e] = requests[e] /\ replies'[e] = replies[e]
    BY <1>1, <1>2, <1>10 DEF TypeOK
  <2> QED
    BY <1>1, <2>1, Frame DEF IInv, Local, fileVars, chunkVars
<1>11. Outstanding(d)' = 1
  <2>1. m_chunk'[d] = NoChunk
    BY <1>1, <1>4 DEF chunkVars
  <2> QED
    BY <1>7, <1>8, <2>1 DEF Outstanding
<1>12. Local(d)'
  <2>1. /\ pc'[d] = pc[d] /\ m_progress'[d] = m_progress[d]
        /\ m_chunk'[d] = m_chunk[d] /\ m_valid'[d] = m_valid[d]
        /\ host' = host /\ m_subscribers' = m_subscribers
        /\ body'[d] = body[d]
    BY <1>1 DEF fileVars, chunkVars
  <2>2. NextChunk(d)' = NextChunk(d) /\ Awake(d)' = Awake(d)
    BY <2>1 DEF NextChunk, Awake
  <2>3. pc[d] \in Waiting
    BY <1>1, <1>2 DEF Local, Flow
  <2>4. Flow(d)'
    BY <1>1, <1>2, <1>4, <1>5, <1>6, <1>7, <1>8, <1>11, <2>1, <2>2, <2>3
    DEF Local, Flow, Waiting
  <2>5. Membership(d)'
    BY <1>2, <1>11, <2>1, <2>2 DEF Local, Membership
  <2>6. Served(d)'
    BY <1>2, <2>1 DEF Local, Served
  <2> QED
    BY <2>4, <2>5, <2>6 DEF Local
<1> QED
  BY <1>1, <1>9, <1>10, <1>12 DEF IInv, Local, fileVars

\* A notified coroutine looks again; nobody else moves.
LEMMA NotifiedMoves ==
  ASSUME TypeOK, NEW D, Notified(D), NEW e \in Download
  PROVE  /\ pc' \in [Download -> {"idle", "found"} \cup Active \cup Ended]
         /\ pc'[e] = pc[e] \/ (pc[e] = "parked" /\ pc'[e] = "waiting")
         /\ e \notin D => pc'[e] = pc[e]
         /\ e \in D => pc'[e] # "parked"
         /\ pc'[e] \in Waiting <=> pc[e] \in Waiting
         /\ pc'[e] \in Active <=> pc[e] \in Active
BY DEF TypeOK, Notified, Active, Waiting

\* The reply becomes the chunk; a collision cannot occur.
LEMMA ProvideStep ==
  ASSUME IInv, NEW d \in Download, provideFileChunk(d) PROVE IInv'
<1> DEFINE c == Head(replies[d])
<1>1. Local(d) /\ TypeOK /\ (registered <=> host # "removed")
  BY DEF IInv, Local
<1>2. host = "up" /\ replies[d] # << >> /\ registered
  BY <1>1 DEF provideFileChunk
<1>3. /\ m_chunk[d] = NoChunk /\ Outstanding(d) = 1
      /\ Len(replies[d]) = 1 /\ Len(requests[d]) = 0
  BY <1>1, <1>2, OneThing DEF Local, Flow
<1>4. pc[d] \in Waiting /\ d \in m_subscribers
  BY <1>1, <1>2 DEF Local, Flow, Membership, Waiting, Active
<1>5. /\ host' = "up"
      /\ m_chunk' = [m_chunk EXCEPT ![d] = c]
      /\ Notified({d})
      /\ replies' = [replies EXCEPT ![d] = Tail(@)]
      /\ UNCHANGED <<registered, m_subscribers, m_valid, m_progress, body,
                     requests>>
  BY <1>2, <1>3, <1>4 DEF provideFileChunk, Taken, Collides
<1>6. /\ replies[d] \in Seq(Chunk) /\ c = NextChunk(d)
      /\ m_progress[d] < FileSize
  <2>1. replies[d] \in Seq(Chunk)
    BY <1>1 DEF TypeOK
  <2>2. c = replies[d][1]
    BY <1>3, <2>1
  <2>3. 1 \in 1..Len(replies[d])
    BY <1>3
  <2> QED
    BY <1>1, <1>3, <2>1, <2>2, <2>3 DEF Local, Flow
<1>7. c \in Chunk /\ c # NoChunk
  BY <1>1, <1>6, NextChunkFits, TransferAssumption DEF Chunk
<1>8. /\ replies'[d] = << >> /\ Len(replies'[d]) = 0
      /\ replies'[d] \in Seq(Chunk)
  <2>1. ASSUME NEW s \in Seq(Chunk), Len(s) = 1
        PROVE  Tail(s) \in Seq(Chunk) /\ Len(Tail(s)) = 0
    BY <2>1
  <2>2. Len(replies'[d]) = 0 /\ replies'[d] \in Seq(Chunk)
    BY <1>1, <1>3, <1>5, <1>6, <2>1 DEF TypeOK
  <2> QED
    BY <2>2
<1>9. requests'[d] = << >> /\ Len(requests'[d]) = 0
  <2>1. requests[d] \in Seq(0..FileSize)
    BY <1>1 DEF TypeOK
  <2> QED
    BY <1>3, <1>5, <2>1
<1> HIDE DEF c
<1>10. TypeOK'
  <2>1. replies' \in [Download -> Seq(Chunk)]
    BY <1>1, <1>5, <1>8 DEF TypeOK
  <2>2. m_chunk' \in [Download -> Chunk \cup {NoChunk}]
    BY <1>1, <1>5, <1>7 DEF TypeOK
  <2>3. pc' \in [Download -> {"idle", "found"} \cup Active \cup Ended]
    BY <1>1, <1>5, NotifiedMoves
  <2> QED
    BY <1>1, <1>5, <2>1, <2>2, <2>3 DEF TypeOK
<1>11. ASSUME NEW e \in Download, e # d PROVE Local(e)'
  <2>1. /\ pc'[e] = pc[e] /\ replies'[e] = replies[e]
        /\ m_chunk'[e] = m_chunk[e]
    BY <1>1, <1>5, <1>11, NotifiedMoves DEF TypeOK
  <2> QED
    BY <1>2, <1>5, <2>1, Frame DEF IInv, Local
<1>12. /\ m_chunk'[d] = c /\ m_progress'[d] = m_progress[d]
       /\ m_valid'[d] = m_valid[d] /\ body'[d] = body[d]
       /\ m_subscribers' = m_subscribers /\ host' = host
  BY <1>1, <1>2, <1>5 DEF TypeOK
<1>13. Outstanding(d)' = 1 /\ NextChunk(d)' = NextChunk(d)
  BY <1>7, <1>8, <1>9, <1>12 DEF Outstanding, NextChunk
<1>14. pc'[d] \in Waiting /\ pc'[d] # "parked"
  BY <1>1, <1>4, <1>5, NotifiedMoves
<1>15. Flow(d)'
  BY <1>2, <1>6, <1>8, <1>9, <1>12, <1>13, <1>14 DEF Flow, Waiting
<1>16. Membership(d)'
  BY <1>1, <1>2, <1>4, <1>12, <1>13, <1>14 DEF Local, Membership, Waiting, Active
<1>17. Served(d)'
  BY <1>1, <1>12 DEF Local, Served
<1> QED
  <2>1. registered' /\ host' # "removed"
    BY <1>2, <1>5
  <2> QED
    BY <1>10, <1>11, <1>15, <1>16, <1>17, <2>1 DEF IInv, Local

LEMMA HostCloseStep == ASSUME IInv, HostClose PROVE IInv'
<1>1. /\ host = "up" /\ host' = "closing"
      /\ requests' = [d \in Download |-> << >>]
      /\ replies' = [d \in Download |-> << >>]
      /\ UNCHANGED <<registered, m_subscribers, chunkVars, pc, body>>
  BY DEF HostClose
<1>2. TypeOK'
  BY <1>1 DEF IInv, TypeOK, chunkVars
<1>3. ASSUME NEW d \in Download PROVE Local(d)'
  <2>1. Local(d)
    BY DEF IInv, Local
  <2>2. requests'[d] = << >> /\ replies'[d] = << >>
    BY <1>1
  <2>3. /\ Outstanding(d)' = IF m_chunk[d] = NoChunk THEN 0 ELSE 1
        /\ NextChunk(d)' = NextChunk(d) /\ Awake(d)' = Awake(d)
    BY <1>1, <2>2 DEF Outstanding, NextChunk, Awake, chunkVars
  <2>4. Outstanding(d)' = 1 => Outstanding(d) = 1
    <3>1. /\ Len(requests[d]) \in Nat /\ Len(replies[d]) \in Nat
          /\ Outstanding(d) <= 1
      BY <2>1 DEF IInv, TypeOK, Local, Flow
    <3> SUFFICES ASSUME Outstanding(d)' = 1 PROVE Outstanding(d) = 1
      OBVIOUS
    <3>2. m_chunk[d] # NoChunk
      BY <2>3
    <3>3. Outstanding(d) = Len(requests[d]) + Len(replies[d]) + 1
      BY <3>2 DEF Outstanding
    <3>4. \A a, b \in Nat : a + b + 1 <= 1 => a + b + 1 = 1
      OBVIOUS
    <3> QED
      BY <3>1, <3>3, <3>4
  <2>5. Flow(d)'
    BY <1>1, <2>1, <2>2, <2>3, <2>4 DEF Local, Flow, Waiting, chunkVars
  <2>6. Membership(d)'
    BY <1>1, <2>1, <2>3 DEF Local, Membership, Active, chunkVars
  <2>7. Served(d)'
    BY <1>1, <2>1 DEF Local, Served, chunkVars
  <2> QED
    BY <2>5, <2>6, <2>7 DEF Local
<1> QED
  BY <1>1, <1>2, <1>3 DEF IInv, Local

\* Every subscriber is invalidated, and woken if it is on the wait list.
LEMMA ClearStep == ASSUME IInv, clearSubscribers PROVE IInv'
<1>1. /\ host = "closing" /\ host' = "removed"
      /\ m_valid' = [d \in Download |-> m_valid[d] /\ d \notin m_subscribers]
      /\ Notified(m_subscribers)
      /\ m_subscribers' = {} /\ registered' = FALSE
      /\ UNCHANGED <<m_progress, m_chunk, body, netVars>>
  BY DEF clearSubscribers, invalidate
<1>2. pc' \in [Download -> {"idle", "found"} \cup Active \cup Ended]
  BY <1>1, NotifiedMoves DEF IInv, Notified, TypeOK, Active, Ended
<1>3. TypeOK'
  BY <1>1, <1>2 DEF IInv, TypeOK, netVars
<1>4. ASSUME NEW d \in Download PROVE Local(d)'
  <2>1. Local(d) /\ TypeOK
    BY DEF IInv, Local
  <2>2. /\ pc'[d] = pc[d] \/ (pc[d] = "parked" /\ pc'[d] = "waiting")
        /\ d \in m_subscribers => pc'[d] # "parked"
        /\ pc'[d] \in Waiting <=> pc[d] \in Waiting
        /\ pc'[d] \in Active <=> pc[d] \in Active
    BY <1>1, <2>1, NotifiedMoves
  <2>3. m_valid'[d] <=> m_valid[d] /\ d \notin m_subscribers
    BY <1>1
  <2>4. Outstanding(d)' = Outstanding(d) /\ NextChunk(d)' = NextChunk(d)
    BY <1>1 DEF Outstanding, NextChunk, netVars
  <2>5. Flow(d)'
    BY <1>1, <2>1, <2>2, <2>4 DEF Local, Flow, Waiting, netVars
  <2>6. pc'[d] = "parked" => ~Awake(d)'
    <3>1. d \notin m_subscribers => pc[d] \notin Active
      BY <1>1, <2>1 DEF Local, Membership
    <3> QED
      BY <2>2, <3>1 DEF Active
  <2>7. Membership(d)'
    BY <1>1, <2>6 DEF Membership
  <2>8. Served(d)'
    BY <1>1, <2>1 DEF Local, Served
  <2> QED
    BY <2>5, <2>7, <2>8 DEF Local
<1> QED
  BY <1>1, <1>3, <1>4 DEF IInv, Local

LEMMA StepIInv == IInv /\ [Next]_vars => IInv'
<1> SUFFICES ASSUME IInv, [Next]_vars PROVE IInv'
  OBVIOUS
<1>1. ASSUME NEW d \in Download, ReadThrows(d) \/ ReadEnd(d) \/ Abort(d)
      PROVE  IInv'
  BY <1>1, EndStep DEF ReadThrows, ReadEnd, Abort, Ended
<1>2. CASE UNCHANGED vars
  <2>1. ASSUME NEW d \in Download PROVE Local(d)'
    BY <1>2, Frame DEF IInv, Local, vars, fileVars, chunkVars, netVars
  <2>2. TypeOK'
    BY <1>2 DEF IInv, TypeOK, vars, fileVars, chunkVars, netVars
  <2> QED
    BY <1>2, <2>1, <2>2 DEF IInv, Local, vars, fileVars
<1> QED
  BY <1>1, <1>2, GetFileStep, SubscribeStep, ReadChunkStep, RequestStep,
     WaitStep, SendFileChunksStep, ProvideStep, HostCloseStep, ClearStep
  DEF Next

LEMMA SpecIInv == Spec => []IInv
<1> QED
  BY InitIInv, StepIInv, PTL DEF Spec

----------------------------------------------------------------------------
\* Type correctness; m_progress never passes the size of the file.
THEOREM TransferTypeCorrect == Spec => []TypeOK
<1>1. IInv => TypeOK
  BY DEF IInv
<1> QED
  BY <1>1, SpecIInv, PTL

\* There are never two chunks on the way for one download: the exception
\* "File chunk collision." cannot be thrown through an honest host.
THEOREM TransferAtMostOneChunk == Spec => []AtMostOneChunk
<1>1. IInv => AtMostOneChunk
  BY DEF IInv, Flow, AtMostOneChunk
<1> QED
  BY <1>1, SpecIInv, PTL

\* A waiting registered download has its chunk on the way.
THEOREM TransferWaiterIsServed == Spec => []WaiterIsServed
<1>1. IInv => WaiterIsServed
  BY DEF IInv, TypeOK, Membership, WaiterIsServed, Waiting
<1> QED
  BY <1>1, SpecIInv, PTL

\* A coroutine on the wait list always has a reason to be there.
THEOREM TransferNoLostWakeup == Spec => []NoLostWakeup
<1>1. IInv => NoLostWakeup
  BY DEF IInv, Membership, NoLostWakeup
<1> QED
  BY <1>1, SpecIInv, PTL

----------------------------------------------------------------------------
(* The refinement: StreamState and body are a behaviour of FileStream.     *)

\* A download that moves changes its stream state, and no other does.
LEMMA StateMoves ==
  ASSUME TypeOK, NEW d \in Download, NEW from, NEW to, Moves(d, from, to)
  PROVE  /\ StreamState[d] = StateOf(from)
         /\ StreamState' = [StreamState EXCEPT ![d] = StateOf(to)]
<1>1. pc[d] = from /\ pc' = [pc EXCEPT ![d] = to]
  BY DEF Moves
<1>2. pc \in [Download -> {"idle", "found"} \cup Active \cup Ended]
  BY DEF TypeOK
<1>3. \A e \in Download : pc'[e] = IF e = d THEN to ELSE pc[e]
  BY <1>1, <1>2
<1>4. ASSUME NEW e \in Download
      PROVE  StateOf(pc'[e]) = IF e = d THEN StateOf(to) ELSE StateOf(pc[e])
  BY <1>3
<1>5. StreamState' = [e \in Download |-> StateOf(pc'[e])]
  BY DEF StreamState
<1> QED
  BY <1>1, <1>4, <1>5 DEF StreamState

\* A wakeup leaves every stream state as it is.
LEMMA StateStays ==
  ASSUME TypeOK, NEW D, Notified(D)
  PROVE  StreamState' = StreamState
<1>1. StateOf("parked") = "open" /\ StateOf("waiting") = "open"
  BY DEF StateOf, Active
<1>2. ASSUME NEW e \in Download PROVE StateOf(pc'[e]) = StateOf(pc[e])
  BY <1>1, NotifiedMoves
<1> QED
  BY <1>2 DEF StreamState

LEMMA StateValues ==
  /\ StateOf("idle") = "none" /\ StateOf("found") = "none"
  /\ \A p \in Active : StateOf(p) = "open"
  /\ StateOf("notfound") = "refused" /\ StateOf("complete") = "complete"
  /\ StateOf("failed") = "broken" /\ StateOf("aborted") = "broken"
BY DEF StateOf, Active

LEMMA InitStream == Init => Stream!Init
<1> SUFFICES ASSUME Init PROVE Stream!Init
  OBVIOUS
<1>1. StreamState = [d \in Download |-> "none"]
  BY StateValues DEF Init, StreamState
<1> QED
  BY <1>1 DEF Init, Stream!Init

\* The end of a response is Complete or Break; one that completes has the
\* whole file, by Served.
LEMMA EndStream ==
  ASSUME IInv, NEW d \in Download,
         ReadThrows(d) \/ ReadEnd(d) \/ Abort(d)
  PROVE  Stream!Complete(d) \/ Stream!Break(d)
<1>1. TypeOK /\ Served(d)
  BY DEF IInv
<1>2. StateOf("reading") = "open"
  BY StateValues DEF Active
<1>3. ASSUME NEW how, EndResponse(d, how)
      PROVE  Stream!Becomes(d, "open", StateOf(how)) /\ UNCHANGED body
  BY <1>1, <1>2, <1>3, StateMoves DEF EndResponse, Stream!Becomes
<1>4. CASE ReadThrows(d)
  BY <1>3, <1>4, StateValues DEF ReadThrows, Stream!Break
<1>5. CASE Abort(d)
  BY <1>3, <1>5, StateValues DEF Abort, Stream!Break
<1>6. CASE ReadEnd(d)
  <2>1. m_progress[d] = FileSize
    BY <1>1, <1>6, TransferAssumption DEF ReadEnd, TypeOK
  <2>2. body[d] = Stream!FirstBytes(FileSize)
    BY <1>1, <2>1 DEF Served, Stream!FirstBytes
  <2> QED
    BY <1>3, <1>6, <2>2, StateValues DEF ReadEnd, Stream!Complete
<1> QED
  BY <1>4, <1>5, <1>6

\* A chunk that is copied is Serve: the body grows by its next bytes.
LEMMA ReadChunkStream ==
  ASSUME IInv, NEW d \in Download, ReadChunk(d)
  PROVE  Stream!Serve(d)
<1>1. IInv' /\ TypeOK /\ TypeOK' /\ Served(d) /\ Served(d)'
  BY ReadChunkStep DEF IInv
<1>2. m_chunk[d] = NextChunk(d) /\ m_progress[d] < FileSize
  BY DEF IInv, Flow, ReadChunk
<1>3. m_progress'[d] = m_progress[d] + Size(NextChunk(d))
  BY <1>1, <1>2 DEF ReadChunk, TypeOK
<1>4. /\ m_progress[d] \in Nat /\ m_progress'[d] \in 0..FileSize
      /\ m_progress'[d] > m_progress[d]
  <2>1. Size(NextChunk(d)) \in 1..BufSize /\ FileSize \in Nat /\ BufSize \in Nat
    BY <1>1, <1>2, NextChunkFits, TransferAssumption
  <2> QED
    BY <1>1, <1>3, <2>1 DEF TypeOK
<1>5. Len(body[d]) = m_progress[d]
  BY <1>1, <1>4 DEF Served
<1>6. m_progress'[d] \in (Len(body[d]) + 1)..FileSize
  BY <1>4, <1>5, TransferAssumption
<1>7. body' = [body EXCEPT ![d] = Stream!FirstBytes(m_progress'[d])]
  <2>1. body'[d] = Stream!FirstBytes(m_progress'[d])
    BY <1>1 DEF Served, Stream!FirstBytes
  <2>2. \A e \in Download \ {d} : body'[e] = body[e]
    BY <1>1 DEF ReadChunk, TypeOK
  <2> QED
    BY <1>1, <2>1, <2>2 DEF TypeOK
<1>8. StreamState[d] = "open" /\ StreamState' = StreamState
  <2>1. pc[d] = "reading" /\ pc' = pc
    BY DEF ReadChunk
  <2> QED
    BY <2>1, StateValues DEF StreamState, Active
<1> QED
  BY <1>6, <1>7, <1>8 DEF Stream!Serve

\* The other steps open or refuse a stream or leave all of them alone.
LEMMA OtherStream ==
  ASSUME TypeOK, NEW d \in Download,
         \/ GetFile(d) \/ Subscribe(d) \/ requestChunk(d) \/ waitForChunk(d)
         \/ onNewItem(d) \/ sendFileChunks(d) \/ provideFileChunk(d)
  PROVE  Stream!Open(d) \/ Stream!Refuse(d) \/ UNCHANGED <<StreamState, body>>
<1>1. UNCHANGED body
  BY DEF GetFile, Subscribe, requestChunk, waitForChunk, onNewItem,
         sendFileChunks, provideFileChunk
<1>2. \A p \in Active : StateOf(p) = "open"
  BY StateValues
<1>3. CASE GetFile(d)
  <2>1. CASE registered
    <3>1. Moves(d, "idle", "found")
      BY <1>3, <2>1 DEF GetFile
    <3>2. /\ StreamState[d] = "none"
          /\ StreamState' = [StreamState EXCEPT ![d] = "none"]
      BY <3>1, StateMoves, StateValues
    <3> QED
      BY <1>1, <3>2 DEF StreamState
  <2>2. CASE ~registered
    <3>1. Moves(d, "idle", "notfound")
      BY <1>3, <2>2 DEF GetFile
    <3> QED
      BY <1>1, <3>1, StateMoves, StateValues DEF Stream!Refuse, Stream!Becomes
  <2> QED
    BY <2>1, <2>2
<1>4. CASE Subscribe(d)
  <2>1. Moves(d, "found", "reading")
    BY <1>4 DEF Subscribe
  <2> QED
    BY <1>1, <1>2, <2>1, StateMoves, StateValues
    DEF Active, Stream!Open, Stream!Becomes
<1>5. ASSUME NEW from \in Active, NEW to \in Active, Moves(d, from, to)
      PROVE  StreamState' = StreamState
  <2>1. /\ StreamState[d] = "open"
        /\ StreamState' = [StreamState EXCEPT ![d] = "open"]
    BY <1>2, <1>5, StateMoves
  <2> QED
    BY <2>1 DEF StreamState
<1>6. CASE requestChunk(d)
  BY <1>1, <1>5, <1>6 DEF requestChunk, Active
<1>7. CASE waitForChunk(d)
  BY <1>1, <1>5, <1>7 DEF waitForChunk, Active
<1>8. CASE onNewItem(d)
  BY <1>1, <1>5, <1>8 DEF onNewItem, Active
<1>9. CASE sendFileChunks(d)
  BY <1>1, <1>9 DEF sendFileChunks, StreamState
<1>10. CASE provideFileChunk(d)
  <2>1. Notified({d}) \/ UNCHANGED pc
    BY <1>10 DEF provideFileChunk
  <2> QED
    BY <1>1, <2>1, StateStays DEF StreamState
<1> QED
  BY <1>3, <1>4, <1>6, <1>7, <1>8, <1>9, <1>10

LEMMA StepStream ==
  IInv /\ [Next]_vars => [Stream!Next]_<<StreamState, body>>
<1> SUFFICES ASSUME IInv, [Next]_vars
             PROVE  Stream!Next \/ UNCHANGED <<StreamState, body>>
  OBVIOUS
<1>1. TypeOK
  BY DEF IInv
<1>2. ASSUME NEW d \in Download,
             ReadThrows(d) \/ ReadEnd(d) \/ Abort(d) \/ ReadChunk(d)
      PROVE  Stream!Next
  BY <1>2, EndStream, ReadChunkStream DEF Stream!Next
<1>3. ASSUME NEW d \in Download,
             \/ GetFile(d) \/ Subscribe(d) \/ requestChunk(d)
             \/ waitForChunk(d) \/ onNewItem(d) \/ sendFileChunks(d)
             \/ provideFileChunk(d)
      PROVE  Stream!Next \/ UNCHANGED <<StreamState, body>>
  BY <1>1, <1>3, OtherStream DEF Stream!Next
<1>4. CASE HostClose
  BY <1>4 DEF HostClose, StreamState
<1>5. CASE clearSubscribers
  BY <1>1, <1>5, StateStays DEF clearSubscribers, invalidate
<1>6. CASE UNCHANGED vars
  BY <1>6 DEF vars, StreamState
<1> QED
  BY <1>2, <1>3, <1>4, <1>5, <1>6 DEF Next

\* The transfer implements the abstract stream: whatever happens to the host,
\* the network and the wait list, a client of GetFile sees a prefix of the
\* file that only grows, and a response that ends normally carried all of it.
THEOREM TransferStreamsTheFile == Spec => StreamsTheFile
<1> QED
  BY InitStream, StepStream, SpecIInv, PTL DEF Spec, StreamsTheFile, Stream!Spec
=============================================================================
