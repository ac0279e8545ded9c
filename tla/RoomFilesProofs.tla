--------------------------- MODULE RoomFilesProofs ---------------------------
(***************************************************************************)
(* RoomFiles for any number of connections: what can be looked up in       *)
(* m_fileById is exactly what the members share.                           *)
(*                                                                         *)
(* The invariant says who holds m_fileByIdLock, that the ids given out are *)
(* below m_fileIdCounter, so that a new file replaces none, and that a     *)
(* Peer's m_files are its own, so that a leaver takes no other's along.    *)
(* That a deadlock stays needs less: who holds the locks (LocksHeld).      *)
(***************************************************************************)
EXTENDS RoomFiles, TLAPS

Inside == {"member", "handling", "sharing", "closing", "removing"}

\* What holds of one connection.
Local(c) ==
  /\ c \in m_peerById <=> pc[c] \in Inside
  /\ pc[c] \in {"idle", "connecting", "entered"} => m_files[c] = {}
  /\ pc[c] = "sharing" => m_fileByIdLock = c
  /\ \A f \in m_files[c] : f.host = c /\ f.id < m_fileIdCounter

\* The file being shared still has an id.
Sharing == (\E c \in Conn : pc[c] = "sharing") => m_fileIdCounter <= MaxFiles

\* Who is not handling a message has no files in one.
BatchHeld ==
  \A c \in Conn : /\ batch[c] \subseteq m_files[c]
                  /\ batch[c] # {} => pc[c] \in {"handling", "sharing"}

\* The files a peer shared, but for those of the message under way, have been
\* announced; this goes on to hold when it is gone.
Announced ==
  \A c \in Conn : {f \in announced : f.host = c} = m_files[c] \ batch[c]

IInv == /\ TypeOK /\ RegisteredFilesExact /\ Sharing
        /\ BatchHeld /\ Announced
        /\ \A c \in Conn : Local(c)

----------------------------------------------------------------------------
LEMMA InitIInv == Init => IInv
<1> SUFFICES ASSUME Init PROVE IInv
  OBVIOUS
<1> USE RoomFilesAssumption DEF Init
<1>1. TypeOK
  BY DEF TypeOK, PC
<1>2. RegisteredFilesExact /\ Sharing
  BY DEF RegisteredFilesExact, Sharing
<1>4. BatchHeld /\ Announced
  BY DEF BatchHeld, Announced
<1>3. \A c \in Conn : Local(c)
  BY DEF Local, Inside
<1> QED
  BY <1>1, <1>2, <1>3, <1>4 DEF IInv

\* A step that touches neither peers nor files, moves one connection within
\* or outside the Room, and gives m_fileByIdLock to nobody else.
LEMMA MoveStep ==
  ASSUME IInv, NEW c \in Conn, NEW from, NEW to \in PC, Moves(c, from, to),
         from \in Inside <=> to \in Inside,
         to \in {"idle", "connecting", "entered"} =>
           from \in {"idle", "connecting", "entered"},
         from # "sharing",
         from = "handling" => to = "sharing" \/ batch'[c] = {},
         \/ UNCHANGED sentVars
         \/ /\ batch' = [batch EXCEPT ![c] = {}]
            /\ announced' = announced \cup batch[c],
         to = "sharing" => m_fileByIdLock' = c /\ m_fileIdCounter <= MaxFiles,
         m_fileByIdLock' # m_fileByIdLock => m_fileByIdLock = Nobody,
         m_roomsMutex' \in {PingLoop, Nobody},
         m_peerByIdLock' \in Conn \cup {Nobody},
         m_fileByIdLock' \in Conn \cup {Nobody},
         UNCHANGED <<m_peerById, fileVars>>
  PROVE  IInv'
<1>1. pc[c] = from /\ pc' = [pc EXCEPT ![c] = to]
  BY DEF Moves
<1>2. TypeOK'
  BY <1>1 DEF IInv, TypeOK, fileVars, sentVars
<1>3. RegisteredFilesExact'
  BY DEF IInv, RegisteredFilesExact, fileVars
<1>7. BatchHeld' /\ Announced'
  <2>1. batch \in [Conn -> SUBSET File] /\ pc \in [Conn -> PC]
    BY DEF IInv, TypeOK
  <2>2. CASE UNCHANGED sentVars
    BY <1>1, <2>1, <2>2 DEF IInv, BatchHeld, Announced, sentVars, fileVars
  <2>3. CASE /\ batch' = [batch EXCEPT ![c] = {}]
             /\ announced' = announced \cup batch[c]
    <3>1. \A f \in batch[c] : f.host = c
      BY DEF IInv, BatchHeld, Local
    <3> QED
      BY <1>1, <2>1, <2>3, <3>1 DEF IInv, BatchHeld, Announced, fileVars
  <2> QED
    BY <2>2, <2>3
<1>4. ASSUME NEW e \in Conn PROVE pc'[e] = IF e = c THEN to ELSE pc[e]
  BY <1>1 DEF IInv, TypeOK
<1>5. Sharing'
  BY <1>4 DEF IInv, Sharing, fileVars
<1>6. ASSUME NEW e \in Conn PROVE Local(e)'
  <2>1. Local(e)
    BY DEF IInv
  <2>2. pc'[e] = "sharing" => m_fileByIdLock' = e
    BY <1>4, <2>1, RoomFilesAssumption DEF Local
  <2> QED
    BY <1>1, <1>4, <2>1, <2>2 DEF Local, fileVars
<1> QED
  BY <1>2, <1>3, <1>5, <1>6, <1>7 DEF IInv

LEMMA AddPeerStep == ASSUME IInv, NEW c \in Conn, addPeer(c) PROVE IInv'
<1>1. /\ pc[c] = "entered" /\ pc' = [pc EXCEPT ![c] = "member"]
      /\ m_peerById' = m_peerById \cup {c}
      /\ UNCHANGED <<locks, fileVars, sentVars>>
  BY DEF addPeer, Moves
<1>2. TypeOK'
  BY <1>1 DEF IInv, TypeOK, PC, locks, fileVars, sentVars
<1>8. BatchHeld' /\ Announced'
  BY <1>1 DEF IInv, TypeOK, BatchHeld, Announced, fileVars, sentVars
<1>3. m_files[c] = {}
  BY <1>1 DEF IInv, Local
<1>4. RegisteredFilesExact'
  BY <1>1, <1>3 DEF IInv, RegisteredFilesExact, fileVars
<1>5. ASSUME NEW e \in Conn PROVE pc'[e] = IF e = c THEN "member" ELSE pc[e]
  BY <1>1 DEF IInv, TypeOK
<1>6. Sharing'
  BY <1>1, <1>5 DEF IInv, Sharing, fileVars
<1>7. ASSUME NEW e \in Conn PROVE Local(e)'
  BY <1>1, <1>5 DEF IInv, Local, Inside, locks, fileVars
<1> QED
  BY <1>2, <1>4, <1>6, <1>7, <1>8 DEF IInv

\* The new id is above all others: the file is added and replaces none.
LEMMA ShareFileStep == ASSUME IInv, NEW c \in Conn, shareFile(c) PROVE IInv'
<1> DEFINE file == [id |-> m_fileIdCounter, host |-> c]
<1>1. /\ pc[c] = "sharing" /\ pc' = [pc EXCEPT ![c] = "handling"]
      /\ m_files' = [m_files EXCEPT ![c] = @ \cup {file}]
      /\ m_fileById' = {f \in m_fileById : f.id # file.id} \cup {file}
      /\ m_fileIdCounter' = m_fileIdCounter + 1
      /\ m_fileByIdLock' = Nobody
      /\ batch' = [batch EXCEPT ![c] = @ \cup {file}]
      /\ UNCHANGED <<m_roomsMutex, m_peerByIdLock, m_peerById, announced>>
  BY DEF shareFile, Moves
<1>2. TypeOK /\ RegisteredFilesExact /\ m_fileIdCounter \in 1..MaxFiles
  <2>1. m_fileIdCounter <= MaxFiles /\ TypeOK
    BY <1>1 DEF IInv, Sharing
  <2> QED
    BY <2>1, RoomFilesAssumption DEF TypeOK, IInv
<1>3. file \in File
  BY <1>2 DEF File
<1>4. \A e \in Conn : m_files'[e] = m_files[e] \cup IF e = c THEN {file} ELSE {}
  BY <1>1, <1>2 DEF TypeOK
<1>5. \A e \in Conn : pc'[e] = IF e = c THEN "handling" ELSE pc[e]
  BY <1>1, <1>2 DEF TypeOK
<1>6. c \in m_peerById /\ m_fileByIdLock = c
  BY <1>1 DEF IInv, Local, Inside
<1>7. \A f \in m_fileById : f.id # file.id
  BY <1>2 DEF IInv, Local, RegisteredFilesExact, TypeOK, File
<1>8. m_fileById' = m_fileById \cup {file}
  BY <1>1, <1>7
<1> HIDE DEF file
<1>9. TypeOK'
  <2>1. m_fileById' \subseteq File
    BY <1>2, <1>3, <1>8 DEF TypeOK
  <2>2. m_files' \in [Conn -> SUBSET File]
    BY <1>1, <1>2, <1>3 DEF TypeOK
  <2>3. m_fileIdCounter' \in 1..(MaxFiles + 1)
    BY <1>1, <1>2, RoomFilesAssumption
  <2>4. pc' \in [Conn -> PC]
    BY <1>1, <1>2 DEF TypeOK, PC
  <2>5. batch' \in [Conn -> SUBSET File]
    BY <1>1, <1>2, <1>3 DEF TypeOK
  <2> QED
    BY <1>1, <1>2, <2>1, <2>2, <2>3, <2>4, <2>5 DEF TypeOK
<1>13. BatchHeld'
  <2>1. batch \in [Conn -> SUBSET File]
    BY <1>2 DEF TypeOK
  <2> QED
    BY <1>1, <1>4, <1>5, <2>1 DEF IInv, BatchHeld
<1>14. Announced'
  <2>1. file \notin announced
    <3>1. file \in announced => file \in m_files[c]
      BY DEF IInv, Announced, file
    <3> QED
      BY <1>2, <3>1 DEF IInv, Local, file
  <2>2. batch \in [Conn -> SUBSET File]
    BY <1>2 DEF TypeOK
  <2>3. ASSUME NEW e \in Conn
        PROVE  m_files'[e] \ batch'[e] = m_files[e] \ batch[e]
    <3>1. CASE e = c
      <4>1. file \notin m_files[c]
        BY <1>2 DEF IInv, Local, file
      <4>2. m_files'[c] = m_files[c] \cup {file}
        BY <1>4
      <4>3. batch'[c] = batch[c] \cup {file}
        BY <1>1, <2>2
      <4> QED
        BY <3>1, <4>1, <4>2, <4>3 DEF IInv, BatchHeld
    <3>2. CASE e # c
      BY <1>1, <1>4, <2>2, <3>2
    <3> QED
      BY <3>1, <3>2
  <2> QED
    BY <1>1, <2>3 DEF IInv, Announced
<1>10. RegisteredFilesExact'
  BY <1>1, <1>2, <1>4, <1>6, <1>8 DEF RegisteredFilesExact, TypeOK
<1>11. Sharing'
  BY <1>5, <1>6 DEF IInv, Local, Sharing
<1>12. ASSUME NEW e \in Conn PROVE Local(e)'
  <2>1. Local(e) /\ m_fileIdCounter \in Nat
    BY <1>2 DEF IInv
  <2>2. e # c => pc[e] # "sharing"
    BY <1>6, <2>1 DEF Local
  <2>3. /\ e \in m_peerById' <=> pc'[e] \in Inside
        /\ pc'[e] \in {"idle", "connecting", "entered"} => m_files'[e] = {}
        /\ pc'[e] = "sharing" => m_fileByIdLock' = e
    BY <1>1, <1>4, <1>5, <2>1, <2>2 DEF Local, Inside
  <2>4. ASSUME NEW f \in m_files'[e]
        PROVE  f.host = e /\ f.id < m_fileIdCounter'
    <3>1. CASE f \in m_files[e]
      <4>1. f.host = e /\ f.id < m_fileIdCounter
        BY <2>1, <3>1 DEF Local
      <4>2. f.id \in Nat
        BY <1>2, <3>1 DEF TypeOK, File
      <4> QED
        BY <1>1, <2>1, <4>1, <4>2
    <3>2. CASE f = file /\ e = c
      BY <1>1, <1>2, <3>2 DEF file
    <3> QED
      BY <1>4, <3>1, <3>2
  <2> QED
    BY <2>3, <2>4 DEF Local
<1> QED
  BY <1>9, <1>10, <1>11, <1>12, <1>13, <1>14 DEF IInv

\* A leaver's files are its own: no other member loses one.
LEMMA RemovePeerStep == ASSUME IInv, NEW c \in Conn, removePeerById(c) PROVE IInv'
<1>1. /\ pc[c] = "removing" /\ pc' = [pc EXCEPT ![c] = "gone"]
      /\ m_fileById' = m_fileById \ m_files[c]
      /\ m_peerById' = m_peerById \ {c}
      /\ m_peerByIdLock' = Nobody
      /\ UNCHANGED <<m_roomsMutex, m_fileByIdLock, m_fileIdCounter, m_files,
                     sentVars>>
  BY DEF removePeerById, Moves
<1>2. TypeOK'
  BY <1>1 DEF IInv, TypeOK, PC, sentVars
<1>8. BatchHeld' /\ Announced'
  BY <1>1 DEF IInv, TypeOK, BatchHeld, Announced, sentVars
<1>3. \A e \in Conn \ {c} : m_files[e] \cap m_files[c] = {}
  BY DEF IInv, Local
<1>4. RegisteredFilesExact'
  <2>1. m_peerById \subseteq Conn /\ RegisteredFilesExact
    BY DEF IInv, TypeOK
  <2> QED
    BY <1>1, <1>3, <2>1 DEF RegisteredFilesExact
<1>5. \A e \in Conn : pc'[e] = IF e = c THEN "gone" ELSE pc[e]
  BY <1>1 DEF IInv, TypeOK
<1>6. Sharing'
  BY <1>1, <1>5 DEF IInv, Sharing
<1>7. ASSUME NEW e \in Conn PROVE Local(e)'
  BY <1>1, <1>5 DEF IInv, Local, Inside
<1> QED
  BY <1>2, <1>4, <1>6, <1>7, <1>8 DEF IInv

\* The ping loop and stuttering.
LEMMA QuietStep ==
  ASSUME IInv, PingLock \/ pingAllPeers \/ UNCHANGED vars PROVE IInv'
<1>1. UNCHANGED <<m_peerByIdLock, m_fileByIdLock, m_peerById, fileVars,
                  sentVars, pc>>
  BY DEF PingLock, pingAllPeers, vars, locks
<1>2. TypeOK'
  <2>1. m_roomsMutex' \in {PingLoop, Nobody}
    BY DEF PingLock, pingAllPeers, vars, locks, IInv, TypeOK
  <2> QED
    BY <1>1, <2>1 DEF IInv, TypeOK, fileVars, sentVars
<1>3. RegisteredFilesExact' /\ Sharing'
  BY <1>1 DEF IInv, RegisteredFilesExact, Sharing, fileVars
<1>5. BatchHeld' /\ Announced'
  BY <1>1 DEF IInv, BatchHeld, Announced, fileVars, sentVars
<1>4. ASSUME NEW c \in Conn PROVE Local(c)'
  BY <1>1 DEF IInv, Local, fileVars
<1> QED
  BY <1>2, <1>3, <1>4, <1>5 DEF IInv

LEMMA StepIInv == IInv /\ [Next]_vars => IInv'
<1> SUFFICES ASSUME IInv, [Next]_vars PROVE IInv'
  OBVIOUS
<1> USE RoomFilesAssumption
<1>1. TypeOK
  BY DEF IInv
<1>2. ASSUME NEW c \in Conn, Connect(c) \/ getOrCreateRoom(c) PROVE IInv'
  BY <1>1, <1>2, MoveStep
  DEF Connect, getOrCreateRoom, locks, TypeOK, PC, Inside
<1>3. ASSUME NEW c \in Conn, Close(c) PROVE IInv'
  BY <1>1, <1>3, MoveStep DEF Close, locks, TypeOK, PC, Inside
<1>6. ASSUME NEW c \in Conn, ReceiveFiles(c) PROVE IInv'
  <2>1. pc[c] = "member"
    BY <1>6 DEF ReceiveFiles, Moves
  <2>2. batch[c] = {}
    BY <2>1 DEF IInv, BatchHeld
  <2>3. announced' = announced \cup batch[c]
    BY <1>6, <2>2 DEF ReceiveFiles
  <2> QED
    BY <1>1, <1>6, <2>3, MoveStep
    DEF ReceiveFiles, locks, TypeOK, PC, Inside
<1>7. ASSUME NEW c \in Conn, Announce(c) PROVE IInv'
  <2>1. batch'[c] = {}
    BY <1>1, <1>7 DEF Announce, TypeOK
  <2> QED
    BY <1>1, <1>7, <2>1, MoveStep DEF Announce, locks, TypeOK, PC, Inside
<1>4. ASSUME NEW c \in Conn, ShareLock(c) PROVE IInv'
  BY <1>1, <1>4, MoveStep DEF ShareLock, TypeOK, PC, Inside
<1>5. ASSUME NEW c \in Conn, RemoveLock(c) PROVE IInv'
  BY <1>1, <1>5, MoveStep DEF RemoveLock, TypeOK, PC, Inside
<1> QED
  BY <1>2, <1>3, <1>4, <1>5, <1>6, <1>7, AddPeerStep, ShareFileStep, RemovePeerStep,
     QuietStep
  DEF Next

LEMMA SpecIInv == Spec => []IInv
<1> QED
  BY InitIInv, StepIInv, PTL DEF Spec

----------------------------------------------------------------------------
\* Type correctness: m_fileIdCounter counts the files that were shared.
THEOREM RoomFilesTypeCorrect == Spec => []TypeOK
<1>1. IInv => TypeOK
  BY DEF IInv
<1> QED
  BY <1>1, SpecIInv, PTL

\* However sharing and leaving interleave, getFileById finds the files of
\* the members and no others, each under the id it was given.
THEOREM RoomFilesExact == Spec => []RegisteredFilesExact
<1>1. IInv => RegisteredFilesExact
  BY DEF IInv
<1> QED
  BY <1>1, SpecIInv, PTL

\* The announcements are exact too, though sharing holds m_fileByIdLock once
\* for each file and the message is sent with neither lock held before.
THEOREM RoomFilesAnnounced == Spec => []AnnouncedExact
<1>1. IInv => AnnouncedExact
  <2> SUFFICES ASSUME IInv, NEW c \in m_peerById
      PROVE  /\ {f \in announced : f.host = c} = m_files[c] \ batch[c]
             /\ batch[c] \subseteq m_files[c] \cap m_fileById
    BY DEF AnnouncedExact
  <2>1. c \in Conn
    BY DEF IInv, TypeOK
  <2>2. m_files[c] \subseteq m_fileById
    BY DEF IInv, RegisteredFilesExact
  <2> QED
    BY <2>1, <2>2 DEF IInv, BatchHeld, Announced
<1> QED
  BY <1>1, SpecIInv, PTL

----------------------------------------------------------------------------
(* The deadlock *)

\* Each of the two locks is held by the handler that is inside, if any.
LocksHeld ==
  \A c \in Conn : /\ m_fileByIdLock = c <=> pc[c] = "sharing"
                  /\ m_peerByIdLock = c <=> pc[c] = "removing"

LEMMA SpecLocksHeld == Spec => [](TypeOK /\ LocksHeld)
<1>1. Init => LocksHeld
  BY RoomFilesAssumption DEF Init, LocksHeld
<1>2. TypeOK /\ LocksHeld /\ [Next]_vars => LocksHeld'
  <2> SUFFICES ASSUME TypeOK, LocksHeld, [Next]_vars PROVE LocksHeld'
    OBVIOUS
  <2> USE RoomFilesAssumption DEF LocksHeld, TypeOK, Moves
  <2>1. ASSUME NEW c \in Conn,
               Connect(c) \/ getOrCreateRoom(c) \/ addPeer(c) \/ ReceiveFiles(c)
                 \/ Announce(c) \/ Close(c)
        PROVE  LocksHeld'
    BY <2>1 DEF Connect, getOrCreateRoom, addPeer, ReceiveFiles, Announce, Close,
                locks
  <2>2. ASSUME NEW c \in Conn, ShareLock(c) \/ shareFile(c) PROVE LocksHeld'
    BY <2>2 DEF ShareLock, shareFile
  <2>3. ASSUME NEW c \in Conn, RemoveLock(c) \/ removePeerById(c) PROVE LocksHeld'
    BY <2>3 DEF RemoveLock, removePeerById
  <2>4. CASE PingLock \/ pingAllPeers \/ UNCHANGED vars
    BY <2>4 DEF PingLock, pingAllPeers, vars, locks
  <2> QED
    BY <2>1, <2>2, <2>3, <2>4 DEF Next
<1> QED
  BY <1>1, <1>2, RoomFilesTypeCorrect, PTL DEF Spec

\* A leaver inside removePeerById and a sharer inside shareFile.
Embrace(r, s) == pc[r] = "removing" /\ pc[s] = "sharing"

\* Both stay where they are, and once the ping loop has come to this Room with
\* m_roomsMutex, so do all that are about to join one.
DeadlockStays ==
  \A r, s \in Conn : Embrace(r, s) =>
    /\ Embrace(r, s)'
    /\ m_roomsMutex = PingLoop =>
         /\ m_roomsMutex' = PingLoop
         /\ \A c \in Conn : pc[c] = "connecting" => pc'[c] = "connecting"

\* removePeerById and shareFile take m_peerByIdLock and m_fileByIdLock in
\* opposite order.  When a leaver and a sharer meet there, no step of any
\* thread ever frees them, whatever the number of connections; the ping loop
\* then keeps everybody out of every Room.
THEOREM RoomFilesDeadlockStays == Spec => [][DeadlockStays]_vars
<1>1. TypeOK /\ LocksHeld /\ [Next]_vars => [DeadlockStays]_vars
  <2> SUFFICES ASSUME TypeOK, LocksHeld, Next, NEW r \in Conn, NEW s \in Conn,
                      Embrace(r, s)
               PROVE  /\ Embrace(r, s)'
                      /\ m_roomsMutex = PingLoop =>
                           /\ m_roomsMutex' = PingLoop
                           /\ \A c \in Conn :
                                pc[c] = "connecting" => pc'[c] = "connecting"
    BY DEF DeadlockStays
  <2>1. m_peerByIdLock = r /\ m_fileByIdLock = s
    BY DEF LocksHeld, Embrace
  <2>2. r # Nobody /\ s # Nobody /\ PingLoop # Nobody
    BY RoomFilesAssumption
  <2> USE DEF TypeOK, Moves, Embrace
  <2>3. ASSUME NEW c \in Conn,
               Connect(c) \/ getOrCreateRoom(c) \/ ReceiveFiles(c) \/ Close(c)
        PROVE  /\ Embrace(r, s)'
               /\ m_roomsMutex = PingLoop =>
                    /\ m_roomsMutex' = PingLoop
                    /\ \A e \in Conn :
                         pc[e] = "connecting" => pc'[e] = "connecting"
    BY <2>2, <2>3 DEF Connect, getOrCreateRoom, ReceiveFiles, Close, locks
  <2>4. ASSUME NEW c \in Conn,
               addPeer(c) \/ ShareLock(c) \/ shareFile(c) \/ Announce(c)
                 \/ RemoveLock(c) \/ removePeerById(c)
        PROVE  FALSE
    BY <2>1, <2>2, <2>4
    DEF addPeer, ShareLock, shareFile, Announce, RemoveLock, removePeerById
  <2>5. ASSUME pingAllPeers PROVE FALSE
    BY <2>1, <2>2, <2>5 DEF pingAllPeers
  <2>6. CASE PingLock
    BY <2>6 DEF PingLock
  <2> QED
    BY <2>3, <2>4, <2>5, <2>6 DEF Next
<1> QED
  BY <1>1, SpecLocksHeld, PTL DEF Spec
=============================================================================
