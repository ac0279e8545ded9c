---------------------------- MODULE LobbyProofs ----------------------------
(***************************************************************************)
(* What modules Lobby and Ownership promise, for any number of connections *)
(* and names.                                                              *)
(*                                                                         *)
(* RosterExact rests on the uniqueness of peer ids, RegisteredRoomHasKeeper *)
(* on the fact that a Room never serves two names; both join TypeOK in the *)
(* inductive invariant IInv.                                               *)
(***************************************************************************)
EXTENDS Ownership, TLAPS

\* Distinct peers have distinct ids, all handed out already.
PeerIdsUnique ==
  \A c \in Conn : pc[c] # "idle" =>
    /\ peerId[c] < m_peerIdCounter
    /\ \A d \in Conn : pc[d] # "idle" /\ peerId[d] = peerId[c] => d = c

\* A connection has a Room from the first half of onAfterCreate on.
RoomHeld == \A c \in Conn : pc[c] # "idle" <=> room[c] # NoRoom

\* A Room object only ever serves the name it was created for.
RoomServesOneName ==
  /\ \A n \in Name : m_rooms[n] # NoRoom => roomName[m_rooms[n]] = n
  /\ \A c \in Conn : room[c] # NoRoom => roomName[room[c]] = roomName[c]

IInv == /\ TypeOK
        /\ PeerIdsUnique
        /\ RoomHeld
        /\ RoomServesOneName
        /\ RosterExact
        /\ RegisteredRoomHasKeeper

----------------------------------------------------------------------------
\* Initially no connection has entered and no Room exists.
LEMMA InitIInv == Init => IInv
<1> SUFFICES ASSUME Init PROVE IInv
  OBVIOUS
<1> USE DEF Init
<1>1. TypeOK
  <2>1. /\ m_peerById \in [Conn -> SUBSET Conn]
        /\ m_rooms \in [Name -> Conn \cup {NoRoom}]
        /\ room \in [Conn -> Conn \cup {NoRoom}]
    OBVIOUS
  <2>2. pc \in [Conn -> PC] /\ roomName \in [Conn -> Name]
    BY DEF PC
  <2>3. /\ m_peerIdCounter \in Nat \ {0}
        /\ peerId \in [Conn -> Nat]
        /\ m_pingPoingCounter \in [Conn -> Nat]
    OBVIOUS
  <2>4. /\ m_socket \in [Conn -> BOOLEAN] /\ lost \in [Conn -> BOOLEAN]
        /\ m_files \in [Conn -> BOOLEAN]
        /\ pinging \in BOOLEAN /\ pingLeft \subseteq Name
    OBVIOUS
  <2> QED
    BY <2>1, <2>2, <2>3, <2>4 DEF TypeOK
<1>2. PeerIdsUnique /\ RoomHeld
  BY DEF PeerIdsUnique, RoomHeld
<1>3. RoomServesOneName
  BY LobbyAssumption DEF RoomServesOneName
<1>4. RosterExact
  BY DEF RosterExact
<1>5. RegisteredRoomHasKeeper
  BY DEF RegisteredRoomHasKeeper
<1> QED
  BY <1>1, <1>2, <1>3, <1>4, <1>5 DEF IInv

\* Every step of every handler and of the ping loop keeps the variables in
\* their types; only isEmpty's answer and the counters need a look.
LEMMA TypeStep == TypeOK /\ [Next]_vars => TypeOK'
<1> SUFFICES ASSUME TypeOK, [Next]_vars PROVE TypeOK'
  OBVIOUS
<1> USE LobbyAssumption DEF TypeOK, PC, Moves
<1>1. ASSUME NEW c \in Conn, Enter(c) PROVE TypeOK'
  <2>1. DEFINE found == m_rooms[roomName[c]]
               r == IF found = NoRoom THEN c ELSE found
  <2>2. r \in Conn
    OBVIOUS
  <2> QED
    BY <1>1, <2>2 DEF Enter, getOrCreateRoom, obtainNewPeerId, pingVars
<1>2. ASSUME NEW c \in Conn, AddPeer(c) PROVE TypeOK'
  BY <1>2 DEF AddPeer, OtherPeers, pingVars
<1>3. ASSUME NEW c \in Conn, RemovePeer(c) PROVE TypeOK'
  BY <1>3 DEF RemovePeer, OtherPeers, pingVars
<1>4. ASSUME NEW c \in Conn, LeaveRoom(c) PROVE TypeOK'
  BY <1>4 DEF LeaveRoom, pingVars
<1>5. ASSUME NEW c \in Conn, DeleteRoom(c) PROVE TypeOK'
  BY <1>5 DEF DeleteRoom, pingVars
<1>6. ASSUME NEW c \in Conn, Pong(c) PROVE TypeOK'
  BY <1>6 DEF Pong, registryVars
<1>7. ASSUME NEW c \in Conn, Lose(c) PROVE TypeOK'
  BY <1>7 DEF Lose, registryVars
<1>12. ASSUME NEW c \in Conn, ShareFile(c) PROVE TypeOK'
  BY <1>12 DEF ShareFile, registryVars, pingVars
<1>8. CASE PingBegin
  BY <1>8 DEF PingBegin, registryVars
<1>9. CASE PingEnd
  BY <1>9 DEF PingEnd, registryVars
<1>10. ASSUME NEW n \in Name, PingRoom(n) PROVE TypeOK'
  BY <1>10 DEF PingRoom, PingSent, registryVars
<1>11. CASE UNCHANGED vars
  BY <1>11 DEF vars, registryVars, pingVars
<1> QED
  BY <1>1, <1>2, <1>3, <1>4, <1>5, <1>6, <1>7, <1>8, <1>9, <1>10, <1>11,
     <1>12
  DEF Next

LEMMA RegistryFrame ==
  ASSUME IInv, UNCHANGED registryVars, TypeOK'
  PROVE  IInv'
BY DEF IInv, registryVars, PeerIdsUnique, RoomHeld, RoomServesOneName,
       RosterExact, RegisteredRoomHasKeeper

\* First half of onAfterCreate: a fresh id, a Room of the right name.
LEMMA EnterKeeps ==
  ASSUME IInv, TypeOK', NEW c \in Conn, Enter(c)
  PROVE  IInv'
<1> DEFINE found == m_rooms[roomName[c]]
           r == IF found = NoRoom THEN c ELSE found
<1> USE LobbyAssumption DEF IInv, TypeOK, PC, Enter, Moves, pingVars
<1>1. /\ pc[c] = "idle" /\ pc' = [pc EXCEPT ![c] = "entered"]
      /\ room' = [room EXCEPT ![c] = r]
      /\ m_rooms' = [m_rooms EXCEPT ![roomName[c]] = r]
      /\ r \in Conn /\ roomName[r] = roomName[c]
      /\ UNCHANGED <<m_peerById, roomName>>
  BY DEF getOrCreateRoom, RoomServesOneName
<1>2. /\ peerId' = [peerId EXCEPT ![c] = m_peerIdCounter]
      /\ m_peerIdCounter' = m_peerIdCounter + 1
  BY DEF obtainNewPeerId
<1> HIDE DEF r, Enter
<1>3. PeerIdsUnique'
  BY <1>1, <1>2 DEF PeerIdsUnique
<1>4. RoomHeld'
  BY <1>1 DEF RoomHeld
<1>5. RoomServesOneName'
  BY <1>1 DEF RoomServesOneName
<1>6. RosterExact'
  BY <1>1 DEF RosterExact
<1>7. RegisteredRoomHasKeeper'
  BY <1>1 DEF RegisteredRoomHasKeeper
<1> QED
  BY <1>3, <1>4, <1>5, <1>6, <1>7

\* addPeer and removePeerById put in and take out this peer and no other,
\* since no other peer has its id.
LEMMA OtherPeersExact ==
  ASSUME IInv, NEW c \in Conn, pc[c] # "idle"
  PROVE  OtherPeers(c) =
           {q \in Conn : pc[q] = "member" /\ room[q] = room[c]} \ {c}
BY DEF IInv, TypeOK, RoomHeld, RosterExact, PeerIdsUnique, OtherPeers

LEMMA AddPeerKeeps ==
  ASSUME IInv, TypeOK', NEW c \in Conn, AddPeer(c)
  PROVE  IInv'
<1> USE DEF IInv, TypeOK, PC, AddPeer, Moves
<1>1. RosterExact'
  <2>1. /\ pc[c] = "entered" /\ room[c] \in Conn
        /\ OtherPeers(c) =
             {q \in Conn : pc[q] = "member" /\ room[q] = room[c]} \ {c}
    BY OtherPeersExact DEF RoomHeld
  <2>2. ASSUME NEW r \in Conn
        PROVE  m_peerById'[r] =
                 {q \in Conn : pc'[q] = "member" /\ room'[q] = r}
    <3>1. CASE r = room[c]
      <4>1. m_peerById'[r] = OtherPeers(c) \cup {c}
        BY <2>1, <3>1
      <4> QED
        BY <2>1, <3>1, <4>1
    <3>2. CASE r # room[c]
      BY <2>1, <3>2 DEF RosterExact
    <3> QED
      BY <3>1, <3>2
  <2> QED
    BY <2>2 DEF RosterExact
<1>2. PeerIdsUnique' /\ RoomHeld' /\ RoomServesOneName'
  BY DEF PeerIdsUnique, RoomHeld, RoomServesOneName
<1>3. RegisteredRoomHasKeeper'
  BY DEF RegisteredRoomHasKeeper
<1> QED
  BY <1>1, <1>2, <1>3

LEMMA RemovePeerKeeps ==
  ASSUME IInv, TypeOK', NEW c \in Conn, RemovePeer(c)
  PROVE  IInv'
<1> USE DEF IInv, TypeOK, PC, RemovePeer, Moves
<1>1. RosterExact'
  BY OtherPeersExact DEF RosterExact
<1>2. PeerIdsUnique' /\ RoomHeld' /\ RoomServesOneName'
  BY DEF PeerIdsUnique, RoomHeld, RoomServesOneName
<1>3. RegisteredRoomHasKeeper'
  BY DEF RegisteredRoomHasKeeper
<1> QED
  BY <1>1, <1>2, <1>3

\* A leaver that finds the Room occupied leaves a keeper behind: the map is
\* exact, so its entry is a connection that is still a member.
LEMMA LeaveRoomKeeps ==
  ASSUME IInv, TypeOK', NEW c \in Conn, LeaveRoom(c)
  PROVE  IInv'
<1> USE DEF IInv, TypeOK, PC, LeaveRoom, Moves, isEmpty
<1>1. RosterExact'
  BY DEF RosterExact
<1>2. PeerIdsUnique' /\ RoomHeld' /\ RoomServesOneName'
  BY DEF PeerIdsUnique, RoomHeld, RoomServesOneName
<1>3. RegisteredRoomHasKeeper'
  <2> SUFFICES ASSUME NEW n \in Name, m_rooms[n] # NoRoom
               PROVE  \E d \in Conn :
                        /\ room[d] = m_rooms[n] /\ roomName[d] = n
                        /\ pc'[d] \in {"entered", "member", "removed",
                                       "deleting"}
    BY DEF RegisteredRoomHasKeeper
  <2>1. PICK d \in Conn : /\ room[d] = m_rooms[n] /\ roomName[d] = n
                          /\ pc[d] \in {"entered", "member", "removed",
                                        "deleting"}
    BY DEF RegisteredRoomHasKeeper
  <2>2. CASE d # c \/ isEmpty(room[c])
    BY <2>1, <2>2
  <2>3. CASE d = c /\ ~isEmpty(room[c])
    <3>1. PICK q \in Conn : pc[q] = "member" /\ room[q] = room[c]
      BY <2>1, <2>3 DEF RosterExact
    <3>2. roomName[q] = n
      BY <2>1, <2>3, <3>1 DEF RoomServesOneName
    <3> QED
      BY <2>1, <2>3, <3>1, <3>2
  <2> QED
    BY <2>2, <2>3
<1> QED
  BY <1>1, <1>2, <1>3

LEMMA DeleteRoomKeeps ==
  ASSUME IInv, TypeOK', NEW c \in Conn, DeleteRoom(c)
  PROVE  IInv'
<1> USE LobbyAssumption DEF IInv, TypeOK, PC, DeleteRoom, Moves, pingVars
<1>1. RosterExact'
  BY DEF RosterExact
<1>2. PeerIdsUnique' /\ RoomHeld'
  BY DEF PeerIdsUnique, RoomHeld
<1>3. RoomServesOneName'
  BY DEF RoomServesOneName
<1>4. RegisteredRoomHasKeeper'
  BY DEF RegisteredRoomHasKeeper
<1> QED
  BY <1>1, <1>2, <1>3, <1>4

LEMMA StepIInv == IInv /\ [Next]_vars => IInv'
<1> SUFFICES ASSUME IInv, [Next]_vars PROVE IInv'
  OBVIOUS
<1>1. TypeOK'
  BY TypeStep DEF IInv
<1>2. ASSUME NEW c \in Conn, Enter(c) PROVE IInv'
  BY <1>1, <1>2, EnterKeeps
<1>3. ASSUME NEW c \in Conn, AddPeer(c) PROVE IInv'
  BY <1>1, <1>3, AddPeerKeeps
<1>4. ASSUME NEW c \in Conn, RemovePeer(c) PROVE IInv'
  BY <1>1, <1>4, RemovePeerKeeps
<1>5. ASSUME NEW c \in Conn, LeaveRoom(c) PROVE IInv'
  BY <1>1, <1>5, LeaveRoomKeeps
<1>6. ASSUME NEW c \in Conn, DeleteRoom(c) PROVE IInv'
  BY <1>1, <1>6, DeleteRoomKeeps
<1>7. CASE UNCHANGED registryVars
  BY <1>1, <1>7, RegistryFrame
<1>8. ASSUME NEW c \in Conn, Pong(c) \/ Lose(c) \/ ShareFile(c)
      PROVE  UNCHANGED registryVars
  BY <1>8 DEF Pong, Lose, ShareFile
<1>9. ASSUME NEW n \in Name, PingRoom(n) PROVE UNCHANGED registryVars
  BY <1>9 DEF PingRoom
<1>10. PingBegin \/ PingEnd \/ UNCHANGED vars => UNCHANGED registryVars
  BY DEF PingBegin, PingEnd, vars
<1> QED
  BY <1>2, <1>3, <1>4, <1>5, <1>6, <1>7, <1>8, <1>9, <1>10 DEF Next

LEMMA SpecIInv == Spec => []IInv
<1> QED
  BY InitIInv, StepIInv, PTL DEF Spec

----------------------------------------------------------------------------
\* Type correctness of the registry, for any number of connections.
THEOREM LobbyTypeCorrect == Spec => []TypeOK
<1>1. IInv => TypeOK
  BY DEF IInv
<1> QED
  BY <1>1, SpecIInv, PTL

\* The map of every Room is exactly the set of peers between addPeer and
\* removePeerById: Lobby.cpp's counter never gives one id twice.
THEOREM LobbyRosterExact == Spec => []RosterExact
<1>1. IInv => RosterExact
  BY DEF IInv
<1> QED
  BY <1>1, SpecIInv, PTL

\* Whatever order joins and leaves take, a registered Room still has a
\* connection that will run deleteRoom or is a member: names do not leak.
THEOREM LobbyNoNameLeaks == Spec => []RegisteredRoomHasKeeper
<1>1. IInv => RegisteredRoomHasKeeper
  BY DEF IInv
<1> QED
  BY <1>1, SpecIInv, PTL

----------------------------------------------------------------------------
(***************************************************************************)
(* What reference counting frees.                                          *)
(*                                                                         *)
(* That an object is freed is shown by following the references to it back *)
(* until none is left; that it is not, by a set that keeps itself alive: a *)
(* websocket that a coroutine holds, its Peer, and their Room.  The first  *)
(* needs the registry's invariant and that a leaver has reset its socket.   *)
(***************************************************************************)

\* Whoever is past invalidateSocket has no socket, and only who has been a
\* member has files.
Released ==
  \A c \in Conn : /\ pc[c] \in {"deleting", "gone"} => ~m_socket[c]
                  /\ m_files[c] => pc[c] # "idle"

OInv == IInv /\ Released

LEMMA SpecOInv == Spec => []OInv
<1>1. Init => Released
  BY DEF Init, Released
<1>2. IInv /\ Released /\ [Next]_vars => Released'
  <2> SUFFICES ASSUME IInv, Released, [Next]_vars PROVE Released'
    OBVIOUS
  <2> USE DEF IInv, TypeOK, PC, Released, Moves
  <2>1. ASSUME NEW c \in Conn, Enter(c) PROVE Released'
    BY <2>1 DEF Enter, getOrCreateRoom, obtainNewPeerId
  <2>2. ASSUME NEW c \in Conn, AddPeer(c) \/ RemovePeer(c) \/ DeleteRoom(c)
        PROVE  Released'
    BY <2>2 DEF AddPeer, RemovePeer, DeleteRoom
  <2>3. ASSUME NEW c \in Conn, LeaveRoom(c) PROVE Released'
    BY <2>3 DEF LeaveRoom
  <2>4. ASSUME NEW c \in Conn, ShareFile(c) PROVE Released'
    BY <2>4 DEF ShareFile, registryVars
  <2>5. ASSUME NEW c \in Conn, Pong(c) \/ Lose(c) PROVE Released'
    BY <2>5 DEF Pong, Lose, registryVars
  <2>6. ASSUME NEW n \in Name, PingRoom(n) PROVE Released'
    BY <2>6 DEF PingRoom, registryVars
  <2>7. PingBegin \/ PingEnd \/ UNCHANGED vars => Released'
    BY DEF PingBegin, PingEnd, vars, registryVars
  <2> QED
    BY <2>1, <2>2, <2>3, <2>4, <2>5, <2>6, <2>7 DEF Next
<1> QED
  BY <1>1, <1>2, SpecIInv, PTL DEF Spec, OInv

----------------------------------------------------------------------------
(* What exists, and what refers to it *)

LEMMA ObjectKinds ==
  ASSUME OInv, NEW o \in Object
  PROVE  /\ o.of \in Conn
         /\ o \in {Socket(o.of), Peer(o.of), File(o.of), Room(o.of)}
         /\ o.kind = "AsyncWebSocket" => o = Socket(o.of) /\ pc[o.of] # "idle"
         /\ o.kind = "Peer" => o = Peer(o.of) /\ pc[o.of] # "idle"
         /\ o.kind = "File" => o = File(o.of) /\ m_files[o.of]
         /\ o.kind = "Room" => o = Room(o.of)
BY DEF Object, Socket, Peer, File, Room, OInv, IInv, TypeOK, RoomHeld

\* The socket of a connection that is over, and that no coroutine holds, is
\* referred to by nobody.
LEMMA SocketFreed ==
  ASSUME OInv, NEW c \in Conn, pc[c] = "gone", c \notin coroutines
  PROVE  Freed(Socket(c))
<1> SUFFICES ASSUME NEW S \in SUBSET Object, Socket(c) \in S, KeptAlive(S)
             PROVE  FALSE
  BY DEF Freed
<1>1. ~Rooted(Socket(c))
  BY DEF Rooted, Socket
<1>2. PICK p \in S : Refers(p, Socket(c))
  BY <1>1 DEF KeptAlive
<1>3. ~m_socket[c]
  BY DEF OInv, Released
<1> QED
  BY <1>2, <1>3 DEF Refers, Socket, Peer, File, Room

\* A Peer that shared nothing is referred to by its socket at most.
LEMMA PeerFreed ==
  ASSUME OInv, NEW c \in Conn, pc[c] = "gone", c \notin coroutines, ~m_files[c]
  PROVE  Freed(Peer(c))
<1> SUFFICES ASSUME NEW S \in SUBSET Object, Peer(c) \in S, KeptAlive(S)
             PROVE  FALSE
  BY DEF Freed
<1>1. ~Rooted(Peer(c))
  BY DEF Rooted, Peer
<1>2. PICK p \in S : Refers(p, Peer(c))
  BY <1>1 DEF KeptAlive
<1>3. Socket(c) \notin S
  BY SocketFreed DEF Freed
<1>4. File(c) \notin S
  BY ObjectKinds DEF File
<1>5. ~(p.kind = "Room" /\ c \in m_peerById[p.of])
  BY ObjectKinds DEF OInv, IInv, RosterExact
<1> QED
  BY <1>2, <1>3, <1>4, <1>5 DEF Refers, Socket, Peer, File, Room

\* A coroutine keeps the websocket, that its listener, and that the Room.
LEMMA WriterKeepsPeer ==
  ASSUME NEW c \in Conn, pc[c] # "idle", c \in coroutines
  PROVE  ~Freed(Peer(c))
<1> DEFINE S == {Socket(c), Peer(c), Room(room[c])}
<1>1. S \in SUBSET Object
  BY DEF Object
<1>2. KeptAlive(S)
  <2>1. Rooted(Socket(c))
    BY DEF Rooted, Socket
  <2>2. Refers(Socket(c), Peer(c)) /\ Refers(Peer(c), Room(room[c]))
    BY DEF Refers, Peer, File, Room, Socket
  <2> QED
    BY <2>1, <2>2 DEF KeptAlive
<1> QED
  BY <1>1, <1>2 DEF Freed

----------------------------------------------------------------------------
\* A step of the coroutines changes nothing of the registry.
LEMMA OwnSpecOInv == OwnSpec => []OInv
<1>1. OwnInit => Init
  BY DEF OwnInit
<1>2. [OwnNext]_<<vars, heldVars>> => [Next]_vars
  <2> SUFFICES ASSUME [OwnNext]_<<vars, heldVars>> PROVE [Next]_vars
    OBVIOUS
  <2>1. ASSUME NEW c \in Conn,
               StartSend(c) \/ EndSend(c) \/ StartDownload(c) \/ EndDownload(c)
        PROVE  UNCHANGED vars
    BY <2>1 DEF StartSend, EndSend, StartDownload, EndDownload
  <2> QED
    BY <2>1 DEF OwnNext
<1>3. OwnSpec => Spec
  BY <1>1, <1>2, PTL DEF OwnSpec, Spec
<1> QED
  BY <1>3, SpecOInv, PTL

\* Whatever coroutines are still under way when a connection ends: while one
\* is, the Peer whose lock it uses stays; after the last one the websocket is
\* destroyed, and the Peer if it never shared a file.
THEOREM OwnershipLeaversFreed == OwnSpec => []LeaversFreed
<1>1. OInv => LeaversFreed
  <2> SUFFICES ASSUME OInv, NEW c \in Conn, pc[c] = "gone"
               PROVE  IF c \in coroutines THEN ~Freed(Peer(c))
                      ELSE Freed(Socket(c)) /\ (m_files[c] \/ Freed(Peer(c)))
    BY DEF LeaversFreed
  <2>1. CASE c \in coroutines
    BY <2>1, WriterKeepsPeer
  <2>2. CASE c \notin coroutines
    BY <2>2, SocketFreed, PeerFreed DEF OInv, IInv, TypeOK
  <2> QED
    BY <2>1, <2>2
<1> QED
  BY <1>1, OwnSpecOInv, PTL

\* A Room that all its users have left, in which nobody ever shared a file, is
\* destroyed with the last coroutine that writes to one of them: no order of
\* joins and leaves keeps its name.
THEOREM OwnershipRoomsFreed == OwnSpec => []RoomsFreed
<1>1. OInv => RoomsFreed
  <2> SUFFICES ASSUME OInv, NEW r \in Conn, Abandoned(r),
                      \A c \in Conn : room[c] = r => ~m_files[c]
               PROVE  Freed(Room(r))
    BY DEF RoomsFreed
  <2>1. \A c \in Conn : room[c] = r => pc[c] = "gone" /\ c \notin coroutines
    BY DEF Abandoned
  <2> SUFFICES ASSUME NEW S \in SUBSET Object, Room(r) \in S, KeptAlive(S)
               PROVE  FALSE
    BY DEF Freed
  <2>2. ~Rooted(Room(r))
    BY <2>1, LobbyAssumption DEF Rooted, Room, OInv, IInv,
       RegisteredRoomHasKeeper
  <2>3. PICK p \in S : Refers(p, Room(r))
    BY <2>2 DEF KeptAlive
  <2>4. p.kind = "Peer" /\ room[p.of] = r
    BY <2>3 DEF Refers, Socket, Peer, File, Room
  <2>5. p = Peer(p.of) /\ p.of \in Conn
    BY <2>4, ObjectKinds
  <2> QED
    BY <2>1, <2>4, <2>5, PeerFreed DEF Freed
<1> QED
  BY <1>1, OwnSpecOInv, PTL
=============================================================================
