------------------------------- MODULE Lobby -------------------------------
(***************************************************************************)
(* The room registry of the chat server: Lobby.cpp with the membership     *)
(* half of Room.cpp and the ping counter of Peer.cpp.                       *)
(*                                                                         *)
(* Every websocket runs onAfterCreate_NonBlocking, then its read coroutine, *)
(* then onBeforeDestroy_NonBlocking, on some executor thread; the ping loop *)
(* is one more thread.  A step of the model is a stretch of code between    *)
(* two lock acquisitions, so every check-then-act of the handlers is        *)
(* visible.  A Room object is named by the connection that created it (one  *)
(* call of getOrCreateRoom makes at most one Room), a Peer by its           *)
(* connection.  The messages the handlers send are in module Room.          *)
(***************************************************************************)
EXTENDS Integers, FiniteSets

CONSTANTS Conn,       \* websocket connections, each used once
          Name,       \* room names (the {roomId} of the URL)
          NoRoom,     \* the null std::shared_ptr<Room>
          MaxMissed   \* bound on m_pingPoingCounter

ASSUME LobbyAssumption == NoRoom \notin Conn /\ MaxMissed \in Nat

VARIABLES
  m_rooms,            \* Lobby::m_rooms: name -> Room object or NoRoom
  m_peerIdCounter,    \* Lobby::m_peerIdCounter
  m_peerById,         \* Room::m_peerById: Room object -> its peers
  pc,                 \* where the connection's handler is
  roomName,           \* the "roomName" connection parameter
  room,               \* Peer::m_room
  peerId,             \* Peer::m_peerId
  m_socket,           \* is Peer::m_socket still set?
  m_files,            \* is there a file in Peer::m_files?
  m_pingPoingCounter, \* Peer::m_pingPoingCounter
  lost,               \* has the client vanished without closing?
  pinging,            \* does the ping loop hold m_roomsMutex?
  pingLeft            \* names the current pass has still to visit

registryVars == <<m_rooms, m_peerIdCounter, m_peerById, pc, roomName, room,
                  peerId>>
pingVars == <<m_pingPoingCounter, lost, pinging, pingLeft>>
vars == <<registryVars, m_files, m_socket, pingVars>>

\* idle -> entered (owns its Room, not in it) -> member -> removed
\* (removePeerById done) -> deleting (isEmpty() returned true) -> gone
PC == {"idle", "entered", "member", "removed", "deleting", "gone"}

Init ==
  /\ m_rooms = [n \in Name |-> NoRoom]
  /\ m_peerIdCounter = 1
  /\ m_peerById = [r \in Conn |-> {}]
  /\ pc = [c \in Conn |-> "idle"]
  /\ roomName \in [Conn -> Name]
  /\ room = [c \in Conn |-> NoRoom]
  /\ peerId = [c \in Conn |-> 0]
  /\ m_socket = [c \in Conn |-> FALSE]
  /\ m_files = [c \in Conn |-> FALSE]
  /\ m_pingPoingCounter = [c \in Conn |-> 0]
  /\ lost = [c \in Conn |-> FALSE]
  /\ pinging = FALSE
  /\ pingLeft = {}

----------------------------------------------------------------------------
(* onAfterCreate_NonBlocking *)

Moves(c, from, to) == pc[c] = from /\ pc' = [pc EXCEPT ![c] = to]

\* The std::mutex m_roomsMutex can be locked.
RoomsMutexFree == ~pinging

\* getOrCreateRoom: look the name up, create a Room in an empty slot.
getOrCreateRoom(c) ==
  LET found == m_rooms[roomName[c]]
      r     == IF found = NoRoom THEN c ELSE found
  IN  /\ RoomsMutexFree
      /\ m_rooms' = [m_rooms EXCEPT ![roomName[c]] = r]
      /\ room' = [room EXCEPT ![c] = r]

\* Mutant: the counter is read but not advanced.
obtainSamePeerId(c) ==
  /\ peerId' = [peerId EXCEPT ![c] = m_peerIdCounter]
  /\ UNCHANGED m_peerIdCounter

\* Mutant: the counter runs down instead of up.
obtainPeerIdDownwards(c) ==
  /\ peerId' = [peerId EXCEPT ![c] = m_peerIdCounter]
  /\ m_peerIdCounter' = m_peerIdCounter - 1

\* obtainNewPeerId: one atomic fetch-and-add.
obtainNewPeerId(c) ==
  /\ peerId' = [peerId EXCEPT ![c] = m_peerIdCounter]
  /\ m_peerIdCounter' = m_peerIdCounter + 1

\* The first half of onAfterCreate_NonBlocking: the Room is found, the Peer
\* built.  (The fetch-and-add commutes with every other step.)
Enter(c) ==
  /\ Moves(c, "idle", "entered")
  /\ getOrCreateRoom(c)
  /\ obtainNewPeerId(c)
  /\ m_socket' = [m_socket EXCEPT ![c] = TRUE]
  /\ UNCHANGED <<m_peerById, roomName, m_files, pingVars>>

\* The entries of a Room's map under another key than peer c's id.
OtherPeers(c) == {q \in m_peerById[room[c]] : peerId[q] # peerId[c]}

\* addPeer: m_peerById[peer->getPeerId()] = peer overwrites an equal key.
AddPeer(c) ==
  /\ Moves(c, "entered", "member")
  /\ m_peerById' = [m_peerById EXCEPT ![room[c]] = OtherPeers(c) \cup {c}]
  /\ UNCHANGED <<m_rooms, m_peerIdCounter, roomName, room, peerId, m_files,
                 m_socket, pingVars>>

\* shareFile: host->addFile(file), and nothing ever takes a file out again.
ShareFile(c) ==
  /\ pc[c] = "member" /\ ~m_files[c]
  /\ m_files' = [m_files EXCEPT ![c] = TRUE]
  /\ UNCHANGED <<registryVars, m_socket, pingVars>>

----------------------------------------------------------------------------
(* onBeforeDestroy_NonBlocking: runs when the read coroutine ends, that is *)
(* when the client closes, an error ends it, or the socket is invalidated. *)

RemovePeer(c) ==
  /\ Moves(c, "member", "removed")
  /\ m_peerById' = [m_peerById EXCEPT ![room[c]] = OtherPeers(c)]
  /\ UNCHANGED <<m_rooms, m_peerIdCounter, roomName, room, peerId, m_files,
                 m_socket, pingVars>>

\* Mutant: the test is written for a map that still holds the leaver.
isEmptyButLeaver(r) == Cardinality(m_peerById[r]) = 1

\* Room::isEmpty reads the map's size without its lock.  Since c's own
\* removal every other step is atomic on the map, so the racing read returns
\* the size before or after some other thread's update.
isEmpty(r) == m_peerById[r] = {}

\* Mutant: no invalidateSocket().
LeaveWithSocket(c) ==
  /\ Moves(c, "removed", IF isEmpty(room[c]) THEN "deleting" ELSE "gone")
  /\ UNCHANGED <<m_rooms, m_peerIdCounter, m_peerById, roomName, room, peerId,
                 m_files, m_socket, pingVars>>

\* invalidateSocket(), then the test that guards deleteRoom.
LeaveRoom(c) ==
  /\ Moves(c, "removed", IF isEmpty(room[c]) THEN "deleting" ELSE "gone")
  /\ m_socket' = [m_socket EXCEPT ![c] = FALSE]
  /\ UNCHANGED <<m_rooms, m_peerIdCounter, m_peerById, roomName, room, peerId,
                 m_files, pingVars>>

\* Mutant: only the connection that created the Room may erase it.
DeleteOwnRoom(c) ==
  /\ Moves(c, "deleting", "gone")
  /\ RoomsMutexFree
  /\ m_rooms' = [m_rooms EXCEPT ![roomName[c]] = IF @ = c THEN NoRoom ELSE @]
  /\ UNCHANGED <<m_peerIdCounter, m_peerById, roomName, room, peerId, m_files,
                 m_socket, pingVars>>

\* deleteRoom erases whatever Room the name maps to by now.
DeleteRoom(c) ==
  /\ Moves(c, "deleting", "gone")
  /\ RoomsMutexFree
  /\ m_rooms' = [m_rooms EXCEPT ![roomName[c]] = NoRoom]
  /\ UNCHANGED <<m_peerIdCounter, m_peerById, roomName, room, peerId, m_files,
                 m_socket, pingVars>>

----------------------------------------------------------------------------
(* runPingLoop holds m_roomsMutex over a whole pass. *)

PingBegin ==
  /\ ~pinging
  /\ pinging' = TRUE
  /\ pingLeft' = {n \in Name : m_rooms[n] # NoRoom}
  /\ UNCHANGED <<registryVars, m_files, m_socket, m_pingPoingCounter, lost>>

\* Mutant: an unanswered ping is not noticed.
PingSentUnchecked(q) == m_socket[q]

\* sendPingAsync returns true: the socket is set and the last ping was
\* answered.
PingSent(q) == m_socket[q] /\ m_pingPoingCounter[q] + 1 = 1

\* pingAllPeers, under m_peerByIdLock: ping each peer, drop the silent ones.
PingRoom(n) ==
  LET peers == m_peerById[m_rooms[n]]
  IN  /\ pinging /\ n \in pingLeft
      /\ \A q \in peers : m_pingPoingCounter[q] < MaxMissed
      /\ m_pingPoingCounter' = [q \in Conn |->
           m_pingPoingCounter[q] + IF q \in peers THEN 1 ELSE 0]
      /\ m_socket' = [q \in Conn |->
           m_socket[q] /\ (q \in peers => PingSent(q))]
      /\ pingLeft' = pingLeft \ {n}
      /\ UNCHANGED <<registryVars, m_files, lost, pinging>>

PingEnd ==
  /\ pinging /\ pingLeft = {}
  /\ pinging' = FALSE
  /\ UNCHANGED <<registryVars, m_files, m_socket, m_pingPoingCounter, lost,
                 pingLeft>>

\* The client answers a ping, the read coroutine runs onPong.
Pong(c) ==
  /\ pc[c] = "member" /\ ~lost[c] /\ m_socket[c]
  /\ m_pingPoingCounter[c] > 0
  /\ m_pingPoingCounter' = [m_pingPoingCounter EXCEPT ![c] = @ - 1]
  /\ UNCHANGED <<registryVars, m_files, m_socket, lost, pinging, pingLeft>>

\* The client's machine or network disappears; no close frame arrives.
Lose(c) ==
  /\ pc[c] = "member" /\ ~lost[c]
  /\ lost' = [lost EXCEPT ![c] = TRUE]
  /\ UNCHANGED <<registryVars, m_files, m_socket, m_pingPoingCounter, pinging,
                 pingLeft>>

Next ==
  \/ \E c \in Conn : \/ Enter(c) \/ AddPeer(c) \/ ShareFile(c)
                     \/ RemovePeer(c) \/ LeaveRoom(c) \/ DeleteRoom(c)
                     \/ Pong(c) \/ Lose(c)
  \/ PingBegin \/ PingEnd
  \/ \E n \in Name : PingRoom(n)

Spec == Init /\ [][Next]_vars

\* What comes next in the handlers of c; the read coroutine of a connection
\* that was invalidated fails.
handler(c) ==
  AddPeer(c) \/ (~m_socket[c] /\ RemovePeer(c)) \/ LeaveRoom(c) \/ DeleteRoom(c)

runPingLoop == PingBegin \/ PingEnd \/ \E n \in Name : PingRoom(n)

\* A started handler is run on by the executor; no other can keep it waiting
\* for ever, as each connection is used once.  The ping loop never stops.
\* deleteRoom competes with it for a mutex that the loop releases for 30
\* seconds in every round, hence strong fairness.
Fairness ==
  SF_vars(\E c \in Conn : handler(c)) /\ WF_vars(runPingLoop)

FairSpec == Spec /\ Fairness

----------------------------------------------------------------------------
(* Properties *)

TypeOK ==
  /\ m_rooms \in [Name -> Conn \cup {NoRoom}]
  /\ m_peerIdCounter \in Nat \ {0}
  /\ m_peerById \in [Conn -> SUBSET Conn]
  /\ pc \in [Conn -> PC]
  /\ roomName \in [Conn -> Name]
  /\ room \in [Conn -> Conn \cup {NoRoom}]
  /\ peerId \in [Conn -> Nat]
  /\ m_socket \in [Conn -> BOOLEAN]
  /\ m_files \in [Conn -> BOOLEAN]
  /\ m_pingPoingCounter \in [Conn -> Nat]
  /\ lost \in [Conn -> BOOLEAN]
  /\ pinging \in BOOLEAN
  /\ pingLeft \subseteq Name

\* A Room's map holds exactly the peers whose handlers are between addPeer
\* and removePeerById: no peer of another room, no peer that has left, and
\* every member is found under its own id (so shareFile's "File host not
\* found." cannot happen).
RosterExact ==
  \A r \in Conn : m_peerById[r] = {c \in Conn : pc[c] = "member" /\ room[c] = r}

\* No room name leaks: as long as a Room is registered, some connection that
\* was given this very Room has yet to add itself, to leave, or to delete it.
\* In particular the registry is empty once every connection is gone.
RegisteredRoomHasKeeper ==
  \A n \in Name : m_rooms[n] # NoRoom =>
    \E c \in Conn : /\ room[c] = m_rooms[n] /\ roomName[c] = n
                    /\ pc[c] \in {"entered", "member", "removed", "deleting"}

\* Nobody who still uses the Room r is before its removePeerById.
Deserted(r) ==
  \A c \in Conn : room[c] = r => pc[c] \in {"removed", "deleting", "gone"}

\* A registered Room that everybody has left is unregistered, or entered
\* again: no interleaving of leavers loses the last deleteRoom.
DesertedRoomUnregistered ==
  \A n \in Name, r \in Conn :
    (m_rooms[n] = r /\ Deserted(r)) ~> (m_rooms[n] # r \/ ~Deserted(r))

\* Peer.cpp:86-88 "If the server didn't receive pong from client before the
\* next ping,- then the client is considered to be disconnected.": a vanished
\* client of a registered Room is dropped by the ping loop and leaves the
\* Room, unless the Room gets unregistered under it (then nobody pings it any
\* more and it stays for ever).
LostMemberDropped ==
  \A c \in Conn, n \in Name :
    (pc[c] = "member" /\ lost[c] /\ m_rooms[n] = room[c])
      ~> (pc[c] # "member" \/ m_rooms[n] # room[c])

\* README.md:22-23 "Each room has a unique URL. Anyone who has room-URL can
\* join the room.": two participants of one URL are in the same Room.
OneRoomPerName ==
  \A c, d \in Conn :
    (pc[c] = "member" /\ pc[d] = "member" /\ roomName[c] = roomName[d])
      => room[c] = room[d]
=============================================================================
