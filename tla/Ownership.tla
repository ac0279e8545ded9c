----------------------------- MODULE Ownership -----------------------------
(***************************************************************************)
(* Who keeps whom alive: the shared_ptrs between websockets, Peers, Files  *)
(* and Rooms, as the registry of Lobby leaves them, and those that         *)
(* coroutines hold on the executor.  An object is destroyed when nothing   *)
(* alive refers to it, so what reference counting frees is what belongs to *)
(* no set of objects that keep each other alive.                           *)
(***************************************************************************)
EXTENDS Lobby

VARIABLES
  coroutines,  \* whose websocket a suspended send or ping coroutine holds
  downloads    \* whose File a GetFile coroutine or its Subscriber holds

heldVars == <<coroutines, downloads>>

OwnInit == Init /\ coroutines = {} /\ downloads = {}

\* sendMessageAsync and sendPingAsync copy m_socket into a coroutine, which
\* may wait for m_writeLock or for the client until long after the reader has
\* left.  Senders are broadcasts and pings to members, and the Subscribers of
\* a File, which find the Peer until its socket is reset.  (SendErrorCoroutine
\* is awaited by the reader, so it has ended when onBeforeDestroy starts.)
StartSend(c) ==
  /\ pc[c] \in {"member", "removed"} /\ m_socket[c]
  /\ c \notin coroutines
  /\ coroutines' = coroutines \cup {c}
  /\ UNCHANGED <<vars, downloads>>

\* The last coroutine of the websocket is done with it, or fails.
EndSend(c) ==
  /\ c \in coroutines
  /\ coroutines' = coroutines \ {c}
  /\ UNCHANGED <<vars, downloads>>

\* GetFile finds Room and File; the file is in m_fileById as long as its host
\* is in m_peerById.
StartDownload(c) ==
  /\ RoomsMutexFree
  /\ pc[c] = "member" /\ m_files[c] /\ m_rooms[roomName[c]] = room[c]
  /\ c \notin downloads
  /\ downloads' = downloads \cup {c}
  /\ UNCHANGED <<vars, coroutines>>

\* The last response body with a Subscriber of the file is gone.
EndDownload(c) ==
  /\ c \in downloads
  /\ downloads' = downloads \ {c}
  /\ UNCHANGED <<vars, coroutines>>

OwnNext ==
  \/ Next /\ UNCHANGED heldVars
  \/ \E c \in Conn : \/ StartSend(c) \/ EndSend(c)
                     \/ StartDownload(c) \/ EndDownload(c)

OwnSpec == OwnInit /\ [][OwnNext]_<<vars, heldVars>>

\* Nothing is assumed of the coroutines: a client may never read.
OwnFairSpec == OwnSpec /\ Fairness

----------------------------------------------------------------------------
(* Objects and references *)

\* The first file that c shared stands for all of them.
Socket(c) == [kind |-> "AsyncWebSocket", of |-> c]
Peer(c)   == [kind |-> "Peer", of |-> c]
File(c)   == [kind |-> "File", of |-> c]
Room(r)   == [kind |-> "Room", of |-> r]

\* All that was ever created.
Object ==
  LET entered == {c \in Conn : pc[c] # "idle"}
  IN  {Socket(c) : c \in entered} \cup {Peer(c) : c \in entered}
        \cup {Room(room[c]) : c \in entered}
        \cup {File(c) : c \in {d \in Conn : m_files[d]}}

\* Held from outside: the server's coroutine of a connection has the socket
\* until onBeforeDestroy returns, every suspended coroutine has it, m_rooms has
\* the registered Rooms, and a download has the File.
Rooted(o) ==
  \/ o.kind = "AsyncWebSocket" /\ (pc[o.of] # "gone" \/ o.of \in coroutines)
  \/ o.kind = "Room" /\ \E n \in Name : m_rooms[n] = o.of
  \/ o.kind = "File" /\ o.of \in downloads

\* The socket's listener; Peer::m_socket, m_room and m_files; File::m_host;
\* Room::m_peerById and m_fileById, which has the files of those peers.
Refers(p, o) ==
  \/ p = Socket(o.of) /\ o.kind = "Peer"
  \/ p = Peer(o.of) /\ \/ o.kind = "AsyncWebSocket" /\ m_socket[o.of]
                       \/ o.kind = "File"
  \/ p.kind = "Peer" /\ o = Room(room[p.of])
  \/ p = File(o.of) /\ o.kind = "Peer"
  \/ p.kind = "Room" /\ o.kind \in {"Peer", "File"} /\ o.of \in m_peerById[p.of]

KeptAlive(S) == \A o \in S : Rooted(o) \/ \E p \in S : Refers(p, o)

Freed(o) == \A S \in SUBSET Object : o \in S => ~KeptAlive(S)

----------------------------------------------------------------------------
(* Properties *)

\* Peer.hpp:144 "Remove circle `std::shared_ptr` dependencies": once a
\* connection is over and the last coroutine that writes to its websocket has
\* ended, the websocket is destroyed, however it ended and whoever invalidated
\* it, and its Peer too unless it shared a file.  Until then the Peer stays:
\* the coroutines have a bare pointer to its m_writeLock (Peer.cpp:57, 93), and
\* only the websocket's reference to its listener keeps that valid.
LeaversFreed ==
  \A c \in Conn : pc[c] = "gone" =>
    IF c \in coroutines THEN ~Freed(Peer(c))
    ELSE Freed(Socket(c)) /\ (m_files[c] \/ Freed(Peer(c)))

\* Those who were given the Room r are gone and nothing on the executor still
\* writes to them or reads a file of theirs.
Abandoned(r) ==
  LET users == {c \in Conn : room[c] = r}
  IN  /\ users # {}
      /\ \A c \in users : pc[c] = "gone" /\ c \notin coroutines \cup downloads

\* An abandoned Room in which nobody ever shared a file is destroyed (and
\* EVENT_ROOM_DELETED counted), whatever the order of joins and leaves was and
\* also if it lost its name to a second Room.
RoomsFreed ==
  \A r \in Conn :
    Abandoned(r) /\ (\A c \in Conn : room[c] = r => ~m_files[c])
      => Freed(Room(r))

\* README.md:27-28 "Rooms [...] are automatically deleted when the last
\* participant leaves the room.", and :31 "History is deleted and
\* no-longer-available once the room is deleted.": an abandoned Room is
\* destroyed, with its history.
AbandonedRoomDestroyed ==
  \A r \in Conn : Abandoned(r) => Freed(Room(r))
=============================================================================
