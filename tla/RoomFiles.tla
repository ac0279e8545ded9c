------------------------------ MODULE RoomFiles ------------------------------
(***************************************************************************)
(* The locks of a Room and the files it registers: shareFile takes         *)
(* m_fileByIdLock and then, in getPeerById, m_peerByIdLock; removePeerById *)
(* takes them the other way round; the ping loop takes m_peerByIdLock      *)
(* while it holds the lobby's m_roomsMutex.                                *)
(*                                                                         *)
(* A handler that needs a single lock is one step, possible when the lock  *)
(* is free; the three nested ones are two steps with the outer lock held   *)
(* in between.                                                             *)
(***************************************************************************)
EXTENDS Integers

CONSTANTS Conn,      \* connections to the Room
          PingLoop,  \* the thread of Lobby::runPingLoop
          Nobody,    \* owner of a free mutex
          MaxFiles   \* bound on m_fileIdCounter

ASSUME RoomFilesAssumption ==
  /\ PingLoop \notin Conn /\ Nobody \notin Conn \cup {PingLoop}
  /\ MaxFiles \in Nat

VARIABLES
  m_roomsMutex,     \* Lobby: its owner
  m_peerByIdLock,   \* Room: its owner
  m_fileByIdLock,   \* Room: its owner
  m_peerById,       \* peers of the Room
  m_fileById,       \* registered files
  m_fileIdCounter,
  m_files,          \* Peer::m_files
  batch,            \* fileMessage->files of the message being handled
  announced,        \* the files of all messages that were sent
  pc                \* where the connection's handler is

locks == <<m_roomsMutex, m_peerByIdLock, m_fileByIdLock>>
fileVars == <<m_fileById, m_fileIdCounter, m_files>>
sentVars == <<batch, announced>>
vars == <<locks, m_peerById, fileVars, sentVars, pc>>

\* idle -> connecting (onAfterCreate runs) -> entered (has its Room) ->
\* member -> closing (onBeforeDestroy runs) -> removing -> gone;
\* member -> handling (a CODE_FILE_SHARE) <-> sharing (one file of it)
PC == {"idle", "connecting", "entered", "member", "handling", "sharing",
       "closing", "removing", "gone"}

File == [id : 1..MaxFiles, host : Conn]

Init ==
  /\ m_roomsMutex = Nobody
  /\ m_peerByIdLock = Nobody
  /\ m_fileByIdLock = Nobody
  /\ m_peerById = {}
  /\ m_fileById = {}
  /\ m_fileIdCounter = 1
  /\ m_files = [c \in Conn |-> {}]
  /\ batch = [c \in Conn |-> {}]
  /\ announced = {}
  /\ pc = [c \in Conn |-> "idle"]

Moves(c, from, to) == pc[c] = from /\ pc' = [pc EXCEPT ![c] = to]

----------------------------------------------------------------------------
(* Joining, with one lock at a time *)

Connect(c) ==
  /\ Moves(c, "idle", "connecting")
  /\ UNCHANGED <<locks, m_peerById, fileVars, sentVars>>

getOrCreateRoom(c) ==
  /\ Moves(c, "connecting", "entered")
  /\ m_roomsMutex = Nobody
  /\ UNCHANGED <<locks, m_peerById, fileVars, sentVars>>

addPeer(c) ==
  /\ Moves(c, "entered", "member")
  /\ m_peerByIdLock = Nobody
  /\ m_peerById' = m_peerById \cup {c}
  /\ UNCHANGED <<locks, fileVars, sentVars>>

----------------------------------------------------------------------------
(* handleFilesMessage: shareFile for each file, then the announcement.     *)
(* What validateFilesList returns is dropped, so a list that it refuses,   *)
(* an empty one for instance, is shared and announced all the same.        *)

ReceiveFiles(c) ==
  /\ m_fileIdCounter <= MaxFiles
  /\ Moves(c, "member", "handling")
  /\ batch' = [batch EXCEPT ![c] = {}]
  /\ UNCHANGED <<locks, m_peerById, fileVars, announced>>

\* shareFile locks m_fileByIdLock ...
ShareLock(c) ==
  /\ Moves(c, "handling", "sharing")
  /\ m_fileByIdLock = Nobody
  /\ m_fileIdCounter <= MaxFiles
  /\ m_fileByIdLock' = c
  /\ UNCHANGED <<m_roomsMutex, m_peerByIdLock, m_peerById, fileVars, sentVars>>

\* Mutant: ++m_fileIdCounter for m_fileIdCounter ++.
shareFilePreIncrement(c) ==
  LET file == [id |-> m_fileIdCounter + 1, host |-> c]
  IN  /\ Moves(c, "sharing", "handling")
      /\ m_peerByIdLock = Nobody
      /\ m_files' = [m_files EXCEPT ![c] = @ \cup {file}]
      /\ m_fileById' = {f \in m_fileById : f.id # file.id} \cup {file}
      /\ m_fileIdCounter' = m_fileIdCounter + 1
      /\ m_fileByIdLock' = Nobody
      /\ batch' = [batch EXCEPT ![c] = @ \cup {file}]
      /\ UNCHANGED <<m_roomsMutex, m_peerByIdLock, m_peerById, announced>>

\* ... and looks the host up under m_peerByIdLock before it registers the
\* file.  ("File host not found." is impossible: c is still a member.)
shareFile(c) ==
  LET file == [id |-> m_fileIdCounter, host |-> c]
  IN  /\ Moves(c, "sharing", "handling")
      /\ m_peerByIdLock = Nobody
      /\ m_files' = [m_files EXCEPT ![c] = @ \cup {file}]
      /\ m_fileById' = {f \in m_fileById : f.id # file.id} \cup {file}
      /\ m_fileIdCounter' = m_fileIdCounter + 1
      /\ m_fileByIdLock' = Nobody
      /\ batch' = [batch EXCEPT ![c] = @ \cup {file}]
      /\ UNCHANGED <<m_roomsMutex, m_peerByIdLock, m_peerById, announced>>

\* Mutant: the message is sent after each of its files.
AnnounceEach(c) ==
  /\ Moves(c, "handling", "handling")
  /\ m_peerByIdLock = Nobody
  /\ announced' = announced \cup batch[c]
  /\ UNCHANGED <<locks, m_peerById, fileVars, batch>>

\* addHistoryMessage and sendMessageAsync of the file message.
Announce(c) ==
  /\ Moves(c, "handling", "member")
  /\ m_peerByIdLock = Nobody
  /\ announced' = announced \cup batch[c]
  /\ batch' = [batch EXCEPT ![c] = {}]
  /\ UNCHANGED <<locks, m_peerById, fileVars>>

----------------------------------------------------------------------------
(* onBeforeDestroy_NonBlocking *)

Close(c) ==
  /\ Moves(c, "member", "closing")
  /\ UNCHANGED <<locks, m_peerById, fileVars, sentVars>>

\* removePeerById locks m_peerByIdLock ...
RemoveLock(c) ==
  /\ Moves(c, "closing", "removing")
  /\ m_peerByIdLock = Nobody
  /\ m_peerByIdLock' = c
  /\ UNCHANGED <<m_roomsMutex, m_fileByIdLock, m_peerById, fileVars, sentVars>>

\* Mutant: the peer goes, its files stay registered.
removePeerOnly(c) ==
  /\ Moves(c, "removing", "gone")
  /\ m_fileByIdLock = Nobody
  /\ m_peerById' = m_peerById \ {c}
  /\ m_peerByIdLock' = Nobody
  /\ UNCHANGED <<m_roomsMutex, m_fileByIdLock, fileVars, sentVars>>

\* Mutant: the outer lock is never given back.
removeKeepsLock(c) ==
  /\ Moves(c, "removing", "gone")
  /\ m_fileByIdLock = Nobody
  /\ m_fileById' = m_fileById \ m_files[c]
  /\ m_peerById' = m_peerById \ {c}
  /\ UNCHANGED <<locks, m_fileIdCounter, m_files, sentVars>>

\* ... and m_fileByIdLock inside.
removePeerById(c) ==
  /\ Moves(c, "removing", "gone")
  /\ m_fileByIdLock = Nobody
  /\ m_fileById' = m_fileById \ m_files[c]
  /\ m_peerById' = m_peerById \ {c}
  /\ m_peerByIdLock' = Nobody
  /\ UNCHANGED <<m_roomsMutex, m_fileByIdLock, m_fileIdCounter, m_files,
                 sentVars>>

----------------------------------------------------------------------------
(* runPingLoop: pingAllPeers under m_roomsMutex *)

PingLock ==
  /\ m_roomsMutex = Nobody
  /\ m_roomsMutex' = PingLoop
  /\ UNCHANGED <<m_peerByIdLock, m_fileByIdLock, m_peerById, fileVars, sentVars,
                 pc>>

pingAllPeers ==
  /\ m_roomsMutex = PingLoop
  /\ m_peerByIdLock = Nobody
  /\ m_roomsMutex' = Nobody
  /\ UNCHANGED <<m_peerByIdLock, m_fileByIdLock, m_peerById, fileVars, sentVars,
                 pc>>

Next ==
  \/ \E c \in Conn :
       \/ Connect(c) \/ getOrCreateRoom(c) \/ addPeer(c)
       \/ ReceiveFiles(c) \/ ShareLock(c) \/ shareFile(c) \/ Announce(c)
       \/ Close(c) \/ RemoveLock(c) \/ removePeerById(c)
  \/ PingLock \/ pingAllPeers

Spec == Init /\ [][Next]_vars

\* What comes next in the handler of c, once it runs: one step at a time.
handler(c) ==
  \/ getOrCreateRoom(c) \/ addPeer(c) \/ shareFile(c) \/ Announce(c)
  \/ RemoveLock(c) \/ removePeerById(c)

\* Handlers in progress are run on.  A thread that keeps trying gets a mutex
\* that is free again and again: every hold is a few instructions long, once
\* per message or per 30 seconds.
Fairness ==
  /\ \A c \in Conn : SF_vars(handler(c))
  /\ WF_vars(PingLock) /\ SF_vars(pingAllPeers)

FairSpec == Spec /\ Fairness

----------------------------------------------------------------------------
(* Properties *)

TypeOK ==
  /\ m_roomsMutex \in {PingLoop, Nobody}
  /\ m_peerByIdLock \in Conn \cup {Nobody}
  /\ m_fileByIdLock \in Conn \cup {Nobody}
  /\ m_peerById \subseteq Conn
  /\ m_fileById \subseteq File
  /\ m_fileIdCounter \in 1..(MaxFiles + 1)
  /\ m_files \in [Conn -> SUBSET File]
  /\ batch \in [Conn -> SUBSET File]
  /\ announced \subseteq File
  /\ pc \in [Conn -> PC]

\* README.md:41 "If host-peer exits the room, all of his file-sharing is
\* canceled.": a file can be looked up exactly while its host is a member,
\* and under its own id.
RegisteredFilesExact ==
  m_fileById = UNION {m_files[c] : c \in m_peerById}

\* A link that the participants were sent can be looked up as long as its host
\* is a member, and a member's file that they were not sent is one of the
\* message that is being handled: nothing is announced before it is registered
\* or left out afterwards.
AnnouncedExact ==
  \A c \in m_peerById :
    /\ {f \in announced : f.host = c} = m_files[c] \ batch[c]
    /\ batch[c] \subseteq m_files[c] \cap m_fileById

\* A leaver holds m_peerByIdLock and a sharer m_fileByIdLock: each waits for
\* the other's mutex.
Abba == m_peerByIdLock # Nobody /\ m_fileByIdLock # Nobody

\* The order of those two locks is the only thing that can stop a handler:
\* as long as it does not happen, connections get a Room and leavers leave.
OnlyAbbaBlocks ==
  []~Abba => \A c \in Conn : /\ pc[c] = "connecting" ~> pc[c] # "connecting"
                             /\ pc[c] = "closing" ~> pc[c] = "gone"

\* README.md:23 "Anyone who has room-URL can join the room.": getOrCreateRoom
\* returns, for this room and for every other.
JoinerGetsRoom ==
  \A c \in Conn : pc[c] = "connecting" ~> pc[c] # "connecting"
=============================================================================
