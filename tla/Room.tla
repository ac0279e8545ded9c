-------------------------------- MODULE Room --------------------------------
(***************************************************************************)
(* One Room object: who is told what.  Room.cpp's welcomePeer, addPeer,    *)
(* onboardPeer and goodbyePeer, the broadcast of Peer::handleMessage, and  *)
(* the part of chat.js that keeps the list of participants.                *)
(*                                                                         *)
(* Each of these handlers takes m_historyLock and m_peerByIdLock one after *)
(* the other, never together, so a step is one locked stretch and handlers *)
(* of different connections interleave between them.  A peer stands for    *)
(* its connection, its Peer and its browser; ids are unique (LobbyProofs). *)
(*                                                                         *)
(* seen, early, sent, evicted and excused are history variables: they      *)
(* record what happened and guard nothing.                                 *)
(***************************************************************************)
EXTENDS Integers, SequencesExt

CONSTANTS Peer,        \* connections to this Room
          MaxHistory,  \* AppConfig.maxRoomHistoryMessages, 0 for none
          MaxSay,      \* bound on the messages and shared files of all peers
          InOrder      \* does the executor keep the order of one peer's frames?

ASSUME RoomAssumption ==
  MaxHistory \in Nat /\ MaxSay \in Nat /\ InOrder \in BOOLEAN

VARIABLES
  m_peerById,  \* Room::m_peerById
  m_history,   \* Room::m_history
  pc,          \* where the peer's handler is
  said,        \* chat messages and file announcements of the peer so far
  listed,      \* onboardPeer's infoMessage->peers
  briefing,    \* onboardPeer's infoMessage->history
  frames,      \* SendMessageCoroutines of the peer not yet written
  peersMap,    \* chat.js: the participants the browser shows
  seen,        \* messages the browser has shown
  early,       \* file announcements on which its script failed
  sent,        \* messages whose broadcast is done
  evicted,     \* messages pushed to the history and not in it any more
  excused      \* what was evicted when the peer's history was read

serverVars == <<m_peerById, m_history, pc, said, listed, briefing>>
clientVars == <<peersMap, seen, early>>
ghostVars == <<sent, evicted, excused>>
vars == <<serverVars, frames, clientVars, ghostVars>>

\* Messages: CODE_PEER_JOINED, _LEFT, _MESSAGE and _MESSAGE_FILE.
Joined(c) == [kind |-> "joined", peer |-> c, no |-> 0]
Left(c) == [kind |-> "left", peer |-> c, no |-> 0]
Said(c, n) == [kind |-> "said", peer |-> c, no |-> n]
Shared(c, n) == [kind |-> "files", peer |-> c, no |-> n]
Message ==
  [kind : {"joined", "left", "said", "files"}, peer : Peer, no : Nat]

\* The CODE_INFO message of a peer.
Info(peers, history) ==
  [kind |-> "info", peers |-> peers, history |-> history]

PC == {"idle", "welcoming", "welcomed", "added", "listed", "briefed",
       "member", "saying", "sharing", "removed", "parting", "gone"}

Init ==
  /\ m_peerById = {}
  /\ m_history = << >>
  /\ pc = [c \in Peer |-> "idle"]
  /\ said = [c \in Peer |-> 0]
  /\ listed = [c \in Peer |-> {}]
  /\ briefing = [c \in Peer |-> << >>]
  /\ frames = [c \in Peer |-> << >>]
  /\ peersMap = [c \in Peer |-> {}]
  /\ seen = [c \in Peer |-> {}]
  /\ early = [c \in Peer |-> {}]
  /\ sent = {}
  /\ evicted = {}
  /\ excused = [c \in Peer |-> {}]

----------------------------------------------------------------------------
(* The two locked operations every handler is made of. *)

Moves(c, from, to) == pc[c] = from /\ pc' = [pc EXCEPT ![c] = to]

\* Mutant: nothing is ever dropped.
Unrounded(history) == history

\* Mutant: pop_back for pop_front, the newest message goes.
RoundedAtBack(history) ==
  IF Len(history) > MaxHistory THEN Front(history) ELSE history

\* push_back, then pop_front while the list is too long.
Rounded(history) ==
  IF Len(history) > MaxHistory THEN Tail(history) ELSE history

\* addHistoryMessage; without a history the list stays empty.
addHistoryMessage(m) ==
  LET pushed == Append(m_history, m)
  IN  /\ m_history' = Rounded(pushed)
      /\ evicted' = evicted \cup (Range(pushed) \ Range(Rounded(pushed)))
      /\ UNCHANGED <<m_peerById, listed, briefing, frames, clientVars, sent,
                     excused>>

\* Room::sendMessageAsync: one coroutine for each peer now in the map.  (None
\* if the ping loop has reset the peer's socket: its browser has vanished, and
\* its frames stay here unwritten until RemovePeer drops them, as they may
\* for any peer.)
sendMessageAsync(m) ==
  /\ frames' = [p \in Peer |->
       IF p \in m_peerById THEN Append(frames[p], m) ELSE frames[p]]
  /\ sent' = sent \cup {m}
  /\ UNCHANGED <<m_peerById, m_history, said, listed, briefing, clientVars,
                 evicted, excused>>

----------------------------------------------------------------------------
(* onAfterCreate_NonBlocking: welcomePeer, addPeer, onboardPeer. *)

\* Mutant: the join is announced but not recorded.
WelcomeUnrecorded(c) ==
  /\ Moves(c, "idle", "welcoming")
  /\ UNCHANGED <<m_peerById, m_history, said, listed, briefing, frames,
                 clientVars, ghostVars>>

WelcomeHistory(c) ==
  /\ Moves(c, "idle", "welcoming")
  /\ addHistoryMessage(Joined(c))
  /\ UNCHANGED said

WelcomeSend(c) ==
  /\ Moves(c, "welcoming", "welcomed")
  /\ sendMessageAsync(Joined(c))

AddPeer(c) ==
  /\ Moves(c, "welcomed", "added")
  /\ m_peerById' = m_peerById \cup {c}
  /\ UNCHANGED <<m_history, said, listed, briefing, frames, clientVars,
                 ghostVars>>

\* onboardPeer copies the map under its lock ...
ListPeers(c) ==
  /\ Moves(c, "added", "listed")
  /\ listed' = [listed EXCEPT ![c] = m_peerById]
  /\ UNCHANGED <<m_peerById, m_history, said, briefing, frames, clientVars,
                 ghostVars>>

\* Mutant: the copy of the history skips the first message.
getHistoryTail(c) ==
  /\ Moves(c, "listed", "briefed")
  /\ briefing' = [briefing EXCEPT ![c] = SubSeq(m_history, 2, Len(m_history))]
  /\ excused' = [excused EXCEPT ![c] = evicted]
  /\ UNCHANGED <<m_peerById, m_history, said, listed, frames, clientVars, sent,
                 evicted>>

\* ... then the history under its own ...
getHistory(c) ==
  /\ Moves(c, "listed", "briefed")
  /\ briefing' = [briefing EXCEPT ![c] = m_history]
  /\ excused' = [excused EXCEPT ![c] = evicted]
  /\ UNCHANGED <<m_peerById, m_history, said, listed, frames, clientVars, sent,
                 evicted>>

\* ... and sends both under none.
SendInfo(c) ==
  /\ Moves(c, "briefed", "member")
  /\ frames' = [frames EXCEPT ![c] = Append(@, Info(listed[c], briefing[c]))]
  /\ listed' = [listed EXCEPT ![c] = {}]
  /\ briefing' = [briefing EXCEPT ![c] = << >>]
  /\ UNCHANGED <<m_peerById, m_history, said, clientVars, ghostVars>>

----------------------------------------------------------------------------
(* handleMessage, case CODE_PEER_MESSAGE. *)

SayHistory(c) ==
  /\ SumFunction(said) < MaxSay
  /\ Moves(c, "member", "saying")
  /\ said' = [said EXCEPT ![c] = @ + 1]
  /\ addHistoryMessage(Said(c, said[c] + 1))

SaySend(c) ==
  /\ Moves(c, "saying", "member")
  /\ sendMessageAsync(Said(c, said[c]))

(* The end of handleFilesMessage; the files are registered by then. *)

ShareHistory(c) ==
  /\ SumFunction(said) < MaxSay
  /\ Moves(c, "member", "sharing")
  /\ said' = [said EXCEPT ![c] = @ + 1]
  /\ addHistoryMessage(Shared(c, said[c] + 1))

ShareSend(c) ==
  /\ Moves(c, "sharing", "member")
  /\ sendMessageAsync(Shared(c, said[c]))

----------------------------------------------------------------------------
(* onBeforeDestroy_NonBlocking: removePeerById, goodbyePeer.  It runs when *)
(* the connection is over, so frames not yet written are lost and the      *)
(* browser's state no longer matters.                                      *)

RemovePeer(c) ==
  /\ Moves(c, "member", "removed")
  /\ m_peerById' = m_peerById \ {c}
  /\ frames' = [frames EXCEPT ![c] = << >>]
  /\ peersMap' = [peersMap EXCEPT ![c] = {}]
  /\ seen' = [seen EXCEPT ![c] = {}]
  /\ early' = [early EXCEPT ![c] = {}]
  /\ excused' = [excused EXCEPT ![c] = {}]
  /\ UNCHANGED <<m_history, said, listed, briefing, sent, evicted>>

GoodbyeHistory(c) ==
  /\ Moves(c, "removed", "parting")
  /\ addHistoryMessage(Left(c))
  /\ UNCHANGED said

GoodbyeSend(c) ==
  /\ Moves(c, "parting", "gone")
  /\ sendMessageAsync(Left(c))

----------------------------------------------------------------------------
(* chat.js: onMessage. *)

\* What one message of the live stream does to peersMap.
Shown(peers, m) ==
  CASE m.kind = "joined" -> peers \cup {m.peer}
    [] m.kind = "left"   -> peers \ {m.peer}
    [] OTHER             -> peers

\* A history replayed through onMessage: the last word on each peer counts.
Replayed(peers, history) ==
  {p \in Peer :
    LET words == {i \in DOMAIN history :
                    /\ history[i].kind \in {"joined", "left"}
                    /\ history[i].peer = p}
    IN  IF words = {} THEN p \in peers
        ELSE history[Max(words)].kind = "joined"}

\* CODE_INFO adds the listed peers, then replays the history; without one
\* the browser greets its own user.
OnInfo(c, peers, m) ==
  IF m.history = << >> THEN peers \cup m.peers \cup {c}
  ELSE Replayed(peers \cup m.peers, m.history)

\* CODE_INFO has assigned peerId.
Informed(c) ==
  /\ pc[c] \in {"member", "saying", "sharing"}
  /\ \A i \in DOMAIN frames[c] : frames[c][i].kind # "info"

\* postSharedFile reads peerId, which line 21 declares under another name
\* (peedId) and only CODE_INFO assigns; before that it throws and shows
\* nothing.  Nothing else that posts a message reads it.
Fails(c, m) == m.kind = "files" /\ ~Informed(c)

\* A SendMessageCoroutine gets the peer's write lock and its frame arrives.
\* The executor spreads coroutines over its threads, so unless InOrder any
\* of them may be the next.
Deliver(c) ==
  \E i \in 1..Len(frames[c]) :
    LET m == frames[c][i]
    IN  /\ InOrder => i = 1
        /\ frames' = [frames EXCEPT ![c] = RemoveAt(@, i)]
        /\ IF m.kind = "info"
           THEN /\ peersMap' = [peersMap EXCEPT ![c] = OnInfo(c, @, m)]
                /\ seen' = [seen EXCEPT ![c] = @ \cup Range(m.history)]
                /\ UNCHANGED early
           ELSE /\ peersMap' = [peersMap EXCEPT ![c] = Shown(@, m)]
                /\ IF Fails(c, m)
                   THEN /\ early' = [early EXCEPT ![c] = @ \cup {m}]
                        /\ UNCHANGED seen
                   ELSE /\ seen' = [seen EXCEPT ![c] = @ \cup {m}]
                        /\ UNCHANGED early
        /\ UNCHANGED <<serverVars, ghostVars>>

Next ==
  \E c \in Peer :
    \/ WelcomeHistory(c) \/ WelcomeSend(c) \/ AddPeer(c)
    \/ ListPeers(c) \/ getHistory(c) \/ SendInfo(c)
    \/ SayHistory(c) \/ SaySend(c) \/ ShareHistory(c) \/ ShareSend(c)
    \/ RemovePeer(c) \/ GoodbyeHistory(c) \/ GoodbyeSend(c)
    \/ Deliver(c)

Spec == Init /\ [][Next]_vars

----------------------------------------------------------------------------
(* Properties *)

TypeOK ==
  /\ m_peerById \subseteq Peer
  /\ m_history \in Seq(Message) /\ Len(m_history) <= MaxHistory
  /\ pc \in [Peer -> PC]
  /\ said \in [Peer -> Nat]
  /\ listed \in [Peer -> SUBSET Peer]
  /\ briefing \in [Peer -> Seq(Message)]
  /\ frames \in [Peer -> Seq(Message \cup
                   [kind : {"info"}, peers : SUBSET Peer,
                    history : Seq(Message)])]
  /\ peersMap \in [Peer -> SUBSET Peer]
  /\ seen \in [Peer -> SUBSET Message]
  /\ early \in [Peer -> SUBSET [kind : {"files"}, peer : Peer, no : Nat]]
  /\ sent \subseteq Message
  /\ evicted \subseteq Message
  /\ excused \in [Peer -> SUBSET Message]

\* The browser has its INFO and everything sent to it so far has arrived.
UpToDate(c) ==
  pc[c] \in {"member", "saying", "sharing"} /\ frames[c] = << >>

\* Between "history" and "live stream" no message is lost on the way: an
\* up-to-date browser has shown every broadcast message, except those that had
\* left the history when onboardPeer read it.  What the page itself loses is a
\* file announcement that came before INFO (chat.js:192 throws), unless the
\* history repeats it; a chat message, a join or a departure it never loses.
JoinerMissesNothing ==
  \A c \in Peer : UpToDate(c) => sent \subseteq seen[c] \cup excused[c] \cup early[c]

\* The history tells the truth to whoever replays it: rounded at any point
\* (README.md:30) and written by handlers in any order, it never presents as
\* joined a peer whose departure has been recorded.
ReplayOmitsLeavers ==
  \A c \in Peer : pc[c] \in {"parting", "gone"} =>
    c \notin Replayed({}, m_history)

\* Room.hpp:85 "Send info about other peers and available chat history to
\* peer.": an up-to-date browser knows every member of the Room, unless the
\* member's join was not in the history any more when onboardPeer read it.
\* (Without a history nothing covers two peers that join at once.)
KnowsEveryMember ==
  \A c \in Peer : UpToDate(c) =>
    \A p \in m_peerById : p \in peersMap[c] \/ Joined(p) \in excused[c]

\* Room.hpp:85 again, "about other peers": once no handler is in progress and all
\* frames have arrived, nobody who has left is still on the list.
NoGhostParticipant ==
  (\A c \in Peer : pc[c] \in {"idle", "gone"} \/ UpToDate(c))
    => \A c \in m_peerById : peersMap[c] \subseteq m_peerById
=============================================================================
