---------------------------- MODULE Participants ----------------------------
(***************************************************************************)
(* The list of participants of the chat page: onMessage, onclose and       *)
(* updateParticipants of chat.js.                                          *)
(*                                                                         *)
(* The page keeps peersMap and the <div> "peers_other", whose children it  *)
(* merges with the sorted peers on every change; a removed child stays in  *)
(* the document while it fades out.  JavaScript runs one handler at a      *)
(* time, so a handler is one step; an exception ends it half done.         *)
(***************************************************************************)
EXTENDS Integers, FiniteSets, SequencesExt

CONSTANTS Peer,      \* peer ids
          Nick,      \* nicknames, numbers in the order of cmpPeers
          NoPeer,    \* the undeclared peerId
          MaxReplay  \* bound on the history of CODE_INFO

ASSUME ParticipantsAssumption ==
  /\ IsFiniteSet(Peer) /\ NoPeer \notin Peer
  /\ Nick \subseteq Nat /\ MaxReplay \in Nat

VARIABLES
  peerName,  \* the nickname of each peer
  page,      \* the state of the script, a Page
  online,    \* has the socket not been closed?
  received,  \* the presence messages that came as frames of their own
  departed,  \* ghost: peers whose CODE_PEER_LEFT the page has got
  ordered    \* ghost: no peer has joined after it left

vars == <<peerName, page, online, received, departed, ordered>>

Page == [peerId   : Peer \cup {NoPeer},
         peersMap : Seq(Peer),     \* a Map iterates in insertion order
         made     : BOOLEAN,       \* has createParticipantsList run?
         count    : Nat,           \* the caption "Participants: "
         children : Seq(Peer),     \* of "peers_other"
         fading   : SUBSET Peer,   \* those with class participant_deleted
         error    : BOOLEAN]       \* has updateParticipants thrown?

Blank == [peerId |-> NoPeer, peersMap |-> << >>, made |-> FALSE, count |-> 0,
          children |-> << >>, fading |-> {}, error |-> FALSE]

----------------------------------------------------------------------------
(* peersMap *)

\* The members of I in the order R: number k has k - 1 before it.
Places(I, R) ==
  [k \in 1..Cardinality(I) |->
     CHOOSE i \in I : Cardinality({j \in I : <<j, i>> \in R}) = k - 1]

Taken(seq, at) == [k \in DOMAIN at |-> seq[at[k]]]

\* What is left of seq when only the members of S are kept.
Keep(seq, S) ==
  LET I == {i \in DOMAIN seq : seq[i] \in S}
  IN  Taken(seq, Places(I, {r \in I \X I : r[1] < r[2]}))

\* Map.set of a key that is there keeps its place.  The listed ids differ.
set(map, p) == IF p \in ToSet(map) THEN map ELSE Append(map, p)
setAll(map, peers) == map \o Keep(peers, Peer \ ToSet(map))
delete(map, p) == Keep(map, Peer \ {p})

\* The order of the places of map after sorting: cmpPeers, and Array.sort is
\* stable.
cmpPeers(map) ==
  {r \in (DOMAIN map) \X (DOMAIN map) :
     \/ peerName[map[r[1]]] < peerName[map[r[2]]]
     \/ peerName[map[r[1]]] = peerName[map[r[2]]] /\ r[1] < r[2]}

Sorted(map) == Taken(map, Places(DOMAIN map, cmpPeers(map)))

----------------------------------------------------------------------------
(* updateParticipants *)

InsertBefore(children, new, child) ==
  InsertAt(children, SelectInSeq(children, LAMBDA q : q = child), new)

\* One peer of the sorted list: if it is not the next of the children that
\* stay it is inserted before that, or appended when none is left.
MergePeer(self, w, peer) ==
  IF peer = self THEN w
  ELSE IF w.left = << >>
  THEN [w EXCEPT !.children = Append(@, peer)]
  ELSE IF peer = Head(w.left)
  THEN [w EXCEPT !.left = Tail(@)]
  ELSE [w EXCEPT !.children = InsertBefore(@, peer, Head(w.left))]

\* Running out of peers while a child is left is a TypeError.
Merge(pg, left, peers) ==
  LET end == FoldLeft(LAMBDA w, peer : MergePeer(pg.peerId, w, peer),
                      [children |-> pg.children, left |-> left], peers)
  IN  [pg EXCEPT !.children = end.children,
                 !.error = @ \/ end.left # << >>]

\* createParticipantsList: a ReferenceError as long as peerId is undeclared.
createParticipantsList(pg) ==
  IF pg.peerId = NoPeer THEN pg
  ELSE [pg EXCEPT !.made = TRUE, !.count = Len(pg.peersMap),
          !.children = Keep(Sorted(pg.peersMap), Peer \ {pg.peerId})]

\* The children of peers that are gone are marked, and fade out.
Marked(pg) ==
  [pg EXCEPT !.count = Len(pg.peersMap),
             !.fading = @ \cup (ToSet(pg.children) \ ToSet(pg.peersMap))]

ChildrenLeft(pg) == Keep(pg.children, ToSet(pg.peersMap))

\* Mutant: the peers are walked through as the Map has them.
updateUnsorted(pg) ==
  IF ~pg.made THEN createParticipantsList(pg)
  ELSE Merge(Marked(pg), ChildrenLeft(pg), pg.peersMap)

\* Mutant: the children to keep are taken with those that are fading out.
updateAllChildren(pg) ==
  IF ~pg.made THEN createParticipantsList(pg)
  ELSE Merge(Marked(pg), pg.children, Sorted(pg.peersMap))

updateParticipants(pg) ==
  IF ~pg.made THEN createParticipantsList(pg)
  ELSE Merge(Marked(pg), ChildrenLeft(pg), Sorted(pg.peersMap))

----------------------------------------------------------------------------
(* onMessage; messages without a part in the list are left out *)

Presence == [code : {"joined", "left"}, peer : Peer]

\* CODE_PEER_JOINED, CODE_PEER_LEFT
onPresence(pg, m) ==
  IF m.code = "joined"
  THEN updateParticipants([pg EXCEPT !.peersMap = set(@, m.peer)])
  ELSE updateParticipants([pg EXCEPT !.peersMap = delete(@, m.peer)])

\* Mutant: the own join is shown under the id of before.
onInfoOldId(pg, self, peers, history) ==
  LET known  == [pg EXCEPT !.peersMap = setAll(@, peers)]
      replay == IF history # << >> THEN history
                ELSE << [code |-> "joined", peer |-> pg.peerId] >>
  IN  [FoldLeft(onPresence, updateParticipants(known), replay)
         EXCEPT !.peerId = self]

\* CODE_INFO: the peers listed, then the history, or else oneself.
onInfo(pg, self, peers, history) ==
  LET known  == [pg EXCEPT !.peerId = self,
                   !.peersMap = setAll(@, peers)]
      replay == IF history # << >> THEN history
                ELSE << [code |-> "joined", peer |-> self] >>
  IN  FoldLeft(onPresence, updateParticipants(known), replay)

----------------------------------------------------------------------------
Init ==
  /\ peerName \in [Peer -> Nick]
  /\ page = Blank
  /\ online = TRUE
  /\ received = {}
  /\ departed = {}
  /\ ordered = TRUE

\* Room broadcasts a join and a leave once; the frames come in any order.
ReceivePresence(m) ==
  /\ online /\ m \notin received
  /\ received' = received \cup {m}
  /\ page' = onPresence(page, m)
  /\ departed' = departed \cup IF m.code = "left" THEN {m.peer} ELSE {}
  /\ ordered' = (ordered /\ (m.code = "joined" => m.peer \notin departed))
  /\ UNCHANGED <<peerName, online>>

\* In a history a peer's leave is its last word.
Histories ==
  {h \in SeqOf(Presence, MaxReplay) :
     \A i, j \in DOMAIN h :
       i < j /\ h[i].peer = h[j].peer => h[i].code = "joined"}

\* onboardPeer lists the joiner itself too; an unordered_map has any order.
ReceiveInfo(self, peers, history) ==
  /\ online /\ page.peerId = NoPeer
  /\ self \in ToSet(peers)
  /\ page' = onInfo(page, self, peers, history)
  /\ departed' = departed \cup
       {history[i].peer : i \in {j \in DOMAIN history :
                                   history[j].code = "left"}}
  /\ UNCHANGED <<peerName, online, received, ordered>>

onclose ==
  /\ online /\ online' = FALSE
  /\ page' = updateParticipants([page EXCEPT !.peersMap = << >>])
  /\ UNCHANGED <<peerName, received, departed, ordered>>

\* transitionend: a faded child is removed from the document.
TransitionEnd(p) ==
  /\ p \in page.fading
  /\ page' = [page EXCEPT !.fading = @ \ {p}, !.children = delete(@, p)]
  /\ UNCHANGED <<peerName, online, received, departed, ordered>>

Next ==
  \/ \E m \in Presence : ReceivePresence(m)
  \/ \E P \in SUBSET Peer : \E peers \in SetToSeqs(P), history \in Histories,
       self \in P : ReceiveInfo(self, peers, history)
  \/ onclose
  \/ \E p \in Peer : TransitionEnd(p)

Spec == Init /\ [][Next]_vars

----------------------------------------------------------------------------
(* Properties *)

TypeOK ==
  /\ peerName \in [Peer -> Nick]
  /\ page \in Page
  /\ received \subseteq Presence
  /\ departed \subseteq Peer
  /\ {online, ordered} \subseteq BOOLEAN

\* The merge never runs out of peers: the children that stay are always in
\* the order of the sorted peers, also those with one nickname, which come in
\* the order of two different data structures.  It takes that a peer's leave
\* is not overtaken by its join: such a peer would go to the end of peersMap
\* while its child, still fading out, is in the old place.
MergeNeverFails == ordered => ~page.error

\* What the page shows is peersMap: every other peer once, sorted, and the
\* right number in the caption, whatever is still fading out between them.
ListIsExact ==
  page.made /\ ordered =>
    /\ page.count = Len(page.peersMap)
    /\ Keep(page.children, Peer \ page.fading)
         = Keep(Sorted(page.peersMap), Peer \ {page.peerId})
=============================================================================
