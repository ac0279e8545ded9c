---------------------------- MODULE WebDownload ----------------------------
(***************************************************************************)
(* The site and the transfer together: a tab has to find the room and to   *)
(* join it before it downloads the file the host shares there, and what    *)
(* the link asks for passes the interceptor like any request.              *)
(***************************************************************************)
EXTENDS FileTransfer, Website

ASSUME WebDownloadAssumption == Download = Client

webVars == <<vars, siteVars>>

\* chat.js: the link of a file has a path of the page's own site.
FollowLink(c) ==
  /\ at[c] = "joined" /\ pc[c] = "idle" /\ request[c] = Null
  /\ request' = [request EXCEPT ![c] = [url |-> base[c], path |-> "file"]]
  /\ UNCHANGED <<vars, config, redirects, at, base>>

Downloads(c) ==
  /\ Answered(c, "file", "joined", Null)
  /\ GetFile(c)
  /\ UNCHANGED <<config, redirects, base>>

Browses(A) == A /\ UNCHANGED vars
Transfers(A) == A /\ UNCHANGED siteVars

WebNext ==
  \/ \E c \in Client :
       \/ \E name \in Host, port \in PortText \cap Port, path \in {"/", "room"} :
            Browses(Visit(c, name, port, path))
       \/ Browses(OpenRoom(c)) \/ Browses(intercept(c)) \/ Browses(Root(c))
       \/ Browses(ChatHTML(c)) \/ Browses(ChatJS(c)) \/ Browses(WS(c))
       \/ FollowLink(c) \/ Downloads(c)
       \/ Transfers(Subscribe(c)) \/ Transfers(ReadThrows(c))
       \/ Transfers(ReadEnd(c)) \/ Transfers(ReadChunk(c))
       \/ Transfers(requestChunk(c)) \/ Transfers(Abort(c))
       \/ Transfers(waitForChunk(c)) \/ Transfers(onNewItem(c))
       \/ Transfers(sendFileChunks(c)) \/ Transfers(provideFileChunk(c))
  \/ Transfers(HostClose) \/ Transfers(clearSubscribers)

WebInit == Init /\ SiteInit

WebSpec == WebInit /\ [][WebNext]_webVars

\* The server answers every request and the browser loads what a page needs;
\* nobody has to visit, to enter a room or to follow a link.
WebFairSpec ==
  /\ WebSpec
  /\ Fairness
  /\ \A c \in Client :
       /\ WF_webVars(Browses(intercept(c))) /\ WF_webVars(Browses(Root(c)))
       /\ WF_webVars(Browses(ChatHTML(c))) /\ WF_webVars(Browses(ChatJS(c)))
       /\ WF_webVars(Browses(WS(c))) /\ WF_webVars(Downloads(c))

----------------------------------------------------------------------------
(* Properties *)

\* README.md:23 "Anyone who has room-URL can join the room.": whatever name
\* and port of the server a tab was given with the room's path, its websocket
\* gets connected, if the host is configured in lower case.
RoomUrlJoins ==
  \A c \in Client :
    (LowerCaseHost /\ request[c] # Null /\ request[c].path = "room")
      ~> at[c] = "joined"

\* README.md:37 "Files are streamed directly from the host-peer machine.": if
\* the host stays, whoever follows the link gets the whole file, unless he gives
\* up: the way over the interceptor, the lookup, the subscription, the host's
\* websocket and the wait list has no other end.
LinkDeliversFile ==
  [](host = "up") =>
    \A c \in Client : (request[c] # Null /\ request[c].path = "file")
                         ~> pc[c] \in {"complete", "aborted"}
=============================================================================
