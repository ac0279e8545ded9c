------------------------------ MODULE Website ------------------------------
(***************************************************************************)
(* A browser's way to the chat: StaticController, RoomsController and the  *)
(* RedirectInterceptor in front of every request.                          *)
(*                                                                         *)
(* A client is one tab.  It enters some URL that leads to the server, is   *)
(* redirected to the canonical one, and gets the page, which asks for its  *)
(* script and, running it, for a websocket.                                *)
(***************************************************************************)
EXTENDS Config

CONSTANTS Client,      \* browser tabs
          PortText,    \* what the ports are set to
          MaxRedirects \* after that many the browser gives up

ASSUME WebsiteAssumption ==
  PortText \subseteq Int /\ MaxRedirects \in Nat

VARIABLES
  config,    \* the component appConfig
  request,   \* the tab's request under way
  redirects, \* how often the tab's navigation was redirected
  at,        \* what the tab shows
  base       \* the URL of its page

siteVars == <<config, request, redirects, at, base>>

Path == {"/", "room", "chat.js", "ws", "file"}
Request == [url : Url, path : Path]

ASSUME NullAssumption == Null \notin Url /\ Null \notin Request

----------------------------------------------------------------------------
SiteInit ==
  /\ \E variable, argument \in [host : Host, port : PortText \cup {Null}] :
       LET port == Setting(variable.port, argument.port)
       IN  /\ port # Null /\ ValidPort(port)
           /\ config = appConfig(Setting(variable.host, argument.host), port)
  /\ request = [c \in Client |-> Null]
  /\ redirects = [c \in Client |-> 0]
  /\ at = [c \in Client |-> "nowhere"]
  /\ base = [c \in Client |-> Null]

\* Any name of the server, at any port that is forwarded to it.
Visit(c, name, port, path) ==
  /\ at[c] = "nowhere" /\ request[c] = Null
  /\ request' = [request EXCEPT ![c] =
       [url |-> Parsed([scheme |-> "https", host |-> name, port |-> port]),
        path |-> path]]
  /\ redirects' = [redirects EXCEPT ![c] = 0]
  /\ UNCHANGED <<config, at, base>>

Redirected(c) ==
  request[c] # Null /\ Redirects(config, HostHeader(request[c].url))

\* Mutant: the Location has no path.
interceptToRoot(c) ==
  /\ Redirected(c)
  /\ LET follows == request[c].path # "ws" /\ redirects[c] < MaxRedirects
     IN  /\ request' = [request EXCEPT ![c] = IF follows
              THEN [url |-> Parsed(getCanonicalBaseUrl(config)), path |-> "/"]
              ELSE Null]
         /\ redirects' = [redirects EXCEPT ![c] = IF follows THEN @ + 1 ELSE @]
  /\ UNCHANGED <<config, at, base>>

\* 301: a tab follows it, a WebSocket fails.
intercept(c) ==
  /\ Redirected(c)
  /\ LET follows == request[c].path # "ws" /\ redirects[c] < MaxRedirects
     IN  /\ request' = [request EXCEPT ![c] = IF follows
              THEN [@ EXCEPT !.url = Parsed(getCanonicalBaseUrl(config))]
              ELSE Null]
         /\ redirects' = [redirects EXCEPT ![c] = IF follows THEN @ + 1 ELSE @]
  /\ UNCHANGED <<config, at, base>>

\* The request for path is answered; the tab shows page and asks for next.
Answered(c, path, page, next) ==
  /\ request[c] # Null /\ request[c].path = path /\ ~Redirected(c)
  /\ at' = [at EXCEPT ![c] = page]
  /\ request' = [request EXCEPT ![c] = next]

NewPage(c) ==
  /\ base' = [base EXCEPT ![c] = request[c].url]
  /\ redirects' = [redirects EXCEPT ![c] = 0]
  /\ UNCHANGED config

Root(c) == Answered(c, "/", "front", Null) /\ NewPage(c)

\* The front page opens a room, by a path of its own site.
OpenRoom(c) ==
  /\ at[c] = "front" /\ request[c] = Null
  /\ request' = [request EXCEPT ![c] = [url |-> base[c], path |-> "room"]]
  /\ UNCHANGED <<config, redirects, at, base>>

\* The page names its script by a path of its own site.
ChatHTML(c) ==
  /\ Answered(c, "room", "room", [url |-> request[c].url, path |-> "chat.js"])
  /\ NewPage(c)

\* The script begins with urlWebsocket, which it opens at once.
ChatJS(c) ==
  /\ Answered(c, "chat.js", "chat",
       [url |-> Parsed(getWebsocketBaseUrl(config)), path |-> "ws"])
  /\ UNCHANGED <<config, redirects, base>>

\* The handshake: Lobby gets a new websocket.
WS(c) == Answered(c, "ws", "joined", Null)
           /\ UNCHANGED <<config, redirects, base>>

SiteNext ==
  \E c \in Client :
    \/ \E name \in Host, port \in PortText \cap Port, path \in {"/", "room"} :
         Visit(c, name, port, path)
    \/ OpenRoom(c)
    \/ intercept(c) \/ Root(c) \/ ChatHTML(c) \/ ChatJS(c) \/ WS(c)

SiteSpec == SiteInit /\ [][SiteNext]_siteVars

----------------------------------------------------------------------------
(* Properties *)

\* The types, which the proofs need; AppComponent lets no other port through.
SiteTypeOK ==
  /\ config \in Config
  /\ request \in [Client -> Request \cup {Null}]
  /\ redirects \in [Client -> 0 .. MaxRedirects]
  /\ at \in [Client -> {"nowhere", "front", "room", "chat", "joined"}]
  /\ base \in [Client -> Url \cup {Null}]

LowerCaseHost == Lower[config.host] = config.host

\* What a page asks for, the websocket at getWebsocketBaseUrl too, is never
\* redirected, whatever the ports are: the three URLs of ConfigDto and the
\* browser's spelling of them agree.
PagesStayCanonical == \A c \in Client : at[c] # "nowhere" => ~Redirected(c)

\* One redirect is enough, if the host is configured in lower case.  If it is
\* not, no browser ever names it as intercept wants it: every redirect is
\* answered by another one and nobody gets a page.
RedirectEnds ==
  \A c \in Client :
    IF LowerCaseHost THEN redirects[c] <= 1 ELSE at[c] = "nowhere"
=============================================================================
