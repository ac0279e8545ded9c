--------------------------- MODULE WebsiteProofs ---------------------------
(***************************************************************************)
(* Proofs about Config and Website, for any host names, ports and tabs,    *)
(* and about their composition with the transfer, WebDownload: what holds  *)
(* of either part alone holds of the two together.                         *)
(***************************************************************************)
EXTENDS WebDownload, FileTransferProofs, TLAPS

----------------------------------------------------------------------------
(* The URLs of ConfigDto *)

\* The ports are numbers, the two default ones are among them.
LEMMA PortIsInt == (\A n \in Port : n \in Int) /\ 443 \in Port /\ 80 \in Port
<1>1. MaxPort \in Int /\ 443 <= MaxPort
  BY DEF MaxPort
<1> QED
  BY <1>1 DEF Port

\* What passes AppComponent's test fits into 16 bits.
LEMMA ValidPortFits == \A n \in Int : ValidPort(n) => n \in Port
<1>1. MaxPort \in Int
  BY DEF MaxPort
<1> QED
  BY <1>1 DEF Port, ValidPort

\* A browser that asks for the canonical URL, or opens the websocket URL, is
\* redirected if and only if the host is not configured in lower case: the
\* default ports of getHostString, of getCanonicalBaseUrl and of the browser
\* agree, with TLS and without, and so do the written port and the left out.
THEOREM ConfigUrlsAgree ==
  ASSUME NEW c \in Config
  PROVE  /\ Redirects(c, HostHeader(Parsed(getCanonicalBaseUrl(c))))
              <=> Lower[c.host] # c.host
         /\ Redirects(c, HostHeader(Parsed(getWebsocketBaseUrl(c))))
              <=> Lower[c.host] # c.host
<1> DEFINE page == Parsed(getCanonicalBaseUrl(c))
           ws == Parsed(getWebsocketBaseUrl(c))
<1>1. c.host \in Host /\ c.port \in Port /\ c.useTLS \in BOOLEAN
  BY DEF Config
<1>a. c.port \in Int /\ c.port # Null /\ Lower[c.host] \in Host
  <2>1. c.port \in Int
    BY <1>1, PortIsInt
  <2>2. c.port # Null
    BY <2>1, ConfigAssumption
  <2>3. Lower[c.host] \in Host
    BY <1>1, ConfigAssumption
  <2> QED
    BY <2>1, <2>2, <2>3
<1>2. /\ page.host = Lower[c.host] /\ page.port = c.port
      /\ page.scheme = IF c.useTLS THEN "https" ELSE "http"
  BY <1>1, <1>a DEF Parsed, getCanonicalBaseUrl, SchemePort, defPort
<1>3. /\ ws.host = Lower[c.host] /\ ws.port = c.port
      /\ ws.scheme = IF c.useTLS THEN "wss" ELSE "ws"
  BY <1>1, <1>a DEF Parsed, getWebsocketBaseUrl, SchemePort
<1>4. /\ HostHeader(page).host = Lower[c.host]
      /\ HostHeader(page).port = getHostString(c).port
      /\ HostHeader(ws).host = Lower[c.host]
      /\ HostHeader(ws).port = getHostString(c).port
  BY <1>2, <1>3 DEF HostHeader, getHostString, SchemePort, defPort
<1>5. HostHeader(page) # Null /\ HostHeader(ws) # Null
  BY <1>1, <1>a, <1>2, <1>3, ConfigAssumption DEF HostHeader
<1> QED
  BY <1>4, <1>5 DEF Redirects, HostHeader, getHostString

\* What the browser makes of the URLs of ConfigDto is a URL in lower case.
LEMMA ParsedIsLower ==
  ASSUME NEW c \in Config
  PROVE  /\ Parsed(getCanonicalBaseUrl(c)) \in Url
         /\ Lower[Parsed(getCanonicalBaseUrl(c)).host]
              = Parsed(getCanonicalBaseUrl(c)).host
         /\ Parsed(getWebsocketBaseUrl(c)) \in Url
         /\ Lower[Parsed(getWebsocketBaseUrl(c)).host]
              = Parsed(getWebsocketBaseUrl(c)).host
<1>1. c.host \in Host /\ c.port \in Port /\ c.useTLS \in BOOLEAN
  BY DEF Config
<1>2. c.port # Null
  BY <1>1, PortIsInt, ConfigAssumption
<1>3. Lower[c.host] \in Host /\ Lower[Lower[c.host]] = Lower[c.host]
  BY <1>1, ConfigAssumption
<1>4. 443 \in Port /\ 80 \in Port
  BY PortIsInt
<1> QED
  BY <1>1, <1>2, <1>3, <1>4
  DEF Parsed, getCanonicalBaseUrl, getWebsocketBaseUrl, SchemePort, defPort, Url

\* A request that is let through names the host as it is configured.
LEMMA ServedIsLower ==
  ASSUME SiteTypeOK, NEW url, Lower[url.host] = url.host,
         ~Redirects(config, HostHeader(url))
  PROVE  LowerCaseHost
<1>1. HostHeader(url) = getHostString(config)
  BY DEF Redirects
<1>2. url.host = config.host
  BY <1>1 DEF HostHeader, getHostString
<1> QED
  BY <1>2 DEF LowerCaseHost

----------------------------------------------------------------------------
(* The inductive invariant *)

\* What a page asks for has the header that intercept wants, and so does the
\* URL of the page, which its relative paths are taken from.  A tab without a
\* page that was redirected asks for the canonical URL.
TabInv(c) ==
  /\ request[c] # Null => Lower[request[c].url.host] = request[c].url.host
  /\ at[c] # "nowhere" =>
       /\ LowerCaseHost /\ ~Redirected(c)
       /\ base[c] # Null /\ Lower[base[c].host] = base[c].host
       /\ ~Redirects(config, HostHeader(base[c]))
  /\ at[c] = "nowhere" /\ request[c] # Null =>
       /\ request[c].path \in {"/", "room"}
       /\ redirects[c] > 0
            => request[c].url = Parsed(getCanonicalBaseUrl(config))
  /\ LowerCaseHost => redirects[c] <= 1

SiteInv == SiteTypeOK /\ \A c \in Client : TabInv(c)

\* The environment decides the config once; no tab has asked for anything.
LEMMA SiteInitInv == SiteInit => SiteInv
<1> SUFFICES ASSUME SiteInit PROVE SiteInv
  OBVIOUS
<1>1. PICK variable \in [host : Host, port : PortText \cup {Null}],
           argument \in [host : Host, port : PortText \cup {Null}] :
        LET port == Setting(variable.port, argument.port)
        IN  /\ port # Null /\ ValidPort(port)
            /\ config = appConfig(Setting(variable.host, argument.host), port)
  BY DEF SiteInit
<1> DEFINE port == Setting(variable.port, argument.port)
           name == Setting(variable.host, argument.host)
<1>2. name \in Host
  BY DEF Setting
<1>3. port \in PortText
  BY <1>1 DEF Setting
<1>4. port \in Port
  <2>1. port \in Int
    BY <1>3, WebsiteAssumption
  <2>2. ValidPort(port)
    BY <1>1
  <2> QED
    BY <2>1, <2>2, ValidPortFits
<1>5. config \in Config
  <2> HIDE DEF port, name
  <2> QED
    BY <1>1, <1>2, <1>4 DEF appConfig, Config, port, name
<1>6. SiteTypeOK
  BY <1>5, WebsiteAssumption DEF SiteInit, SiteTypeOK
<1>7. \A c \in Client : TabInv(c)
  BY DEF SiteInit, TabInv
<1> QED
  BY <1>6, <1>7 DEF SiteInv

\* What another tab does is of no concern to a tab.
LEMMA OtherTab ==
  ASSUME NEW d \in Client, TabInv(d), config' = config,
         request'[d] = request[d], redirects'[d] = redirects[d],
         at'[d] = at[d], base'[d] = base[d]
  PROVE  TabInv(d)'
BY DEF TabInv, LowerCaseHost, Redirected

----------------------------------------------------------------------------
(* The steps of a tab *)

\* A tab that enters a URL has no page; the browser spells the host in lower
\* case.
LEMMA VisitKeeps ==
  ASSUME SiteInv, NEW c \in Client, NEW name \in Host,
         NEW port \in PortText \cap Port, NEW path \in {"/", "room"},
         Visit(c, name, port, path)
  PROVE  SiteInv'
<1> DEFINE text == [scheme |-> "https", host |-> name, port |-> port]
<1>1. port \in Port /\ port # Null
  BY PortIsInt, ConfigAssumption
<1>2. /\ Parsed(text) \in Url
      /\ Lower[Parsed(text).host] = Parsed(text).host
  BY <1>1, ConfigAssumption DEF Parsed, Url
<1>3. [url |-> Parsed(text), path |-> path] \in Request
  BY <1>2 DEF Request, Path
<1> HIDE DEF text
<1>4. request' = [request EXCEPT ![c] = [url |-> Parsed(text), path |-> path]]
  BY DEF Visit, text
<1>5. SiteTypeOK'
  BY <1>3, <1>4, WebsiteAssumption DEF SiteInv, SiteTypeOK, Visit
<1>6. TabInv(c)'
  BY <1>2, <1>4 DEF SiteInv, SiteTypeOK, Visit, TabInv, LowerCaseHost
<1>7. ASSUME NEW d \in Client, d # c PROVE TabInv(d)'
  BY <1>4, <1>7, OtherTab DEF SiteInv, SiteTypeOK, Visit
<1> QED
  BY <1>5, <1>6, <1>7 DEF SiteInv

\* The redirect leads to the canonical URL.  With a host in lower case that
\* is not redirected again, so it was the first redirect; a page's requests
\* are not redirected at all.
LEMMA interceptKeeps ==
  ASSUME SiteInv, NEW c \in Client, intercept(c)
  PROVE  SiteInv'
<1> DEFINE canonical == Parsed(getCanonicalBaseUrl(config))
           follows == request[c].path # "ws" /\ redirects[c] < MaxRedirects
           next == IF follows THEN [request[c] EXCEPT !.url = canonical]
                   ELSE Null
<1>1. config \in Config /\ request[c] # Null /\ request[c] \in Request
  BY DEF SiteInv, SiteTypeOK, intercept, Redirected
<1>2. canonical \in Url /\ Lower[canonical.host] = canonical.host
  BY <1>1, ParsedIsLower
<1>3. at[c] = "nowhere"
  BY DEF SiteInv, TabInv, intercept
<1>4. LowerCaseHost => redirects[c] = 0
  <2> SUFFICES ASSUME LowerCaseHost, redirects[c] > 0 PROVE FALSE
    BY WebsiteAssumption DEF SiteInv, SiteTypeOK
  <2>1. request[c].url = canonical
    BY <1>1, <1>3 DEF SiteInv, TabInv
  <2>2. ~Redirects(config, HostHeader(canonical))
    BY <1>1, ConfigUrlsAgree DEF LowerCaseHost
  <2> QED
    BY <2>1, <2>2 DEF intercept, Redirected
<1>5. [request[c] EXCEPT !.url = canonical] \in Request
  BY <1>1, <1>2 DEF Request
<1> HIDE DEF canonical
<1>6. /\ request' = [request EXCEPT ![c] = next]
      /\ redirects' = [redirects EXCEPT ![c] = IF follows THEN @ + 1 ELSE @]
      /\ UNCHANGED <<config, at, base>>
  BY DEF intercept, canonical
<1>7. SiteTypeOK'
  BY <1>5, <1>6, WebsiteAssumption DEF SiteInv, SiteTypeOK
<1>8. next # Null => next.url = canonical /\ next.path = request[c].path
  BY <1>1 DEF Request
<1>9. request'[c] = next /\ redirects'[c] \in {redirects[c], redirects[c] + 1}
  BY <1>6 DEF SiteInv, SiteTypeOK
<1>10. LowerCaseHost => redirects'[c] <= 1
  BY <1>4, <1>9
<1>11. TabInv(c)'
  BY <1>1, <1>2, <1>3, <1>6, <1>8, <1>9, <1>10, ZenonT(30)
  DEF SiteInv, TabInv, LowerCaseHost, canonical
<1>12. ASSUME NEW d \in Client, d # c PROVE TabInv(d)'
  BY <1>6, <1>12, OtherTab DEF SiteInv, SiteTypeOK
<1> QED
  BY <1>7, <1>11, <1>12 DEF SiteInv

\* A page is served under a URL that intercept lets through.
LEMMA NewPageKeeps ==
  ASSUME SiteInv, NEW c \in Client, NEW path, NEW page \in {"front", "room"},
         NEW next \in {Null, [url |-> request[c].url, path |-> "chat.js"]},
         Answered(c, path, page, next), NewPage(c)
  PROVE  SiteInv'
<1>1. request[c] # Null /\ request[c] \in Request /\ request[c].url \in Url
  BY DEF SiteInv, SiteTypeOK, Answered, Request
<1>2. /\ ~Redirects(config, HostHeader(request[c].url))
      /\ Lower[request[c].url.host] = request[c].url.host
  BY <1>1 DEF SiteInv, TabInv, Answered, Redirected
<1>3. LowerCaseHost
  BY <1>2, ServedIsLower DEF SiteInv
<1>4. /\ request' = [request EXCEPT ![c] = next]
      /\ at' = [at EXCEPT ![c] = page]
      /\ base' = [base EXCEPT ![c] = request[c].url]
      /\ redirects' = [redirects EXCEPT ![c] = 0] /\ config' = config
  BY DEF Answered, NewPage
<1>5. next \in Request \cup {Null}
  BY <1>1 DEF Request, Path
<1>6. next # Null => next.url = request[c].url
  OBVIOUS
<1>7. SiteTypeOK'
  BY <1>1, <1>4, <1>5, WebsiteAssumption DEF SiteInv, SiteTypeOK
<1>8. /\ request'[c] = next /\ at'[c] = page /\ base'[c] = request[c].url
      /\ redirects'[c] = 0 /\ base'[c] # Null
  BY <1>1, <1>4, NullAssumption DEF SiteInv, SiteTypeOK
<1>9. TabInv(c)'
  BY <1>2, <1>3, <1>4, <1>6, <1>8 DEF TabInv, LowerCaseHost, Redirected
<1>10. ASSUME NEW d \in Client, d # c PROVE TabInv(d)'
  BY <1>4, <1>10, OtherTab DEF SiteInv, SiteTypeOK
<1> QED
  BY <1>7, <1>9, <1>10 DEF SiteInv

\* A page asks for a URL that is not redirected, or for nothing.
LEMMA NextRequestKeeps ==
  ASSUME SiteInv, NEW c \in Client, at[c] # "nowhere",
         NEW page \in {"front", "chat", "joined"},
         NEW next \in Request \cup {Null},
         next # Null => /\ Lower[next.url.host] = next.url.host
                        /\ ~Redirects(config, HostHeader(next.url)),
         request' = [request EXCEPT ![c] = next],
         at' = [at EXCEPT ![c] = page],
         UNCHANGED <<config, redirects, base>>
  PROVE  SiteInv'
<1>1. SiteTypeOK'
  BY DEF SiteInv, SiteTypeOK
<1>2. request'[c] = next /\ at'[c] = page
  BY DEF SiteInv, SiteTypeOK
<1>3. TabInv(c)'
  BY <1>2 DEF SiteInv, TabInv, LowerCaseHost, Redirected
<1>4. ASSUME NEW d \in Client, d # c PROVE TabInv(d)'
  BY <1>4, OtherTab DEF SiteInv, SiteTypeOK
<1> QED
  BY <1>1, <1>3, <1>4 DEF SiteInv

\* Every step of a tab keeps the invariant.
LEMMA SiteStep == SiteInv /\ [SiteNext]_siteVars => SiteInv'
<1> SUFFICES ASSUME SiteInv, [SiteNext]_siteVars PROVE SiteInv'
  OBVIOUS
<1>1. ASSUME NEW c \in Client, NEW name \in Host,
             NEW port \in PortText \cap Port, NEW path \in {"/", "room"},
             Visit(c, name, port, path)
      PROVE  SiteInv'
  BY <1>1, VisitKeeps
<1>2. ASSUME NEW c \in Client, intercept(c) PROVE SiteInv'
  BY <1>2, interceptKeeps
<1>3. ASSUME NEW c \in Client, Root(c) PROVE SiteInv'
  BY <1>3, NewPageKeeps DEF Root
<1>4. ASSUME NEW c \in Client, ChatHTML(c) PROVE SiteInv'
  BY <1>4, NewPageKeeps DEF ChatHTML
<1>5. ASSUME NEW c \in Client, OpenRoom(c) PROVE SiteInv'
  <2> DEFINE next == [url |-> base[c], path |-> "room"]
  <2>1. base[c] \in Url /\ at[c] = "front"
    BY <1>5 DEF SiteInv, SiteTypeOK, TabInv, OpenRoom
  <2>2. next \in Request
    BY <2>1 DEF Request, Path
  <2>3. /\ Lower[next.url.host] = next.url.host
        /\ ~Redirects(config, HostHeader(next.url))
    BY <2>1 DEF SiteInv, TabInv
  <2>4. at' = [at EXCEPT ![c] = "front"]
    BY <2>1, <1>5 DEF SiteInv, SiteTypeOK, OpenRoom
  <2>5. /\ request' = [request EXCEPT ![c] = next]
        /\ UNCHANGED <<config, redirects, base>>
    BY <1>5 DEF OpenRoom
  <2> QED
    BY <2>1, <2>2, <2>3, <2>4, <2>5, NextRequestKeeps
<1>6. ASSUME NEW c \in Client, ChatJS(c) PROVE SiteInv'
  <2> DEFINE next == [url |-> Parsed(getWebsocketBaseUrl(config)),
                      path |-> "ws"]
  <2>1. config \in Config
    BY DEF SiteInv, SiteTypeOK
  <2>2. /\ at[c] # "nowhere" /\ LowerCaseHost
    BY <1>6 DEF SiteInv, TabInv, ChatJS, Answered
  <2>3. next \in Request
    BY <2>1, ParsedIsLower DEF Request, Path
  <2>4. /\ Lower[next.url.host] = next.url.host
        /\ ~Redirects(config, HostHeader(next.url))
    BY <2>1, <2>2, ParsedIsLower, ConfigUrlsAgree DEF LowerCaseHost
  <2>5. /\ request' = [request EXCEPT ![c] = next]
        /\ at' = [at EXCEPT ![c] = "chat"]
        /\ UNCHANGED <<config, redirects, base>>
    BY <1>6 DEF ChatJS, Answered
  <2> HIDE DEF next
  <2> QED
    BY <2>2, <2>3, <2>4, <2>5, NextRequestKeeps
<1>7. ASSUME NEW c \in Client, WS(c) PROVE SiteInv'
  <2>1. at[c] # "nowhere"
    BY <1>7 DEF SiteInv, TabInv, WS, Answered
  <2>2. /\ request' = [request EXCEPT ![c] = Null]
        /\ at' = [at EXCEPT ![c] = "joined"]
        /\ UNCHANGED <<config, redirects, base>>
    BY <1>7 DEF WS, Answered
  <2> QED
    BY <2>1, <2>2, NextRequestKeeps
<1>8. CASE UNCHANGED siteVars
  <2>1. SiteTypeOK'
    BY <1>8 DEF SiteInv, SiteTypeOK, siteVars
  <2>2. ASSUME NEW d \in Client PROVE TabInv(d)'
    BY <1>8, <2>2, OtherTab DEF SiteInv, siteVars
  <2> QED
    BY <2>1, <2>2 DEF SiteInv
<1> QED
  BY <1>1, <1>2, <1>3, <1>4, <1>5, <1>6, <1>7, <1>8 DEF SiteNext

----------------------------------------------------------------------------
(* The theorems *)

LEMMA SiteInductive == SiteSpec => []SiteInv
<1>1. SiteInit => SiteInv
  BY SiteInitInv
<1>2. SiteInv /\ [SiteNext]_siteVars => SiteInv'
  BY SiteStep
<1> QED
  BY <1>1, <1>2, PTL DEF SiteSpec

\* Type correctness: the port fits into 16 bits, every request is a URL.
THEOREM WebsiteTypeCorrect == SiteSpec => []SiteTypeOK
<1>1. SiteInv => SiteTypeOK
  BY DEF SiteInv
<1> QED
  BY <1>1, SiteInductive, PTL

\* Nothing that a page asks for is redirected, with any ports, any names of
\* the server and any number of tabs.
THEOREM WebsitePagesStayCanonical == SiteSpec => []PagesStayCanonical
<1>1. SiteInv => PagesStayCanonical
  BY DEF SiteInv, TabInv, PagesStayCanonical
<1> QED
  BY <1>1, SiteInductive, PTL

\* A tab is redirected once at most if the host is in lower case, and gets no
\* page at all if it is not.
THEOREM WebsiteRedirectEnds == SiteSpec => []RedirectEnds
<1>1. SiteInv => RedirectEnds
  BY DEF SiteInv, TabInv, RedirectEnds
<1> QED
  BY <1>1, SiteInductive, PTL

----------------------------------------------------------------------------
(* The composition with the transfer *)

\* A step of the transfer but for GetFile.
TransferStep ==
  \/ \E d \in Download :
       \/ Subscribe(d) \/ ReadThrows(d) \/ ReadEnd(d) \/ ReadChunk(d)
       \/ requestChunk(d) \/ Abort(d) \/ waitForChunk(d) \/ onNewItem(d)
       \/ sendFileChunks(d) \/ provideFileChunk(d)
  \/ HostClose \/ clearSubscribers

\* A step of the composition is one of the site, or one of the transfer, or
\* the click on a link, or the answer to it.
LEMMA WebStepCases ==
  ASSUME [WebNext]_webVars
  PROVE  \/ [SiteNext]_siteVars /\ UNCHANGED vars
         \/ UNCHANGED siteVars /\ TransferStep
         \/ \E c \in Client : FollowLink(c) \/ Downloads(c)
<1>1. CASE UNCHANGED webVars
  BY <1>1 DEF webVars
<1>2. ASSUME NEW c \in Client, NEW name \in Host,
             NEW port \in PortText \cap Port, NEW path \in {"/", "room"},
             Browses(Visit(c, name, port, path))
      PROVE  [SiteNext]_siteVars /\ UNCHANGED vars
  BY <1>2 DEF Browses, SiteNext
<1>3. ASSUME NEW c \in Client,
             \/ Browses(OpenRoom(c)) \/ Browses(intercept(c))
             \/ Browses(Root(c)) \/ Browses(ChatHTML(c))
             \/ Browses(ChatJS(c)) \/ Browses(WS(c))
      PROVE  [SiteNext]_siteVars /\ UNCHANGED vars
  BY <1>3 DEF Browses, SiteNext
<1>4. ASSUME NEW c \in Client,
             \/ Transfers(Subscribe(c)) \/ Transfers(ReadThrows(c))
             \/ Transfers(ReadEnd(c)) \/ Transfers(ReadChunk(c))
             \/ Transfers(requestChunk(c)) \/ Transfers(Abort(c))
             \/ Transfers(waitForChunk(c)) \/ Transfers(onNewItem(c))
             \/ Transfers(sendFileChunks(c)) \/ Transfers(provideFileChunk(c))
      PROVE  UNCHANGED siteVars /\ TransferStep
  BY <1>4, WebDownloadAssumption DEF Transfers, TransferStep
<1>5. ASSUME Transfers(HostClose) \/ Transfers(clearSubscribers)
      PROVE  UNCHANGED siteVars /\ TransferStep
  BY <1>5 DEF Transfers, TransferStep
<1> QED
  BY <1>1, <1>2, <1>3, <1>4, <1>5 DEF WebNext

\* Only GetFile starts a download.
LEMMA IdleStays ==
  ASSUME TypeOK, TransferStep, NEW c \in Download, pc[c] = "idle"
  PROVE  pc'[c] = "idle"
<1>1. ASSUME NEW d \in Download,
             \/ Subscribe(d) \/ ReadThrows(d) \/ ReadEnd(d) \/ ReadChunk(d)
             \/ requestChunk(d) \/ Abort(d) \/ waitForChunk(d)
      PROVE  pc'[c] = "idle"
  BY <1>1 DEF TypeOK, Subscribe, ReadThrows, ReadEnd, ReadChunk,
              requestChunk, Abort, EndResponse, waitForChunk, Moves
<1>2. ASSUME NEW d \in Download, onNewItem(d) \/ sendFileChunks(d)
      PROVE  pc'[c] = "idle"
  BY <1>2 DEF TypeOK, onNewItem, sendFileChunks, Moves
<1>3. ASSUME NEW d \in Download, provideFileChunk(d) PROVE pc'[c] = "idle"
  <2>1. Notified({d}) \/ UNCHANGED pc
    BY <1>3 DEF provideFileChunk
  <2> QED
    BY <2>1, NotifiedMoves
<1>4. CASE HostClose
  BY <1>4 DEF HostClose
<1>5. CASE clearSubscribers
  BY <1>5, NotifiedMoves DEF clearSubscribers, invalidate
<1> QED
  BY <1>1, <1>2, <1>3, <1>4, <1>5 DEF TransferStep

\* A tab that follows the link of a file is on the room's page and has not
\* downloaded the file yet: Downloads answers it.
LinkInv(c) ==
  request[c] # Null /\ request[c].path = "file"
    => at[c] = "joined" /\ pc[c] = "idle"

WebInv == TypeOK /\ SiteInv /\ \A c \in Client : LinkInv(c)

\* No tab of the site has asked for a file by itself.
LEMMA SiteAsksNoFile ==
  ASSUME SiteInv, [SiteNext]_siteVars, NEW c \in Client,
         request'[c] # Null, request'[c].path = "file"
  PROVE  /\ request[c] # Null /\ request[c].path = "file"
         /\ at[c] = "joined" => at'[c] = "joined"
<1>1. CASE UNCHANGED siteVars
  BY <1>1 DEF siteVars
<1>2. ASSUME NEW d \in Client, NEW name \in Host,
             NEW port \in PortText \cap Port, NEW path \in {"/", "room"},
             Visit(d, name, port, path)
      PROVE  /\ request[c] # Null /\ request[c].path = "file"
             /\ at[c] = "joined" => at'[c] = "joined"
  BY <1>2 DEF SiteInv, SiteTypeOK, Visit
<1>3. ASSUME NEW d \in Client, intercept(d)
      PROVE  /\ request[c] # Null /\ request[c].path = "file"
             /\ at[c] = "joined" => at'[c] = "joined"
  BY <1>3 DEF SiteInv, SiteTypeOK, Request, intercept, Redirected
<1>4. ASSUME NEW d \in Client,
             Root(d) \/ ChatHTML(d) \/ ChatJS(d) \/ WS(d) \/ OpenRoom(d)
      PROVE  /\ request[c] # Null /\ request[c].path = "file"
             /\ at[c] = "joined" => at'[c] = "joined"
  <2>1. c # d
    BY <1>4 DEF SiteInv, SiteTypeOK, Root, ChatHTML, ChatJS, WS, OpenRoom,
                Answered
  <2> QED
    BY <1>4, <2>1 DEF SiteInv, SiteTypeOK, Root, ChatHTML, ChatJS, WS,
                      OpenRoom, Answered
<1> QED
  BY <1>1, <1>2, <1>3, <1>4 DEF SiteNext

\* Neither the click on a link nor its answer takes a tab to a URL that is
\* redirected.
LEMMA FollowLinkKeeps ==
  ASSUME WebInv, NEW c \in Client, FollowLink(c) PROVE WebInv'
<1> DEFINE next == [url |-> base[c], path |-> "file"]
<1>1. /\ SiteInv /\ TypeOK
      /\ at[c] = "joined" /\ pc[c] = "idle"
      /\ request' = [request EXCEPT ![c] = next]
      /\ UNCHANGED <<vars, config, redirects, at, base>>
  BY DEF WebInv, FollowLink
<1>2. base[c] \in Url
  BY <1>1 DEF SiteInv, SiteTypeOK, TabInv
<1>3. next \in Request
  BY <1>2 DEF Request, Path
<1>4. /\ Lower[next.url.host] = next.url.host
      /\ ~Redirects(config, HostHeader(next.url))
  BY <1>1 DEF SiteInv, TabInv
<1>5. at' = [at EXCEPT ![c] = "joined"]
  BY <1>1 DEF SiteInv, SiteTypeOK
<1>6. SiteInv'
  <2> HIDE DEF next
  <2> QED
    BY <1>1, <1>3, <1>4, <1>5, NextRequestKeeps
<1>7. TypeOK'
  BY <1>1 DEF TypeOK, vars, fileVars, chunkVars, netVars
<1>8. ASSUME NEW d \in Client PROVE LinkInv(d)'
  BY <1>1 DEF WebInv, LinkInv, SiteInv, SiteTypeOK, vars
<1> QED
  BY <1>6, <1>7, <1>8 DEF WebInv

LEMMA DownloadsKeeps ==
  ASSUME WebInv, IInv, NEW c \in Client, Downloads(c) PROVE WebInv'
<1>1. /\ SiteInv /\ TypeOK /\ c \in Download
      /\ request[c] # Null /\ request[c].path = "file"
      /\ at' = [at EXCEPT ![c] = "joined"]
      /\ request' = [request EXCEPT ![c] = Null]
      /\ GetFile(c)
      /\ UNCHANGED <<config, redirects, base>>
  BY WebDownloadAssumption DEF WebInv, Downloads, Answered
<1>2. at[c] # "nowhere"
  BY <1>1 DEF SiteInv, TabInv
<1>3. SiteInv'
  BY <1>1, <1>2, NextRequestKeeps
<1>4. TypeOK'
  BY <1>1, GetFileStep DEF IInv
<1>5. ASSUME NEW d \in Client PROVE LinkInv(d)'
  BY <1>1 DEF WebInv, LinkInv, SiteInv, SiteTypeOK, GetFile, Moves, TypeOK
<1> QED
  BY <1>3, <1>4, <1>5 DEF WebInv

\* With IInv, which is about the transfer, the invariant is inductive.
LEMMA WebStep ==
  ASSUME WebInv, IInv, [WebNext]_webVars PROVE WebInv'
<1>1. SiteInv /\ TypeOK /\ \A c \in Client : LinkInv(c)
  BY DEF WebInv
<1>2. CASE [SiteNext]_siteVars /\ UNCHANGED vars
  <2>1. SiteInv'
    BY <1>1, <1>2, SiteStep
  <2>2. TypeOK' /\ pc' = pc
    BY <1>1, <1>2 DEF TypeOK, vars, fileVars, chunkVars, netVars
  <2>3. ASSUME NEW c \in Client PROVE LinkInv(c)'
    BY <1>1, <1>2, <2>2, SiteAsksNoFile DEF LinkInv
  <2> QED
    BY <2>1, <2>2, <2>3 DEF WebInv
<1>3. CASE UNCHANGED siteVars /\ TransferStep
  <2>1. SiteInv'
    BY <1>1, <1>3, SiteStep
  <2>2. TypeOK'
    BY <1>3, StepIInv DEF TransferStep, Next, IInv
  <2>3. ASSUME NEW c \in Client PROVE LinkInv(c)'
    BY <1>1, <1>3, IdleStays, WebDownloadAssumption DEF LinkInv, siteVars
  <2> QED
    BY <2>1, <2>2, <2>3 DEF WebInv
<1> QED
  BY <1>2, <1>3, WebStepCases, FollowLinkKeeps, DownloadsKeeps

\* A step of the composition is a step of the transfer, or none.
LEMMA WebTransferStep ==
  ASSUME [WebNext]_webVars PROVE [Next]_vars
<1>1. ASSUME NEW c \in Client, FollowLink(c) \/ Downloads(c)
      PROVE  [Next]_vars
  <2>1. UNCHANGED vars \/ GetFile(c)
    BY <1>1 DEF FollowLink, Downloads
  <2> QED
    BY <2>1, WebDownloadAssumption DEF Next
<1>2. ASSUME TransferStep PROVE Next
  BY <1>2 DEF TransferStep, Next
<1> QED
  BY <1>1, <1>2, WebStepCases

\* The composition implements the transfer: what the tabs do on their way
\* disturbs no download, and every theorem about FileTransfer holds.
THEOREM WebImplementsTransfer == WebSpec => Spec
<1>1. WebInit => Init
  BY DEF WebInit
<1> QED
  BY <1>1, WebTransferStep, PTL DEF WebSpec, Spec

LEMMA WebInductive == WebSpec => []WebInv
<1>1. WebInit => WebInv
  <2> SUFFICES ASSUME Init, SiteInit PROVE WebInv
    BY DEF WebInit
  <2>1. TypeOK
    BY InitIInv DEF IInv
  <2>2. \A c \in Client : LinkInv(c)
    BY DEF SiteInit, LinkInv
  <2> QED
    BY <2>1, <2>2, SiteInitInv DEF WebInv
<1>2. WebInv /\ IInv /\ [WebNext]_webVars => WebInv'
  BY WebStep
<1> QED
  BY <1>1, <1>2, WebImplementsTransfer, SpecIInv, PTL DEF WebSpec

\* What the site promises holds with the links of files too.
THEOREM WebPagesStayCanonical == WebSpec => []PagesStayCanonical
<1>1. WebInv => PagesStayCanonical
  BY DEF WebInv, SiteInv, TabInv, PagesStayCanonical
<1> QED
  BY <1>1, WebInductive, PTL

THEOREM WebRedirectEnds == WebSpec => []RedirectEnds
<1>1. WebInv => RedirectEnds
  BY DEF WebInv, SiteInv, TabInv, RedirectEnds
<1> QED
  BY <1>1, WebInductive, PTL

\* A link that a tab follows always leads to GetFile: the interceptor lets it
\* pass, and the tab has joined the room and no download of its own yet.  What
\* LinkDeliversFile adds is that the server answers at all.
LinkReachesFile ==
  \A c \in Client :
    request[c] # Null /\ request[c].path = "file"
      => ~Redirected(c) /\ at[c] = "joined" /\ pc[c] = "idle"

THEOREM WebLinkReachesFile == WebSpec => []LinkReachesFile
<1>1. WebInv => LinkReachesFile
  BY DEF WebInv, LinkInv, SiteInv, TabInv, LinkReachesFile
<1> QED
  BY <1>1, WebInductive, PTL

\* The flow control, the suspension protocol and the stream of the transfer,
\* for downloads that come from the pages of the site.
THEOREM WebTransferSafe ==
  WebSpec => [](TypeOK /\ AtMostOneChunk /\ WaiterIsServed /\ NoLostWakeup)
BY WebImplementsTransfer, TransferTypeCorrect, TransferAtMostOneChunk,
   TransferWaiterIsServed, TransferNoLostWakeup, PTL

THEOREM WebStreamsTheFile == WebSpec => StreamsTheFile
BY WebImplementsTransfer, TransferStreamsTheFile
=============================================================================
