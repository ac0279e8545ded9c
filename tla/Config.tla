------------------------------- MODULE Config -------------------------------
(***************************************************************************)
(* The server's idea of its own address: ConfigDto, which AppComponent     *)
(* fills in at start, the URLs that are made of it, and the interceptor    *)
(* that compares it with the Host header of every request.                 *)
(***************************************************************************)
EXTENDS Integers

CONSTANTS Host,  \* host names, as they are written
          Lower, \* the lower-case spelling of each
          Null   \* an unset variable, a port or a header left out

ASSUME ConfigAssumption ==
  /\ Lower \in [Host -> Host]
  /\ \A h \in Host : Lower[Lower[h]] = Lower[h]
  /\ Null \notin Host /\ Null \notin Int
  /\ Null \notin [host : Host, port : Int \cup {Null}]

MaxPort == 65535
Port == 0 .. MaxPort
Config == [host : Host, port : Port, useTLS : BOOLEAN]

----------------------------------------------------------------------------
(* AppComponent *)

\* std::getenv, and the command line's argument or its default.
Setting(variable, argument) == IF variable = Null THEN argument ELSE variable

\* "Invalid port!" otherwise; a text that is no number stands below 0.
ValidPort(port) == 0 <= port /\ port <= MaxPort

appConfig(host, port) == [host |-> host, port |-> port, useTLS |-> TRUE]

----------------------------------------------------------------------------
(* ConfigDto *)

defPort(config) == IF config.useTLS THEN 443 ELSE 80

\* Mutant: the port is always written, as in getWebsocketBaseUrl.
HostStringWithPort(config) == [host |-> config.host, port |-> config.port]

getHostString(config) ==
  [host |-> config.host,
   port |-> IF config.port = defPort(config) THEN Null ELSE config.port]

getCanonicalBaseUrl(config) ==
  [scheme |-> IF config.useTLS THEN "https" ELSE "http",
   host   |-> config.host,
   port   |-> IF config.port = defPort(config) THEN Null ELSE config.port]

\* Mutant: the port is left out, as for a server behind a proxy.
WebsocketBaseUrlNoPort(config) ==
  [scheme |-> IF config.useTLS THEN "wss" ELSE "ws",
   host   |-> config.host,
   port   |-> Null]

getWebsocketBaseUrl(config) ==
  [scheme |-> IF config.useTLS THEN "wss" ELSE "ws",
   host   |-> config.host,
   port   |-> config.port]

----------------------------------------------------------------------------
(* What a browser makes of a URL (url.spec.whatwg.org): hosts are lower-   *)
(* cased, the scheme's own port is dropped from the Host header.           *)

SchemePort(scheme) == IF scheme \in {"https", "wss"} THEN 443 ELSE 80

Parsed(text) ==
  [scheme |-> text.scheme,
   host   |-> Lower[text.host],
   port   |-> IF text.port = Null THEN SchemePort(text.scheme) ELSE text.port]

Url == [scheme : {"https", "http", "wss", "ws"}, host : Host, port : Port]

HostHeader(url) ==
  [host |-> url.host,
   port |-> IF url.port = SchemePort(url.scheme) THEN Null ELSE url.port]

----------------------------------------------------------------------------
\* RedirectInterceptor::intercept answers 301 with the canonical URL.
Redirects(config, host) == host = Null \/ host # getHostString(config)
=============================================================================
