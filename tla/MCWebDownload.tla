--------------------------- MODULE MCWebDownload ---------------------------
(* Values of the constants for the runs of WebDownload. *)
EXTENDS WebDownload, TLC

\* A name in its two spellings and another name of the same server.
Hosts == {"chat.org", "Chat.org", "10.0.0.1"}
LowerCase == [h \in Hosts |-> IF h = "Chat.org" THEN "chat.org" ELSE h]
=============================================================================
