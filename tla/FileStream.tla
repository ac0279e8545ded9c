----------------------------- MODULE FileStream -----------------------------
(***************************************************************************)
(* What GET /room/{roomId}/file/{fileId} promises its client: a stream     *)
(* that is at any time a prefix of the file, is the whole file when the    *)
(* response ends normally, and does not grow after it has ended.           *)
(***************************************************************************)
EXTENDS Integers, Sequences

CONSTANTS Download,  \* HTTP requests for the file
          FileSize   \* bytes in the file; byte number i is i

VARIABLES state, body

\* The first n bytes of the file.
FirstBytes(n) == [i \in 1..n |-> i]

Init ==
  /\ state = [d \in Download |-> "none"]
  /\ body = [d \in Download |-> << >>]

Becomes(d, from, to) == state[d] = from /\ state' = [state EXCEPT ![d] = to]

\* The request is answered with a status line: 200 or 404.
Open(d) == Becomes(d, "none", "open") /\ UNCHANGED body
Refuse(d) == Becomes(d, "none", "refused") /\ UNCHANGED body

\* Some more bytes, in order.
Serve(d) ==
  /\ state[d] = "open"
  /\ \E n \in (Len(body[d]) + 1)..FileSize :
       body' = [body EXCEPT ![d] = FirstBytes(n)]
  /\ UNCHANGED state

\* The response ends: normally only after the last byte.
Complete(d) ==
  /\ body[d] = FirstBytes(FileSize)
  /\ Becomes(d, "open", "complete")
  /\ UNCHANGED body

Break(d) == Becomes(d, "open", "broken") /\ UNCHANGED body

Next == \E d \in Download :
  Open(d) \/ Refuse(d) \/ Serve(d) \/ Complete(d) \/ Break(d)

Spec == Init /\ [][Next]_<<state, body>>
=============================================================================
