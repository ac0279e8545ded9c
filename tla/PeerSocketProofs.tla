-------------------------- MODULE PeerSocketProofs --------------------------
(***************************************************************************)
(* What module PeerSocket promises, for any limit of a message, any size   *)
(* of fragments and any number of frames on the way.                       *)
(*                                                                         *)
(* The counter is exact because of a token: between the ping loop's test   *)
(* and onPong there is one ping coroutine, one ping the client has not     *)
(* answered, or one pong on the way, and never two of them.                *)
(*                                                                         *)
(* Whole messages are assembled because bytes match: there is a function  *)
(* from the gaps between the frames on the way to the size the buffer will *)
(* have there, from what it holds now to what the client has composed.     *)
(***************************************************************************)
EXTENDS PeerSocket, TLAPS

\* Only invalidateSocket ends the connection, and it resets m_socket.
SocketOpen == m_socket = open

\* Who holds the write lock has something to write.
HolderWrites == /\ m_writeLock = "text" => texts > 0
                /\ m_writeLock = "ping" => pings > 0
                /\ m_writeLock = "error" => reader \in {"erroring", "torn"}

\* There is one token at most.
OneToken == /\ ~(pings = 1 /\ asked = 1)
            /\ pings = 1 \/ asked = 1 => Pongs = {}
            /\ \A i, j \in Pongs : i = j

\* The ping loop and a broadcast exclude each other.
LockExcludes == ~(pinging /\ sending = "broadcast")

\* INFO is the first thing a new peer is sent.
InfoFirst == sending = "info" => reader = "joining"

IInv == /\ TypeOK
        /\ SocketOpen
        /\ HolderWrites
        /\ OneToken
        /\ CounterExact
        /\ LockExcludes
        /\ BroadcastKeepsSocket
        /\ InfoFirst

----------------------------------------------------------------------------
(* Pongs on the way *)

LEMMA AppendPongs ==
  ASSUME inbox \in Seq(Frame), NEW f \in Frame, inbox' = Append(inbox, f)
  PROVE  /\ inbox' \in Seq(Frame)
         /\ f.type # "pong" => Pongs' = Pongs
         /\ f.type = "pong" => Pongs' = Pongs \cup {Len(inbox) + 1}
<1>1. inbox' \in Seq(Frame)
  OBVIOUS
<1>2. /\ DOMAIN inbox' = DOMAIN inbox \cup {Len(inbox) + 1}
      /\ \A i \in DOMAIN inbox : inbox'[i] = inbox[i]
      /\ inbox'[Len(inbox) + 1] = f
  OBVIOUS
<1> QED
  BY <1>1, <1>2 DEF Pongs

LEMMA TailPongs ==
  ASSUME inbox \in Seq(Frame), inbox # << >>, inbox' = Tail(inbox),
         \A i, j \in Pongs : i = j
  PROVE  /\ inbox' \in Seq(Frame)
         /\ \A i, j \in Pongs' : i = j
         /\ Head(inbox).type = "pong" => Pongs # {} /\ Pongs' = {}
         /\ Head(inbox).type # "pong" => (Pongs' = {} <=> Pongs = {})
<1>1. inbox' \in Seq(Frame) /\ Len(inbox') = Len(inbox) - 1
  OBVIOUS
<1>2. \A i \in DOMAIN inbox' : i + 1 \in DOMAIN inbox /\ inbox'[i] = inbox[i + 1]
  OBVIOUS
<1>3. \A i \in DOMAIN inbox : i = 1 \/ (i - 1 \in DOMAIN inbox' /\ inbox'[i - 1] = inbox[i])
  OBVIOUS
<1>4. 1 \in DOMAIN inbox /\ Head(inbox) = inbox[1]
  OBVIOUS
<1>5. \A i \in Pongs' : i + 1 \in Pongs /\ i \in Nat \ {0}
  BY <1>1, <1>2 DEF Pongs
<1>6. \A i \in Pongs : i \in Nat /\ (i = 1 \/ i - 1 \in Pongs')
  BY <1>1, <1>3 DEF Pongs
<1>7. 1 \in Pongs <=> Head(inbox).type = "pong"
  BY <1>4 DEF Pongs
<1>8. \A i, j \in Pongs' : i = j
  <2> SUFFICES ASSUME NEW i \in Pongs', NEW j \in Pongs' PROVE i = j
    OBVIOUS
  <2>1. i + 1 = j + 1 /\ i \in Nat /\ j \in Nat
    BY <1>5
  <2> QED
    BY <2>1
<1>9. ASSUME Head(inbox).type = "pong" PROVE Pongs # {} /\ Pongs' = {}
  <2>1. 1 \in Pongs
    BY <1>7, <1>9
  <2>2. ASSUME NEW i \in Pongs' PROVE FALSE
    <3>1. i + 1 = 1 /\ i \in Nat \ {0}
      BY <1>5, <2>1, <2>2
    <3> QED
      BY <3>1
  <2> QED
    BY <2>1, <2>2
<1>10. ASSUME Head(inbox).type # "pong" PROVE Pongs' = {} <=> Pongs = {}
  BY <1>5, <1>6, <1>7, <1>10
<1> QED
  BY <1>1, <1>8, <1>9, <1>10

----------------------------------------------------------------------------
LEMMA InitIInv == Init => IInv
<1> SUFFICES ASSUME Init PROVE IInv
  OBVIOUS
<1> USE DEF Init
<1>1. TypeOK
  <2>1. inbox \in Seq(Frame) /\ m_messageBuffer \in 0..MaxMessage
    BY PeerSocketAssumption
  <2>2. /\ m_pingPoingCounter \in 0..MaxCount /\ texts \in 0..MaxTexts
        /\ pings \in 0..1 /\ asked \in 0..1 /\ composed \in Nat
    BY PeerSocketAssumption
  <2> QED
    BY <2>1, <2>2 DEF TypeOK, Reader
<1>2. Pongs = {}
  BY DEF Pongs
<1> QED
  BY <1>1, <1>2 DEF IInv, SocketOpen, HolderWrites, OneToken, CounterExact,
       Unanswered, LockExcludes, BroadcastKeepsSocket, InfoFirst

LEMMA Step == IInv /\ [Next]_vars => IInv'
<1> SUFFICES ASSUME IInv, [Next]_vars PROVE IInv'
  OBVIOUS
<1> USE PeerSocketAssumption
        DEF IInv, SocketOpen, HolderWrites, OneToken, CounterExact, Unanswered,
            LockExcludes, BroadcastKeepsSocket, InfoFirst, TypeOK, Reader,
            pingVars, writeVars, clientVars, socketVars, readVars
<1>1. ASSUME NEW n \in 1..MaxFragment, SendData(n) PROVE IInv'
  <2> DEFINE f == [type |-> "data", size |-> n]
  <2>1. f \in Frame
    BY DEF Frame
  <2>2. Pongs' = Pongs /\ inbox' \in Seq(Frame)
    BY <1>1, <2>1, AppendPongs DEF SendData, ClientSends
  <2> QED
    BY <1>1, <2>2 DEF SendData, ClientSends
<1>2. ASSUME SendEnd PROVE IInv'
  <2> DEFINE f == [type |-> "end", size |-> composed]
  <2>1. f \in Frame
    BY DEF Frame
  <2>2. Pongs' = Pongs /\ inbox' \in Seq(Frame)
    BY <1>2, <2>1, AppendPongs DEF SendEnd, ClientSends
  <2> QED
    BY <1>2, <2>2 DEF SendEnd, ClientSends
<1>3. ASSUME SendPong PROVE IInv'
  <2> DEFINE f == [type |-> "pong"]
  <2>1. f \in Frame
    BY DEF Frame
  <2>2. asked = 1 /\ asked' = 0 /\ Pongs = {}
    BY <1>3 DEF SendPong
  <2>3. Pongs' = {Len(inbox) + 1} /\ inbox' \in Seq(Frame)
    BY <1>3, <2>1, <2>2, AppendPongs DEF SendPong, ClientSends
  <2> QED
    BY <1>3, <2>2, <2>3 DEF SendPong, ClientSends
<1>4. ASSUME NEW type \in {"data", "end", "pong"}, Receives(type)
      PROVE  /\ inbox \in Seq(Frame) /\ inbox # << >> /\ Head(inbox) \in Frame
             /\ Head(inbox).type = type
             /\ inbox' \in Seq(Frame)
             /\ \A i, j \in Pongs' : i = j
             /\ type = "pong" => Pongs # {} /\ Pongs' = {}
             /\ type # "pong" => (Pongs' = {} <=> Pongs = {})
  BY <1>4, TailPongs DEF Receives
<1>5. ASSUME readData PROVE IInv'
  <2>1. Receives("data")
    BY <1>5 DEF readData
  <2>2. Head(inbox).size \in Nat
    BY <1>4, <2>1 DEF Frame
  <2>3. /\ m_messageBuffer' \in 0..MaxMessage
        /\ reader' \in Reader /\ accepted' \in BOOLEAN
        /\ UNCHANGED <<pingVars, socketVars, writeVars, composed, lost>>
    <3>1. UNCHANGED <<pingVars, socketVars, writeVars, composed, lost>>
      BY <1>5 DEF readData, Receives
    <3>2. CASE m_messageBuffer + Head(inbox).size > MaxMessage
      BY <1>5, <2>2, <3>1, <3>2 DEF readData
    <3>3. CASE ~(m_messageBuffer + Head(inbox).size > MaxMessage)
      BY <1>5, <2>2, <3>1, <3>3 DEF readData
    <3> QED
      BY <3>2, <3>3
  <2>4. TypeOK' /\ HolderWrites'
    BY <1>4, <2>1, <2>3 DEF Receives
  <2>5. OneToken' /\ CounterExact'
    BY <1>4, <2>1, <2>3
  <2>6. SocketOpen' /\ LockExcludes' /\ BroadcastKeepsSocket' /\ InfoFirst'
    BY <2>1, <2>3 DEF Receives
  <2> QED
    BY <2>4, <2>5, <2>6
<1>6. ASSUME readEnd PROVE IInv'
  <2>1. Receives("end")
    BY <1>6 DEF readEnd
  <2> QED
    BY <1>4, <1>6, <2>1 DEF readEnd, Receives
<1>7. ASSUME onPong PROVE IInv'
  <2>1. Receives("pong")
    BY <1>7 DEF onPong
  <2> QED
    BY <1>4, <1>7, <2>1 DEF onPong, Receives
<1> DEFINE Quiet == Pongs' = Pongs
<1>8. inbox' = inbox => Quiet
  BY DEF Pongs
<1>9. ASSUME Lose PROVE IInv'
  BY <1>8, <1>9 DEF Lose
<1>10. ASSUME HandlerThrows \/ onApiError \/ ReadFails \/ SkipInfo PROVE IInv'
  BY <1>8, <1>10 DEF HandlerThrows, onApiError, ReadFails, SkipInfo
<1>11. ASSUME handleMessage PROVE IInv'
  BY <1>8, <1>11 DEF handleMessage, sendMessageAsync
<1>12. ASSUME Leave PROVE IInv'
  BY <1>8, <1>12 DEF Leave, invalidateSocket, PeersLocked
<1>13. ASSUME CountPing PROVE IInv'
  BY <1>8, <1>13 DEF CountPing, PeersLocked
<1>14. ASSUME TestPing PROVE IInv'
  <2> USE <1>14 DEF TestPing
  <2>0. /\ ~pinging' /\ pinging' \in BOOLEAN
        /\ m_messageBuffer' = m_messageBuffer /\ reader' = reader
        /\ accepted' = accepted /\ m_writeLock' = m_writeLock
        /\ m_pingPoingCounter' = m_pingPoingCounter /\ texts' = texts
        /\ sending' = sending /\ inbox' = inbox /\ composed' = composed
        /\ lost' = lost /\ asked' = asked
    OBVIOUS
  <2>1. CASE m_socket /\ m_pingPoingCounter = 1
    <3>1. pings = 0 /\ asked = 0 /\ Pongs = {}
      BY <2>1
    <3>2. pings' = 1 /\ UNCHANGED <<socketVars, asked, inbox>>
      BY <2>1, <3>1
    <3>3. TypeOK' /\ HolderWrites'
      BY <2>0, <3>2
    <3>4. SocketOpen' /\ LockExcludes' /\ BroadcastKeepsSocket' /\ InfoFirst'
      BY <2>0, <2>1, <3>2
    <3>5. OneToken' /\ CounterExact'
      BY <1>8, <2>1, <3>1, <3>2
    <3> QED
      BY <3>3, <3>4, <3>5
  <2>2. CASE ~(m_socket /\ m_pingPoingCounter = 1)
    <3>1. /\ ~m_socket' /\ m_socket' = FALSE /\ open' = FALSE
          /\ UNCHANGED <<pings, asked, inbox>>
      BY <2>2 DEF invalidateSocket
    <3>2. TypeOK' /\ HolderWrites'
      BY <2>0, <3>1
    <3>3. SocketOpen' /\ LockExcludes' /\ BroadcastKeepsSocket' /\ InfoFirst'
      BY <2>0, <3>1
    <3>4. OneToken' /\ CounterExact'
      BY <1>8, <3>1
    <3> QED
      BY <3>2, <3>3, <3>4
  <2> QED
    BY <2>1, <2>2
<1>15. ASSUME NEW who \in {"broadcast", "request", "info"}, Send(who) PROVE IInv'
  BY <1>8, <1>15, ZenonT(60) DEF Send
<1>16. ASSUME SendCopy PROVE IInv'
  <2>1. CASE m_socket /\ sending = "info"
    BY <1>8, <1>16, <2>1 DEF SendCopy
  <2>2. CASE m_socket /\ sending # "info"
    BY <1>8, <1>16, <2>2 DEF SendCopy
  <2>3. CASE ~m_socket
    BY <1>8, <1>16, <2>3 DEF SendCopy
  <2> QED
    BY <2>1, <2>2, <2>3
<1>17. ASSUME NEW kind \in {"text", "ping", "error"}, LockFor(kind) PROVE IInv'
  BY <1>8, <1>17, ZenonT(60) DEF LockFor, Waiting
<1>18. ASSUME WriteText PROVE IInv'
  BY <1>8, <1>18 DEF WriteText, Ends
<1>19. ASSUME WritePing PROVE IInv'
  BY <1>8, <1>19 DEF WritePing, Ends
<1>20. ASSUME WriteError PROVE IInv'
  BY <1>8, <1>20 DEF WriteError, Ends, Alive
<1>21. ASSUME UNCHANGED vars PROVE IInv'
  BY <1>8, <1>21 DEF vars
<1> QED
  BY <1>1, <1>2, <1>3, <1>5, <1>6, <1>7, <1>9, <1>10, <1>11, <1>12, <1>13,
     <1>14, <1>15, <1>16, <1>17, <1>18, <1>19, <1>20, <1>21 DEF Next

LEMMA SpecIInv == Spec => []IInv
BY InitIInv, Step, PTL DEF Spec

----------------------------------------------------------------------------
(* The client's bytes on their way *)

\* pos[i] are the bytes of the current message once frame i is read.
Positions(pos) ==
  /\ pos \in [0..Len(inbox) -> Nat]
  /\ pos[0] = m_messageBuffer /\ pos[Len(inbox)] = composed
  /\ \A i \in 1..Len(inbox) :
       /\ inbox[i].type = "data" => pos[i] = pos[i - 1] + inbox[i].size
       /\ inbox[i].type = "end"  => pos[i] = 0 /\ pos[i - 1] = inbox[i].size
       /\ inbox[i].type = "pong" => pos[i] = pos[i - 1]

\* As long as the client is listened to.
Heard == /\ open
         /\ \/ reader \in {"joining", "reading"}
            \/ reader = "handling" /\ accepted

BytesMatch == Heard => \E pos : Positions(pos)

\* A frame is read, or another one is sent.
LEMMA PositionsTail ==
  ASSUME IInv, BytesMatch, Heard, inbox # << >>, inbox' = Tail(inbox),
         composed' = composed,
         LET m == Head(inbox)
         IN  /\ m.type = "data" => m_messageBuffer' = m_messageBuffer + m.size
             /\ m.type = "end"  => m_messageBuffer' = 0
             /\ m.type = "pong" => m_messageBuffer' = m_messageBuffer
  PROVE  BytesMatch'
<1> DEFINE n == Len(inbox)
<1>1. /\ inbox \in Seq(Frame) /\ n \in Nat \ {0} /\ Head(inbox) = inbox[1]
      /\ Len(inbox') = n - 1 /\ \A i \in 1..(n - 1) : inbox'[i] = inbox[i + 1]
  BY DEF IInv, TypeOK
<1>2. inbox[1].type \in {"data", "end", "pong"}
  <2>1. inbox[1] \in Frame
    BY <1>1
  <2> QED
    BY <2>1 DEF Frame
<1>3. PICK pos : Positions(pos)
  BY DEF BytesMatch
<1>4. /\ pos \in [0..n -> Nat] /\ pos[0] = m_messageBuffer /\ pos[n] = composed
      /\ \A i \in 1..n :
           /\ inbox[i].type = "data" => pos[i] = pos[i - 1] + inbox[i].size
           /\ inbox[i].type = "end"  => pos[i] = 0 /\ pos[i - 1] = inbox[i].size
           /\ inbox[i].type = "pong" => pos[i] = pos[i - 1]
  BY <1>3 DEF Positions
<1> HIDE DEF n
<1>0. PICK next : next = [i \in 0..(n - 1) |-> pos[i + 1]]
  OBVIOUS
<1>5. next \in [0..(n - 1) -> Nat]
  BY <1>0, <1>1, <1>4
<1>6. next[0] = pos[1] /\ next[n - 1] = pos[n]
  BY <1>0, <1>1
<1>7. pos[1] = m_messageBuffer'
  <2>1. 1 \in 1..n /\ 1 - 1 = 0
    BY <1>1
  <2> QED
    BY <1>1, <1>2, <1>4, <2>1
<1>8. ASSUME NEW i \in 1..(n - 1)
      PROVE  /\ inbox'[i].type = "data" => next[i] = next[i - 1] + inbox'[i].size
             /\ inbox'[i].type = "end"  => next[i] = 0 /\ next[i - 1] = inbox'[i].size
             /\ inbox'[i].type = "pong" => next[i] = next[i - 1]
  <2>1. /\ i + 1 \in 1..n /\ (i + 1) - 1 = i
        /\ next[i] = pos[i + 1] /\ next[i - 1] = pos[i]
        /\ inbox'[i] = inbox[i + 1]
    BY <1>0, <1>1
  <2> QED
    BY <1>4, <2>1
<1>9. Positions(next)'
  BY <1>1, <1>4, <1>5, <1>6, <1>7, <1>8 DEF Positions
<1> QED
  BY <1>9 DEF BytesMatch

LEMMA PositionsAppend ==
  ASSUME IInv, BytesMatch, Heard, NEW m \in Frame, inbox' = Append(inbox, m),
         m_messageBuffer' = m_messageBuffer, composed' \in Nat,
         /\ m.type = "data" => composed' = composed + m.size
         /\ m.type = "end"  => composed' = 0 /\ composed = m.size
         /\ m.type = "pong" => composed' = composed
  PROVE  BytesMatch'
<1> DEFINE n == Len(inbox)
<1>1. /\ n \in Nat /\ Len(inbox') = n + 1 /\ inbox'[n + 1] = m
      /\ \A i \in 1..n : inbox'[i] = inbox[i]
  BY DEF IInv, TypeOK
<1>2. PICK pos : Positions(pos)
  BY DEF BytesMatch
<1>3. /\ pos \in [0..n -> Nat] /\ pos[0] = m_messageBuffer /\ pos[n] = composed
      /\ \A i \in 1..n :
           /\ inbox[i].type = "data" => pos[i] = pos[i - 1] + inbox[i].size
           /\ inbox[i].type = "end"  => pos[i] = 0 /\ pos[i - 1] = inbox[i].size
           /\ inbox[i].type = "pong" => pos[i] = pos[i - 1]
  BY <1>2 DEF Positions
<1> HIDE DEF n
<1>0. PICK next : next = [i \in 0..(n + 1) |-> IF i = n + 1 THEN composed' ELSE pos[i]]
  OBVIOUS
<1>4. /\ next \in [0..(n + 1) -> Nat] /\ next[n + 1] = composed'
      /\ \A i \in 0..n : next[i] = pos[i]
  BY <1>0, <1>1, <1>3
<1>5. ASSUME NEW i \in 1..(n + 1)
      PROVE  /\ inbox'[i].type = "data" => next[i] = next[i - 1] + inbox'[i].size
             /\ inbox'[i].type = "end"  => next[i] = 0 /\ next[i - 1] = inbox'[i].size
             /\ inbox'[i].type = "pong" => next[i] = next[i - 1]
  <2>1. CASE i = n + 1
    <3>1. i - 1 = n /\ n \in 0..n
      BY <1>1, <2>1
    <3> QED
      BY <1>1, <1>3, <1>4, <2>1, <3>1
  <2>2. CASE i # n + 1
    <3>1. i \in 1..n /\ i \in 0..n /\ i - 1 \in 0..n
      BY <1>1, <2>2
    <3> QED
      BY <1>1, <1>3, <1>4, <3>1
  <2> QED
    BY <2>1, <2>2
<1>6. 0 \in 0..n
  BY <1>1
<1>7. Positions(next)'
  BY <1>1, <1>3, <1>4, <1>5, <1>6 DEF Positions
<1> QED
  BY <1>7 DEF BytesMatch

LEMMA InitBytes == Init => BytesMatch
<1> SUFFICES ASSUME Init PROVE \E pos : Positions(pos)
  BY DEF BytesMatch
<1> DEFINE none == [i \in 0..0 |-> 0]
<1>1. Positions(none)
  BY DEF Init, Positions
<1> QED
  BY <1>1

LEMMA StepBytes == IInv /\ BytesMatch /\ [Next]_vars => BytesMatch'
<1> SUFFICES ASSUME IInv, BytesMatch, [Next]_vars, Heard' PROVE BytesMatch'
  BY DEF BytesMatch
<1> USE DEF readVars, socketVars, pingVars, writeVars, clientVars
<1>1. composed \in Nat /\ inbox \in Seq(Frame)
  BY DEF IInv, TypeOK
<1>2. ASSUME NEW n \in 1..MaxFragment, SendData(n) PROVE BytesMatch'
  <2> DEFINE m == [type |-> "data", size |-> n]
  <2>1. m \in Frame /\ m.type = "data" /\ m.size = n
    BY DEF Frame
  <2>2. /\ Heard /\ inbox' = Append(inbox, m) /\ m_messageBuffer' = m_messageBuffer
        /\ composed' = composed + n
    BY <1>2 DEF SendData, ClientSends, Heard
  <2>3. composed' \in Nat
    BY <1>1, <2>2
  <2> HIDE DEF m
  <2> QED
    BY <2>1, <2>2, <2>3, PositionsAppend
<1>3. ASSUME SendEnd PROVE BytesMatch'
  <2> DEFINE m == [type |-> "end", size |-> composed]
  <2>1. m \in Frame /\ m.type = "end" /\ m.size = composed
    BY <1>1 DEF Frame
  <2>2. /\ Heard /\ inbox' = Append(inbox, m) /\ m_messageBuffer' = m_messageBuffer
        /\ composed' = 0
    BY <1>3 DEF SendEnd, ClientSends, Heard
  <2> HIDE DEF m
  <2> QED
    BY <2>1, <2>2, PositionsAppend
<1>4. ASSUME SendPong PROVE BytesMatch'
  <2> DEFINE m == [type |-> "pong"]
  <2>1. m \in Frame /\ m.type = "pong"
    BY DEF Frame
  <2>2. /\ Heard /\ inbox' = Append(inbox, m) /\ m_messageBuffer' = m_messageBuffer
        /\ composed' = composed
    BY <1>4 DEF SendPong, ClientSends, Heard
  <2> HIDE DEF m
  <2> QED
    BY <1>1, <2>1, <2>2, PositionsAppend
<1>5. ASSUME NEW type, Receives(type)
      PROVE  /\ Heard /\ inbox # << >> /\ inbox' = Tail(inbox)
             /\ composed' = composed /\ Head(inbox).type = type
  BY <1>5 DEF Receives, Heard
<1>6. ASSUME readData PROVE BytesMatch'
  <2>1. m_messageBuffer' = m_messageBuffer + Head(inbox).size
    BY <1>6 DEF readData, Heard
  <2> QED
    BY <1>5, <1>6, <2>1, PositionsTail DEF readData
<1>7. ASSUME readEnd PROVE BytesMatch'
  BY <1>5, <1>7, PositionsTail DEF readEnd
<1>8. ASSUME onPong PROVE BytesMatch'
  BY <1>5, <1>8, PositionsTail DEF onPong
<1>9. ASSUME Heard, UNCHANGED <<inbox, m_messageBuffer, composed>>
      PROVE  BytesMatch'
  BY <1>9 DEF BytesMatch, Positions
<1>10. ASSUME \/ Lose \/ handleMessage \/ HandlerThrows \/ onApiError
              \/ ReadFails \/ Leave
              \/ CountPing \/ TestPing \/ SendCopy \/ SkipInfo
              \/ \E who \in {"broadcast", "request", "info"} : Send(who)
              \/ \E kind \in {"text", "ping", "error"} : LockFor(kind)
              \/ WriteText \/ WritePing \/ WriteError \/ UNCHANGED vars
       PROVE  Heard /\ UNCHANGED <<inbox, m_messageBuffer, composed>>
  <2>1. CASE Lose \/ handleMessage \/ HandlerThrows \/ onApiError \/ ReadFails \/ Leave
    BY <2>1 DEF Lose, handleMessage, sendMessageAsync, HandlerThrows, onApiError,
         ReadFails, Leave, invalidateSocket, Heard
  <2>2. CASE CountPing \/ TestPing \/ SendCopy \/ SkipInfo
    BY <2>2 DEF CountPing, TestPing, invalidateSocket, SendCopy, SkipInfo, IInv,
         InfoFirst, Heard
  <2>3. CASE \/ \E who \in {"broadcast", "request", "info"} : Send(who)
             \/ \E kind \in {"text", "ping", "error"} : LockFor(kind)
    BY <2>3 DEF Send, LockFor, Heard
  <2>4. CASE WriteText \/ WritePing \/ WriteError \/ UNCHANGED vars
    BY <2>4 DEF WriteText, WritePing, WriteError, Ends, vars, Heard
  <2> QED
    BY <1>10, <2>1, <2>2, <2>3, <2>4
<1> QED
  BY <1>2, <1>3, <1>4, <1>6, <1>7, <1>8, <1>9, <1>10 DEF Next

LEMMA SpecBytes == Spec => []BytesMatch
BY InitBytes, StepBytes, SpecIInv, PTL DEF Spec

----------------------------------------------------------------------------
\* Type correctness; the buffer never holds more than maxMessageSizeBytes,
\* whatever the fragments are (Peer::readMessage).
THEOREM SocketTypeCorrect == Spec => []TypeOK
<1>1. IInv => TypeOK
  BY DEF IInv
<1> QED
  BY <1>1, SpecIInv, PTL

\* m_pingPoingCounter is the number of unanswered pings, which is at most one,
\* and the loop's own ++ (Peer::sendPingAsync, Peer::onPong).
THEOREM SocketCounterExact == Spec => []CounterExact
<1>1. IInv => CounterExact
  BY DEF IInv
<1> QED
  BY <1>1, SpecIInv, PTL

\* A broadcast copies the socket that it has tested (Room::sendMessageAsync,
\* Room::pingAllPeers, Lobby::onBeforeDestroy_NonBlocking).
THEOREM SocketBroadcastKeeps == Spec => []BroadcastKeepsSocket
<1>1. IInv => BroadcastKeepsSocket
  BY DEF IInv
<1> QED
  BY <1>1, SpecIInv, PTL

\* The ping loop drops only a peer that has not answered its last ping
\* (Room::pingAllPeers): a leaver resets its own socket under the same lock,
\* so not between the loop's ++ and its test.
THEOREM SocketOnlySilentDropped == Spec => OnlySilentDropped
<1>1. ASSUME IInv, [Next]_vars, pinging, m_socket, ~m_socket' PROVE Unanswered
  <2> USE <1>1 DEF socketVars
  <2>1. ASSUME Leave PROVE FALSE
    BY <2>1 DEF Leave, PeersLocked
  <2>2. ASSUME TestPing PROVE Unanswered
    <3>1. m_pingPoingCounter # 1
      BY <2>2 DEF TestPing
    <3> QED
      BY <3>1 DEF IInv, SocketOpen, CounterExact
  <2>3. ASSUME NEW type, Receives(type) PROVE FALSE
    BY <2>3 DEF Receives
  <2>4. ASSUME NEW frame, ClientSends(frame) PROVE FALSE
    BY <2>4 DEF ClientSends
  <2>5. ASSUME NEW kind, LockFor(kind) \/ Ends(kind) PROVE FALSE
    BY <2>5 DEF LockFor, Ends
  <2>6. ASSUME NEW who, Send(who) \/ SendCopy PROVE FALSE
    BY <2>6 DEF Send, SendCopy
  <2>7. ASSUME \/ Lose \/ handleMessage \/ HandlerThrows \/ onApiError
               \/ ReadFails \/ CountPing \/ SkipInfo \/ UNCHANGED vars
        PROVE  FALSE
    BY <2>7 DEF Lose, handleMessage, sendMessageAsync, HandlerThrows, onApiError,
         ReadFails, CountPing, SkipInfo, vars
  <2> QED
    BY <2>1, <2>2, <2>3, <2>4, <2>5, <2>6, <2>7
       DEF Next, SendData, SendEnd, SendPong, readData, readEnd, onPong,
           WriteText, WritePing, WriteError
<1>2. IInv /\ [Next]_vars =>
        [(pinging /\ m_socket /\ ~m_socket') => Unanswered]_vars
  BY <1>1
<1> QED
  BY <1>2, SpecIInv, PTL DEF Spec, OnlySilentDropped

\* handleMessage gets the client's messages one by one and whole, however they
\* were cut into frames and whatever pongs come between (Peer::readMessage).
THEOREM SocketWholeMessages == Spec => []WholeMessages
<1>1. IInv /\ BytesMatch => WholeMessages
  <2> SUFFICES ASSUME IInv, BytesMatch, reader = "reading", open, inbox # << >>,
                      Head(inbox).type = "end"
               PROVE  m_messageBuffer = Head(inbox).size
    BY DEF WholeMessages
  <2>1. PICK pos : Positions(pos)
    BY DEF BytesMatch, Heard
  <2>2. /\ 1 \in 1..Len(inbox) /\ Head(inbox) = inbox[1] /\ 1 - 1 = 0
    BY DEF IInv, TypeOK
  <2> QED
    BY <2>1, <2>2 DEF Positions
<1> QED
  BY <1>1, SpecIInv, SpecBytes, PTL
=============================================================================
