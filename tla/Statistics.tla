----------------------------- MODULE Statistics -----------------------------
(***************************************************************************)
(* The samples of the server's event counters: utils/Statistics.cpp.       *)
(*                                                                         *)
(* The counters are atomics that other threads increase; takeSample, on    *)
(* the statistics thread, loads them one after the other into the newest   *)
(* point of m_dataPoints while it holds m_dataLock.  Two of the nine       *)
(* counters are kept, in the order takeSample loads them: the two that are *)
(* related, since a peer connects before it disconnects.                   *)
(***************************************************************************)
EXTENDS Integers, SequencesExt

CONSTANTS MaxPeriod,    \* m_maxPeriod, in ticks
          PushInterval, \* m_pushInterval, in ticks
          MaxTime,      \* bound on the clock
          MaxConnected  \* bound on the connections

ASSUME StatisticsAssumption ==
  /\ MaxPeriod \in Nat \ {0} /\ PushInterval \in Nat \ {0}
  /\ MaxTime \in Nat /\ MaxConnected \in Nat

VARIABLES
  now,          \* oatpp::Environment::getMicroTickCount
  connected,    \* EVENT_PEER_CONNECTED
  disconnected, \* EVENT_PEER_DISCONNECTED
  dataPoints,   \* m_dataPoints
  sampler,      \* where takeSample is; it holds m_dataLock unless "sleeps"
  json          \* the last answer of getJsonData

vars == <<now, connected, disconnected, dataPoints, sampler, json>>

\* A field of a point that was not assigned yet is null.
Null == -1

StatPointDto == [timestamp          : Nat,
                 evPeerConnected    : Nat \cup {Null},
                 evPeerDisconnected : Nat \cup {Null}]

----------------------------------------------------------------------------
Init ==
  /\ now \in 0 .. MaxTime
  /\ connected = 0 /\ disconnected = 0
  /\ dataPoints = << >>
  /\ sampler = "sleeps"
  /\ json = << >>

\* The clock is the system's: it may be set, in both directions.
Tick ==
  /\ now' \in 0 .. MaxTime
  /\ UNCHANGED <<connected, disconnected, dataPoints, sampler, json>>

Connected ==
  /\ connected < MaxConnected
  /\ connected' = connected + 1
  /\ UNCHANGED <<now, disconnected, dataPoints, sampler, json>>

\* Mutant: a connection is counted as closed more than once.
DisconnectedUnchecked ==
  /\ disconnected < MaxConnected
  /\ disconnected' = disconnected + 1
  /\ UNCHANGED <<now, connected, dataPoints, sampler, json>>

\* onBeforeDestroy is called once for a connection, after onAfterCreate.
Disconnected ==
  /\ disconnected < connected
  /\ disconnected' = disconnected + 1
  /\ UNCHANGED <<now, connected, dataPoints, sampler, json>>

----------------------------------------------------------------------------
(* takeSample *)

\* Mutant: the age of the back is tested instead of the front's.
PrunedByBack(points) ==
  SelectSeq(points, LAMBDA p : now - Last(points).timestamp <= MaxPeriod)

\* The front after the while loop: what is in front of it is too old.  (The
\* back has just been pushed, so the loop ends there if not before.)
Oldest(points) ==
  CHOOSE k \in DOMAIN points :
    /\ now - points[k].timestamp <= MaxPeriod
    /\ \A i \in 1 .. (k - 1) : now - points[i].timestamp > MaxPeriod

\* pop_front while the front is older than m_maxPeriod.
Pruned(points) == SubSeq(points, Oldest(points), Len(points))

\* The newest point is filled again until it is m_pushInterval old.
TakePoint ==
  /\ sampler = "sleeps"
  /\ sampler' = "loads connected"
  /\ dataPoints' =
       IF dataPoints # << >> /\ now - Last(dataPoints).timestamp < PushInterval
       THEN dataPoints
       ELSE Pruned(Append(dataPoints, [timestamp |-> now,
                                       evPeerConnected |-> Null,
                                       evPeerDisconnected |-> Null]))
  /\ UNCHANGED <<now, connected, disconnected, json>>

\* Mutant: a point keeps what was loaded when it was pushed.
LoadConnectedOnce ==
  /\ sampler = "loads connected"
  /\ sampler' = "loads disconnected"
  /\ dataPoints' = [dataPoints EXCEPT ![Len(dataPoints)].evPeerConnected =
                      IF @ = Null THEN connected ELSE @]
  /\ UNCHANGED <<now, connected, disconnected, json>>

LoadConnected ==
  /\ sampler = "loads connected"
  /\ sampler' = "loads disconnected"
  /\ dataPoints' = [dataPoints EXCEPT ![Len(dataPoints)].evPeerConnected =
                      connected]
  /\ UNCHANGED <<now, connected, disconnected, json>>

LoadDisconnected ==
  /\ sampler = "loads disconnected"
  /\ sampler' = "sleeps"
  /\ dataPoints' = [dataPoints EXCEPT ![Len(dataPoints)].evPeerDisconnected =
                      disconnected]
  /\ UNCHANGED <<now, connected, disconnected, json>>

\* Mutant: the points are written without m_dataLock.
getJsonUnlocked ==
  /\ json' = dataPoints
  /\ UNCHANGED <<now, connected, disconnected, dataPoints, sampler>>

getJsonData ==
  /\ sampler = "sleeps"
  /\ json' = dataPoints
  /\ UNCHANGED <<now, connected, disconnected, dataPoints, sampler>>

----------------------------------------------------------------------------
takeSample == TakePoint \/ LoadConnected \/ LoadDisconnected

Next == Tick \/ Connected \/ Disconnected \/ takeSample \/ getJsonData

Spec == Init /\ [][Next]_vars

\* runStatLoop takes samples for ever.  It measures its wait with the clock
\* that Tick sets: setting it back makes one wait longer, so the fairness
\* presumes that this is not done again and again.
FairSpec == Spec /\ WF_vars(takeSample)

----------------------------------------------------------------------------
(* Properties *)

TypeOK ==
  /\ now \in 0 .. MaxTime
  /\ connected \in 0 .. MaxConnected
  /\ disconnected \in 0 .. connected
  /\ dataPoints \in Seq(StatPointDto)
  /\ sampler \in {"sleeps", "loads connected", "loads disconnected"}
  /\ json \in Seq(StatPointDto)

\* Whatever happens to the clock, the points are m_pushInterval apart and lie
\* within m_maxPeriod: the server keeps a bounded number of them.  While
\* takeSample holds the lock there is a point to load into.
PointsBounded ==
  /\ \A i \in 2 .. Len(dataPoints) :
       dataPoints[i].timestamp - dataPoints[i - 1].timestamp >= PushInterval
  /\ dataPoints # << >> =>
       Last(dataPoints).timestamp - Head(dataPoints).timestamp <= MaxPeriod
  /\ sampler # "sleeps" => dataPoints # << >>

\* What a client is sent is a history: every field is there, no counter ever
\* falls, and who is counted as disconnected in one point is counted as
\* connected in the next one, though the counters of a point are loaded while
\* they grow.
JsonIsHistory ==
  /\ \A i \in DOMAIN json :
       Null \notin {json[i].evPeerConnected, json[i].evPeerDisconnected}
  /\ \A i \in 2 .. Len(json) :
       /\ json[i - 1].evPeerConnected <= json[i].evPeerConnected
       /\ json[i - 1].evPeerDisconnected <= json[i].evPeerDisconnected
       /\ json[i - 1].evPeerDisconnected <= json[i].evPeerConnected

\* Every connection gets into the samples, also between two pushes.
ConnectionsSampled ==
  \A n \in 1 .. MaxConnected :
    connected >= n ~> dataPoints # << >> /\ Last(dataPoints).evPeerConnected >= n
=============================================================================
