--------------------------- MODULE IncidentStream ---------------------------
(***************************************************************************)
(* What the alert engine promises a consumer of its lifecycle records      *)
(* (#98): an incident is opened once, changes while it is open, and is     *)
(* closed at most once; its events are numbered 1, 2, 3, ... with no gap;  *)
(* a key has at most one open incident, and at most Capacity are open.     *)
(***************************************************************************)
EXTENDS Integers, FiniteSets

CONSTANTS
    Keys, Sevs, Incidents,
    Capacity,       \* incidents open at one time
    NoKey, NoSev    \* what is known of an incident not yet created

VARIABLES
    status,     \* incident -> "none", "open" or "closed"
    owner,      \* incident -> the key it is about
    lastSeq,    \* incident -> number of its last event
    known       \* incident -> the severity its last event told

OpenNow == {i \in Incidents : status[i] = "open"}

Init ==
    /\ status = [i \in Incidents |-> "none"]
    /\ owner = [i \in Incidents |-> NoKey]
    /\ lastSeq = [i \in Incidents |-> 0]
    /\ known = [i \in Incidents |-> NoSev]

\* alert.create
Create(i, k, s) ==
    /\ status[i] = "none"
    /\ Cardinality(OpenNow) < Capacity
    /\ \A j \in OpenNow : owner[j] # k
    /\ status' = [status EXCEPT ![i] = "open"]
    /\ owner' = [owner EXCEPT ![i] = k]
    /\ lastSeq' = [lastSeq EXCEPT ![i] = 1]
    /\ known' = [known EXCEPT ![i] = s]

\* alert.escalate and alert.update
Change(i, s) ==
    /\ status[i] = "open"
    /\ lastSeq' = [lastSeq EXCEPT ![i] = @ + 1]
    /\ known' = [known EXCEPT ![i] = s]
    /\ UNCHANGED <<status, owner>>

\* alert.resolve
Resolve(i) ==
    /\ status[i] = "open"
    /\ status' = [status EXCEPT ![i] = "closed"]
    /\ lastSeq' = [lastSeq EXCEPT ![i] = @ + 1]
    /\ UNCHANGED <<owner, known>>

Next ==
    \E i \in Incidents :
       \/ \E k \in Keys, s \in Sevs : Create(i, k, s)
       \/ \E s \in Sevs : Change(i, s)
       \/ Resolve(i)

Spec == Init /\ [][Next]_<<status, owner, lastSeq, known>>
=============================================================================
