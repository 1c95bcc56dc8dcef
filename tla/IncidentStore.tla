--------------------------- MODULE IncidentStore ---------------------------
(***************************************************************************)
(* One row per incident in the SQLite file (src/db.c, #175): the engine's  *)
(* hook queues an incident's figures as it opens, moves severity and       *)
(* closes; the tick writes the queue and then the engine's snapshot in one *)
(* transaction; a full queue is written between ticks in its own; each     *)
(* key keeps DB_INCIDENTS_PER_KEY rows; the first database error stops     *)
(* persistence for the run.  All of it runs on the poll thread, so what    *)
(* can go wrong is an error, a crash, or an order of calls.                *)
(*                                                                         *)
(* An incident is <<key, n>>, n in order of opening.  `incTruth` is what   *)
(* the engine announced of each.  The start times are the wall clock's.    *)
(*                                                                         *)
(* Names ending in _m and a number are defective forms of the definition   *)
(* that follows; no action uses them.                                      *)
(***************************************************************************)
EXTENDS Integers, Sequences, FiniteSets

CONSTANTS
    IncKeys,      \* alert keys
    IncSevs,      \* severities, from the least
    IncQueueMax,  \* DB_INC_PENDING
    IncPerKey,    \* DB_INCIDENTS_PER_KEY
    IncMax,       \* bound: incidents opened
    IncTicks,     \* bound: the wall clock
    IncRuns       \* bound: runs of the program on one file

ASSUME IncAssumption ==
    /\ IncSevs \subseteq Nat /\ IncSevs # {}
    /\ IncQueueMax \in Nat \ {0} /\ IncPerKey \in Nat \ {0}
    /\ IncMax \in Nat /\ IncTicks \in Nat /\ IncRuns \in Nat \ {0}

VARIABLES
    incRun,       \* "up"; "off" once g_disabled; "saved", "gone" when ended
    incRuns,      \* runs so far
    incClock,     \* sloth_wall()
    incOpened,    \* incidents opened
    incLive,      \* the engine's snapshot: incident -> its record
    incQueue,     \* g_inc_pend
    incRows,      \* alert_incidents as committed, a row per incident
    incTruth,     \* incident of this run -> last severity, worst, closed
    incTrimmed    \* history: incidents the per-key bound deleted

incVars == <<incRun, incRuns, incClock, incOpened, incLive, incQueue,
             incRows, incTruth, incTrimmed>>

Worse(a, b) == IF a > b THEN a ELSE b
Incidents == IncKeys \X (1 .. IncMax)
NoIncident == [i \in {} |-> 0]

IncInit ==
    /\ incRun = "up" /\ incRuns = 1 /\ incClock = 0 /\ incOpened = 0
    /\ incLive = NoIncident /\ incTruth = NoIncident
    /\ incQueue = <<>> /\ incRows = {} /\ incTrimmed = {}

-----------------------------------------------------------------------------
(* The statements, on a table r: ST_INCIDENT, ST_INCIDENT_TRIM             *)

Ids(r) == {e.id : e \in r}
RowsOf(r, k) == {e \in r : e.id[1] = k}
Queue == {incQueue[n] : n \in DOMAIN incQueue}

\* what two writes of one incident leave: severity is the later one's, the
\* worst and the close only ever rise
Merged_m1(old, new) == new
Merged(old, new) == [new EXCEPT !.peak = Worse(@, old.peak),
                                !.closed = @ \/ old.closed]

\* an incident's row after a write of e
Row(r, e) == IF e.id \in Ids(r) THEN Merged(CHOOSE x \in r : x.id = e.id, e) ELSE e

Upsert(r, e) == {x \in r : x.id # e.id} \cup {Row(r, e)}

\* The rows of x's key that are newer, by start and then by rowid.  A row is
\* inserted after those of its key's earlier incidents, so within a key the
\* order of rowid is the order of opening.
Newer(r, x) == {y \in RowsOf(r, x.id[1]) :
                   \/ y.first > x.first
                   \/ y.first = x.first /\ y.id[2] > x.id[2]}

Beyond_m1(r, k) == {x \in RowsOf(r, k) : Cardinality(Newer(r, x)) > IncPerKey}
Beyond(r, k) == {x \in RowsOf(r, k) : Cardinality(Newer(r, x)) >= IncPerKey}

Trim(r, k) == r \ Beyond(r, k)

\* write_incident_queue(): each incident, then its key's bound
Written(r) ==
    LET w[n \in 0 .. Len(incQueue)] ==
            IF n = 0 THEN r
            ELSE Trim(Upsert(w[n - 1], incQueue[n]), incQueue[n].id[1])
    IN w
WriteQueue(r) == Written(r)[Len(incQueue)]

\* write_events(): the snapshot's incidents, none of them closed, untrimmed
WriteSnapshot(r) == {x \in r : x.id \notin DOMAIN incLive}
                       \cup {Row(r, incLive[i]) : i \in DOMAIN incLive}

Trimmed == (Ids(incRows) \cup Ids(Queue)) \ Ids(WriteQueue(incRows))

\* a transaction that leaves table r, or fails and leaves what was there
Commit(r, queue) ==
    /\ incRows' = r /\ incQueue' = queue
    /\ incTrimmed' = incTrimmed \cup Trimmed
    /\ UNCHANGED incRun
Rollback == incRun' = "off" /\ incQueue' = <<>>
            /\ UNCHANGED <<incRows, incTrimmed>>

-----------------------------------------------------------------------------
(* db_incident_hook()                                                      *)

Coalesced(e) == [n \in DOMAIN incQueue |->
                   IF incQueue[n].id = e.id THEN Merged(incQueue[n], e)
                   ELSE incQueue[n]]

\* The event joins the queue; where that is full it is written first, and
\* the event is lost with the queue if the write fails.
Hook(e) ==
    \/ /\ incRun = "up"
       /\ \/ e.id \in Ids(Queue) /\ incQueue' = Coalesced(e)
          \/ /\ e.id \notin Ids(Queue) /\ Len(incQueue) < IncQueueMax
             /\ incQueue' = Append(incQueue, e)
       /\ UNCHANGED <<incRun, incRows, incTrimmed>>
    \/ /\ incRun = "up"
       /\ e.id \notin Ids(Queue) /\ Len(incQueue) = IncQueueMax
       /\ Commit(WriteQueue(incRows), <<e>>) \/ Rollback
    \/ incRun = "off" /\ UNCHANGED <<incRun, incQueue, incRows, incTrimmed>>

\* the engine announces an incident's new record e
IncAnnounce(e) ==
    LET worst == IF e.id \in DOMAIN incTruth
                 THEN Worse(incTruth[e.id].peak, e.sev) ELSE e.sev IN
    /\ incRun \in {"up", "off"}
    /\ Hook(e)
    /\ incTruth' = [i \in DOMAIN incTruth \cup {e.id} |->
                      IF i = e.id THEN [e EXCEPT !.peak = worst]
                      ELSE incTruth[i]]
    /\ incLive' = [i \in (DOMAIN incLive \cup {e.id}) \
                            {c \in {e.id} : e.closed} |->
                      IF i = e.id THEN e ELSE incLive[i]]
    /\ UNCHANGED <<incRuns, incClock>>

IncOpen(k, sev) ==
    /\ incOpened < IncMax /\ \A i \in DOMAIN incLive : i[1] # k
    /\ incOpened' = incOpened + 1
    /\ IncAnnounce([id |-> <<k, incOpened + 1>>, first |-> incClock,
                 sev |-> sev, peak |-> sev, closed |-> FALSE])

IncMove(i, sev) ==
    /\ sev # incLive[i].sev
    /\ UNCHANGED incOpened
    /\ IncAnnounce([incLive[i] EXCEPT !.sev = sev, !.peak = sev])

IncClose(i) ==
    /\ UNCHANGED incOpened
    /\ IncAnnounce([incLive[i] EXCEPT !.closed = TRUE])

-----------------------------------------------------------------------------
(* db_tick(), db_close(), a crash, db_open()                               *)

IncTick_m1 ==
    /\ incRun = "up"
    /\ Commit(WriteSnapshot(incRows), <<>>) \/ Rollback
    /\ UNCHANGED <<incRuns, incClock, incOpened, incLive, incTruth>>
IncTick ==
    /\ incRun = "up"
    /\ Commit(WriteSnapshot(WriteQueue(incRows)), <<>>) \/ Rollback
    /\ UNCHANGED <<incRuns, incClock, incOpened, incLive, incTruth>>

\* the queue is the run's last word
IncStop ==
    /\ \/ /\ incRun = "up" /\ incRun' = "saved"
          /\ incRows' = WriteQueue(incRows) /\ incQueue' = <<>>
          /\ incTrimmed' = incTrimmed \cup Trimmed
       \/ /\ incRun = "off" \/ incQueue # <<>>
          /\ incRun' = "gone" /\ incQueue' = <<>>
          /\ UNCHANGED <<incRows, incTrimmed>>
    /\ incRun \in {"up", "off"}
    /\ incLive' = NoIncident
    /\ UNCHANGED <<incRuns, incClock, incOpened, incTruth>>

IncCrash ==
    /\ incRun \in {"up", "off"}
    /\ incRun' = "gone" /\ incQueue' = <<>> /\ incLive' = NoIncident
    /\ UNCHANGED <<incRuns, incClock, incOpened, incRows, incTruth,
                   incTrimmed>>

IncStart ==
    /\ incRun \in {"saved", "gone"} /\ incRuns < IncRuns
    /\ incRun' = "up" /\ incRuns' = incRuns + 1 /\ incTruth' = NoIncident
    /\ UNCHANGED <<incClock, incOpened, incLive, incQueue, incRows,
                   incTrimmed>>

IncWall ==
    /\ incClock' \in 0 .. IncTicks \ {incClock}
    /\ UNCHANGED <<incRun, incRuns, incOpened, incLive, incQueue, incRows,
                   incTruth, incTrimmed>>

IncNext ==
    \/ \E k \in IncKeys, sev \in IncSevs : IncOpen(k, sev)
    \/ \E i \in DOMAIN incLive :
          IncClose(i) \/ \E sev \in IncSevs : IncMove(i, sev)
    \/ IncTick \/ IncStop \/ IncCrash \/ IncStart \/ IncWall

IncSpec == IncInit /\ [][IncNext]_incVars

-----------------------------------------------------------------------------
IncRecord == [id : Incidents, first : 0 .. IncTicks, sev : IncSevs,
              peak : IncSevs, closed : BOOLEAN]

\* Shape of the queue (db_inc_pend_t) and of the table: an incident at most
\* once in each, and the queue no longer than DB_INC_PENDING.
IncTypeOK ==
    /\ incQueue \in Seq(IncRecord) /\ Len(incQueue) <= IncQueueMax
    /\ \A m, n \in DOMAIN incQueue : incQueue[m].id = incQueue[n].id => m = n
    /\ incRows \subseteq IncRecord
    /\ \A x, y \in incRows : x.id = y.id => x = y
    /\ DOMAIN incLive \subseteq Incidents
    /\ DOMAIN incTruth \subseteq Incidents

\* Until a database error stops persistence, the file and the queue together
\* know each incident of the run as the engine announced it: its severity,
\* the worst it ever had however briefly, and its close; after a clean end
\* the file alone does.  Only the per-key bound takes one away.
IncNothingLost ==
    incRun \in {"up", "saved"} =>
       \A i \in DOMAIN incTruth \ incTrimmed :
          LET known  == {e \in incRows \cup Queue : e.id = i}
              newest == IF i \in Ids(Queue) THEN Queue ELSE incRows IN
          /\ \A e \in known : e.peak <= incTruth[i].peak
          /\ \E e \in known : e.peak = incTruth[i].peak
          /\ (\E e \in known : e.closed) <=> incTruth[i].closed
          /\ \A e \in newest : e.id = i => e.sev = incTruth[i].sev

\* What the file says of an incident is not taken back, whatever fails,
\* crashes or is written twice: a close stays and the worst severity does
\* not fall; a row goes only where IncPerKey others of its key remain.  The
\* exception is a live incident that the clock, set back, put before its
\* predecessors: the bound deletes its row and the snapshot inserts it anew.
IncFileKeepsItsWord ==
    [][\A x \in incRows :
          \/ \E y \in incRows' :
                /\ y.id = x.id
                /\ y.peak >= x.peak \/ x.id \in incTrimmed'
                /\ x.closed => y.closed
          \/ /\ x.id \notin Ids(incRows')
             /\ IncPerKey <= Cardinality(RowsOf(incRows', x.id[1]))
    ]_incVars

\* A key's rows stay bounded (DB_INCIDENTS_PER_KEY): one more only while its
\* live incident started, by a clock set back, before all the kept ones.
IncKeyIsBounded ==
    \A k \in IncKeys :
       LET rows == RowsOf(incRows, k) IN
       /\ Cardinality(rows) <= IncPerKey + 1
       /\ Cardinality(rows) > IncPerKey =>
             \E x \in rows : /\ \A y \in rows : x.first <= y.first
                             /\ x.id \in incTrimmed
=============================================================================
