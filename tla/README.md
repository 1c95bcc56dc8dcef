# Verification of sloth

sloth is a passive network monitor in C. Capture threads parse frames into
bounded in-memory tables; the main thread polls those tables, runs detection
rules over them, keeps incidents, and publishes JSON lines to a file, to the
clients of a local socket and to SQLite. This directory holds TLA+
specifications of the parts of the program whose correctness depends on order,
limits and time, the TLC configurations that check them, and TLAPS proofs.

Paths below are relative to the repository root (`src/stab.c`, `docs/...`).
`PROJECT.json`, whose paths start one directory higher (`src/src/stab.c`), has the
exact line ranges behind every definition, the list of runs, and the list of hazards with the property that covers each.

How to run, in this directory:

    tlc -config Stab.cfg MCStab        # one run; PROJECT.json lists them all
    tlapm StabProofs.tla               # one proof module

## 1. The system

### 1.1 Threads

| Thread | Runs | Touches |
|---|---|---|
| main | `src/main.c`: poll stages every tick, UI, `alerts_update`, snapshot rows, `data_socket_tick` | everything it snapshots under the trackers' locks; the alert engine, which belongs to it alone |
| capture, monitor, Bluetooth, GPS, ADS-B, APRS readers | `src/capture/*.c` | trackers, evidence ring; write JSON lines of their own; started, retargeted and stopped by main |
| DNS worker | `src/dns.c` | the resolver cache, under its lock, and resolution outside it |

There is no message passing. Components meet in calls under one leaf mutex
each. What an interleaving can break is therefore either two calls of one
component that the code believes are one, or state of two components that
should agree (the change cache and the clients of the socket, the engine and
the stream it emitted).

### 1.2 Components

| Component | State | Operations | What makes it correct | Here |
|---|---|---|---|---|
| bounded keyed table, `src/stab.c` | rows, `n`, `ring_head`, loss tally | get (3 policies when full), delete, expire, clear | one row per identity; the row its policy names is the one displaced; every loss counted; expiry exact | `Stab` |
| evidence ring, `src/evidence_ring.c` | byte arena, metadata ring, IDs | init, note (with eviction), get, reset, shutdown | a reader gets the right bytes or nothing; losses counted; eviction ends | `EvidenceRing` implements `EvidenceLog` |
| alert engine, `src/alerts/engine.c` | slots, incident numbers, side table, pcap state | fire, resolve, evict, expire, clear, export | consumers agree with the engine; no rule starves another; quiet incidents close; one pcap per key per cooldown | `AlertEngine` implements `IncidentStream`; `AlertEvaluation`, `AlertExport` |
| detection rules, `src/alerts/rules_*.c` | none of their own, or trackers' | predicates that end in a fire | what each rule documents | any fire at all in `AlertEngine` |
| JSONL writer, `src/jsonl.c` | file, change cache | changed?, reset, emit | change-only output withholds nothing; heartbeats | `JsonlDedup`; the records of incidents in `AlertEngine` |
| data socket, `src/data_socket.c` | clients, queues, listener | tick (accept, reap), emit (flush, offer, flush), listen, cleanup | whole records in order; losses declared; slots shared; dead peers reaped; full baseline for a newcomer | `SocketQueue` implements `LossyFeed`; `DataSocket` |
| clocks, `src/sloth_clock.c` | wall and monotonic time | read | durations on monotonic time only | both clocks in every module that reads them |
| main loop, `src/main.c`, `src/poll.c` | phase of the tick | rules, expiry, export, socket tick, rows | the order of those | that order in `AlertEngine`, `AlertExport`, `DataSocket` |
| capture and monitor workers, `src/capture/capture.c`, `probe.c` | handle, run flag, exit reason | start, retarget, stop, health poll; the thread's loop and its last steps | a dead worker is reported and never mistaken for silence; no handle closed under a worker | `MonitorWorker` |
| DNS resolver, `src/dns.c` | cache, request queue, worker | resolve, set, cleanup, worker | a name belongs to its address; a pending entry has an answer coming; no worker unless allowed | `DnsResolver` |
| HTTP pairing, `src/http_log.c` | flow slots | request, response, clear | no response credited to another request | `HttpPairing` |
| EAPOL tracker, `src/eapol_log.c` | attempts per pair | M1..M4, expiry, export | messages of one attempt only, exported once | `EapolAttempts` |
| SQLite sink, `src/db.c` | incident queue, incidents table | hook, flush, tick, open, close | the file knows what was announced and does not take it back | `IncidentStore` |
| channel hopping, `src/wifi_chanhop.c` | rotation | observe, tick, confirm | rotation goes on; frames go to the channel they were heard on | `ChannelHop` |
| Wi-Fi trackers (`src/*_snoop.c`, `*_track.c`, `fragattack.c`, ...) | a table each | observe, expire | their tables are `stab` instances or follow its policies | through `Stab` |
| Bluetooth, GPS, ADS-B, APRS | reader state | reconnect, parse | recovery of a reader | not modelled, §7 |
| protocol parsers, posture, inventory, TUI, platform, updater, privileges, tools, web server | snapshots, files | parse, score, draw | their unit tests and fuzz targets | not modelled, §7 |

### 1.3 What is hard here

* **Full tables.** Nothing allocates without bound, so every structure has a
  displacement rule, and a wrong choice shows only after long traffic.
* **Deletion during a walk.** `stab_expire`, `data_socket_tick` and
  `data_socket_emit` delete by swapping the last element into the hole.
* **Two clocks.** The wall clock may be stepped at any time; several
  durations are still measured on it.
* **Partial success.** A gap marker is queued and its record is then refused; an
  export fails after the incident was announced; an eviction happens between a
  rule's decision and the new incident.
* **Two components, no common lock.** A socket client is accepted under one lock,
  the change cache is cleared afterwards under another.
* **Answers that come late.** The resolver's worker, the monitor worker's verdict
  and the radio's acknowledgement arrive after the state they were asked about
  may have been reused, retargeted or stopped.
* **An air and a wire that lose things.** Handshake messages and HTTP messages are
  missed, repeated and reordered, and attribution must not guess.
* **Ends of the program.** A transaction fails, the process dies between an
  announcement and the tick that writes it, the next run opens the same file.
* **Eventuality.** Incidents nobody re-asserts must close; clients whose peer
  hangs must be reaped although traffic never stops; a dead radio must be shown; every
  accepted channel must be visited again.

`PROJECT.json` lists each hazard at its line.

## 2. Modules

Conventions: constants carry an `ASSUME` with a name; one action per operation,
or per turn of a loop where another actor, or a property, can see the middle;
bounds on counters are constants marked `bound:`. A name that ends in `_m1` is
a deliberately broken form of the definition that follows it: substituting it
must break the property paired with it in `PROJECT.json` ("mutants"). No action
uses these. Modules that one run checks side by side prefix their names (`Http`,
`Eapol`, `Dns`, `Mon`, `Hop`, `Inc`, `Dedup`).

### 2.1 `Stab`, `MCStab`, `StabProofs` — `src/stab.c`

Rows are the parallel functions `key`, `ls` (last_seen) and history `born`; the
live rows are slots `0 .. n-1`. `policy` is a field chosen at Init that no step
changes, so one run covers the three. `stab_get` is split by its branches:
`Touch` (found), `Append` (room), `EvictOldest`, `Overwrite` (RING) and
`Reclaim` / `Refuse` (REFUSE_AGING). `stab_expire` is `ExpireBegin` and one
`ExpireStep` per turn, because the property is about the middle of the walk. The
wall clock moves to any value in `0 .. MaxTime` between calls.

| Property | Says |
|---|---|
| `KeysUnique` (proved) | an identity has one live row |
| `LossIsTallied` | `evicted + refused` is exactly the new keys not kept |
| `DisplacedWasDue` | a full table gives up the row its policy names: the oldest (OLDEST), an aged one (REFUSE_AGING), the first inserted (RING) |
| `ExpireIsExact` | after an expiry no aged row is left and no fresh one is gone |

### 2.2 `EvidenceRing` implements `EvidenceLog`, `MCEvidenceRing`, `EvidenceRingProofs` — `src/evidence_ring.c`

The arena holds bytes `<<id, k>>`, so that reading a frame back tells whether
it is the right frame, complete and in order. `NoteBegin`, `EvictOldest` (one
per turn of the eviction loop) and `NoteStore` are one call under the lock, so
no other action runs while `pending # NoFrame`. `EvidenceLog` is the promise:
a map from IDs to records that forgets only its oldest entry, never reissues an
ID and never returns other bytes than were noted. The refinement maps the log's
`held` to what `evidence_ring_get` returns for every ID ever issued
(`ImplementsLog`); since deadlock is checked, the run also shows that the eviction
loop never turns on an empty ring. `LossIsTallied`: displaced frames are counted,
cleared ones are not.

### 2.3 `AlertEngine` implements `IncidentStream`, `MCAlertEngine`, `AlertEngineProofs` — `src/alerts/engine.c`

Slots are parallel functions. A poll is `BeginPoll` (reads the wall clock), any
sequence of fires and rule-driven resolves, `EndRules`, one `Expire` per slot,
`EndPoll`. `fire_inv` is split by outcome: `FireSeverity`, `FireUpdate`,
`FireQuiet` on an open incident; `FireReopen`, `FireAppend`,
`FireEvict`+`FireTakeSlot` for a new one. The eviction and the new incident
are two actions because each emits a record. `alerts_clear` is `BeginClear`,
`ClearOne` per slot, `EndClear`. Monotonic time is kept as capped ages
(`Elapse`), because the code only compares differences of it. The variables
`status`, `owner`, `lastSeq`, `known`, `shown` are what a consumer derives from
the records; the engine never reads them.

`IncidentStream` is the contract a consumer relies on: an incident is created
once and resolved at most once, its events are numbered without a gap, a key has
at most one open incident, at most `MAX_ALERTS` are open.

| Property | Says |
|---|---|
| `KeysUnique` (proved) | no two slots hold one key |
| `StreamMatchesEngine` | the consumer's open incidents are the engine's, with key, event number and severity |
| `StaleDetailIsRecent` | throttling delays evidence by less than the floor, and never loses it |
| `EvictionIsFair` | a live incident is evicted only from a full engine without a resolved slot, and only from a type that holds at least an equal share |
| `QuietIncidentsClose` | an incident that stays open for ever is re-asserted for ever |
| `ImplementsStream` | every behaviour is one of `IncidentStream` |

### 2.4 `AlertEvaluation` — one incident in detail (proofs in `RecordsProofs`)

The counters of a record (`evaluations`, `observations`, `event_seq`), the update
floor, and the number printed in `event_id`. `UpdateRateBounded`: at most one
evidence-only update per floor of elapsed time. `CountersOrdered` (proved): events,
observations and evaluations stay ordered whatever is throttled.
`EventIdsIncrease` is the documented claim that fails (§6).

### 2.5 `AlertExport`, `MCAlertExport`, `AlertExportProofs` — side table and per-alert pcap

What is remembered of a key across incidents (a table with its own eviction,
kept as the sequence `lru` of keys in order of touch) and the export that runs
after the rules. The exporter's outcomes are actions: `DumpCool`, `DumpWrite`,
`DumpEmpty`, `DumpFail`. `wall` is the clock the code reads and `mono` the time
that passed. `DuplicatesAreTallied`: a key's frames are written twice in one
cooldown only if the row was lost and the loss counted. `CoolNamesFile`: an
incident that skipped its export because its key is cooling has a file on disk,
and names it while the wall clock was not stepped. `ReopensCounted`: the reopen count is exact unless the row was lost,
and never too high.

### 2.6 `SocketQueue` implements `LossyFeed`, `SocketQueueProofs` — a client's queue, `src/data_socket.c`

`buf` has the capacity and the two offsets, `items` the records between them,
`part` how much of the first is already with the kernel. `OfferRecord`,
`OfferMarked` (gap marker and record), `OfferFull`, `OfferNoMemory` (realloc
refused, also for the record after its marker was queued, which is then taken
back) are the outcomes of `offer()`; `WriteSome` and `WriteRest` the sends.
`got`, `told`, `newest` are the consumer. `NoSilentGap`: counters, queue and consumer always agree, so every
record can be numbered by whoever reads it. `BufferHoldsQueue`: the
buffer never outgrows the queue's maximum, offsets stay in order inside it, and they
agree with the items to the byte; `Ends(q)` is where each item of a queue ends.

### 2.7 `DataSocket`, `MCDataSocket`, `DataSocketProofs` — slots, walks, timers, and the change cache

Both walks hold the mutex; `walk` and `at` say which and where. Per client only
queue-empty or not, the age since progress, and whether it is still owed the
record in flight. Per change cache only whether one steady row would be
suppressed. `EndTick` releases the lock and `DedupReset` clears the cache in a
later step, with records from capture threads in between.
`SlotsAreShared`: per-peer cap, no connection twice. `EveryClientIsOffered`: a
walk that drops clients passes nobody over. `BaselineReachesAll`: a row is
suppressed only when every client has been offered it.
`StuckConnectionsEnd`: a client whose peer stopped reading loses its slot.

### 2.8 `JsonlDedup` — one set of the change cache, `src/jsonl.c` (proofs in `RecordsProofs`)

`Suppress`, `Refresh`, `Insert` are the outcomes of `jsonl_changed`,
`DedupReset` the reset for a new sink. `time` passes, `skew` is the wall clock's
distance from it. `NothingIsWithheld`: a consumer that keeps the latest row of
each key knows the latest state of each. `HeartbeatKeptForward`: the heartbeat holds until
the clock is stepped back (`HeartbeatKept`, without that condition, is the
documented claim that fails). `ColdestGoes`: while the clock was not stepped
back, only the key looked up longest ago is displaced.

### 2.9 `HttpPairing` — `src/http_log.c` (proofs in `RecordsProofs`)

`httpSlots` is `g_flow`; `httpWire` is the connection, on which a client may
pipeline and a server answers in order, and of which the capture may miss any
message. `HttpRequest` is `flow_note_request` by its three branches (`NoteKnown`,
`NoteNew`, `NoteEvicting`), `HttpResponse` is `http_log_pair_response`.
`HttpTrueAttribution`: on a connection that waits for each answer and is wholly
seen since it was last idle, a response gets its own request or none, whatever
was evicted, cleared, missed or pipelined earlier; and no request is given to
two responses. `HttpNeverGuesses` drops the condition: the documented claim that
fails (§6).

### 2.10 `EapolAttempts` — `src/eapol_log.c` (proofs in `RecordsProofs`)

`eapolRows` is `g_pending`, a record per (BSSID, STA). One action per message,
each the handler from `pending_get` to the export. The air is unconstrained: any
message with any counter and nonce, in any order, any number of times, at any
reading of the clock. `eapolAir` is what an observer knows of the exchange on
offer. `EapolAttemptBacked`: whatever an attempt claims (paired, progress,
buffered frames) was heard under the very M1 it holds and inside the window.
`EapolOneLinePerOffer`: a paired offer was written once, or its one write failed.

### 2.11 `DnsResolver` — `src/dns.c` (proofs in `WorkersProofs`)

Cache, queue and worker, one action per critical section; between `DnsTake` and
`DnsAnswer` the worker is outside the lock and anything may happen to its entry.
`dnsRefused` remembers entries whose request met a full queue. `DnsNamesOwn`: one
entry per address, and no name of another address. `DnsPromisesKept`: a pending
entry has its answer coming, those excepted; and in a passive run (#84) there is
no worker, queue or pending entry. `DnsWorkerServes`: while the worker runs every
queued address is answered, and the join of `dns_cleanup` returns.

### 2.12 `MonitorWorker` — `src/capture/probe.c`, `capture.c` (proofs in `WorkersProofs`)

The worker's loop and last steps (`MonCheck`, `MonDispatch`, `MonAskWhy`,
`MonPublish`) read the run flag and write the exit reason under different locks;
the main thread runs, retargets (`MonRetarget` then `MonSwitch`, with the join in
between), stops (`MonStop`, `MonClose`) and polls. `MonHandleHeld`: no handle is
replaced under a worker, no worker left unjoined. `MonVerdictIsTrue`: the exit
reason is this worker's own. `MonDeathIsShown`: a worker that died is shown as
dead, and every stop or retarget gets its join.

### 2.13 `ChannelHop` — `src/wifi_chanhop.c` (proofs in `WorkersProofs`)

`HopPoll` credits what was counted since the last poll and proposes a retune,
`HopRetune` is the radio's answer (acknowledged, refused, lost), `HopWait` a
millisecond. `hopRadio` is where the radio really is and `hopHeard` what it heard
there. `HopCreditIsTrue`: a channel is credited with its own frames, up to those
heard during a retune or after a lost answer. `HopRevisits`: every channel the
radio accepts is tuned to again and again.

### 2.14 `IncidentStore` — `src/db.c` (proofs in `RecordsProofs`)

The incidents table and the queue in front of it, on the poll thread. `Hook` is
`db_incident_hook` with the flush of a full queue; `IncTick` the transaction of
`db_tick` (queue, then snapshot); `IncStop`, `IncCrash`, `IncStart` the ends and
starts of runs on one file. The table is a set of records, one per incident, and a
write of the queue a fold of upserts and per-key trims over it. The trim breaks a tie
of start times by rowid; a key's incidents are inserted in the order they opened
(one closes before the next opens, and the queue keeps the order of the hook's calls),
so the model breaks it by the number of the incident. `incTruth` is what the engine
announced.
`IncNothingLost`: until a database error, file and queue know each incident's
severity, worst and close; after a clean end the file alone does.
`IncFileKeepsItsWord`: across failures, crashes and runs a close stays and the
worst does not fall. `IncKeyIsBounded`: `DB_INCIDENTS_PER_KEY` holds, up to one
live incident a clock set back made the oldest (§6).

### 2.15 How the modules fit together

    capture threads --note--> EvidenceRing        (read by AlertExport's exporter)
    trackers (Stab) --snapshot--> rules --fire--> AlertEngine --records--+
                                        AlertEvaluation, AlertExport     |
                                        --hook--> IncidentStore (SQLite) |
    snapshot rows --> JsonlDedup ---------------- rows ------------------+
                                                                         v
                         DataSocket (slots, walks)  =  SocketQueue per client
                                                                         v
                                               consumer: LossyFeed of records,
                                                         IncidentStream inside it

`DataSocket` abstracts `SocketQueue` to "anything queued" and `JsonlDedup` to
"this row suppressed". `AlertEvaluation` refines one slot of `AlertEngine` with
the counters that module leaves out, and `AlertExport` keeps of an incident only
its key's entry. `IncidentStore` hangs on the same announcements as the stream.
`MonitorWorker` owns the thread whose frames `EapolAttempts` and `EvidenceRing`
are fed with and `ChannelHop` counts; `EapolAttempts` keeps its table by the
`STAB_OLDEST` policy of `Stab`. `MCRecords` and `MCWorkers` put modules that share
neither state nor a lock side by side, so that one run (one per kind of question)
checks them: a behaviour is that of one of them.

## 3. Runs

Constants not mentioned are 1 or 2. State counts are distinct states.

| Run | Module, cfg | Question | Instance | States |
|---|---|---|---|---|
| `stab` | `MCStab`, `Stab.cfg` | is the bounded table right under every policy? | 3 slots, 4 keys, all 3 policies, clock 0..2 both ways, 8 new keys | 592,092 |
| `evidence_ring` | `MCEvidenceRing`, `EvidenceRing.cfg` | does the ring give back the right bytes? | budgets (3 bytes, 3 slots) and (6 bytes, 2 slots), 4 frame shapes, 6 IDs | 91,379 |
| `alert_lifecycle` | `MCAlertEngine`, `AlertLifecycle.cfg` | do engine and consumer agree, and do quiet incidents close? | 2 keys, 1 slot, 2 severities, 2 renderings, 3 incidents, wall clock frozen | 425,827 |
| `alert_eviction` | `MCAlertEngine`, `AlertEviction.cfg` | can a prolific rule starve another? | 4 keys (3 of one type), 3 slots, 4 incidents, wall clock stepping both ways | 712,140 |
| `alert_event_ids` | `AlertEvaluation`, `AlertEventIds.cfg` | do `event_id`s increase? (violated) | modulus 10000, 10001 evaluations | |
| `alert_export` | `MCAlertExport`, `AlertExport.cfg` | are duplicate pcaps accounted for? | 3 keys, 2 entries, 2 side rows, cooldown 2, 1 step of the clock | 652,125 |
| `socket_queue` | `SocketQueue`, `SocketQueue.cfg` | does a consumer know what it missed, and is the buffer in bounds? | queue of 8 bytes, records of 1, 3 and 9, marker of 2, 6 records | 11,561 |
| `data_socket` | `MCDataSocket`, `DataSocket.cfg` | are slots shared, nobody passed over, stuck clients reaped? | 2 peers, 3 connections, 2 slots, cap 1, with `-o` | 124,236 |
| `jsonl_heartbeat_step` | `JsonlDedup`, `JsonlHeartbeatStep.cfg` | is the heartbeat kept when the clock is stepped? (violated) | 3 keys on 2 ways, heartbeat 2, step of 2 | |
| `records` | `MCRecords`, `Records.cfg` | is what is written down true, once and complete? | HTTP: 3 flows on 2 slots, 2 requests a flow, 1 miss. EAPOL: 2 pairs on 1 row, 2 nonces, counters mod 2, window 1, clock 0..2 both ways. One incident: 6 evaluations, floor 2, age 6. Cache: 3 keys on 2 ways, steps of 1. Incidents: 2 keys, queue of 1, 1 row a key, 2 incidents, 2 runs | 1,323,684 |
| `http_pipelining` | `HttpPairing`, `HttpPipelining.cfg` | are pipelined requests ever guessed at? (violated) | 1 flow, 3 requests, nothing missed | |
| `workers` | `MCWorkers`, `Workers.cfg` | do late answers reach whom they are for, and does every wait end? | DNS: 3 addresses, 2 slots, queue of 1. Monitor: 2 interfaces. Rotation: 3 channels, any set refused, 2 frames a slot, 1 lost answer | 113,296 |

**Why these bounds are enough to be interesting.** Each structure is smaller than
the set that wants to live in it: 4 keys in 3 rows, 2 keys in 1 slot, 3 side keys
on 2 rows, 3 cache keys on 2 ways, 3 flows on 2 slots, 3 addresses in 2 entries
with a queue of 1, 2 handshakes on 1 row, 2 incidents for a key that keeps 1, an arena of one maximum frame, a queue that
cannot hold the largest record and has to be compacted before it can double.
With 3 rows a swap-delete has a middle, a first and a last place and a ring head
can stand in each. Each period (cooldown, stall, floor, window) is at least one
unit longer than the smallest step of its clock, so both sides of each
comparison are met, and each counter is long enough for a structure to fill, be
emptied and fill again. Sizes in the code (`MAX_ALERTS` 128, queues of
512 KiB) enter only in comparisons with these counters.

Two incidents of one queue place are enough for a full queue in
mid-poll, two runs for a file with a past, and replay counters modulo 2 for the
carry in `rc_is_successor`, whose M1 counter and M3 counter then also collide.

`CHECK_DEADLOCK FALSE` appears where behaviours really end: a resolved incident
or one past its bound of evaluations, a program that was stopped, a wire with no
request left.
Symmetry is used only in runs without liveness, over keys,
which the specifications only compare for equality; in `alert_eviction` only
over the keys of one type.

**Mutants.** `PROJECT.json` pairs every property with a defective form of a
definition (a guard dropped, an off-by-one, a reset forgotten, the wrong clock)
under which TLC finds it violated.

## 4. Fairness

Liveness is checked of five modules.

* `AlertEngine!Fairness`: the main loop polls again and its loops turn (WF of
  `BeginPoll`, `EndRules`, `Expire`, `EndPoll`, `ClearOne`, `EndClear`,
  `FireTakeSlot`): all of it is straight-line code on one thread (`src/main.c`).
  SF of `Elapse`: the monotonic clock advances between two polls, but the model
  lets it stand still while the expiry loop runs, so it is not continuously
  enabled. No rule is assumed to fire, no key to be pressed.
* `DataSocket!Fairness`: WF of every step under the mutex, because both walks
  are finite loops without blocking calls (all sockets are non-blocking). WF of
  `EndAccept`: the backlog runs dry. The code does not enforce that (listed as a hazard at
  `data_socket.c:738`). SF of `BeginTick`: the capture
  threads may take the mutex between any two attempts of the main thread, which
  gets it in the end. SF of `Elapse`, as above. Nothing is assumed of peers:
  `Accept`, `PeerStops` and the outcomes of sends are unconstrained.
* `DnsResolver`: WF of the worker (`DnsWork`): `getnameinfo` returns and the thread
  is scheduled. Nothing makes anyone ask.
* `MonitorWorker`: WF of the worker (`pcap_dispatch` returns within its 100 ms
  timeout), of the main thread's step after a join, and of the health poll, which
  the poll loop calls every tick. No stop, start or retarget is assumed.
* `ChannelHop`: WF of the poll, of the radio's answer (the platform call returns,
  if only with ETIMEDOUT) and of time. Frames are not assumed.

In `MCWorkers` each of these is stated of the behaviours of its module. The other
modules promise nothing eventually and have no fairness.

## 5. What is proved

TLAPS checks these for every value of the constants that satisfies the named
`ASSUME` of the module (sizes positive, limits natural, the "no key" value not a
key).

| Theorem | States | Argument |
|---|---|---|
| `StabProofs!TypeCorrect` | `[]TypeOK` | inductive, one step per action; it is what bounds `n`, `ring_head`, the walk |
| `StabProofs!KeysStayUnique` | `[]KeysUnique` | inductive with `TypeOK`; lemmas on what a swap-delete moves and what a new row overwrites |
| `StabProofs!LossAlwaysTallied` | `[]LossIsTallied` | inductive |
| `StabProofs!PassedStaysFresh` | rows behind the expiry walk are inside the window | the strengthening that `ExpireIsExact` needs: the row swapped into the hole came from behind the walk |
| `StabProofs!ExpiryExact` | `ExpireIsExact` | action property from `PassedIsFresh` |
| `StabProofs!DisplacesByPolicy` | `DisplacedWasDue` | from `RingOrdered`: read from the head, rows are in order of insertion, and the head moves only in a full table |
| `EvidenceRingProofs!LossAlwaysTallied` | `[]LossIsTallied` | from `RingInv`, below |
| `EvidenceRingProofs!RingImplementsLog` | `ImplementsLog` | each step maps to a step of `EvidenceLog` or a stutter, from `RingInv` |
| `AlertEngineProofs!TypeCorrect` | `[]TypeOK` | from `Inv`, below |
| `AlertEngineProofs!KeysStayUnique` | `[]KeysUnique` | `KeysUnique` is inductive relative to `Inv` |
| `AlertEngineProofs!StreamAlwaysMatches` | `[]StreamMatchesEngine` | `StreamInv` is inductive relative to `Inv` |
| `AlertEngineProofs!EngineImplementsStream` | `ImplementsStream` | from `Inv` and `StreamInv`; open incidents have distinct slots, hence at most `MAX_ALERTS` |
| `AlertEngineProofs!StaleDetailStaysRecent` | `[]StaleDetailIsRecent` | the age of what is held back is inductive relative to `Inv` |
| `AlertEngineProofs!EvictsFairly` | `EvictionIsFair` | action property; the most populous type holds at least an average share (a lemma on sums of cardinalities) |
| `AlertExportProofs!DuplicatesStayTallied` | `[]DuplicatesAreTallied` | from `ExportInv`, below |
| `AlertExportProofs!CoolNamesAFile` | `[]CoolNamesFile` | from `ExportInv` |
| `AlertExportProofs!ReopensAreCounted` | `[]ReopensCounted` | from `ExportInv` |
| `SocketQueueProofs!LossIsNeverSilent` | `[]NoSilentGap` | below |
| `SocketQueueProofs!QueueImplementsFeed` | `ImplementsFeed` | each step maps to a step of `LossyFeed` or a stutter, from the same invariant |
| `SocketQueueProofs!BufferStaysInBounds` | `[]TypeOK` | from `BufferInv`, below |
| `SocketQueueProofs!BufferIsTheQueue` | `[]BufferHoldsQueue` | from `BufferInv` |
| `DataSocketProofs!SlotsStayShared` | `[]SlotsAreShared` | from `SocketInv`, below |
| `DataSocketProofs!EveryClientOffered` | `[]EveryClientIsOffered` | from `SocketInv` |
| `DataSocketProofs!BaselineReaches` | `[]BaselineReachesAll` | from `SocketInv` |
| `RecordsProofs!UpdatesAreBounded` | `[]UpdateRateBounded` | strengthened with the time since the last event |
| `RecordsProofs!CountersStayOrdered` | `[]CountersOrdered` | inductive |
| `RecordsProofs!NothingIsEverWithheld` | `[]NothingIsWithheld` | below |
| `RecordsProofs!HeartbeatIsKept` | `[]HeartbeatKeptForward` | a cached row's stamp is its last writing while the clock only goes forward |
| `RecordsProofs!ColdestAlwaysGoes` | `ColdestGoes` | action property: `seen` of a row is its key's last lookup, on the same condition |
| `RecordsProofs!AttributionIsTrue` | `[]HttpTrueAttribution` | from `HttpInv`, below |
| `RecordsProofs!AttemptsAreBacked` | `[]EapolAttemptBacked` | below |
| `RecordsProofs!OneLinePerOffer` | `[]EapolOneLinePerOffer` | below |
| `RecordsProofs!IncShapeHolds` | `[]IncTypeOK` | from `IncInv`, below |
| `RecordsProofs!NothingAnnouncedIsLost` | `[]IncNothingLost` | from `IncInv` |
| `RecordsProofs!KeysStayBounded` | `[]IncKeyIsBounded` | from `IncInv` |
| `RecordsProofs!FileWordStands` | `IncFileKeepsItsWord` | action property from `IncInv`; a transaction is an upsert per queued record, then one per live incident |
| `RecordsProofs!RecordsKeepTheirShape` | `[]RecordsTypeOK` | each recorder behaves as it does alone (`RecordsAreEach`) |
| `WorkersProofs!HandleIsAlwaysHeld` | `[]MonHandleHeld` | inductive with what the main thread's phase says of flag, handle and thread |
| `WorkersProofs!VerdictIsAlwaysTrue` | `[]MonVerdictIsTrue` | from the same invariant: the flag can only fall while a worker lives |
| `WorkersProofs!NamesAreOwn` | `[]DnsNamesOwn` | the two halves strengthen each other: an answer goes to the one entry of its address |
| `WorkersProofs!PromisesAreKept` | `[]DnsPromisesKept` | lemmas on what `Append` and `Tail` do to who is owed an answer |
| `WorkersProofs!CreditStaysTrue` | `[]HopCreditIsTrue` | from `HopInv`, below |
| `WorkersProofs!WorkersKeepTheirShape` | `[]WorkersTypeOK` | as above (`WorkersAreEach`); a slot's activity never exceeds its credit, nor that the frames heard |

`AlertEngine` needs `Inv == TypeOK /\ SlotsInv /\ FiringInv`. `StreamMatchesEngine`
is not inductive by itself: `SlotsInv` adds that slots hold distinct incidents,
all already numbered, and that an open one has an event number to spare;
`FiringInv` that a fire waiting for an evicted slot waits for a closed incident,
with a key no slot holds. `StreamInv` adds that numbers not yet issued are
unknown to the consumer, and that a clear has left nothing open behind its loop,
without which zeroing the slots would orphan an incident. The refinement and the
staleness of details follow from the same two; fairness of evictions needs
`Inv`, that a slot in use holds a key, and a count: were every type below its share, their slots would not add up
to a full engine.

`EvidenceRing`: that a reader's offsets are right cannot be said of the offsets
alone, because they wrap. `RingInv` asks for a layout: positions on an endless
tape, of which the arena shows the last `cap` bytes, such that the live records follow
one another and end at the write offset. `used` is then the distance between its ends,
two bytes of live records never share a place in the arena (they are less than
`cap` apart), and a store overwrites nothing that is live. `IdsInOrder` makes the
arithmetic of `evidence_ring_get` find the slot of an ID, and `BytesInPlace` is
what it returns.

`AlertExport`: `DuplicatesAreTallied` speaks of a total. The invariant says which keys
it is owed by: `Exposed` are those with frames on disk and no row to say so, and
files written early plus exposed keys never exceed the counted losses. `RowsAreTrue`
and `CoolPaths` tie a row's export to the file that was really written, under the
same condition on the clock as the properties.

`SocketQueue` needs a chain: every queued item is the successor, in the
consumer's count, of what is before it, and what is lost since the last item is
`gap`. `Tail` and `Append` keep a chain; an unwound marker leaves it untouched.
`BufferInv` (`TypeOK` and `BytesAreItems`, relative to the chain) needs two facts
about recursive functions of any length: where the items of a queue end
after an `Append` or a `Tail`, and that doubling a capacity reaches any size within
`QueueMax` steps. Both are inductions over the set of lengths for
which the fact holds; lemma `Induction` derives that principle from the
well-foundedness of `<`.

`DataSocket`: `SocketInv` says for each walk who is still ahead of it. `OfferedBehind`:
nobody behind an emit's walk is owed its record, which a swap-delete keeps
because the walk stays at the place it refilled. `Baseline`: whoever has not been
offered the cached row is about to be, or the reset is still to come, which rests
on `Quiet` (no second tick before the reset of the first).

`JsonlDedup`: `NothingIsWithheld` is not inductive, since a suppressed row changes
nothing at the consumer. The invariant adds that a key is in one way at most and
that a cached signature is the one last shown of its key.

`HttpPairing`: `HttpInv` adds `HttpCleanFlows`, that the slot of a flow wholly
seen and never pipelined is idle or holds exactly the one request on the wire, and
`HttpUnpaired`, that a request in flight has been given to no response yet.

`EapolAttempts`: the invariant relates each row to the observer's offer: the row's
M1 is the offer's while its window is open, an attempt's `exported` flag is
`paired` in a run that exports, and a pair without a row has no offer; this is `Agrees`. An expiry
by the tracker and one by the observer come at the same reading of the clock,
because both measure from the last M1.

`ChannelHop`: a frame is counted by one step and credited by a later one, to the slot
that is current by then. `HopInDoubt` says that while a retune is under way
everything not yet credited is already allowed for; `HopRadioKnown` that the radio
is where it last said it was as long as every answer has arrived.

`IncidentStore`: the figures announced of an incident may be in the queue, in its
row, or in both, and none of the three properties is inductive by itself. `IncInv` says

* where figures are: `IncHonest`, no row and no queued record says more than was
  announced; `IncKnown`, between them they say all of it (`IncNothingLost` before
  a run has ended);
* whose they are: `IncLatest`, a live incident is the newest of its key in table and
  queue, and is queued whenever anything of its key is; `QueueInOrder`, in the queue
  a key's incidents stand in the order they opened;
* what the bound may have taken: `IncLiveKept`, a live incident is queued, on file,
  or was deleted as the oldest start of its key, and then the key has room for
  exactly the row the snapshot inserts anew. That is what `IncKeyIsBounded` allows
  and what `IncFileKeepsItsWord` exempts.

A flush folds the queue into the table, in a recursive function over its length.
`WrittenSteps` unfolds it, and each fact about a flush (what rows of other keys
keep, what a queued record leaves in its row, how many rows of a key are left) is one
about a single upsert and trim, carried along by lemma `Induction`, as for
`SocketQueue`. That a trim leaves exactly the share (`TrimBounds`) is a count: the
rows of a key are strictly ordered by start and number, the last row kept has fewer
than `IncPerKey` newer ones, the first one deleted at least that many. The snapshot
is one upsert per live incident, at most one for a key.

The compositions `MCRecords` and `MCWorkers` need no new invariant: a step of the whole is
a step of one part and a stutter of the others (`RecordsAreEach`,
`WorkersAreEach`), which also carries the other theorems on these modules over to the runs
that check them.
The parts' shapes do need a few facts their own theorems had no use for:
`EvaluationShape` (at most one record more than evaluations), `EapolTable` (the table
takes a pair only in a free or a displaced one's place) and `HopBounded`.

**Only model-checked.** `QuietIncidentsClose`, `StuckConnectionsEnd`,
`DnsWorkerServes`, `MonDeathIsShown` and `HopRevisits`: they are liveness under
fairness, which TLAPS 1.4 does not reach. Every other property of a passing run is
a theorem above. The three runs that end in a counterexample show it for the
constants of their configurations.

## 6. Where the code and its documents disagree

Shown by a run (`findings` in `PROJECT.json`):

1. `jsonl.c:579` prints `event_seq % 10000`; `docs/wiki/jsonl-schema.md:499` says
   the number in `event_id` is unique and increasing. The 10000th record of an
   incident is `-0000` (`alert_event_ids`).
2. `jsonl.c:137` measures the heartbeat on the wall clock;
   `docs/wiki/jsonl-schema.md:676` guarantees a refresh at least every 5 minutes
   and `sloth_clock.h:24` rules the wall clock out for durations. Stepped back,
   it suppresses unchanged rows until it has caught up (`jsonl_heartbeat_step`).
3. `http_log.c:304` clears an ambiguous flow at the first response although a
   second one is due; a third request then makes it pairable and the second
   response gets the third's URL. The comment at `http_log.c:270-274` says such
   requests are "marked unpairable rather than guessed" (`http_pipelining`).

Seen while modelling, without a run of their own:

4. The export cooldown (`engine.c:877`) is a difference of wall-clock times too,
   against the same comment. A step either way ends a cooldown early; that is
   why `DuplicatesAreTallied` is stated for an unstepped clock. After a step,
   an incident marked as cooled may also carry no path.
5. `docs/wiki/jsonl-schema.md:81` says idle clients are never timed out;
   `data_socket.c:795` closes them when `socket.idle_secs` is set.
6. `engine.c:500` compares the rendering with the one last announced, not with
   the previous one as `docs/views/alerts.md:90` says: a change held back by the
   update floor counts as an observation at every poll until it is announced.
7. `db.c:741-752` says of an incident's row that the worst severity only rises. With
   the wall clock set back, and `DB_INCIDENTS_PER_KEY` later starts already on file,
   the per-key bound deletes a live incident's row and the snapshot of the same
   tick inserts it anew with its present severity: the recorded worst may fall.
   `IncFileKeepsItsWord` and `IncKeyIsBounded` exempt exactly that incident.
8. `eapol_log.c:904` marks an attempt exported after a failed append, so that a
   passing lack of space loses the attempt's record (`EapolOneLinePerOffer` counts
   the failed write); `eapol_log.c:796` sets the progress of a complete attempt
   back from 4 to 3 when its M3 is retransmitted.
9. `probe.c:1013` returns early for the interface whose worker died, because the
   run flag stays up: `[m]` restarts a radio only by way of another interface.
10. `dns.c:121` drops a request at a full queue while its entry stays PENDING, which
    is not asked for again until it is evicted or seen on the wire.
11. `jsonl.c:291` hands a record to the socket after the file's lock is released, so
    two threads' records may stand in different orders in the two sinks. No
    document promises one order over both.

## 7. Not modelled, and why

* Detection rules, parsers, posture and portal scoring, inventory, TUI: functions
  of a snapshot without a protocol; their unit tests and fuzz targets reach what
  a model could. `AlertEngine` lets every rule fire anything at any time.
* Suppression and location stamps of an alert: fields copied into records that
  decide nothing here.
* File rotation, hashing, manifests, directory handles and what SQLite does inside a
  statement: I/O. Only outcomes (written, failed, nothing to write) are modelled. A
  crash is one of the process: a power cut, where `synchronous=NORMAL` may lose
  committed ticks, is a property of SQLite's file, not of this code.
* The other tables of `db.c`: upserts of one snapshot in the transaction that is
  modelled.
* Of the handshake tracker: PMKID lines, the PTK generation, the event ring, WPS
  and EAP. A frame of an earlier attempt that arrives after a new M1 may be
  buffered in the new attempt's slot; the property speaks of what was heard under
  the offer, and such a frame was.
* Radiotap and 802.11 parsing, and the readers of GPS, ADS-B, APRS and Bluetooth:
  loops over a line or a frame under the run flag of `MonitorWorker`.
* The refusal counter and its rate-limited warning in `data_socket.c`.
* The platform layer, privileges, tuning at start, the updater, the separate
  `src/web` server, packaging and research data.

The repository has some 153,000 lines of implementation. Most are parsers, views,
formatting, tables of names, the web server's store and its analyses, whose
behaviour is a function of one input or one snapshot; a state machine of them
would repeat the code. The definitions here translate about 2,700 lines, those
where order, limits, time or failure decide; a large share of the whole is not to
be had without modelling what a model checker adds nothing to.

## 8. Plan

Done: the core (`Stab` to `JsonlDedup`), then the resolver, HTTP pairing, the
handshake tracker, the monitor worker, the rotation and the incident table, each
with its safety properties proved. Left,
the most important first:

1. **Composition**: `AlertEngine` with `IncidentStore`, so that the hook's calls are
   those of the engine and not any calls; `AlertEngine` with the socket, so that
   the stream contract is stated at the consumer.
2. **Extensions**: PMKID lines and the PTK generation in `EapolAttempts`; the scope
   policy of `capture.c`; the readers' reconnection; rotation and write failures
   of `-o`.
