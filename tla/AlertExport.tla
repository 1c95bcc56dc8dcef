----------------------------- MODULE AlertExport -----------------------------
(***************************************************************************)
(* What the alert engine remembers of a key across its incidents (the side *)
(* table g_side, #112) and the per-alert pcap export it governs (#92, #96; *)
(* src/alerts/engine.c).  AlertEngine models how incidents come and go;    *)
(* here an incident is only its key's entry, and an entry may leave        *)
(* whenever another key needs its slot.                                    *)
(*                                                                         *)
(* All of it runs on the main thread: a poll reads the wall clock, fires,  *)
(* then offers each entry to the export.  Two clocks are kept: the wall    *)
(* clock the code reads, and the time that really passes.  A file is       *)
(* numbered in order of writing; pcap_write_failures and first_seen, which *)
(* travel through the row as pcap_path does and decide nothing, are left   *)
(* out.                                                                    *)
(*                                                                         *)
(* Names ending in _m and a number are defective forms of the definition   *)
(* that follows; no action uses them.                                      *)
(***************************************************************************)
EXTENDS Integers, FiniteSets, SequencesExt

CONSTANTS
    Keys,       \* dedup keys
    MaxAlerts,  \* entries of the engine
    SideMax,    \* ALERT_SIDE_MAX
    Cooldown,   \* tune pcap.key_cooldown_secs
    MaxTime,    \* bound: both clocks stay in 1..MaxTime
    MaxSteps,   \* bound: times the wall clock is stepped
    MaxFiles,   \* bound: files written
    MaxOpens    \* bound: incidents opened

ASSUME ExportAssumption ==
    /\ MaxAlerts \in Nat \ {0} /\ SideMax \in Nat \ {0}
    /\ Cooldown \in Nat /\ MaxTime \in Nat \ {0}
    /\ MaxSteps \in Nat /\ MaxFiles \in Nat /\ MaxOpens \in Nat

VARIABLES
    wall, mono,     \* the wall clock; the time that has really passed
    steps,          \* history: times the wall clock was stepped
    phase,          \* "idle", "rules" or "dump"
    todo,           \* entries the dump loop has not reached
    \* the engine's entries
    present,        \* keys that have one
    dumped,         \* key -> why pcap_dumped is set, "no" while it is not
    path,           \* key -> pcap_path, the number of a file or 0
    reopens,        \* key -> the entry's reopen_count
    \* the side table
    lru,            \* keys with a row, the one touched longest ago first
    export,         \* key -> last_pcap_export, 0 = none
    rowPath,        \* key -> pcap_path
    tagged,         \* key -> last_incident_id is set
    rowReopens,     \* key -> reopen_count
    lost,           \* evict_pcap_cooldown, the sensor-health counter
    \* history
    files,          \* files written
    lastFile,       \* key -> the last file written for it, since a clear
    lastAt,         \* key -> when, in time really passed
    early,          \* files written within a cooldown of the key's last
    opens,          \* incidents opened
    opened,         \* key -> incidents opened of it since a clear
    forgotten       \* keys whose row was displaced since a clear

clocks  == <<wall, mono, steps>>
entries == <<present, dumped, path, reopens>>
side    == <<lru, export, rowPath, tagged, rowReopens, lost>>
history == <<files, lastFile, lastAt, early, opens, opened, forgotten>>
vars    == <<clocks, phase, todo, entries, side, history>>

Times == 1 .. MaxTime
Rows  == ToSet(lru)

-----------------------------------------------------------------------------
(* Helpers *)

\* the row whose touch is lowest makes room in a full table
Coldest == Head(lru)
Displaced(k) == k \notin Rows /\ Len(lru) = SideMax

\* the table after side_get(k), with k the one touched last: it was found, or
\* the coldest row made room for it, or there was room
Place(k) == CHOOSE i \in 1 .. Len(lru) : lru[i] = k
Touched(k) ==
    CASE k \in Rows   -> Append(RemoveAt(lru, Place(k)), k)
      [] Displaced(k) -> Append(Tail(lru), k)
      [] OTHER        -> Append(lru, k)

\* a field of the rows after side_get(k) changed k's to v: a displaced row is
\* gone, a fresh one starts from zero
Fields(k, f, v) ==
    [j \in Keys |-> IF j = k THEN v
                    ELSE IF Displaced(k) /\ j = Coldest THEN 0 ELSE f[j]]
Tags(k, v) ==
    [j \in Keys |-> IF j = k THEN v
                    ELSE tagged[j] /\ ~(Displaced(k) /\ j = Coldest)]

\* history: the keys whose row was displaced
Forgot(k) == IF Displaced(k) THEN forgotten \cup {Coldest} ELSE forgotten

\* the reopen_count of k's next incident: a row that has seen one counts it
Count_m1(k) == rowReopens[k] + 1
Count(k) == rowReopens[k] + (IF tagged[k] THEN 1 ELSE 0)

\* a displaced row that held an export is a possible duplicate pcap: counted
Tally_m1(k) == lost
Tally(k) == IF Displaced(k) /\ export[Coldest] > 0 THEN lost + 1 ELSE lost

\* pcap_cooldown_active, on the key's row if it has one
CooldownActive(k) ==
    /\ k \in Rows
    /\ export[k] > 0
    /\ wall >= export[k]
    /\ wall - export[k] < Cooldown

-----------------------------------------------------------------------------
(* Actions *)

Init ==
    /\ wall = 1 /\ mono = 1 /\ steps = 0
    /\ phase = "idle"
    /\ todo = {}
    /\ present = {}
    /\ dumped = [k \in Keys |-> "no"]
    /\ path = [k \in Keys |-> 0]
    /\ reopens = [k \in Keys |-> 0]
    /\ lru = <<>>
    /\ export = [k \in Keys |-> 0]
    /\ rowPath = [k \in Keys |-> 0]
    /\ tagged = [k \in Keys |-> FALSE]
    /\ rowReopens = [k \in Keys |-> 0]
    /\ lost = 0
    /\ files = 0
    /\ lastFile = [k \in Keys |-> 0]
    /\ lastAt = [k \in Keys |-> 0]
    /\ early = 0
    /\ opens = 0
    /\ opened = [k \in Keys |-> 0]
    /\ forgotten = {}

\* time passes between polls: a poll reads the wall clock once
Tick ==
    /\ phase = "idle"
    /\ mono < MaxTime /\ wall < MaxTime
    /\ mono' = mono + 1
    /\ wall' = wall + 1
    /\ UNCHANGED <<steps, phase, todo, entries, side, history>>

\* an NTP step, or the operator, sets the wall clock
StepWall ==
    /\ phase = "idle"
    /\ steps < MaxSteps
    /\ steps' = steps + 1
    /\ wall' \in Times
    /\ UNCHANGED <<mono, phase, todo, entries, side, history>>

BeginPoll ==
    /\ phase = "idle"
    /\ phase' = "rules"
    /\ UNCHANGED <<clocks, todo, entries, side, history>>

\* fire_inv opens an incident of k, in its own resolved entry, a free one or
\* one that another key leaves, and takes back what belongs to the key
Take(k, gone) ==
    /\ opens < MaxOpens
    /\ opens' = opens + 1
    /\ opened' = [opened EXCEPT ![k] = @ + 1]
    /\ forgotten' = Forgot(k)
    /\ present' = (present \ gone) \cup {k}
    /\ dumped' = [dumped EXCEPT ![k] = "no"]
    /\ path' = [path EXCEPT ![k] = rowPath[k]]
    /\ reopens' = [reopens EXCEPT ![k] = Count(k)]
    /\ rowReopens' = Fields(k, rowReopens, Count(k))
    /\ tagged' = Tags(k, TRUE)
    /\ export' = Fields(k, export, export[k])
    /\ rowPath' = Fields(k, rowPath, rowPath[k])
    /\ lru' = Touched(k)
    /\ lost' = Tally(k)
    /\ UNCHANGED <<clocks, phase, todo, files, lastFile, lastAt, early>>

Open(k) ==
    /\ phase = "rules"
    /\ k \in present \/ Cardinality(present) < MaxAlerts
    /\ Take(k, {})

OpenOver(k) ==
    /\ phase = "rules"
    /\ k \notin present
    /\ Cardinality(present) = MaxAlerts
    /\ \E j \in present : Take(k, {j})

EndRules ==
    /\ phase = "rules"
    /\ phase' = "dump"
    /\ todo' = present
    /\ UNCHANGED <<clocks, entries, side, history>>

\* dump_new_alert_pcaps on an entry that is done, below pcap.min_severity, or
\* has nothing either exporter could write
DumpSkip(k) ==
    /\ k \in todo
    /\ todo' = todo \ {k}
    /\ UNCHANGED <<clocks, phase, entries, side, history>>

\* an entry to be exported: side_find touches the row it finds
Found(k) == IF k \in Rows THEN Touched(k) ELSE lru

Due(k) ==
    /\ k \in todo
    /\ dumped[k] = "no"
    /\ todo' = todo \ {k}
    /\ UNCHANGED <<clocks, phase, present, reopens, opens, opened>>

\* the key's frames are on disk already
DumpCool(k) ==
    /\ Due(k)
    /\ CooldownActive(k)
    /\ dumped' = [dumped EXCEPT ![k] = "cool"]
    /\ lru' = Found(k)
    /\ UNCHANGED <<path, export, rowPath, tagged, rowReopens, lost, files,
                   lastFile, lastAt, early, forgotten>>

\* the export wrote a file: only this starts the cooldown
DumpWrite(k) ==
    /\ Due(k)
    /\ ~CooldownActive(k)
    /\ files < MaxFiles
    /\ files' = files + 1
    /\ dumped' = [dumped EXCEPT ![k] = "wrote"]
    /\ path' = [path EXCEPT ![k] = files']
    /\ lru' = Touched(k)
    /\ lost' = Tally(k)
    /\ forgotten' = Forgot(k)
    /\ export' = Fields(k, export, wall)
    /\ rowPath' = Fields(k, rowPath, files')
    /\ tagged' = Tags(k, tagged[k])
    /\ rowReopens' = Fields(k, rowReopens, rowReopens[k])
    /\ lastFile' = [lastFile EXCEPT ![k] = files']
    /\ lastAt' = [lastAt EXCEPT ![k] = mono]
    /\ early' = IF lastFile[k] > 0 /\ mono - lastAt[k] < Cooldown
                   THEN early + 1 ELSE early

\* nothing left to write: no file, and nothing to retry.  The evidence export
\* leaves an empty path, the packet export the path as it was.
DumpEmpty(k) ==
    /\ Due(k)
    /\ ~CooldownActive(k)
    /\ dumped' = [dumped EXCEPT ![k] = "empty"]
    /\ \E p \in {0, path[k]} : path' = [path EXCEPT ![k] = p]
    /\ lru' = Found(k)
    /\ UNCHANGED <<export, rowPath, tagged, rowReopens, lost, files, lastFile,
                   lastAt, early, forgotten>>

\* a write failed: tried again next poll, unless every name is taken
DumpFail_m1(k) ==
    /\ Due(k)
    /\ ~CooldownActive(k)
    /\ \E r \in {"no", "refused"} : dumped' = [dumped EXCEPT ![k] = r]
    /\ path' = [path EXCEPT ![k] = 0]
    /\ lru' = Touched(k)
    /\ lost' = Tally(k)
    /\ forgotten' = Forgot(k)
    /\ export' = Fields(k, export, wall)
    /\ rowPath' = Fields(k, rowPath, rowPath[k])
    /\ tagged' = Tags(k, tagged[k])
    /\ rowReopens' = Fields(k, rowReopens, rowReopens[k])
    /\ UNCHANGED <<files, lastFile, lastAt, early>>
DumpFail(k) ==
    /\ Due(k)
    /\ ~CooldownActive(k)
    /\ \E r \in {"no", "refused"} : dumped' = [dumped EXCEPT ![k] = r]
    /\ path' = [path EXCEPT ![k] = 0]
    /\ lru' = Touched(k)
    /\ lost' = Tally(k)
    /\ forgotten' = Forgot(k)
    /\ export' = Fields(k, export, export[k])
    /\ rowPath' = Fields(k, rowPath, rowPath[k])
    /\ tagged' = Tags(k, tagged[k])
    /\ rowReopens' = Fields(k, rowReopens, rowReopens[k])
    /\ UNCHANGED <<files, lastFile, lastAt, early>>

EndPoll ==
    /\ phase = "dump" /\ todo = {}
    /\ phase' = "idle"
    /\ UNCHANGED <<clocks, todo, entries, side, history>>

\* alerts_clear: the side table is engine state too, and a fresh export is
\* what the operator expects
Clear ==
    /\ phase = "idle"
    /\ present # {}
    /\ present' = {}
    /\ dumped' = [k \in Keys |-> "no"]
    /\ path' = [k \in Keys |-> 0]
    /\ reopens' = [k \in Keys |-> 0]
    /\ lru' = <<>>
    /\ export' = [k \in Keys |-> 0]
    /\ rowPath' = [k \in Keys |-> 0]
    /\ tagged' = [k \in Keys |-> FALSE]
    /\ rowReopens' = [k \in Keys |-> 0]
    /\ lastFile' = [k \in Keys |-> 0]
    /\ lastAt' = [k \in Keys |-> 0]
    /\ opened' = [k \in Keys |-> 0]
    /\ forgotten' = {}
    /\ UNCHANGED <<clocks, phase, todo, lost, files, early, opens>>

Next ==
    \/ Tick \/ StepWall
    \/ BeginPoll \/ EndRules \/ EndPoll \/ Clear
    \/ \E k \in Keys :
          \/ Open(k) \/ OpenOver(k)
          \/ DumpSkip(k) \/ DumpCool(k) \/ DumpWrite(k) \/ DumpEmpty(k)
          \/ DumpFail(k)

Spec == Init /\ [][Next]_vars

-----------------------------------------------------------------------------
(* Properties *)

\* The 16-million-file defect stays fixed and accounted for: while the wall
\* clock is not stepped, a key's frames are written twice within a cooldown
\* only when its side row was lost in between, and that loss was counted
\* (engine.c:258-263).
DuplicatesAreTallied == steps = 0 => early <= lost

\* An incident that exports nothing because its key is cooling has its key's
\* frames on disk: a file really written since the last clear, never a failed
\* attempt (engine.c:860-876).  While the wall clock is not stepped it names
\* that file, too (docs/wiki/pcap-export.md:206-207).
CoolNamesFile ==
    \A k \in present :
       dumped[k] = "cool" =>
          /\ lastFile[k] > 0
          /\ steps = 0 => path[k] = lastFile[k]

\* reopen_count is how many earlier incidents the key has had since a clear:
\* exact while its row was never lost, and never too many, although an export
\* may give a lost key a row that knows of no incident
\* (docs/wiki/jsonl-schema.md:505).
ReopensCounted ==
    \A k \in present :
       /\ reopens[k] < opened[k]
       /\ k \notin forgotten => reopens[k] = opened[k] - 1
=============================================================================
