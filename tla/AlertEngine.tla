----------------------------- MODULE AlertEngine -----------------------------
(***************************************************************************)
(* The alert engine (src/alerts/engine.c): MaxAlerts slots, each holding   *)
(* the current or last incident of one dedup key, fired into by the rules  *)
(* of every poll, and the lifecycle records a consumer of the JSONL        *)
(* stream receives.                                                        *)
(*                                                                         *)
(* The engine runs on the main thread alone.  A poll is a run of fires,    *)
(* then the expiry loop; alerts_clear is a loop over the slots too.  Each  *)
(* turn of a loop, and the eviction a fire may need, is an action of its   *)
(* own, so an action emits at most one record.  Monotonic time is kept as  *)
(* ages, because the engine only ever compares differences of it; time may *)
(* pass between any two readings of it, and the wall clock may step either *)
(* way at the start of a poll.                                             *)
(*                                                                         *)
(* Names ending in _m and a number are defective forms of the definition   *)
(* that follows; no action uses them.                                      *)
(***************************************************************************)
EXTENDS Integers, FiniteSets

CONSTANTS
    Keys,           \* dedup keys
    Types,          \* alert types
    TypeOf,         \* key -> the type of the rule that fires it
    Sevs,           \* severities, a range of naturals
    Details,        \* renderings of the evidence
    Nothing,        \* the key and the detail of a zeroed slot
    MaxAlerts,      \* slots (MAX_ALERTS)
    UpdateMin,      \* ALERT_UPDATE_MIN_MS, in units of elapsed time
    ResolveAfter,   \* ALERT_RESOLVE_AFTER_MS, in the same units
    MaxTime,        \* bound: the wall clock stays in 0..MaxTime
    MaxIncidents,   \* bound: incidents opened in one behaviour
    MaxSeq          \* bound: events of one incident before its resolve

ASSUME EngineAssumption ==
    /\ TypeOf \in [Keys -> Types]
    /\ Nothing \notin Keys
    /\ Sevs \subseteq Nat
    /\ MaxAlerts \in Nat \ {0}
    /\ UpdateMin \in Nat \ {0}
    /\ ResolveAfter \in Nat \ {0}
    /\ MaxTime \in Nat
    /\ MaxIncidents \in Nat
    /\ MaxSeq \in Nat \ {0}

VARIABLES
    \* the engine
    count,      \* engine_count: slots in use, the first of the array
    key,        \* slot -> key
    inc,        \* slot -> incident_id, numbered in order of creation
    resolved,   \* slot -> resolved
    sev,        \* slot -> sev
    detail,     \* slot -> detail
    sig,        \* slot -> detail_sig, the rendering it is the signature of
    seq,        \* slot -> event_seq
    lastSeen,   \* slot -> last_seen, wall time
    evalAge,    \* slot -> time since last_eval_ms, up to ResolveAfter
    eventAge,   \* slot -> time since last_event_ms, up to UpdateMin
    incSeq,     \* g_incident_seq
    \* the poll
    now,        \* the wall time alerts_update read
    phase,      \* "idle", "rules", "expire" or "clear"
    walk,       \* index of the expiry or clear loop
    firing,     \* the fire waiting for the slot it evicted, or NoFire
    \* the consumer's side of the stream
    status,     \* incident -> "none", "open" or "closed"
    owner,      \* incident -> key
    lastSeq,    \* incident -> number of its last event
    known,      \* incident -> severity its last event told
    shown       \* incident -> detail its last event told

slotVars == <<key, inc, resolved, sev, detail, sig, seq, lastSeen, evalAge,
              eventAge>>
engine   == <<count, slotVars, incSeq>>
poll     == <<now, phase, walk, firing>>
stream   == <<status, owner, lastSeq, known, shown>>
vars     == <<engine, poll, stream>>

Slots     == 0 .. MaxAlerts - 1
InUse     == 0 .. count - 1
Live      == {i \in InUse : ~resolved[i]}
Incidents == 1 .. MaxIncidents
Times     == 0 .. MaxTime
NoFire    == <<>>

-----------------------------------------------------------------------------
(* Helpers *)

\* find_by_key
SlotOf(k) == {i \in InUse : key[i] = k}

\* jsonl_emit_alert_event, as its reader takes it in: the record carries the
\* incident, its event number, its severity and its detail
Emit(i, st, n, s, d) ==
    /\ status' = [status EXCEPT ![i] = st]
    /\ lastSeq' = [lastSeq EXCEPT ![i] = n]
    /\ known' = [known EXCEPT ![i] = s]
    /\ shown' = [shown EXCEPT ![i] = d]

\* alert_resolve, for a slot whose incident is open
Resolve_m1(i) ==
    /\ resolved' = [resolved EXCEPT ![i] = TRUE]
    /\ UNCHANGED <<seq, owner, status, lastSeq, known, shown>>
Resolve(i) ==
    /\ resolved' = [resolved EXCEPT ![i] = TRUE]
    /\ seq' = [seq EXCEPT ![i] = @ + 1]
    /\ Emit(inc[i], "closed", seq[i] + 1, sev[i], detail[i])
    /\ UNCHANGED owner

\* live slots a type holds, and the most any type holds
Held(t) == Cardinality({i \in InUse : TypeOf[key[i]] = t})
MostHeld(t) == \A u \in Types : Held(u) <= Held(t)

\* evict_oldest's choice: a resolved slot if there is one, otherwise a slot of
\* a type tied for most-held; the lowest last_seen, then the lowest slot
Evictable_m1 == InUse
Evictable ==
    IF Live # InUse
       THEN InUse \ Live
       ELSE {i \in InUse : MostHeld(TypeOf[key[i]])}
Victim(i) ==
    /\ i \in Evictable
    /\ \A j \in Evictable : \/ lastSeen[i] < lastSeen[j]
                            \/ lastSeen[i] = lastSeen[j] /\ i <= j

\* the tail of fire_inv: a new incident of key k in slot i, which is opened
\* and announced with its first event
OpenIn(i, k, s, d) ==
    /\ incSeq < MaxIncidents
    /\ incSeq' = incSeq + 1
    /\ key' = [key EXCEPT ![i] = k]
    /\ inc' = [inc EXCEPT ![i] = incSeq + 1]
    /\ resolved' = [resolved EXCEPT ![i] = FALSE]
    /\ sev' = [sev EXCEPT ![i] = s]
    /\ detail' = [detail EXCEPT ![i] = d]
    /\ sig' = [sig EXCEPT ![i] = d]
    /\ seq' = [seq EXCEPT ![i] = 1]
    /\ lastSeen' = [lastSeen EXCEPT ![i] = now]
    /\ evalAge' = [evalAge EXCEPT ![i] = 0]
    /\ eventAge' = [eventAge EXCEPT ![i] = 0]
    /\ owner' = [owner EXCEPT ![incSeq + 1] = k]
    /\ Emit(incSeq + 1, "open", 1, s, d)

\* what every evaluation of an open incident rewrites
Evaluate(i, s, d) ==
    /\ sev' = [sev EXCEPT ![i] = s]
    /\ detail' = [detail EXCEPT ![i] = d]
    /\ lastSeen' = [lastSeen EXCEPT ![i] = now]
    /\ evalAge' = [evalAge EXCEPT ![i] = 0]
    /\ UNCHANGED <<count, key, inc, resolved, incSeq, poll, owner>>

\* ... and what an evaluation that is an event does besides
Announce(i, s, d) ==
    /\ seq[i] < MaxSeq
    /\ sig' = [sig EXCEPT ![i] = d]
    /\ eventAge' = [eventAge EXCEPT ![i] = 0]
    /\ seq' = [seq EXCEPT ![i] = @ + 1]
    /\ Emit(inc[i], "open", seq[i] + 1, s, d)

Firing == phase = "rules" /\ firing = NoFire

-----------------------------------------------------------------------------
(* fire_inv on a key with an open incident *)

\* the severity moved: announced at once, in either direction
FireSeverity(k, s, d) ==
    /\ Firing
    /\ \E i \in SlotOf(k) :
          /\ ~resolved[i]
          /\ s # sev[i]
          /\ Evaluate(i, s, d)
          /\ Announce(i, s, d)

\* the evidence moved and the update floor has passed
FireUpdate(k, d) ==
    /\ Firing
    /\ \E i \in SlotOf(k) :
          /\ ~resolved[i]
          /\ d # sig[i] /\ eventAge[i] >= UpdateMin
          /\ Evaluate(i, sev[i], d)
          /\ Announce(i, sev[i], d)

\* nothing to announce: the same evidence, or the floor holds it back
FireQuiet_m1(k, d) ==
    /\ Firing
    /\ \E i \in SlotOf(k) :
          /\ ~resolved[i]
          /\ d = sig[i] \/ eventAge[i] < UpdateMin
          /\ Evaluate(i, sev[i], d)
          /\ sig' = [sig EXCEPT ![i] = d]
    /\ UNCHANGED <<eventAge, seq, stream>>
FireQuiet(k, d) ==
    /\ Firing
    /\ \E i \in SlotOf(k) :
          /\ ~resolved[i]
          /\ d = sig[i] \/ eventAge[i] < UpdateMin
          /\ Evaluate(i, sev[i], d)
    /\ UNCHANGED <<sig, eventAge, seq, stream>>

-----------------------------------------------------------------------------
(* fire_inv on a key without an open incident *)

\* its resolved slot is reused, its identity is not
FireReopen(k, s, d) ==
    /\ Firing
    /\ \E i \in SlotOf(k) : resolved[i] /\ OpenIn(i, k, s, d)
    /\ UNCHANGED <<count, poll>>

\* a slot never used yet
FireAppend(k, s, d) ==
    /\ Firing
    /\ SlotOf(k) = {}
    /\ count < MaxAlerts
    /\ OpenIn(count, k, s, d)
    /\ count' = count + 1
    /\ UNCHANGED poll

\* a full engine: evict_oldest closes a live victim on the way out ...
FireEvict(k, s, d) ==
    /\ Firing
    /\ SlotOf(k) = {}
    /\ count = MaxAlerts
    /\ incSeq < MaxIncidents
    /\ \E i \in Slots :
          /\ Victim(i)
          /\ firing' = <<i, k, s, d>>
          /\ IF resolved[i]
                THEN UNCHANGED <<resolved, seq, stream>>
                ELSE Resolve(i)
    /\ UNCHANGED <<count, key, inc, sev, detail, sig, lastSeen, evalAge,
                   eventAge, incSeq, now, phase, walk>>

\* ... and its slot takes the new incident
FireTakeSlot ==
    /\ firing # NoFire
    /\ OpenIn(firing[1], firing[2], firing[3], firing[4])
    /\ firing' = NoFire
    /\ UNCHANGED <<count, now, phase, walk>>

\* alert_key_resolve: a rule ends one of its own findings
KeyResolve(k) ==
    /\ Firing
    /\ \E i \in SlotOf(k) : ~resolved[i] /\ Resolve(i)
    /\ UNCHANGED <<count, key, inc, sev, detail, sig, lastSeen, evalAge,
                   eventAge, incSeq, poll>>

-----------------------------------------------------------------------------
(* alerts_update and alerts_clear *)

\* alerts_update reads the wall clock, which may have been stepped
BeginPoll ==
    /\ phase = "idle"
    /\ phase' = "rules"
    /\ now' \in Times
    /\ UNCHANGED <<engine, walk, firing, stream>>

\* the last rule has run
EndRules ==
    /\ Firing
    /\ phase' = "expire"
    /\ walk' = 0
    /\ UNCHANGED <<engine, now, firing, stream>>

\* one turn of expire_incidents
Expire_m1 ==
    /\ phase = "expire" /\ walk < count
    /\ IF ~resolved[walk] /\ evalAge[walk] >= ResolveAfter
          THEN /\ resolved' = [resolved EXCEPT ![walk] = TRUE]
               /\ Emit(inc[walk], "closed", seq[walk], sev[walk], detail[walk])
               /\ UNCHANGED <<seq, owner>>
          ELSE UNCHANGED <<resolved, seq, stream>>
    /\ walk' = walk + 1
    /\ UNCHANGED <<count, key, inc, sev, detail, sig, lastSeen, evalAge,
                   eventAge, incSeq, now, phase, firing>>
Expire_m2 ==
    /\ phase = "expire" /\ walk < count
    /\ IF ~resolved[walk] /\ now - lastSeen[walk] >= ResolveAfter
          THEN Resolve(walk)
          ELSE UNCHANGED <<resolved, seq, stream>>
    /\ walk' = walk + 1
    /\ UNCHANGED <<count, key, inc, sev, detail, sig, lastSeen, evalAge,
                   eventAge, incSeq, now, phase, firing>>
Expire ==
    /\ phase = "expire" /\ walk < count
    /\ IF ~resolved[walk] /\ evalAge[walk] >= ResolveAfter
          THEN Resolve(walk)
          ELSE UNCHANGED <<resolved, seq, stream>>
    /\ walk' = walk + 1
    /\ UNCHANGED <<count, key, inc, sev, detail, sig, lastSeen, evalAge,
                   eventAge, incSeq, now, phase, firing>>

\* the loop has run over every slot: the poll is over
EndPoll ==
    /\ phase = "expire" /\ walk = count
    /\ phase' = "idle"
    /\ UNCHANGED <<engine, now, walk, firing, stream>>

\* alerts_clear, between two polls
BeginClear ==
    /\ phase = "idle"
    /\ count > 0
    /\ phase' = "clear"
    /\ walk' = 0
    /\ UNCHANGED <<engine, now, firing, stream>>

ClearOne ==
    /\ phase = "clear" /\ walk < count
    /\ IF resolved[walk] THEN UNCHANGED <<resolved, seq, stream>>
                         ELSE Resolve(walk)
    /\ walk' = walk + 1
    /\ UNCHANGED <<count, key, inc, sev, detail, sig, lastSeen, evalAge,
                   eventAge, incSeq, now, phase, firing>>

\* a zeroed slot array
Zeroed(v) == [i \in Slots |-> v]
BlankSlots ==
    /\ key' = Zeroed(Nothing)
    /\ inc' = Zeroed(0)
    /\ resolved' = Zeroed(FALSE)
    /\ sev' = Zeroed(0)
    /\ detail' = Zeroed(Nothing)
    /\ sig' = Zeroed(Nothing)
    /\ seq' = Zeroed(0)
    /\ lastSeen' = Zeroed(0)
    /\ evalAge' = Zeroed(0)
    /\ eventAge' = Zeroed(0)

\* g_incident_seq is not reset: an incident_id is never used twice
EndClear ==
    /\ phase = "clear" /\ walk = count
    /\ phase' = "idle"
    /\ count' = 0
    /\ BlankSlots
    /\ UNCHANGED <<incSeq, now, walk, firing, stream>>

\* CLOCK_MONOTONIC advances; fire_inv and expire_incidents read it once, so
\* what passes while one of them runs counts from its end
Older(age, limit) ==
    [i \in Slots |-> IF i \in InUse /\ age[i] < limit THEN age[i] + 1
                                                     ELSE age[i]]
Elapse ==
    /\ phase # "expire" /\ firing = NoFire
    /\ evalAge' = Older(evalAge, ResolveAfter)
    /\ eventAge' = Older(eventAge, UpdateMin)
    /\ UNCHANGED <<count, key, inc, resolved, sev, detail, sig, seq, lastSeen,
                   incSeq, poll, stream>>

-----------------------------------------------------------------------------

Init ==
    /\ count = 0
    /\ key = Zeroed(Nothing)
    /\ inc = Zeroed(0)
    /\ resolved = Zeroed(FALSE)
    /\ sev = Zeroed(0)
    /\ detail = Zeroed(Nothing)
    /\ sig = Zeroed(Nothing)
    /\ seq = Zeroed(0)
    /\ lastSeen = Zeroed(0)
    /\ evalAge = Zeroed(0)
    /\ eventAge = Zeroed(0)
    /\ incSeq = 0
    /\ now = 0
    /\ phase = "idle"
    /\ walk = 0
    /\ firing = NoFire
    /\ status = [i \in Incidents |-> "none"]
    /\ owner = [i \in Incidents |-> Nothing]
    /\ lastSeq = [i \in Incidents |-> 0]
    /\ known = [i \in Incidents |-> 0]
    /\ shown = [i \in Incidents |-> Nothing]

Fire(k) ==
    \E s \in Sevs, d \in Details :
       \/ FireSeverity(k, s, d)
       \/ FireUpdate(k, d)
       \/ FireQuiet(k, d)
       \/ FireReopen(k, s, d)
       \/ FireAppend(k, s, d)
       \/ FireEvict(k, s, d)

Next ==
    \/ \E k \in Keys : Fire(k) \/ KeyResolve(k)
    \/ FireTakeSlot
    \/ BeginPoll \/ EndRules \/ Expire \/ EndPoll
    \/ BeginClear \/ ClearOne \/ EndClear
    \/ Elapse

Spec == Init /\ [][Next]_vars

\* The main loop polls for ever, a rule pass ends, and each loop turns.  The
\* monotonic clock does not stop: it advances again and again between two
\* readings, though not in the middle of every loop, hence SF.  No rule and no
\* key press is promised.
Fairness ==
    /\ WF_vars(FireTakeSlot)
    /\ WF_vars(BeginPoll)
    /\ WF_vars(EndRules)
    /\ WF_vars(Expire)
    /\ WF_vars(EndPoll)
    /\ WF_vars(ClearOne)
    /\ WF_vars(EndClear)
    /\ SF_vars(Elapse)

FairSpec == Spec /\ Fairness

-----------------------------------------------------------------------------
(* Properties *)

\* Every variable stays in its range (engine[], engine_count).
TypeOK ==
    /\ count \in 0 .. MaxAlerts
    /\ key \in [Slots -> Keys \cup {Nothing}]
    /\ inc \in [Slots -> 0 .. MaxIncidents]
    /\ resolved \in [Slots -> BOOLEAN]
    /\ sev \in [Slots -> Sevs \cup {0}]
    /\ detail \in [Slots -> Details \cup {Nothing}]
    /\ sig \in [Slots -> Details \cup {Nothing}]
    /\ seq \in [Slots -> 0 .. MaxSeq + 1]
    /\ lastSeen \in [Slots -> Times]
    /\ evalAge \in [Slots -> 0 .. ResolveAfter]
    /\ eventAge \in [Slots -> 0 .. UpdateMin]
    /\ incSeq \in 0 .. MaxIncidents
    /\ now \in Times
    /\ phase \in {"idle", "rules", "expire", "clear"}
    /\ walk \in 0 .. MaxAlerts
    /\ phase \in {"expire", "clear"} => walk <= count
    /\ firing = NoFire \/ firing \in Slots \X Keys \X Sevs \X Details
    /\ status \in [Incidents -> {"none", "open", "closed"}]
    /\ owner \in [Incidents -> Keys \cup {Nothing}]
    /\ lastSeq \in [Incidents -> 0 .. MaxSeq + 1]
    /\ known \in [Incidents -> Sevs \cup {0}]
    /\ shown \in [Incidents -> Details \cup {Nothing}]

\* Two slots never hold one key, so find_by_key's first match is the only
\* one and two findings never share or split an incident (engine.c:218).
KeysUnique == \A i, j \in InUse : key[i] = key[j] => i = j

\* The consumer's open incidents are the engine's: every live slot is open in
\* the stream under its key, event number and severity, and no incident is
\* left open without a slot that will one day resolve it, not by an eviction,
\* a reuse of its slot or a clear (engine.c:317-321, 968-975).
StreamMatchesEngine ==
    /\ \A i \in Live :
          /\ status[inc[i]] = "open"
          /\ owner[inc[i]] = key[i]
          /\ lastSeq[inc[i]] = seq[i]
          /\ known[inc[i]] = sev[i]
    /\ \A n \in Incidents :
          status[n] = "open" => \E i \in Live : inc[i] = n

\* Throttling delays a consumer's view of the evidence and never loses it: a
\* rendering just evaluated that the stream does not show is less than the
\* update floor behind the last event (engine.c:541-552).
StaleDetailIsRecent ==
    \A i \in Live :
       (evalAge[i] = 0 /\ shown[inc[i]] # detail[i]) => eventAge[i] < UpdateMin

\* No rule holds the engine against another: a live incident is evicted only
\* when no resolved one is left, and then only from a type that holds at least
\* an equal share of the slots among the types present (#96, engine.c:323-358).
EvictedFairly ==
    (firing = NoFire /\ firing' # NoFire /\ ~resolved[firing'[1]]) =>
       /\ Live = InUse
       /\ Held(TypeOf[key[firing'[1]]])
             * Cardinality({TypeOf[key[i]] : i \in InUse}) >= MaxAlerts
EvictionIsFair == [][EvictedFairly]_vars

\* The lifecycle records are a well-formed incident stream: one create and at
\* most one resolve per incident, none after it, events numbered without a
\* gap, one open incident per key, identities never reused, also across an
\* eviction, a reopen and a clear (#98, engine.c:36-48).
Stream == INSTANCE IncidentStream WITH
             NoKey <- Nothing, NoSev <- 0, Capacity <- MaxAlerts
ImplementsStream == Stream!Spec

\* An incident that stays open for ever is re-asserted for ever: one no rule
\* re-asserts is resolved, and no step of the wall clock can hold it open
\* ("An NTP step must not ... hold a dead one open", engine.c:50-52).
Reasserted(n) == \E i \in Live : inc[i] = n /\ evalAge[i] = 0
QuietIncidentsClose ==
    \A n \in Incidents : <>[](status[n] = "open") => []<>Reasserted(n)
=============================================================================
