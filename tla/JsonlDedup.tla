----------------------------- MODULE JsonlDedup -----------------------------
(***************************************************************************)
(* Change-only emission of snapshot rows (src/jsonl.c, #42, #101): one set *)
(* of the set-associative change cache and the keys that hash to it.  A    *)
(* row is written when it is new to the cache, when its signature differs  *)
(* from the cached one, or when a heartbeat has passed since it was last   *)
(* written; a key new to a full set displaces the least recently looked up.*)
(*                                                                         *)
(* The cache is stamped with the wall clock, which may be stepped; `time`  *)
(* is the time that really passed.                                         *)
(*                                                                         *)
(* Names ending in _m and a number are defective forms of the definition   *)
(* that follows; no action uses them.                                      *)
(***************************************************************************)
EXTENDS Integers

CONSTANTS
    Keys,       \* the (kind, key) pairs that hash to this set
    Sigs,       \* signatures of a row's payload
    Ways,       \* JSONL_DEDUP_WAYS
    Heartbeat,  \* JSONL_HEARTBEAT_SECS
    Skews,      \* what the wall clock may be ahead of or behind `time`
    MaxTime,    \* bound: time that passes
    None        \* no key, no signature

ASSUME DedupAssumption ==
    /\ Ways \in Nat \ {0} /\ Heartbeat \in Nat \ {0} /\ MaxTime \in Nat
    /\ Skews \subseteq Int /\ 0 \in Skews
    /\ None \notin Keys /\ None \notin Sigs

VARIABLES
    set,        \* way -> cached row, see Row
    time, skew, \* the time, and the wall clock's distance from it
    actual,     \* key -> signature it was last looked up with
    shown,      \* key -> signature last written to the sinks
    shownAt,    \* key -> when that was
    lookedAt,   \* key -> when it was last looked up
    setBack     \* history: the wall clock was ever stepped back

dedupVars == <<set, time, skew, actual, shown, shownAt, lookedAt, setBack>>

Wall == time + skew
Free == [key |-> None, sig |-> None, emit |-> 0, seen |-> 0]

-----------------------------------------------------------------------------
(* jsonl_changed()                                                         *)

Hit(k, w)  == set[w].key = k
Missing(k) == \A w \in 1 .. Ways : ~ Hit(k, w)

\* the first free way, or the first of those least recently looked up
Colder(v, w) ==
    \/ set[v].key = None /\ set[w].key # None
    \/ set[v].key # None /\ set[w].key # None /\ set[v].seen < set[w].seen
Victim_m1(w) == w = 1
Victim(w) ==
    /\ \A v \in 1 .. Ways : ~ Colder(v, w)
    /\ \A v \in 1 .. w - 1 : Colder(w, v)

Fresh_m1(row, s) == Wall - row.emit < Heartbeat
Fresh_m2(row, s) == row.sig = s /\ Wall - row.emit <= Heartbeat
Fresh(row, s) == row.sig = s /\ Wall - row.emit < Heartbeat

LookUp(k, s) ==
    /\ actual' = [actual EXCEPT ![k] = s]
    /\ lookedAt' = [lookedAt EXCEPT ![k] = time]
    /\ UNCHANGED <<time, skew, setBack>>

Emit_m1(k, s, w) ==
    /\ set' = [set EXCEPT ![w] = [key |-> k, sig |-> s, emit |-> Wall, seen |-> None]]
    /\ shown' = [shown EXCEPT ![k] = s]
    /\ shownAt' = [shownAt EXCEPT ![k] = time]
Emit(k, s, w) ==
    /\ set' = [set EXCEPT ![w] = [key |-> k, sig |-> s, emit |-> Wall, seen |-> Wall]]
    /\ shown' = [shown EXCEPT ![k] = s]
    /\ shownAt' = [shownAt EXCEPT ![k] = time]

\* unchanged: only the eviction order is told of the lookup
Suppress(k, s) ==
    \E w \in 1 .. Ways :
       /\ Hit(k, w) /\ Fresh(set[w], s)
       /\ LookUp(k, s)
       /\ set' = [set EXCEPT ![w].seen = Wall]
       /\ UNCHANGED <<shown, shownAt>>

\* changed, or a heartbeat is due
Refresh(k, s) ==
    \E w \in 1 .. Ways :
       /\ Hit(k, w) /\ ~ Fresh(set[w], s)
       /\ LookUp(k, s)
       /\ Emit(k, s, w)

Insert(k, s) ==
    /\ Missing(k)
    /\ LookUp(k, s)
    /\ \E w \in 1 .. Ways : Victim(w) /\ Emit(k, s, w)

-----------------------------------------------------------------------------
(* jsonl_dedup_reset(): a new sink, which has been shown nothing           *)
DedupReset ==
    /\ set' = [w \in 1 .. Ways |-> Free]
    /\ actual' = [k \in Keys |-> None]
    /\ shown' = [k \in Keys |-> None]
    /\ UNCHANGED <<time, skew, shownAt, lookedAt, setBack>>

DedupTick ==
    /\ time < MaxTime
    /\ time' = time + 1
    /\ UNCHANGED <<set, skew, actual, shown, shownAt, lookedAt, setBack>>

StepWall ==
    /\ skew' \in Skews \ {skew}
    /\ setBack' = (setBack \/ skew' < skew)
    /\ UNCHANGED <<set, time, actual, shown, shownAt, lookedAt>>

DedupInit ==
    /\ set = [w \in 1 .. Ways |-> Free]
    /\ time = 0 /\ skew = 0 /\ setBack = FALSE
    /\ actual = [k \in Keys |-> None] /\ shown = [k \in Keys |-> None]
    /\ shownAt = [k \in Keys |-> 0] /\ lookedAt = [k \in Keys |-> 0]

DedupNext ==
    \/ \E k \in Keys, s \in Sigs : Suppress(k, s) \/ Refresh(k, s) \/ Insert(k, s)
    \/ DedupReset \/ DedupTick \/ StepWall

DedupSpec == DedupInit /\ [][DedupNext]_dedupVars

-----------------------------------------------------------------------------
(* Properties                                                              *)

\* Shape of a set of the cache (jsonl_dedup_slot_t) and of the histories.
DedupTypeOK ==
    /\ set \in [1 .. Ways -> [key : Keys \cup {None}, sig : Sigs \cup {None},
                              emit : Int, seen : Int]]
    /\ time \in 0 .. MaxTime /\ skew \in Skews /\ setBack \in BOOLEAN
    /\ actual \in [Keys -> Sigs \cup {None}] /\ shown \in [Keys -> Sigs \cup {None}]
    /\ shownAt \in [Keys -> 0 .. MaxTime] /\ lookedAt \in [Keys -> 0 .. MaxTime]

\* The cache only ever saves repeats (#42): whatever collisions, evictions and
\* steps of the clock it went through, a consumer that keeps the latest row of
\* each key knows the state every key was last looked up in.
NothingIsWithheld == shown = actual

\* "The heartbeat guarantees every live entity still refreshes at least every
\* 5 minutes" (docs/wiki/jsonl-schema.md:676): no lookup leaves its key
\* unwritten for a heartbeat.
HeartbeatKept ==
    \A k \in Keys : actual[k] # None => lookedAt[k] - shownAt[k] < Heartbeat

\* The guarantee the code gives: a heartbeat is kept as long as the wall clock
\* it is measured on was never stepped back (jsonl_changed, jsonl.c:137).
HeartbeatKeptForward == setBack \/ HeartbeatKept

\* A key is displaced only when every other key of the set was looked up since
\* or in the same second (#101): live keys do not evict each other while a
\* stale one is there, unless the wall clock was stepped back.
ColdestGoes ==
    [][\A w \in 1 .. Ways :
          (/\ ~ setBack
           /\ set[w].key # None /\ set'[w].key \notin {None, set[w].key}) =>
             \A v \in 1 .. Ways :
                set[v].key # None /\ lookedAt[set[w].key] <= lookedAt[set[v].key]]_dedupVars
=============================================================================
