-------------------------------- MODULE Stab --------------------------------
(***************************************************************************)
(* The bounded keyed table the snoopers keep their rows in (src/stab.c).   *)
(*                                                                         *)
(* A table is an array of Cap rows of which the first n are live.  A row   *)
(* is found by its key, or allocated by the table's policy when the key is *)
(* new.  Every call runs to its end under the owner's mutex, so a call is  *)
(* one action; stab_expire's loop is one action per row, and while it      *)
(* walks (walk # Idle) nothing else of the table runs.                     *)
(*                                                                         *)
(* An operator whose name ends in _m and a number is a defective form of   *)
(* the definition after it: no action uses it, it shows that a property    *)
(* can tell the defect from the code.                                      *)
(***************************************************************************)
EXTENDS Integers, FiniteSets

CONSTANTS
    Keys,       \* the identities rows are looked up by
    NoKey,      \* the key of a zeroed row
    Cap,        \* rows in the caller's static array
    Policies,   \* the policies a table may be declared with (stab_policy_t)
    AgeSecs,    \* age_secs, read under REFUSE_AGING only
    Window,     \* the age a caller hands to stab_expire
    MaxTime,    \* bound: the wall clock stays in 0..MaxTime
    MaxWanted   \* bound: calls of stab_get for a new key in one behaviour

ASSUME StabAssumption ==
    /\ NoKey \notin Keys
    /\ Cap \in Nat \ {0}
    /\ Policies \subseteq {"OLDEST", "REFUSE_AGING", "RING"}
    /\ AgeSecs \in Nat
    /\ Window \in Nat
    /\ MaxTime \in Nat
    /\ MaxWanted \in Nat

VARIABLES
    policy,     \* the table's policy, which no call changes
    key,        \* the rows' key fields, by slot
    ls,         \* the rows' last_seen fields
    n,          \* rows populated, 0..Cap
    ringHead,   \* RING only: the next slot to overwrite
    tally,      \* the sensor-health loss counter of this table
    now,        \* the caller's wall clock
    walk,       \* stab_expire's loop index, Idle when no expiry runs
    born,       \* history: the number of the stab_get that made the row
    wanted,     \* history: calls of stab_get for a key not in the table
    retired     \* history: rows given back by age, del, expire or clear

rows  == <<key, ls, born>>
table == <<rows, n, ringHead>>
vars  == <<policy, key, ls, born, n, ringHead, tally, now, walk, wanted, retired>>

Slots == 0 .. Cap - 1
Times == 0 .. MaxTime
Idle  == -1
Live  == 0 .. n - 1

-----------------------------------------------------------------------------
(* Helpers *)

\* find_idx: the live slots whose row has key k
Find(k) == {i \in Live : key[i] = k}

\* oldest_idx: smallest last_seen, the lowest slot among equals
IsOldest(s) ==
    /\ s \in Live
    /\ \A i \in Live : \/ ls[s] < ls[i]
                       \/ ls[s] = ls[i] /\ s <= i

\* the row was not seen for age_secs, so its slot may be reclaimed
Aged(s) == now - ls[s] >= AgeSecs

\* stab_get on a new key; nothing else runs while an expiry walks
IsNew(k) == walk = Idle /\ wanted < MaxWanted /\ Find(k) = {}

\* the tail of stab_get: zero the row and stamp it; the caller, still under
\* its mutex, fills the key
Create(k, s) ==
    /\ key' = [key EXCEPT ![s] = k]
    /\ ls' = [ls EXCEPT ![s] = now]
    /\ born' = [born EXCEPT ![s] = wanted + 1]

\* del_idx: the last row moves into the vacated slot and the last is zeroed
DelIdx_m1(i) ==
    /\ key' = [key EXCEPT ![n - 1] = NoKey]
    /\ ls' = [ls EXCEPT ![n - 1] = 0]
    /\ born' = [born EXCEPT ![n - 1] = 0]
    /\ n' = n - 1
    /\ retired' = retired + 1
DelIdx(i) ==
    /\ key' = [key EXCEPT ![i] = key[n - 1], ![n - 1] = NoKey]
    /\ ls' = [ls EXCEPT ![i] = ls[n - 1], ![n - 1] = 0]
    /\ born' = [born EXCEPT ![i] = born[n - 1], ![n - 1] = 0]
    /\ n' = n - 1
    /\ retired' = retired + 1

-----------------------------------------------------------------------------
(* Actions *)

Init ==
    /\ policy \in Policies
    /\ key = [s \in Slots |-> NoKey]
    /\ ls = [s \in Slots |-> 0]
    /\ born = [s \in Slots |-> 0]
    /\ n = 0
    /\ ringHead = 0
    /\ tally = 0
    /\ now = 0
    /\ walk = Idle
    /\ wanted = 0
    /\ retired = 0

\* the wall clock moves, and a step of it may go back
Clock ==
    /\ walk = Idle
    /\ now' \in Times \ {now}
    /\ UNCHANGED <<table, tally, walk, wanted, retired>>

\* stab_get on a key the table holds returns the row untouched; its caller
\* then stamps last_seen
Touch(k) ==
    /\ walk = Idle
    /\ \E i \in Find(k) : ls' = [ls EXCEPT ![i] = now]
    /\ UNCHANGED <<key, born, n, ringHead, tally, now, walk, wanted, retired>>

\* stab_get with a free slot
Append(k) ==
    /\ IsNew(k)
    /\ n < Cap
    /\ Create(k, n)
    /\ n' = n + 1
    /\ wanted' = wanted + 1
    /\ UNCHANGED <<ringHead, tally, now, walk, retired>>

\* stab_get on a full OLDEST table
EvictOldest(k) ==
    /\ policy = "OLDEST"
    /\ IsNew(k)
    /\ n = Cap
    /\ \E s \in Slots : IsOldest(s) /\ Create(k, s)
    /\ tally' = tally + 1
    /\ wanted' = wanted + 1
    /\ UNCHANGED <<n, ringHead, now, walk, retired>>

\* stab_get on a full RING table
Overwrite(k) ==
    /\ policy = "RING"
    /\ IsNew(k)
    /\ n = Cap
    /\ Create(k, ringHead)
    /\ ringHead' = IF ringHead + 1 = Cap THEN 0 ELSE ringHead + 1
    /\ tally' = tally + 1
    /\ wanted' = wanted + 1
    /\ UNCHANGED <<n, now, walk, retired>>

\* stab_get on a full REFUSE_AGING table whose oldest row has aged out: that
\* row is retired by policy, which is not a loss
Reclaim_m1(k) ==
    /\ policy = "REFUSE_AGING"
    /\ IsNew(k)
    /\ n = Cap
    /\ \E s \in Slots : IsOldest(s) /\ Aged(s) /\ Create(k, s)
    /\ tally' = tally + 1
    /\ retired' = retired + 1
    /\ wanted' = wanted + 1
    /\ UNCHANGED <<n, ringHead, now, walk>>
Reclaim(k) ==
    /\ policy = "REFUSE_AGING"
    /\ IsNew(k)
    /\ n = Cap
    /\ \E s \in Slots : IsOldest(s) /\ Aged(s) /\ Create(k, s)
    /\ retired' = retired + 1
    /\ wanted' = wanted + 1
    /\ UNCHANGED <<n, ringHead, tally, now, walk>>

\* stab_get on a full REFUSE_AGING table whose oldest row is fresh: NULL
Refuse(k) ==
    /\ policy = "REFUSE_AGING"
    /\ IsNew(k)
    /\ n = Cap
    /\ \E s \in Slots : IsOldest(s) /\ ~Aged(s)
    /\ tally' = tally + 1
    /\ wanted' = wanted + 1
    /\ UNCHANGED <<table, now, walk, retired>>

\* stab_del on a live row; a RING table refuses
Delete(i) ==
    /\ policy # "RING"
    /\ walk = Idle
    /\ i \in Live
    /\ DelIdx(i)
    /\ UNCHANGED <<ringHead, tally, now, walk, wanted>>

\* stab_expire takes the lock and starts from the last row
ExpireBegin ==
    /\ policy # "RING"
    /\ walk = Idle
    /\ n > 0
    /\ walk' = n - 1
    /\ UNCHANGED <<table, tally, now, wanted, retired>>

\* one turn of stab_expire's loop; below slot 0 the walk is over
ExpireStep ==
    /\ walk # Idle
    /\ IF now - ls[walk] > Window
          THEN DelIdx(walk)
          ELSE UNCHANGED <<rows, n, retired>>
    /\ walk' = walk - 1
    /\ UNCHANGED <<ringHead, tally, now, wanted>>

\* stab_clear; the tally is left alone
Clear_m1 ==
    /\ walk = Idle
    /\ n > 0
    /\ key' = [s \in Slots |-> NoKey]
    /\ ls' = [s \in Slots |-> 0]
    /\ born' = [s \in Slots |-> 0]
    /\ n' = 0
    /\ retired' = retired + n
    /\ UNCHANGED <<ringHead, tally, now, walk, wanted>>
Clear ==
    /\ walk = Idle
    /\ n > 0
    /\ key' = [s \in Slots |-> NoKey]
    /\ ls' = [s \in Slots |-> 0]
    /\ born' = [s \in Slots |-> 0]
    /\ n' = 0
    /\ ringHead' = 0
    /\ retired' = retired + n
    /\ UNCHANGED <<tally, now, walk, wanted>>

Next ==
    /\ policy' = policy
    /\ \/ Clock
       \/ \E k \in Keys : \/ Touch(k)
                          \/ Append(k)
                          \/ EvictOldest(k)
                          \/ Overwrite(k)
                          \/ Reclaim(k)
                          \/ Refuse(k)
       \/ \E i \in Slots : Delete(i)
       \/ ExpireBegin
       \/ ExpireStep
       \/ Clear

Spec == Init /\ [][Next]_vars

-----------------------------------------------------------------------------
(* Properties *)

\* Every variable stays in its range: n never passes Cap, and neither the
\* ring head nor the expiry walk leaves the live array (stab_t, stab.h).
TypeOK ==
    /\ policy \in Policies
    /\ key \in [Slots -> Keys \cup {NoKey}]
    /\ ls \in [Slots -> Times]
    /\ born \in [Slots -> 0 .. wanted]
    /\ n \in 0 .. Cap
    /\ ringHead \in Slots
    /\ tally \in Nat
    /\ now \in Times
    /\ walk \in Idle .. n - 1
    /\ wanted \in 0 .. MaxWanted
    /\ retired \in Nat

\* Two live rows never hold the same key, through any order of creation,
\* eviction, swap-delete and expiry: a detector's counters for one identity
\* are never split over two rows (stab_get's find before it allocates).
KeysUnique ==
    \A i, j \in Live : key[i] = key[j] => i = j

\* What the table could not keep is in the tally, and nothing else is: every
\* new key offered is live, was given back, or was counted as a loss - the
\* displaced row under OLDEST and RING, the refused key under REFUSE_AGING
\* (stab.h:22-45; a reclaimed or retired row is not a loss).
LossIsTallied == wanted = n + retired + tally

\* The row taken away to make room is the one the policy names: no survivor
\* is older under OLDEST, it had aged out under REFUSE_AGING, and under RING
\* it is the first inserted of those present (the switch in stab_get).
DisplacesDue ==
    \A s \in Live :
       (walk = Idle /\ n' = n /\ born'[s] # born[s]) =>
          /\ policy = "OLDEST" => \A i \in Live : ls[s] <= ls[i]
          /\ policy = "REFUSE_AGING" => now - ls[s] >= AgeSecs
          /\ policy = "RING" => \A i \in Live : born[s] <= born[i]
DisplacedWasDue == [][DisplacesDue]_vars

\* A walk of stab_expire that ends leaves no aged row behind, and no step of
\* it drops a row inside the window (stab.h:124-129).
ExpireIsExact ==
    [][walk # Idle =>
          /\ walk' = Idle =>
                \A i \in 0 .. n' - 1 : now - ls'[i] <= Window
          /\ \A i \in Live :
                now - ls[i] <= Window =>
                   \E j \in 0 .. n' - 1 : /\ key'[j] = key[i]
                                          /\ ls'[j] = ls[i]]_vars
=============================================================================
