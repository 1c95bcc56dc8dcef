----------------------------- MODULE StabProofs -----------------------------
(***************************************************************************)
(* Proofs about the bounded keyed table, for every number of rows, every   *)
(* key space and every policy.                                             *)
(***************************************************************************)
EXTENDS Stab, TLAPS

-----------------------------------------------------------------------------
(* The type invariant *)

\* A swap-delete keeps the row array an array of rows.
LEMMA DelIdxRows ==
  ASSUME TypeOK, NEW i \in Live, DelIdx(i)
  PROVE  /\ key' \in [Slots -> Keys \cup {NoKey}]
         /\ ls' \in [Slots -> Times]
         /\ born' \in [Slots -> 0 .. wanted]
         /\ n' = n - 1 /\ n' \in 0 .. Cap /\ retired' \in Nat
<1> USE StabAssumption DEF StabAssumption, TypeOK, DelIdx
<1>1. i \in Slots /\ n - 1 \in Slots /\ n' = n - 1 /\ n' \in 0 .. Cap
  BY DEF Slots, Live
<1>2. key' \in [Slots -> Keys \cup {NoKey}]
  BY <1>1
<1>3. ls' \in [Slots -> Times]
  BY <1>1 DEF Times
<1>4. born' \in [Slots -> 0 .. wanted]
  BY <1>1
<1> QED
  BY <1>1, <1>2, <1>3, <1>4

\* What a swap-delete leaves in the slots below the new n.
LEMMA DelIdxMoves ==
  ASSUME TypeOK, NEW i \in Live, DelIdx(i)
  PROVE  /\ n' = n - 1 /\ n \in Nat
         /\ \A j \in 0 .. n - 2 :
               /\ key'[j] = IF j = i THEN key[n - 1] ELSE key[j]
               /\ ls'[j] = IF j = i THEN ls[n - 1] ELSE ls[j]
<1>1. n \in Nat /\ 0 .. n - 2 \subseteq Slots /\ n - 1 \notin 0 .. n - 2
  BY StabAssumption DEF StabAssumption, TypeOK, Slots
<1>2. key \in [Slots -> Keys \cup {NoKey}] /\ ls \in [Slots -> Times]
  BY DEF TypeOK
<1> QED
  BY <1>1, <1>2 DEF DelIdx

\* Each action of the table keeps every variable in its range.
LEMMA TypeStep == TypeOK /\ [Next]_vars => TypeOK'
<1> SUFFICES ASSUME TypeOK, [Next]_vars PROVE TypeOK'
  OBVIOUS
<1> USE StabAssumption DEF StabAssumption, TypeOK, Slots, Times, Idle, Live
<1>0. policy' = policy
  BY DEF Next, vars
<1> USE <1>0
<1>1. CASE Clock
  BY <1>1 DEF Clock, table, rows
<1>2. ASSUME NEW k \in Keys, Touch(k) PROVE TypeOK'
  BY <1>2 DEF Touch, Find
<1>3. ASSUME NEW k \in Keys, Append(k) PROVE TypeOK'
  BY <1>3 DEF Append, IsNew, Create
<1>4. ASSUME NEW k \in Keys, EvictOldest(k) PROVE TypeOK'
  BY <1>4 DEF EvictOldest, IsNew, Create
<1>5. ASSUME NEW k \in Keys, Overwrite(k) PROVE TypeOK'
  BY <1>5 DEF Overwrite, IsNew, Create
<1>6. ASSUME NEW k \in Keys, Reclaim(k) PROVE TypeOK'
  BY <1>6 DEF Reclaim, IsNew, Create
<1>7. ASSUME NEW k \in Keys, Refuse(k) PROVE TypeOK'
  BY <1>7 DEF Refuse, IsNew, table, rows
<1>8. ASSUME NEW i \in Slots, Delete(i) PROVE TypeOK'
  <2>1. i \in Live /\ DelIdx(i)
    BY <1>8 DEF Delete
  <2>2. /\ key' \in [Slots -> Keys \cup {NoKey}]
        /\ ls' \in [Slots -> Times]
        /\ born' \in [Slots -> 0 .. wanted]
        /\ n' = n - 1 /\ n' \in 0 .. Cap /\ retired' \in Nat
    BY <2>1, DelIdxRows
  <2>3. UNCHANGED <<tally, now, wanted, ringHead, walk>> /\ walk = Idle
    BY <1>8 DEF Delete
  <2>4. walk' \in Idle .. n' - 1
    BY <2>2, <2>3
  <2>5. born' \in [Slots -> 0 .. wanted']
    BY <2>2, <2>3
  <2> QED
    BY <2>2, <2>3, <2>4, <2>5
<1>9. CASE ExpireBegin
  BY <1>9 DEF ExpireBegin, table, rows
<1>10. CASE ExpireStep
  <2>1. walk \in 0 .. n - 1 /\ walk' = walk - 1
    BY <1>10 DEF ExpireStep
  <2>2. CASE DelIdx(walk)
    <3>1. /\ key' \in [Slots -> Keys \cup {NoKey}]
          /\ ls' \in [Slots -> Times]
          /\ born' \in [Slots -> 0 .. wanted]
          /\ n' = n - 1 /\ n' \in 0 .. Cap /\ retired' \in Nat
      BY <2>1, <2>2, DelIdxRows
    <3>2. UNCHANGED <<tally, now, wanted, ringHead>>
      BY <1>10 DEF ExpireStep
    <3>3. walk' \in Idle .. n' - 1
      BY <2>1, <3>1
    <3>4. born' \in [Slots -> 0 .. wanted']
      BY <3>1, <3>2
    <3> QED
      BY <3>1, <3>2, <3>3, <3>4
  <2>3. CASE UNCHANGED <<rows, n, retired>>
    BY <1>10, <2>1, <2>3 DEF ExpireStep, rows
  <2> QED
    BY <1>10, <2>2, <2>3 DEF ExpireStep
<1>11. CASE Clear
  BY <1>11 DEF Clear
<1>12. CASE UNCHANGED vars
  BY <1>12 DEF vars
<1> QED
  BY <1>1, <1>2, <1>3, <1>4, <1>5, <1>6, <1>7, <1>8, <1>9, <1>10, <1>11,
     <1>12 DEF Next

\* The range of every variable, so that n, the ring head and the walk index
\* never leave the row array (stab_t's fields).
THEOREM TypeCorrect == Spec => []TypeOK
<1>1. Init => TypeOK
  BY StabAssumption DEF StabAssumption, Init, TypeOK, Slots, Times, Idle
<1> QED
  BY <1>1, TypeStep, PTL DEF Spec

-----------------------------------------------------------------------------
(* Keys are unique *)

\* A swap-delete keeps keys unique.
LEMMA DelIdxKeys ==
  ASSUME TypeOK, KeysUnique, NEW i \in Live, DelIdx(i)
  PROVE  KeysUnique'
<1>1. /\ n' = n - 1 /\ n \in Nat
      /\ \A j \in 0 .. n - 2 :
            key'[j] = IF j = i THEN key[n - 1] ELSE key[j]
  BY DelIdxMoves
<1>2. SUFFICES ASSUME NEW a \in 0 .. n - 2, NEW b \in 0 .. n - 2,
                      key'[a] = key'[b]
               PROVE  a = b
  BY <1>1 DEF KeysUnique, Live
<1>3. \A x, y \in 0 .. n - 1 : key[x] = key[y] => x = y
  BY DEF KeysUnique, Live
<1> QED
  BY <1>1, <1>2, <1>3

\* A row written for a new key, in place of another or behind the last one,
\* keeps keys unique.
LEMMA CreateKeys ==
  ASSUME TypeOK, KeysUnique, NEW k \in Keys, NEW s \in Slots, IsNew(k), Create(k, s),
         \/ n' = n
         \/ s = n /\ n' = n + 1
  PROVE  KeysUnique'
<1>1. n \in Nat /\ s \in Nat
  BY StabAssumption DEF StabAssumption, TypeOK, Slots
<1>2. \A i \in 0 .. n - 1 : key[i] # k
  BY DEF IsNew, Find, Live
<1>3. \A i \in Slots : key'[i] = IF i = s THEN k ELSE key[i]
  BY DEF Create, TypeOK
<1>4. \A i, j \in 0 .. n - 1 : key[i] = key[j] => i = j
  BY DEF KeysUnique, Live
<1>5. \A i \in 0 .. n' - 1 : i # s => i \in 0 .. n - 1
  BY <1>1
<1>6. \A i, j \in 0 .. n' - 1 : key'[i] = key'[j] => i = j
  <2>1. \A i \in 0 .. n' - 1 : i \in Slots
    BY <1>1, StabAssumption DEF StabAssumption, TypeOK, Slots
  <2> QED
    BY <1>2, <1>3, <1>4, <1>5, <2>1
<1> QED
  BY <1>6 DEF KeysUnique, Live

\* A step keeps keys unique: a key enters only where Find found none, and a
\* swap-delete moves the last row into the slot of one that leaves.
LEMMA KeysStep == TypeOK /\ KeysUnique /\ [Next]_vars => KeysUnique'
<1> SUFFICES ASSUME TypeOK, KeysUnique, [Next]_vars PROVE KeysUnique'
  OBVIOUS
<1> USE StabAssumption DEF StabAssumption, TypeOK, KeysUnique, Slots, Idle, Live
<1>1. CASE key' = key /\ n' = n
  BY <1>1
<1>2. ASSUME NEW k \in Keys, NEW s \in Slots, IsNew(k), Create(k, s),
             \/ n' = n
             \/ s = n /\ n' = n + 1
      PROVE  KeysUnique'
  BY <1>2, CreateKeys
<1>3. ASSUME NEW i \in Live, DelIdx(i) PROVE KeysUnique'
  BY <1>3, DelIdxKeys
<1>4. CASE n' = 0
  BY <1>4
<1>5. CASE Clock
  BY <1>1, <1>5 DEF Clock, table, rows
<1>6. ASSUME NEW k \in Keys, Touch(k) PROVE KeysUnique'
  BY <1>1, <1>6 DEF Touch
<1>7. ASSUME NEW k \in Keys, Append(k) PROVE KeysUnique'
  BY <1>2, <1>7 DEF Append
<1>8. ASSUME NEW k \in Keys, EvictOldest(k) PROVE KeysUnique'
  BY <1>2, <1>8 DEF EvictOldest
<1>9. ASSUME NEW k \in Keys, Overwrite(k) PROVE KeysUnique'
  BY <1>2, <1>9 DEF Overwrite
<1>10. ASSUME NEW k \in Keys, Reclaim(k) PROVE KeysUnique'
  BY <1>2, <1>10 DEF Reclaim
<1>11. ASSUME NEW k \in Keys, Refuse(k) PROVE KeysUnique'
  BY <1>1, <1>11 DEF Refuse, table, rows
<1>12. ASSUME NEW i \in Slots, Delete(i) PROVE KeysUnique'
  BY <1>3, <1>12 DEF Delete
<1>13. CASE ExpireBegin
  BY <1>1, <1>13 DEF ExpireBegin, table, rows
<1>14. CASE ExpireStep
  <2>1. walk \in Live
    BY <1>14 DEF ExpireStep
  <2> QED
    BY <1>1, <1>3, <1>14, <2>1 DEF ExpireStep, rows
<1>15. CASE Clear
  BY <1>4, <1>15 DEF Clear
<1>16. CASE UNCHANGED vars
  BY <1>1, <1>16 DEF vars
<1> QED
  BY <1>5, <1>6, <1>7, <1>8, <1>9, <1>10, <1>11, <1>12, <1>13, <1>14, <1>15,
     <1>16 DEF Next

\* No identity ever has two live rows (stab_get's find before it allocates).
THEOREM KeysStayUnique == Spec => []KeysUnique
<1>1. Init => KeysUnique
  BY DEF Init, KeysUnique, Live
<1> QED
  BY <1>1, KeysStep, TypeCorrect, PTL DEF Spec

-----------------------------------------------------------------------------
(* Every loss is counted *)

\* A step keeps the balance of new keys: what it adds to wanted it adds to
\* exactly one of n, retired and tally, and what leaves n enters retired.
LEMMA LossStep == TypeOK /\ LossIsTallied /\ [Next]_vars => LossIsTallied'
<1> SUFFICES ASSUME TypeOK, LossIsTallied, [Next]_vars PROVE LossIsTallied'
  OBVIOUS
<1> USE StabAssumption DEF StabAssumption, TypeOK, LossIsTallied
<1>1. CASE UNCHANGED <<n, wanted, retired, tally>>
  BY <1>1
<1>2. CASE Clock
  BY <1>1, <1>2 DEF Clock, table
<1>3. ASSUME NEW k \in Keys, Touch(k) PROVE LossIsTallied'
  BY <1>1, <1>3 DEF Touch
<1>4. ASSUME NEW k \in Keys, Append(k) PROVE LossIsTallied'
  BY <1>4 DEF Append
<1>5. ASSUME NEW k \in Keys, EvictOldest(k) PROVE LossIsTallied'
  BY <1>5 DEF EvictOldest
<1>6. ASSUME NEW k \in Keys, Overwrite(k) PROVE LossIsTallied'
  BY <1>6 DEF Overwrite
<1>7. ASSUME NEW k \in Keys, Reclaim(k) PROVE LossIsTallied'
  BY <1>7 DEF Reclaim
<1>8. ASSUME NEW k \in Keys, Refuse(k) PROVE LossIsTallied'
  BY <1>8 DEF Refuse, table
<1>9. ASSUME NEW i \in Slots, Delete(i) PROVE LossIsTallied'
  BY <1>9 DEF Delete, DelIdx
<1>10. CASE ExpireBegin
  BY <1>1, <1>10 DEF ExpireBegin, table
<1>11. CASE ExpireStep
  BY <1>1, <1>11 DEF ExpireStep, DelIdx
<1>12. CASE Clear
  BY <1>12 DEF Clear
<1>13. CASE UNCHANGED vars
  BY <1>1, <1>13 DEF vars
<1> QED
  BY <1>2, <1>3, <1>4, <1>5, <1>6, <1>7, <1>8, <1>9, <1>10, <1>11, <1>12,
     <1>13 DEF Next

\* A new key is live, given back or counted: the tally is exactly what the
\* table could not keep (stab.h:22-45).
THEOREM LossAlwaysTallied == Spec => []LossIsTallied
<1>1. Init => LossIsTallied
  BY DEF Init, LossIsTallied
<1> QED
  BY <1>1, LossStep, TypeCorrect, PTL DEF Spec

-----------------------------------------------------------------------------
(* Expiry is exact *)

\* While stab_expire walks down, every slot it has passed, also one that got
\* the row swapped in from the end, holds a row inside the window; when the
\* walk ends that is the whole table (stab.c:138-142).
PassedIsFresh ==
    walk # Idle => \A i \in Live : i > walk => now - ls[i] <= Window

\* A turn of the walk leaves only fresh rows above the next slot: the row it
\* keeps is fresh, and the row swapped into a vacated slot was passed before.
LEMMA TurnLeavesFresh ==
  ASSUME TypeOK, PassedIsFresh, ExpireStep
  PROVE  \A i \in 0 .. n' - 1 : i > walk' => now' - ls'[i] <= Window
<1>1. walk \in 0 .. n - 1 /\ walk' = walk - 1 /\ now' = now /\ n \in Nat
  BY StabAssumption DEF StabAssumption, ExpireStep, TypeOK, Idle
<1>2. \A i \in 0 .. n - 1 : i > walk => now - ls[i] <= Window
  BY <1>1 DEF PassedIsFresh, Live, Idle
<1>3. CASE now - ls[walk] > Window
  <2>1. /\ n' = n - 1
        /\ \A i \in 0 .. n - 2 :
              ls'[i] = IF i = walk THEN ls[n - 1] ELSE ls[i]
    BY <1>1, <1>3, DelIdxMoves DEF ExpireStep, Live
  <2> QED
    BY <1>1, <1>2, <2>1
<1>4. CASE ~ (now - ls[walk] > Window)
  <2>1. ls' = ls /\ n' = n
    BY <1>4 DEF ExpireStep, rows
  <2>2. now \in Int /\ ls[walk] \in Int /\ Window \in Int
    BY <1>1, StabAssumption DEF StabAssumption, TypeOK, Times, Slots
  <2> QED
    BY <1>1, <1>2, <1>4, <2>1, <2>2
<1> QED
  BY <1>3, <1>4

\* A turn of the walk loses no row inside the window.
LEMMA TurnKeepsFresh ==
  ASSUME TypeOK, ExpireStep, NEW i \in Live, now - ls[i] <= Window
  PROVE  \E j \in 0 .. n' - 1 : key'[j] = key[i] /\ ls'[j] = ls[i]
<1>1. walk \in 0 .. n - 1 /\ n \in Nat /\ i \in 0 .. n - 1
  BY StabAssumption DEF StabAssumption, ExpireStep, TypeOK, Idle, Live
<1>2. CASE now - ls[walk] > Window
  <2>1. /\ n' = n - 1
        /\ \A j \in 0 .. n - 2 :
              /\ key'[j] = IF j = walk THEN key[n - 1] ELSE key[j]
              /\ ls'[j] = IF j = walk THEN ls[n - 1] ELSE ls[j]
    BY <1>1, <1>2, DelIdxMoves DEF ExpireStep, Live
  <2>2. now \in Int /\ ls[walk] \in Int /\ ls[i] \in Int /\ Window \in Int
    BY <1>1, StabAssumption DEF StabAssumption, TypeOK, Times, Slots
  <2>3. i # walk
    BY <1>2, <2>2
  <2>4. CASE i = n - 1
    BY <1>1, <2>1, <2>3, <2>4
  <2>5. CASE i < n - 1
    BY <1>1, <2>1, <2>3, <2>5
  <2> QED
    BY <1>1, <2>4, <2>5
<1>3. CASE ~ (now - ls[walk] > Window)
  BY <1>1, <1>3 DEF ExpireStep, rows
<1> QED
  BY <1>2, <1>3

\* Every step keeps the rows behind the walk fresh.
LEMMA PassedStep == TypeOK /\ PassedIsFresh /\ [Next]_vars => PassedIsFresh'
<1> SUFFICES ASSUME TypeOK, PassedIsFresh, [Next]_vars PROVE PassedIsFresh'
  OBVIOUS
<1>1. CASE walk = Idle /\ walk' = walk
  BY <1>1 DEF PassedIsFresh
<1>2. ASSUME NEW k \in Keys,
             \/ Touch(k) \/ Append(k) \/ EvictOldest(k)
             \/ Overwrite(k) \/ Reclaim(k) \/ Refuse(k)
      PROVE  PassedIsFresh'
  BY <1>1, <1>2
     DEF Touch, Append, EvictOldest, Overwrite, Reclaim, Refuse, IsNew
<1>3. ASSUME NEW i \in Slots, Delete(i) PROVE PassedIsFresh'
  BY <1>1, <1>3 DEF Delete
<1>4. CASE Clock
  BY <1>1, <1>4 DEF Clock
<1>5. CASE Clear
  BY <1>1, <1>5 DEF Clear
<1>6. CASE ExpireBegin
  BY <1>6, StabAssumption
     DEF StabAssumption, ExpireBegin, table, PassedIsFresh, TypeOK, Live
<1>7. CASE ExpireStep
  BY <1>7, TurnLeavesFresh DEF PassedIsFresh, Live
<1>8. CASE UNCHANGED vars
  BY <1>8 DEF vars, PassedIsFresh, Live
<1> QED
  BY <1>2, <1>3, <1>4, <1>5, <1>6, <1>7, <1>8 DEF Next

\* Behind the walk every row is fresh (stab.c:138-142).
THEOREM PassedStaysFresh == Spec => []PassedIsFresh
<1>1. Init => PassedIsFresh
  BY DEF Init, PassedIsFresh
<1> QED
  BY <1>1, PassedStep, TypeCorrect, PTL DEF Spec

\* stab_expire leaves no aged row behind and drops no fresh one.
THEOREM ExpiryExact == Spec => ExpireIsExact
<1>1. ASSUME TypeOK, PassedIsFresh, [Next]_vars, walk # Idle
      PROVE  /\ walk' = Idle =>
                   \A i \in 0 .. n' - 1 : now - ls'[i] <= Window
             /\ \A i \in Live :
                   now - ls[i] <= Window =>
                      \E j \in 0 .. n' - 1 : /\ key'[j] = key[i]
                                             /\ ls'[j] = ls[i]
  <2>1. CASE ExpireStep
    <3>1. now' = now /\ Idle = -1
      BY <2>1 DEF ExpireStep, Idle
    <3>2. walk' = Idle => \A i \in 0 .. n' - 1 : now - ls'[i] <= Window
      BY <1>1, <2>1, <3>1, TurnLeavesFresh
    <3> QED
      BY <1>1, <2>1, <3>2, TurnKeepsFresh
  <2>2. CASE UNCHANGED vars
    BY <1>1, <2>2 DEF vars, Live
  <2> QED
    BY <1>1, <2>1, <2>2
       DEF Next, Clock, Touch, Append, EvictOldest, Overwrite, Reclaim,
           Refuse, IsNew, Delete, ExpireBegin, Clear
<1> QED
  BY <1>1, TypeCorrect, PassedStaysFresh, PTL DEF Spec, ExpireIsExact

-----------------------------------------------------------------------------
(* The displaced row is the one the policy names *)

\* How far slot i is from the ring head, walking forward.
Ahead(i) == IF i >= ringHead THEN i - ringHead ELSE i + Cap - ringHead

\* The inductive invariant behind the RING policy: nothing expires, the head
\* moves only when the table is full, and rows are met in insertion order walking from it.
RingOrdered ==
    policy = "RING" =>
        /\ walk = Idle
        /\ n < Cap => ringHead = 0
        /\ \A i, j \in Live : Ahead(i) < Ahead(j) => born[i] < born[j]

\* The order from the head survives every step; an overwrite gives the head's
\* slot the newest row and moves the head past it.
LEMMA RingStep == TypeOK /\ RingOrdered /\ [Next]_vars => RingOrdered'
<1> SUFFICES ASSUME TypeOK, RingOrdered, [Next]_vars, policy = "RING"
             PROVE  RingOrdered'
  BY DEF RingOrdered, Next, vars
<1>1. /\ n \in 0 .. Cap /\ Cap \in Nat \ {0} /\ ringHead \in 0 .. Cap - 1
      /\ born \in [0 .. Cap - 1 -> 0 .. wanted] /\ wanted \in Nat
  BY StabAssumption DEF StabAssumption, TypeOK, Slots
<1>2. n < Cap => ringHead = 0
  BY DEF RingOrdered
<1>3. \A i, j \in 0 .. n - 1 : Ahead(i) < Ahead(j) => born[i] < born[j]
  BY DEF RingOrdered, Live
<1>4. CASE UNCHANGED <<born, n, ringHead>> /\ walk' = walk
  BY <1>4 DEF RingOrdered, Live, Ahead
<1>5. ASSUME NEW k \in Keys, Append(k) PROVE RingOrdered'
  <2>1. ringHead = 0 /\ ringHead' = 0 /\ n' = n + 1 /\ n < Cap /\ walk' = Idle
    BY <1>2, <1>5 DEF Append, IsNew
  <2>2. \A i \in 0 .. n : born'[i] = IF i = n THEN wanted + 1 ELSE born[i]
    BY <1>1, <1>5, <2>1 DEF Append, Create
  <2>3. \A i, j \in 0 .. n - 1 : i < j => born[i] < born[j]
    BY <1>1, <1>3, <2>1 DEF Ahead
  <2>4. \A i \in 0 .. n - 1 : born[i] < wanted + 1
    BY <1>1
  <2>5. \A i, j \in 0 .. n : i < j => born'[i] < born'[j]
    BY <1>1, <2>2, <2>3, <2>4
  <2>6. \A i \in 0 .. n : Ahead(i)' = i
    BY <1>1, <2>1 DEF Ahead
  <2> QED
    BY <1>1, <2>1, <2>5, <2>6 DEF RingOrdered, Live
<1>6. ASSUME NEW k \in Keys, Overwrite(k) PROVE RingOrdered'
  <2>1. n = Cap /\ n' = Cap /\ walk' = Idle
    BY <1>6 DEF Overwrite, IsNew
  <2>2. ringHead' = IF ringHead + 1 = Cap THEN 0 ELSE ringHead + 1
    BY <1>6 DEF Overwrite
  <2>3. \A i \in 0 .. Cap - 1 :
           born'[i] = IF i = ringHead THEN wanted + 1 ELSE born[i]
    BY <1>1, <1>6 DEF Overwrite, Create
  <2>4. \A i \in 0 .. Cap - 1 : born[i] < wanted + 1
    BY <1>1
  <2>5. SUFFICES ASSUME NEW i \in 0 .. Cap - 1, NEW j \in 0 .. Cap - 1,
                        Ahead(i)' < Ahead(j)'
                 PROVE  born'[i] < born'[j]
    BY <1>1, <2>1 DEF RingOrdered, Live
  <2>6. i # ringHead
    BY <1>1, <2>2, <2>5 DEF Ahead
  <2>7. CASE j = ringHead
    BY <2>3, <2>4, <2>6, <2>7
  <2>8. CASE j # ringHead
    <3>1. Ahead(i) < Ahead(j)
      BY <1>1, <2>2, <2>5, <2>6, <2>8 DEF Ahead
    <3> QED
      BY <1>3, <2>1, <2>3, <2>6, <2>8, <3>1
  <2> QED
    BY <2>7, <2>8
<1>7. CASE Clear
  BY <1>1, <1>7 DEF Clear, RingOrdered, Live
<1>8. CASE UNCHANGED vars
  BY <1>4, <1>8 DEF vars
<1>9. walk = Idle
  BY DEF RingOrdered
<1> QED
  BY <1>4, <1>5, <1>6, <1>7, <1>8, <1>9
     DEF Next, Clock, Touch, EvictOldest, Reclaim, Refuse, Delete,
         ExpireBegin, ExpireStep, table, rows

THEOREM RingStaysOrdered == Spec => []RingOrdered
<1>1. Init => RingOrdered
  BY DEF Init, RingOrdered, Live
<1> QED
  BY <1>1, RingStep, TypeCorrect, PTL DEF Spec

\* On a full ring the head is the slot of the first row inserted.
LEMMA HeadIsFirst ==
  ASSUME TypeOK, RingOrdered, policy = "RING", n = Cap
  PROVE  \A i \in Live : born[ringHead] <= born[i]
<1>1. /\ Cap \in Nat \ {0} /\ ringHead \in 0 .. Cap - 1
      /\ born \in [0 .. Cap - 1 -> 0 .. wanted] /\ wanted \in Nat
  BY StabAssumption DEF StabAssumption, TypeOK, Slots
<1>2. \A i \in 0 .. Cap - 1 :
         Ahead(ringHead) < Ahead(i) => born[ringHead] < born[i]
  BY <1>1 DEF RingOrdered, Live
<1>3. \A i \in 0 .. Cap - 1 : i # ringHead => Ahead(ringHead) < Ahead(i)
  BY <1>1 DEF Ahead
<1> QED
  BY <1>1, <1>2, <1>3 DEF Live

\* A full table gives up the row its policy names, and no other (stab_get).
THEOREM DisplacesByPolicy == Spec => DisplacedWasDue
<1>1. ASSUME TypeOK, RingOrdered, [Next]_vars, NEW s \in Live,
             walk = Idle, n' = n, born'[s] # born[s]
      PROVE  /\ policy = "OLDEST" => \A i \in Live : ls[s] <= ls[i]
             /\ policy = "REFUSE_AGING" => now - ls[s] >= AgeSecs
             /\ policy = "RING" => \A i \in Live : born[s] <= born[i]
  <2>1. n \in Nat /\ born \in [Slots -> 0 .. wanted] /\ s \in Slots
    BY StabAssumption, <1>1 DEF StabAssumption, TypeOK, Slots, Live
  <2>2. ASSUME NEW k \in Keys, NEW t \in Slots, Create(k, t) PROVE s = t
    BY <1>1, <2>1, <2>2 DEF Create
  <2>3. \A i \in Live : ls[i] \in Int
    BY StabAssumption, <1>1 DEF StabAssumption, TypeOK, Times, Slots, Live
  <2>4. ASSUME NEW k \in Keys, EvictOldest(k)
        PROVE  policy = "OLDEST" /\ \A i \in Live : ls[s] <= ls[i]
    <3>1. policy = "OLDEST" /\ IsOldest(s)
      BY <2>2, <2>4 DEF EvictOldest
    <3> QED
      BY <2>1, <2>3, <3>1 DEF IsOldest
  <2>5. ASSUME NEW k \in Keys, Overwrite(k)
        PROVE  policy = "RING" /\ \A i \in Live : born[s] <= born[i]
    <3>1. policy = "RING" /\ n = Cap /\ s = ringHead
      BY <1>1, <2>2, <2>5 DEF Overwrite, TypeOK
    <3> QED
      BY <1>1, <3>1, HeadIsFirst
  <2>6. ASSUME NEW k \in Keys, Reclaim(k)
        PROVE  policy = "REFUSE_AGING" /\ now - ls[s] >= AgeSecs
    BY <2>2, <2>6 DEF Reclaim, Aged
  <2>7. ASSUME NEW k \in Keys, Append(k) PROVE FALSE
    BY <1>1, <2>1, <2>7 DEF Append
  <2>8. ASSUME NEW i \in Slots, Delete(i) PROVE FALSE
    BY <1>1, <2>1, <2>8 DEF Delete, DelIdx
  <2>9. ~ Clear
    BY <1>1, <2>1 DEF Clear
  <2>10. ~ UNCHANGED born
    BY <1>1
  <2> QED
    BY <1>1, <2>4, <2>5, <2>6, <2>7, <2>8, <2>9, <2>10
       DEF Next, Clock, Touch, Refuse, ExpireBegin, ExpireStep, table, rows,
           vars
<1>2. TypeOK /\ RingOrdered /\ [Next]_vars => DisplacesDue
  BY <1>1 DEF DisplacesDue
<1> QED
  BY <1>2, TypeCorrect, RingStaysOrdered, PTL DEF Spec, DisplacedWasDue
=============================================================================
