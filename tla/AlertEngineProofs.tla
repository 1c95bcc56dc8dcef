-------------------------- MODULE AlertEngineProofs --------------------------
(***************************************************************************)
(* Proofs about the alert engine, for every set of keys, types, severities *)
(* and renderings, every number of slots and any number of incidents.      *)
(***************************************************************************)
EXTENDS AlertEngine, FiniteSetTheorems, TLAPS

\* Slots in use hold incidents already issued, no two the same one; an open
\* one has room for its resolve.
SlotsInv ==
    /\ \A i \in InUse : inc[i] \in 1 .. incSeq
    /\ \A i, j \in InUse : inc[i] = inc[j] => i = j
    /\ \A i \in InUse : ~resolved[i] => seq[i] <= MaxSeq

\* A fire that waits for the slot it evicted waits in the rule pass of a full
\* engine, for a slot whose incident is closed, with a key no slot holds.
FiringInv ==
    firing # NoFire =>
       /\ phase = "rules"
       /\ count = MaxAlerts
       /\ resolved[firing[1]]
       /\ \A i \in InUse : key[i] # firing[2]

Inv == TypeOK /\ SlotsInv /\ FiringInv

-----------------------------------------------------------------------------

LEMMA InitInv == Init => Inv
<1> SUFFICES ASSUME Init PROVE Inv
    OBVIOUS
<1>1. TypeOK
    BY EngineAssumption
    DEF EngineAssumption, Init, TypeOK, Zeroed, Slots, Incidents, Times
<1>2. SlotsInv /\ FiringInv
    BY DEF Init, SlotsInv, FiringInv, InUse
<1>. QED  BY <1>1, <1>2 DEF Inv

\* the incident of a slot in use can be looked up in the stream
LEMMA InUseFacts ==
    ASSUME Inv, NEW i \in InUse
    PROVE  i \in Slots /\ inc[i] \in Incidents
BY EngineAssumption
DEF EngineAssumption, Inv, TypeOK, SlotsInv, InUse, Slots, Incidents

\* a record in the stream keeps it well-typed
LEMMA EmitTypes ==
    ASSUME TypeOK, NEW i \in Incidents, NEW st \in {"none", "open", "closed"},
           NEW n \in 0 .. MaxSeq + 1, NEW s \in Sevs \cup {0},
           NEW d \in Details \cup {Nothing},
           Emit(i, st, n, s, d)
    PROVE  /\ status' \in [Incidents -> {"none", "open", "closed"}]
           /\ lastSeq' \in [Incidents -> 0 .. MaxSeq + 1]
           /\ known' \in [Incidents -> Sevs \cup {0}]
           /\ shown' \in [Incidents -> Details \cup {Nothing}]
BY DEF TypeOK, Emit

LEMMA ResolveTypes ==
    ASSUME Inv, NEW i \in InUse, ~resolved[i], Resolve(i)
    PROVE  /\ resolved' \in [Slots -> BOOLEAN]
           /\ seq' \in [Slots -> 0 .. MaxSeq + 1]
           /\ status' \in [Incidents -> {"none", "open", "closed"}]
           /\ owner' \in [Incidents -> Keys \cup {Nothing}]
           /\ lastSeq' \in [Incidents -> 0 .. MaxSeq + 1]
           /\ known' \in [Incidents -> Sevs \cup {0}]
           /\ shown' \in [Incidents -> Details \cup {Nothing}]
<1>1. i \in Slots /\ inc[i] \in Incidents
    BY InUseFacts
<1>2. seq[i] + 1 \in 0 .. MaxSeq + 1
    BY <1>1, EngineAssumption DEF EngineAssumption, Inv, TypeOK, SlotsInv
<1>3. Emit(inc[i], "closed", seq[i] + 1, sev[i], detail[i])
    BY DEF Resolve
<1>4. sev[i] \in Sevs \cup {0} /\ detail[i] \in Details \cup {Nothing}
    BY <1>1 DEF Inv, TypeOK
<1>5. /\ status' \in [Incidents -> {"none", "open", "closed"}]
      /\ lastSeq' \in [Incidents -> 0 .. MaxSeq + 1]
      /\ known' \in [Incidents -> Sevs \cup {0}]
      /\ shown' \in [Incidents -> Details \cup {Nothing}]
    BY <1>1, <1>2, <1>3, <1>4, EmitTypes DEF Inv
<1>6. /\ resolved' \in [Slots -> BOOLEAN]
      /\ seq' \in [Slots -> 0 .. MaxSeq + 1]
      /\ owner' \in [Incidents -> Keys \cup {Nothing}]
    BY <1>2 DEF Inv, TypeOK, Resolve
<1>. QED  BY <1>5, <1>6

\* ... and the slots stay as SlotsInv has them
LEMMA ResolveSlots ==
    ASSUME Inv, NEW i \in InUse, ~resolved[i], Resolve(i),
           UNCHANGED <<count, inc, incSeq>>
    PROVE  SlotsInv'
<1>1. \A j \in InUse : j \in Slots
    BY InUseFacts
<1>2. \A j \in InUse : resolved[j] => resolved'[j]
    BY <1>1 DEF Inv, TypeOK, Resolve
<1>3. resolved'[i]
    BY <1>1 DEF Inv, TypeOK, Resolve
<1>4. \A j \in InUse : j # i => seq'[j] = seq[j]
    BY <1>1 DEF Inv, TypeOK, Resolve
<1>5. InUse' = InUse
    BY DEF InUse
<1>. QED  BY <1>2, <1>3, <1>4, <1>5 DEF Inv, SlotsInv

\* a new incident in a slot in use or the first free one
LEMMA OpenTypes ==
    ASSUME Inv, NEW i \in Slots, NEW k \in Keys, NEW s \in Sevs,
           NEW d \in Details, OpenIn(i, k, s, d)
    PROVE  /\ key' \in [Slots -> Keys \cup {Nothing}]
           /\ inc' \in [Slots -> 0 .. MaxIncidents]
           /\ resolved' \in [Slots -> BOOLEAN]
           /\ sev' \in [Slots -> Sevs \cup {0}]
           /\ detail' \in [Slots -> Details \cup {Nothing}]
           /\ sig' \in [Slots -> Details \cup {Nothing}]
           /\ seq' \in [Slots -> 0 .. MaxSeq + 1]
           /\ lastSeen' \in [Slots -> Times]
           /\ evalAge' \in [Slots -> 0 .. ResolveAfter]
           /\ eventAge' \in [Slots -> 0 .. UpdateMin]
           /\ incSeq' \in 0 .. MaxIncidents
           /\ status' \in [Incidents -> {"none", "open", "closed"}]
           /\ owner' \in [Incidents -> Keys \cup {Nothing}]
           /\ lastSeq' \in [Incidents -> 0 .. MaxSeq + 1]
           /\ known' \in [Incidents -> Sevs \cup {0}]
           /\ shown' \in [Incidents -> Details \cup {Nothing}]
<1>1. incSeq + 1 \in Incidents /\ incSeq' = incSeq + 1
    BY EngineAssumption DEF EngineAssumption, Inv, TypeOK, OpenIn, Incidents
<1>2. Emit(incSeq + 1, "open", 1, s, d)
    BY DEF OpenIn
<1>3. 1 \in 0 .. MaxSeq + 1
    BY EngineAssumption DEF EngineAssumption
<1>4. /\ status' \in [Incidents -> {"none", "open", "closed"}]
      /\ lastSeq' \in [Incidents -> 0 .. MaxSeq + 1]
      /\ known' \in [Incidents -> Sevs \cup {0}]
      /\ shown' \in [Incidents -> Details \cup {Nothing}]
    BY <1>1, <1>2, <1>3, EmitTypes DEF Inv
<1>5. /\ key' \in [Slots -> Keys \cup {Nothing}]
      /\ inc' \in [Slots -> 0 .. MaxIncidents]
      /\ resolved' \in [Slots -> BOOLEAN]
      /\ sev' \in [Slots -> Sevs \cup {0}]
      /\ detail' \in [Slots -> Details \cup {Nothing}]
    BY <1>1 DEF Inv, TypeOK, OpenIn, Incidents
<1>6. /\ sig' \in [Slots -> Details \cup {Nothing}]
      /\ seq' \in [Slots -> 0 .. MaxSeq + 1]
      /\ lastSeen' \in [Slots -> Times]
    BY <1>3 DEF Inv, TypeOK, OpenIn
<1>7. /\ evalAge' \in [Slots -> 0 .. ResolveAfter]
      /\ eventAge' \in [Slots -> 0 .. UpdateMin]
    BY EngineAssumption DEF EngineAssumption, Inv, TypeOK, OpenIn
<1>8. owner' \in [Incidents -> Keys \cup {Nothing}]
    BY <1>1 DEF Inv, TypeOK, OpenIn
<1>9. incSeq' \in 0 .. MaxIncidents
    BY <1>1 DEF Incidents
<1>. QED  BY <1>4, <1>5, <1>6, <1>7, <1>8, <1>9

LEMMA OpenSlots ==
    ASSUME Inv, NEW i \in Slots, NEW k \in Keys, NEW s \in Sevs,
           NEW d \in Details, OpenIn(i, k, s, d),
           InUse' = InUse \cup {i}
    PROVE  SlotsInv'
<1>1. inc' = [inc EXCEPT ![i] = incSeq + 1] /\ incSeq' = incSeq + 1
    BY DEF OpenIn
<1>2. inc'[i] = incSeq + 1 /\ \A j \in InUse : j # i => inc'[j] = inc[j]
    BY <1>1, InUseFacts DEF Inv, TypeOK
<1>3. seq'[i] = 1
    BY DEF OpenIn, Inv, TypeOK
<1>4. \A j \in InUse : j # i => seq'[j] = seq[j] /\ resolved'[j] = resolved[j]
    BY InUseFacts DEF OpenIn, Inv, TypeOK
<1>5. incSeq \in Nat /\ \A j \in InUse : inc[j] \in 1 .. incSeq
    BY DEF Inv, TypeOK, SlotsInv
<1>6. \A j \in InUse' : inc'[j] \in 1 .. incSeq'
    BY <1>1, <1>2, <1>5
<1>7. \A j, l \in InUse' : inc'[j] = inc'[l] => j = l
    <2> SUFFICES ASSUME NEW j \in InUse', NEW l \in InUse', inc'[j] = inc'[l]
                 PROVE  j = l
        OBVIOUS
    <2>1. CASE j = i /\ l # i
        BY <2>1, <1>2, <1>5
    <2>2. CASE j # i /\ l = i
        BY <2>2, <1>2, <1>5
    <2>3. CASE j # i /\ l # i
        BY <2>3, <1>2 DEF Inv, SlotsInv
    <2>. QED  BY <2>1, <2>2, <2>3
<1>8. \A j \in InUse' : ~resolved'[j] => seq'[j] <= MaxSeq
    BY <1>3, <1>4, EngineAssumption DEF EngineAssumption, Inv, SlotsInv
<1>. QED  BY <1>6, <1>7, <1>8 DEF SlotsInv

\* an evaluation of an open incident
LEMMA EvaluateTypes ==
    ASSUME Inv, NEW i \in InUse, NEW s \in Sevs \cup {0}, NEW d \in Details,
           Evaluate(i, s, d)
    PROVE  /\ sev' \in [Slots -> Sevs \cup {0}]
           /\ detail' \in [Slots -> Details \cup {Nothing}]
           /\ lastSeen' \in [Slots -> Times]
           /\ evalAge' \in [Slots -> 0 .. ResolveAfter]
<1>1. /\ sev' \in [Slots -> Sevs \cup {0}]
      /\ detail' \in [Slots -> Details \cup {Nothing}]
    BY DEF Inv, TypeOK, Evaluate
<1>2. lastSeen' \in [Slots -> Times]
    BY DEF Inv, TypeOK, Evaluate
<1>3. 0 \in 0 .. ResolveAfter
    BY EngineAssumption DEF EngineAssumption
<1>4. evalAge' \in [Slots -> 0 .. ResolveAfter]
    BY <1>3 DEF Inv, TypeOK, Evaluate
<1>. QED  BY <1>1, <1>2, <1>4

LEMMA AnnounceTypes ==
    ASSUME Inv, NEW i \in InUse, NEW s \in Sevs \cup {0}, NEW d \in Details,
           Announce(i, s, d)
    PROVE  /\ sig' \in [Slots -> Details \cup {Nothing}]
           /\ eventAge' \in [Slots -> 0 .. UpdateMin]
           /\ seq' \in [Slots -> 0 .. MaxSeq + 1]
           /\ status' \in [Incidents -> {"none", "open", "closed"}]
           /\ lastSeq' \in [Incidents -> 0 .. MaxSeq + 1]
           /\ known' \in [Incidents -> Sevs \cup {0}]
           /\ shown' \in [Incidents -> Details \cup {Nothing}]
<1>1. i \in Slots /\ inc[i] \in Incidents
    BY InUseFacts
<1>2. seq[i] + 1 \in 0 .. MaxSeq + 1
    BY <1>1, EngineAssumption DEF EngineAssumption, Inv, TypeOK, Announce
<1>3. Emit(inc[i], "open", seq[i] + 1, s, d)
    BY DEF Announce
<1>4. /\ status' \in [Incidents -> {"none", "open", "closed"}]
      /\ lastSeq' \in [Incidents -> 0 .. MaxSeq + 1]
      /\ known' \in [Incidents -> Sevs \cup {0}]
      /\ shown' \in [Incidents -> Details \cup {Nothing}]
    BY <1>1, <1>2, <1>3, EmitTypes DEF Inv
<1>5. 0 \in 0 .. UpdateMin
    BY EngineAssumption DEF EngineAssumption
<1>6. eventAge' \in [Slots -> 0 .. UpdateMin]
    BY <1>5 DEF Inv, TypeOK, Announce
<1>7. /\ sig' \in [Slots -> Details \cup {Nothing}]
      /\ seq' \in [Slots -> 0 .. MaxSeq + 1]
    BY <1>2 DEF Inv, TypeOK, Announce
<1>. QED  BY <1>4, <1>6, <1>7

LEMMA AnnounceSlots ==
    ASSUME Inv, NEW i \in InUse, NEW s \in Sevs \cup {0}, NEW d \in Details,
           Evaluate(i, s, d), Announce(i, s, d)
    PROVE  SlotsInv'
<1>1. seq'[i] <= MaxSeq /\ \A j \in InUse : j # i => seq'[j] = seq[j]
    BY InUseFacts, EngineAssumption
    DEF EngineAssumption, Inv, TypeOK, Announce
<1>2. InUse' = InUse /\ inc' = inc /\ incSeq' = incSeq /\ resolved' = resolved
    BY DEF Evaluate, InUse
<1>. QED  BY <1>1, <1>2 DEF Inv, SlotsInv

\* ages stay within the floors they are compared with
LEMMA OlderTypes ==
    ASSUME TypeOK, Elapse
    PROVE  /\ evalAge' \in [Slots -> 0 .. ResolveAfter]
           /\ eventAge' \in [Slots -> 0 .. UpdateMin]
<1>1. evalAge' \in [Slots -> 0 .. ResolveAfter]
    BY EngineAssumption DEF EngineAssumption, TypeOK, Elapse, Older
<1>2. eventAge' \in [Slots -> 0 .. UpdateMin]
    BY EngineAssumption DEF EngineAssumption, TypeOK, Elapse, Older
<1>. QED  BY <1>1, <1>2

-----------------------------------------------------------------------------
(* Inv is inductive: one lemma per group of actions *)

LEMMA FireOpenKeeps ==
    ASSUME Inv, NEW k \in Keys, NEW s \in Sevs, NEW d \in Details,
           FireSeverity(k, s, d) \/ FireUpdate(k, d) \/ FireQuiet(k, d)
    PROVE  Inv'
<1>1. PICK i \in InUse, r \in Sevs \cup {0} :
         /\ Evaluate(i, r, d)
         /\ \/ Announce(i, r, d)
            \/ UNCHANGED <<sig, eventAge, seq, stream>>
    <2>1. CASE FireSeverity(k, s, d)
        BY <2>1 DEF FireSeverity, SlotOf
    <2>2. CASE FireUpdate(k, d) \/ FireQuiet(k, d)
        <3>1. PICK i \in InUse :
                /\ Evaluate(i, sev[i], d)
                /\ \/ Announce(i, sev[i], d)
                   \/ UNCHANGED <<sig, eventAge, seq, stream>>
            BY <2>2 DEF FireUpdate, FireQuiet, SlotOf
        <3>2. sev[i] \in Sevs \cup {0}
            BY InUseFacts DEF Inv, TypeOK
        <3>. QED  BY <3>1, <3>2
    <2>. QED  BY <2>1, <2>2
<1>2. /\ UNCHANGED <<count, key, inc, resolved, incSeq, poll, owner>>
      /\ firing = NoFire
    BY <1>1 DEF Evaluate, FireSeverity, FireUpdate, FireQuiet, Firing
<1>3. /\ sev' \in [Slots -> Sevs \cup {0}]
      /\ detail' \in [Slots -> Details \cup {Nothing}]
      /\ lastSeen' \in [Slots -> Times]
      /\ evalAge' \in [Slots -> 0 .. ResolveAfter]
    BY <1>1, EvaluateTypes
<1>4. CASE Announce(i, r, d)
    <2>1. /\ sig' \in [Slots -> Details \cup {Nothing}]
          /\ eventAge' \in [Slots -> 0 .. UpdateMin]
          /\ seq' \in [Slots -> 0 .. MaxSeq + 1]
          /\ status' \in [Incidents -> {"none", "open", "closed"}]
          /\ lastSeq' \in [Incidents -> 0 .. MaxSeq + 1]
          /\ known' \in [Incidents -> Sevs \cup {0}]
          /\ shown' \in [Incidents -> Details \cup {Nothing}]
        BY <1>4, AnnounceTypes
    <2>2. TypeOK'
        BY <1>2, <1>3, <2>1 DEF Inv, TypeOK, poll
    <2>3. SlotsInv'
        BY <1>1, <1>4, AnnounceSlots
    <2>4. FiringInv'
        BY <1>2 DEF FiringInv, poll
    <2>. QED  BY <2>2, <2>3, <2>4 DEF Inv
<1>5. CASE UNCHANGED <<sig, eventAge, seq, stream>>
    <2>1. TypeOK'
        BY <1>2, <1>3, <1>5 DEF Inv, TypeOK, poll, stream
    <2>2. SlotsInv'
        BY <1>2, <1>5 DEF Inv, SlotsInv, InUse
    <2>3. FiringInv'
        BY <1>2 DEF FiringInv, poll
    <2>. QED  BY <2>1, <2>2, <2>3 DEF Inv
<1>. QED  BY <1>1, <1>4, <1>5

\* an incident closes; the poll may move on
LEMMA CloseKeeps ==
    ASSUME Inv, NEW i \in InUse, ~resolved[i], Resolve(i), firing = NoFire,
           UNCHANGED <<count, key, inc, sev, detail, sig, lastSeen, evalAge,
                       eventAge, incSeq, now, phase>>,
           walk' \in 0 .. MaxAlerts,
           phase \in {"expire", "clear"} => walk' <= count,
           \/ firing' = NoFire
           \/ /\ firing' \in Slots \X Keys \X Sevs \X Details
              /\ phase = "rules" /\ count = MaxAlerts
              /\ firing'[1] = i
              /\ \A j \in InUse : key[j] # firing'[2]
    PROVE  Inv'
<1>1. /\ resolved' \in [Slots -> BOOLEAN]
      /\ seq' \in [Slots -> 0 .. MaxSeq + 1]
      /\ status' \in [Incidents -> {"none", "open", "closed"}]
      /\ owner' \in [Incidents -> Keys \cup {Nothing}]
      /\ lastSeq' \in [Incidents -> 0 .. MaxSeq + 1]
      /\ known' \in [Incidents -> Sevs \cup {0}]
      /\ shown' \in [Incidents -> Details \cup {Nothing}]
    BY ResolveTypes
<1>2. TypeOK'
    BY <1>1 DEF Inv, TypeOK
<1>3. SlotsInv'
    BY ResolveSlots
<1>4. resolved'[i]
    BY InUseFacts DEF Resolve, Inv, TypeOK
<1>5. FiringInv'
    BY <1>4 DEF FiringInv, InUse
<1>. QED  BY <1>2, <1>3, <1>5 DEF Inv

\* a new incident opens in slot i
LEMMA OpenKeeps ==
    ASSUME Inv, NEW i \in Slots, NEW k \in Keys, NEW s \in Sevs,
           NEW d \in Details, OpenIn(i, k, s, d), InUse' = InUse \cup {i},
           count' \in 0 .. MaxAlerts, phase = "rules", firing' = NoFire,
           UNCHANGED <<now, phase, walk>>
    PROVE  Inv'
<1>1. /\ key' \in [Slots -> Keys \cup {Nothing}]
      /\ inc' \in [Slots -> 0 .. MaxIncidents]
      /\ resolved' \in [Slots -> BOOLEAN]
      /\ sev' \in [Slots -> Sevs \cup {0}]
      /\ detail' \in [Slots -> Details \cup {Nothing}]
      /\ sig' \in [Slots -> Details \cup {Nothing}]
      /\ seq' \in [Slots -> 0 .. MaxSeq + 1]
      /\ lastSeen' \in [Slots -> Times]
      /\ evalAge' \in [Slots -> 0 .. ResolveAfter]
      /\ eventAge' \in [Slots -> 0 .. UpdateMin]
      /\ incSeq' \in 0 .. MaxIncidents
      /\ status' \in [Incidents -> {"none", "open", "closed"}]
      /\ owner' \in [Incidents -> Keys \cup {Nothing}]
      /\ lastSeq' \in [Incidents -> 0 .. MaxSeq + 1]
      /\ known' \in [Incidents -> Sevs \cup {0}]
      /\ shown' \in [Incidents -> Details \cup {Nothing}]
    BY OpenTypes
<1>2. TypeOK'
    BY <1>1 DEF Inv, TypeOK
<1>3. SlotsInv'
    BY OpenSlots
<1>4. FiringInv'
    BY DEF FiringInv
<1>. QED  BY <1>2, <1>3, <1>4 DEF Inv

\* the slots a fire opens an incident in
LEMMA OpenCases ==
    ASSUME Inv, NEW k \in Keys, NEW s \in Sevs, NEW d \in Details
    PROVE  /\ FireReopen(k, s, d) =>
                \E i \in InUse : /\ key[i] = k /\ resolved[i]
                                 /\ OpenIn(i, k, s, d)
                                 /\ UNCHANGED <<count, poll>>
                                 /\ InUse' = InUse \cup {i}
           /\ FireAppend(k, s, d) =>
                /\ count \in Slots
                /\ count \notin InUse
                /\ count' = count + 1
                /\ InUse' = InUse \cup {count}
<1>1. ASSUME FireReopen(k, s, d)
      PROVE  \E i \in InUse : /\ key[i] = k /\ resolved[i]
                              /\ OpenIn(i, k, s, d)
                              /\ UNCHANGED <<count, poll>>
                              /\ InUse' = InUse \cup {i}
    <2>1. PICK i \in InUse : key[i] = k /\ resolved[i] /\ OpenIn(i, k, s, d)
        BY <1>1 DEF FireReopen, SlotOf
    <2>2. UNCHANGED <<count, poll>> /\ InUse' = InUse \cup {i}
        BY <1>1 DEF FireReopen, InUse
    <2>. QED  BY <2>1, <2>2
<1>2. ASSUME FireAppend(k, s, d)
      PROVE  /\ count \in Slots
             /\ count \notin InUse
             /\ count' = count + 1
             /\ InUse' = InUse \cup {count}
    <2>1. count \in Nat /\ count < MaxAlerts /\ count' = count + 1
        BY <1>2 DEF FireAppend, Inv, TypeOK
    <2>. QED  BY <2>1, EngineAssumption DEF EngineAssumption, InUse, Slots
<1>. QED  BY <1>1, <1>2

LEMMA TakeSlotFacts ==
    ASSUME Inv, FireTakeSlot
    PROVE  /\ firing[1] \in InUse /\ firing[2] \in Keys
           /\ firing[3] \in Sevs /\ firing[4] \in Details
           /\ OpenIn(firing[1], firing[2], firing[3], firing[4])
           /\ resolved[firing[1]]
           /\ \A i \in InUse : key[i] # firing[2]
           /\ phase = "rules" /\ firing' = NoFire
           /\ UNCHANGED <<count, now, phase, walk>>
           /\ InUse' = InUse \cup {firing[1]}
<1>1. firing \in Slots \X Keys \X Sevs \X Details
    BY DEF FireTakeSlot, Inv, TypeOK
<1>2. /\ firing[1] \in Slots /\ firing[2] \in Keys
      /\ firing[3] \in Sevs /\ firing[4] \in Details
    BY <1>1
<1>3. /\ phase = "rules" /\ count = MaxAlerts /\ resolved[firing[1]]
      /\ \A i \in InUse : key[i] # firing[2]
    BY DEF FireTakeSlot, Inv, FiringInv
<1>4. Slots = InUse
    BY <1>3 DEF Slots, InUse
<1>5. /\ OpenIn(firing[1], firing[2], firing[3], firing[4])
      /\ firing' = NoFire /\ UNCHANGED <<count, now, phase, walk>>
    BY DEF FireTakeSlot
<1>6. InUse' = InUse \cup {firing[1]}
    BY <1>2, <1>4, <1>5 DEF InUse
<1>. QED  BY <1>2, <1>3, <1>4, <1>5, <1>6

LEMMA OpenActionsKeep ==
    ASSUME Inv, NEW k \in Keys, NEW s \in Sevs, NEW d \in Details,
           FireReopen(k, s, d) \/ FireAppend(k, s, d)
    PROVE  Inv'
<1>1. phase = "rules" /\ firing = NoFire
    BY DEF FireReopen, FireAppend, Firing
<1>2. CASE FireReopen(k, s, d)
    <2>1. PICK i \in InUse : /\ OpenIn(i, k, s, d)
                             /\ UNCHANGED <<count, poll>>
                             /\ InUse' = InUse \cup {i}
        BY <1>2, OpenCases
    <2>2. i \in Slots
        BY InUseFacts
    <2>3. /\ count' \in 0 .. MaxAlerts /\ firing' = NoFire
          /\ UNCHANGED <<now, phase, walk>>
        BY <1>1, <2>1 DEF poll, Inv, TypeOK
    <2>. QED  BY <1>1, <2>1, <2>2, <2>3, OpenKeeps
<1>3. CASE FireAppend(k, s, d)
    <2>1. /\ count \in Slots /\ count' = count + 1
          /\ InUse' = InUse \cup {count}
        BY <1>3, OpenCases
    <2>2. OpenIn(count, k, s, d) /\ UNCHANGED poll
        BY <1>3 DEF FireAppend
    <2>3. count' \in 0 .. MaxAlerts
        BY <2>1, EngineAssumption DEF EngineAssumption, Slots
    <2>4. firing' = NoFire /\ UNCHANGED <<now, phase, walk>>
        BY <1>1, <2>2 DEF poll
    <2>. QED  BY <1>1, <2>1, <2>2, <2>3, <2>4, OpenKeeps
<1>. QED  BY <1>2, <1>3

LEMMA TakeSlotKeeps == ASSUME Inv, FireTakeSlot PROVE Inv'
<1>1. firing[1] \in Slots /\ count' \in 0 .. MaxAlerts
    BY TakeSlotFacts, InUseFacts DEF Inv, TypeOK
<1>. QED  BY <1>1, TakeSlotFacts, OpenKeeps

LEMMA EvictKeeps ==
    ASSUME Inv, NEW k \in Keys, NEW s \in Sevs, NEW d \in Details,
           FireEvict(k, s, d)
    PROVE  Inv'
<1>1. PICK i \in Slots :
         /\ firing' = <<i, k, s, d>>
         /\ IF resolved[i] THEN UNCHANGED <<resolved, seq, stream>>
                           ELSE Resolve(i)
    BY DEF FireEvict
<1>2. /\ phase = "rules" /\ firing = NoFire /\ count = MaxAlerts
      /\ \A j \in InUse : key[j] # k
      /\ UNCHANGED <<count, key, inc, sev, detail, sig, lastSeen, evalAge,
                     eventAge, incSeq, now, phase, walk>>
    BY DEF FireEvict, Firing, SlotOf
<1>3. i \in InUse
    BY <1>2 DEF InUse, Slots
<1>4. /\ firing' \in Slots \X Keys \X Sevs \X Details
      /\ firing'[1] = i /\ firing'[2] = k
    BY <1>1
<1>5. CASE resolved[i]
    <2>1. UNCHANGED <<resolved, seq, stream>>
        BY <1>1, <1>5
    <2>2. TypeOK'
        BY <1>2, <1>4, <2>1 DEF Inv, TypeOK, stream
    <2>3. SlotsInv'
        BY <1>2, <2>1 DEF Inv, SlotsInv, InUse
    <2>4. FiringInv'
        BY <1>2, <1>4, <1>5, <2>1 DEF FiringInv, InUse
    <2>. QED  BY <2>2, <2>3, <2>4 DEF Inv
<1>6. CASE ~resolved[i]
    <2>1. Resolve(i)
        BY <1>1, <1>6
    <2>2. walk' \in 0 .. MaxAlerts /\ ~(phase \in {"expire", "clear"})
        BY <1>2 DEF Inv, TypeOK
    <2>. QED  BY <1>2, <1>3, <1>4, <1>6, <2>1, <2>2, CloseKeeps
<1>. QED  BY <1>5, <1>6

\* a poll may take a turn of a loop without closing anything
LEMMA WalkKeeps ==
    ASSUME Inv, firing = NoFire, firing' = NoFire, now' \in Times,
           phase' \in {"idle", "rules", "expire", "clear"},
           walk' \in 0 .. MaxAlerts,
           phase' \in {"expire", "clear"} => walk' <= count,
           UNCHANGED <<engine, stream>>
    PROVE  Inv'
<1>1. TypeOK'
    BY DEF Inv, TypeOK, engine, slotVars, stream
<1>2. SlotsInv'
    BY DEF Inv, SlotsInv, InUse, engine, slotVars
<1>3. FiringInv'
    BY DEF FiringInv
<1>. QED  BY <1>1, <1>2, <1>3 DEF Inv

\* no fire waits outside the rule pass
LEMMA NoFireOutside == ASSUME Inv, phase # "rules" PROVE firing = NoFire
BY DEF Inv, FiringInv

LEMMA LoopKeeps == ASSUME Inv, Expire \/ ClearOne PROVE Inv'
<1>1. /\ phase \in {"expire", "clear"} /\ walk < count /\ walk' = walk + 1
      /\ UNCHANGED <<count, key, inc, sev, detail, sig, lastSeen, evalAge,
                     eventAge, incSeq, now, phase, firing>>
      /\ \/ UNCHANGED <<resolved, seq, stream>>
         \/ ~resolved[walk] /\ Resolve(walk)
    BY DEF Expire, ClearOne
<1>2. firing = NoFire
    BY <1>1, NoFireOutside
<1>3. walk \in InUse /\ walk' \in 0 .. MaxAlerts /\ walk' <= count
    <2>1. walk \in Nat /\ count \in 0 .. MaxAlerts
        BY DEF Inv, TypeOK
    <2>. QED  BY <1>1, <2>1, EngineAssumption DEF EngineAssumption, InUse
<1>4. CASE UNCHANGED <<resolved, seq, stream>>
    <2>1. UNCHANGED <<engine, stream>>
        BY <1>1, <1>4 DEF engine, slotVars
    <2>2. now' \in Times /\ phase' \in {"idle", "rules", "expire", "clear"}
        BY <1>1 DEF Inv, TypeOK
    <2>. QED  BY <1>1, <1>2, <1>3, <2>1, <2>2, WalkKeeps
<1>5. CASE ~resolved[walk] /\ Resolve(walk)
    BY <1>1, <1>2, <1>3, <1>5, CloseKeeps
<1>. QED  BY <1>1, <1>4, <1>5

LEMMA PollKeeps ==
    ASSUME Inv, BeginPoll \/ EndRules \/ EndPoll \/ BeginClear
    PROVE  Inv'
<1>1. /\ UNCHANGED <<engine, stream, firing>>
      /\ firing = NoFire
    BY NoFireOutside DEF BeginPoll, EndRules, EndPoll, BeginClear, Firing
<1>2. /\ now' \in Times
      /\ phase' \in {"idle", "rules", "expire", "clear"}
      /\ walk' \in 0 .. MaxAlerts
      /\ phase' \in {"expire", "clear"} => walk' <= count
    BY EngineAssumption
    DEF EngineAssumption, Inv, TypeOK, BeginPoll, EndRules, EndPoll,
        BeginClear
<1>. QED  BY <1>1, <1>2, WalkKeeps

LEMMA EndClearKeeps == ASSUME Inv, EndClear PROVE Inv'
<1>1. /\ count' = 0 /\ phase' = "idle" /\ BlankSlots
      /\ UNCHANGED <<incSeq, now, walk, firing, stream>>
      /\ firing = NoFire
    BY NoFireOutside DEF EndClear
<1>2. /\ 0 \in Times /\ 0 \in 0 .. MaxIncidents /\ 0 \in 0 .. MaxSeq + 1
      /\ 0 \in 0 .. ResolveAfter /\ 0 \in 0 .. UpdateMin
      /\ 0 \in 0 .. MaxAlerts
    BY EngineAssumption DEF EngineAssumption, Times
<1>3. TypeOK'
    BY <1>1, <1>2 DEF Inv, TypeOK, BlankSlots, Zeroed, stream
<1>4. SlotsInv' /\ FiringInv'
    BY <1>1 DEF SlotsInv, FiringInv, InUse
<1>. QED  BY <1>3, <1>4 DEF Inv

LEMMA ElapseKeeps == ASSUME Inv, Elapse PROVE Inv'
<1>1. /\ evalAge' \in [Slots -> 0 .. ResolveAfter]
      /\ eventAge' \in [Slots -> 0 .. UpdateMin]
    BY OlderTypes DEF Inv
<1>2. UNCHANGED <<count, key, inc, resolved, sev, detail, sig, seq, lastSeen,
                  incSeq, poll, stream>>
    BY DEF Elapse
<1>3. TypeOK'
    BY <1>1, <1>2 DEF Inv, TypeOK, poll, stream
<1>4. SlotsInv' /\ FiringInv'
    BY <1>2 DEF Inv, SlotsInv, FiringInv, InUse, poll
<1>. QED  BY <1>3, <1>4 DEF Inv

LEMMA KeyResolveKeeps ==
    ASSUME Inv, NEW k \in Keys, KeyResolve(k) PROVE Inv'
<1>1. PICK i \in InUse : ~resolved[i] /\ Resolve(i)
    BY DEF KeyResolve, SlotOf
<1>2. /\ phase = "rules" /\ firing = NoFire
      /\ UNCHANGED <<count, key, inc, sev, detail, sig, lastSeen, evalAge,
                     eventAge, incSeq, poll>>
    BY DEF KeyResolve, Firing
<1>3. /\ UNCHANGED <<now, phase>> /\ firing' = NoFire
      /\ walk' \in 0 .. MaxAlerts
      /\ phase \in {"expire", "clear"} => walk' <= count
    BY <1>2 DEF poll, Inv, TypeOK
<1>. QED  BY <1>1, <1>2, <1>3, CloseKeeps

LEMMA InvStep == Inv /\ [Next]_vars => Inv'
<1> SUFFICES ASSUME Inv, [Next]_vars PROVE Inv'
    OBVIOUS
<1>1. ASSUME NEW k \in Keys, Fire(k) PROVE Inv'
    <2>1. PICK s \in Sevs, d \in Details :
             \/ FireSeverity(k, s, d) \/ FireUpdate(k, d) \/ FireQuiet(k, d)
             \/ FireReopen(k, s, d) \/ FireAppend(k, s, d)
             \/ FireEvict(k, s, d)
        BY <1>1 DEF Fire
    <2>. QED  BY <2>1, FireOpenKeeps, OpenActionsKeep, EvictKeeps
<1>2. ASSUME NEW k \in Keys, KeyResolve(k) PROVE Inv'
    BY <1>2, KeyResolveKeeps
<1>3. CASE FireTakeSlot
    BY <1>3, TakeSlotKeeps
<1>4. CASE BeginPoll \/ EndRules \/ EndPoll \/ BeginClear
    BY <1>4, PollKeeps
<1>5. CASE Expire \/ ClearOne
    BY <1>5, LoopKeeps
<1>6. CASE EndClear
    BY <1>6, EndClearKeeps
<1>7. CASE Elapse
    BY <1>7, ElapseKeeps
<1>8. CASE UNCHANGED vars
    BY <1>8
    DEF vars, engine, slotVars, poll, stream, Inv, TypeOK, SlotsInv,
        FiringInv, InUse
<1>. QED  BY <1>1, <1>2, <1>3, <1>4, <1>5, <1>6, <1>7, <1>8 DEF Next

\* Every variable stays in its range, whatever rules fire, whatever the wall
\* clock does and however often the engine is cleared (engine.c).
THEOREM TypeCorrect == Spec => []TypeOK
<1>1. Inv => TypeOK
    BY DEF Inv
<1>. QED  BY InitInv, InvStep, <1>1, PTL DEF Spec

-----------------------------------------------------------------------------
(* One slot a key *)

LEMMA KeysOpen ==
    ASSUME Inv, KeysUnique, NEW i \in Slots, NEW k \in Keys, NEW s \in Sevs,
           NEW d \in Details, OpenIn(i, k, s, d), InUse' = InUse \cup {i},
           \A j \in InUse : j # i => key[j] # k
    PROVE  KeysUnique'
<1>1. key'[i] = k /\ \A j \in InUse : j # i => key'[j] = key[j]
    BY InUseFacts DEF OpenIn, Inv, TypeOK
<1>2. \A j, l \in InUse : key[j] = key[l] => j = l
    BY DEF KeysUnique
<1>3. \A j, l \in InUse' : key'[j] = key'[l] => j = l
    BY <1>1, <1>2
<1>. QED  BY <1>3 DEF KeysUnique

LEMMA KeysStep == Inv /\ KeysUnique /\ [Next]_vars => KeysUnique'
<1> SUFFICES ASSUME Inv, KeysUnique, [Next]_vars PROVE KeysUnique'
    OBVIOUS
<1>1. ASSUME UNCHANGED <<count, key>> PROVE KeysUnique'
    BY <1>1 DEF KeysUnique, InUse
<1>2. ASSUME NEW k \in Keys, Fire(k) PROVE KeysUnique'
    <2>1. PICK s \in Sevs, d \in Details :
             \/ FireSeverity(k, s, d) \/ FireUpdate(k, d) \/ FireQuiet(k, d)
             \/ FireReopen(k, s, d) \/ FireAppend(k, s, d)
             \/ FireEvict(k, s, d)
        BY <1>2 DEF Fire
    <2>2. CASE \/ FireSeverity(k, s, d) \/ FireUpdate(k, d)
               \/ FireQuiet(k, d) \/ FireEvict(k, s, d)
        <3>1. UNCHANGED <<count, key>>
            BY <2>2 DEF FireSeverity, FireUpdate, FireQuiet, FireEvict,
                        Evaluate
        <3>. QED  BY <3>1, <1>1
    <2>3. CASE FireReopen(k, s, d)
        <3>1. PICK i \in InUse : /\ key[i] = k
                                 /\ OpenIn(i, k, s, d)
                                 /\ InUse' = InUse \cup {i}
            BY <2>3, OpenCases
        <3>2. i \in Slots /\ \A j \in InUse : j # i => key[j] # k
            BY <3>1, InUseFacts DEF KeysUnique
        <3>. QED  BY <3>1, <3>2, KeysOpen
    <2>4. CASE FireAppend(k, s, d)
        <3>1. count \in Slots /\ InUse' = InUse \cup {count}
            BY <2>4, OpenCases
        <3>2. OpenIn(count, k, s, d) /\ \A j \in InUse : key[j] # k
            BY <2>4 DEF FireAppend, SlotOf
        <3>. QED  BY <3>1, <3>2, KeysOpen
    <2>. QED  BY <2>1, <2>2, <2>3, <2>4
<1>3. CASE FireTakeSlot
    <2>1. firing[1] \in Slots
        BY <1>3, TakeSlotFacts, InUseFacts
    <2>. QED  BY <1>3, <2>1, TakeSlotFacts, KeysOpen
<1>4. CASE EndClear
    BY <1>4 DEF EndClear, KeysUnique, InUse
<1>5. ASSUME NEW k \in Keys, KeyResolve(k) PROVE KeysUnique'
    <2>1. UNCHANGED <<count, key>>
        BY <1>5 DEF KeyResolve
    <2>. QED  BY <2>1, <1>1
<1>6. CASE \/ BeginPoll \/ EndRules \/ Expire \/ EndPoll
           \/ BeginClear \/ ClearOne \/ Elapse \/ UNCHANGED vars
    <2>1. UNCHANGED <<count, key>>
        BY <1>6 DEF BeginPoll, EndRules, Expire, EndPoll, BeginClear,
                    ClearOne, Elapse, vars, engine, slotVars
    <2>. QED  BY <2>1, <1>1
<1>. QED  BY <1>2, <1>3, <1>4, <1>5, <1>6 DEF Next

\* No two slots ever hold one key (engine.c:218-223, 556-565): Inv is needed
\* for the fire that waits while its slot is evicted.
THEOREM KeysStayUnique == Spec => []KeysUnique
<1>1. Init => KeysUnique
    BY DEF Init, KeysUnique, InUse
<1>. QED  BY <1>1, InitInv, InvStep, KeysStep, PTL DEF Spec

-----------------------------------------------------------------------------
(* The consumer's view *)

\* Incidents not yet issued are unknown to the stream, and a clear leaves no
\* open incident behind its loop.
StreamInv ==
    /\ StreamMatchesEngine
    /\ \A n \in Incidents : n > incSeq => status[n] = "none"
    /\ phase = "clear" => \A i \in InUse : i < walk => resolved[i]

LEMMA StreamResolve ==
    ASSUME Inv, StreamInv, NEW i \in InUse, ~resolved[i], Resolve(i),
           UNCHANGED <<count, key, inc, sev, incSeq>>
    PROVE  /\ StreamMatchesEngine'
           /\ \A n \in Incidents : n > incSeq' => status'[n] = "none"
           /\ \A j \in InUse' : resolved'[j] <=> resolved[j] \/ j = i
<1>1. i \in Slots /\ inc[i] \in Incidents /\ InUse' = InUse
    BY InUseFacts DEF InUse
<1>2. \A j \in InUse : resolved'[j] <=> resolved[j] \/ j = i
    BY <1>1, InUseFacts DEF Inv, TypeOK, Resolve
<1>3. \A j \in InUse : j # i => seq'[j] = seq[j]
    BY <1>1, InUseFacts DEF Inv, TypeOK, Resolve
<1>4. \A n \in Incidents :
         /\ n = inc[i] => status'[n] = "closed"
         /\ n # inc[i] => /\ status'[n] = status[n]
                          /\ lastSeq'[n] = lastSeq[n]
                          /\ known'[n] = known[n]
    BY <1>1 DEF Inv, TypeOK, Resolve, Emit
<1>5. owner' = owner
    BY DEF Resolve
<1>6. Live' = Live \ {i}
    BY <1>1, <1>2 DEF Live
<1>7. \A j \in Live' :
         /\ status'[inc'[j]] = "open" /\ owner'[inc'[j]] = key'[j]
         /\ lastSeq'[inc'[j]] = seq'[j] /\ known'[inc'[j]] = sev'[j]
    <2> SUFFICES ASSUME NEW j \in Live'
                 PROVE  /\ status'[inc[j]] = "open" /\ owner[inc[j]] = key[j]
                        /\ lastSeq'[inc[j]] = seq'[j]
                        /\ known'[inc[j]] = sev[j]
        BY <1>5
    <2>1. j \in Live /\ j # i /\ j \in InUse
        BY <1>6 DEF Live
    <2>2. inc[j] \in Incidents /\ inc[j] # inc[i]
        BY <2>1, InUseFacts DEF Inv, SlotsInv
    <2>3. /\ status[inc[j]] = "open" /\ owner[inc[j]] = key[j]
          /\ lastSeq[inc[j]] = seq[j] /\ known[inc[j]] = sev[j]
        BY <2>1 DEF StreamInv, StreamMatchesEngine
    <2>. QED  BY <2>1, <2>2, <2>3, <1>3, <1>4
<1>8. \A n \in Incidents :
         status'[n] = "open" => \E j \in Live' : inc'[j] = n
    <2> SUFFICES ASSUME NEW n \in Incidents, status'[n] = "open"
                 PROVE  \E j \in Live' : inc'[j] = n
        OBVIOUS
    <2>1. n # inc[i] /\ status[n] = "open"
        BY <1>4
    <2>2. PICK j \in Live : inc[j] = n
        BY <2>1 DEF StreamInv, StreamMatchesEngine
    <2>. QED  BY <2>1, <2>2, <1>6
<1>9. \A n \in Incidents : n > incSeq => status'[n] = "none"
    <2>1. inc[i] <= incSeq /\ incSeq \in Nat
        BY DEF Inv, SlotsInv, TypeOK
    <2>. QED  BY <2>1, <1>4, <1>1 DEF StreamInv, Incidents
<1>. QED  BY <1>1, <1>2, <1>7, <1>8, <1>9 DEF StreamMatchesEngine

LEMMA StreamOpen ==
    ASSUME Inv, StreamInv, NEW i \in Slots, NEW k \in Keys, NEW s \in Sevs,
           NEW d \in Details, OpenIn(i, k, s, d), InUse' = InUse \cup {i},
           i \in InUse => resolved[i]
    PROVE  /\ StreamMatchesEngine'
           /\ \A n \in Incidents : n > incSeq' => status'[n] = "none"
<1> DEFINE new == incSeq + 1
<1>1. /\ incSeq \in Nat /\ new \in Incidents /\ incSeq' = new
    BY EngineAssumption DEF EngineAssumption, Inv, TypeOK, OpenIn, Incidents
<1>2. /\ inc'[i] = new /\ ~resolved'[i] /\ key'[i] = k /\ sev'[i] = s
      /\ seq'[i] = 1
    BY DEF Inv, TypeOK, OpenIn
<1>3. \A j \in InUse : j # i =>
         /\ inc'[j] = inc[j] /\ resolved'[j] = resolved[j]
         /\ key'[j] = key[j] /\ sev'[j] = sev[j] /\ seq'[j] = seq[j]
    BY InUseFacts DEF Inv, TypeOK, OpenIn
<1>4. /\ status'[new] = "open" /\ owner'[new] = k
      /\ lastSeq'[new] = 1 /\ known'[new] = s
    BY <1>1 DEF Inv, TypeOK, OpenIn, Emit
<1>5. \A n \in Incidents : n # new =>
         /\ status'[n] = status[n] /\ owner'[n] = owner[n]
         /\ lastSeq'[n] = lastSeq[n] /\ known'[n] = known[n]
    BY <1>1 DEF Inv, TypeOK, OpenIn, Emit
<1>6. \A j \in InUse : inc[j] \in Incidents /\ inc[j] # new
    BY <1>1, InUseFacts DEF Inv, SlotsInv
<1>7. i \notin Live /\ Live' = Live \cup {i}
    BY <1>2, <1>3 DEF Live
<1>8. \A j \in Live' :
         /\ status'[inc'[j]] = "open" /\ owner'[inc'[j]] = key'[j]
         /\ lastSeq'[inc'[j]] = seq'[j] /\ known'[inc'[j]] = sev'[j]
    <2> SUFFICES ASSUME NEW j \in Live'
                 PROVE  /\ status'[inc'[j]] = "open"
                        /\ owner'[inc'[j]] = key'[j]
                        /\ lastSeq'[inc'[j]] = seq'[j]
                        /\ known'[inc'[j]] = sev'[j]
        OBVIOUS
    <2>1. CASE j = i
        BY <2>1, <1>2, <1>4
    <2>2. CASE j # i
        <3>1. j \in Live /\ j \in InUse
            BY <2>2, <1>7 DEF Live
        <3>2. /\ status[inc[j]] = "open" /\ owner[inc[j]] = key[j]
              /\ lastSeq[inc[j]] = seq[j] /\ known[inc[j]] = sev[j]
            BY <3>1 DEF StreamInv, StreamMatchesEngine
        <3>. QED  BY <2>2, <3>1, <3>2, <1>3, <1>5, <1>6
    <2>. QED  BY <2>1, <2>2
<1>9. \A n \in Incidents :
         status'[n] = "open" => \E j \in Live' : inc'[j] = n
    <2> SUFFICES ASSUME NEW n \in Incidents, status'[n] = "open"
                 PROVE  \E j \in Live' : inc'[j] = n
        OBVIOUS
    <2>1. CASE n = new
        BY <2>1, <1>2, <1>7
    <2>2. CASE n # new
        <3>1. PICK j \in Live : inc[j] = n
            BY <2>2, <1>5 DEF StreamInv, StreamMatchesEngine
        <3>2. j # i /\ j \in InUse
            BY <1>7 DEF Live
        <3>. QED  BY <3>1, <3>2, <1>3, <1>7
    <2>. QED  BY <2>1, <2>2
<1>10. \A n \in Incidents : n > incSeq' => status'[n] = "none"
    BY <1>1, <1>5 DEF StreamInv, Incidents
<1>. QED  BY <1>8, <1>9, <1>10 DEF StreamMatchesEngine

LEMMA StreamAnnounce ==
    ASSUME Inv, StreamInv, NEW i \in InUse, ~resolved[i],
           NEW s \in Sevs \cup {0}, NEW d \in Details,
           Evaluate(i, s, d), Announce(i, s, d)
    PROVE  StreamInv'
<1>1. i \in Slots /\ inc[i] \in Incidents
    BY InUseFacts
<1>2. /\ InUse' = InUse /\ Live' = Live /\ inc' = inc /\ key' = key
      /\ resolved' = resolved /\ incSeq' = incSeq /\ owner' = owner
      /\ phase' = phase /\ walk' = walk
    BY DEF Evaluate, InUse, Live, poll
<1>3. /\ seq'[i] = seq[i] + 1 /\ sev'[i] = s
      /\ \A j \in InUse : j # i => seq'[j] = seq[j] /\ sev'[j] = sev[j]
    BY <1>1, InUseFacts DEF Inv, TypeOK, Evaluate, Announce
<1>4. /\ status'[inc[i]] = "open" /\ lastSeq'[inc[i]] = seq[i] + 1
      /\ known'[inc[i]] = s
      /\ \A n \in Incidents : n # inc[i] =>
            /\ status'[n] = status[n] /\ lastSeq'[n] = lastSeq[n]
            /\ known'[n] = known[n]
    BY <1>1 DEF Inv, TypeOK, Announce, Emit
<1>5. i \in Live /\ status[inc[i]] = "open" /\ owner[inc[i]] = key[i]
    BY DEF Live, StreamInv, StreamMatchesEngine
<1>6. \A n \in Incidents : status'[n] = status[n]
    BY <1>4, <1>5
<1>7. \A j \in Live :
         /\ status'[inc[j]] = "open" /\ owner[inc[j]] = key[j]
         /\ lastSeq'[inc[j]] = seq'[j] /\ known'[inc[j]] = sev'[j]
    <2> SUFFICES ASSUME NEW j \in Live
                 PROVE  /\ status'[inc[j]] = "open" /\ owner[inc[j]] = key[j]
                        /\ lastSeq'[inc[j]] = seq'[j]
                        /\ known'[inc[j]] = sev'[j]
        OBVIOUS
    <2>1. j \in InUse /\ inc[j] \in Incidents /\ (j # i => inc[j] # inc[i])
        BY InUseFacts DEF Live, Inv, SlotsInv
    <2>2. /\ status[inc[j]] = "open" /\ owner[inc[j]] = key[j]
          /\ lastSeq[inc[j]] = seq[j] /\ known[inc[j]] = sev[j]
        BY DEF StreamInv, StreamMatchesEngine
    <2>. QED  BY <2>1, <2>2, <1>3, <1>4
<1>8. \A n \in Incidents : status'[n] = "open" => \E j \in Live : inc[j] = n
    BY <1>6 DEF StreamInv, StreamMatchesEngine
<1>9. StreamMatchesEngine'
    BY <1>2, <1>7, <1>8 DEF StreamMatchesEngine
<1>. QED  BY <1>2, <1>6, <1>9 DEF StreamInv

\* what StreamInv reads of the engine and the stream
LEMMA StreamSame ==
    ASSUME StreamInv,
           UNCHANGED <<count, key, inc, resolved, sev, seq, incSeq, status,
                       owner, lastSeq, known>>,
           phase' = "clear" => \A i \in InUse : i < walk' => resolved[i]
    PROVE  StreamInv'
BY DEF StreamInv, StreamMatchesEngine, Live, InUse

LEMMA StreamFire ==
    ASSUME Inv, StreamInv, NEW k \in Keys, Fire(k)
    PROVE  StreamInv'
<1>1. PICK s \in Sevs, d \in Details :
         \/ FireSeverity(k, s, d) \/ FireUpdate(k, d) \/ FireQuiet(k, d)
         \/ FireReopen(k, s, d) \/ FireAppend(k, s, d)
         \/ FireEvict(k, s, d)
    BY DEF Fire
<1>2. phase = "rules" /\ firing = NoFire
    BY <1>1 DEF FireSeverity, FireUpdate, FireQuiet, FireReopen, FireAppend,
                FireEvict, Firing
<1>3. CASE FireSeverity(k, s, d)
    <2>1. PICK i \in InUse : /\ ~resolved[i] /\ Evaluate(i, s, d)
                             /\ Announce(i, s, d)
        BY <1>3 DEF FireSeverity, SlotOf
    <2>2. s \in Sevs \cup {0}
        OBVIOUS
    <2>. QED  BY <2>1, <2>2, StreamAnnounce
<1>4. CASE FireUpdate(k, d)
    <2>1. PICK i \in InUse : /\ ~resolved[i] /\ Evaluate(i, sev[i], d)
                             /\ Announce(i, sev[i], d)
        BY <1>4 DEF FireUpdate, SlotOf
    <2>2. sev[i] \in Sevs \cup {0}
        BY InUseFacts DEF Inv, TypeOK
    <2>. QED  BY <2>1, <2>2, StreamAnnounce
<1>5. CASE FireQuiet(k, d)
    <2>1. PICK i \in InUse : Evaluate(i, sev[i], d)
        BY <1>5 DEF FireQuiet, SlotOf
    <2>2. sev' = sev
        BY <2>1, InUseFacts DEF Evaluate, Inv, TypeOK
    <2>3. UNCHANGED <<count, key, inc, resolved, incSeq, poll, seq, status,
                      owner, lastSeq, known>>
        BY <2>1, <1>5 DEF Evaluate, FireQuiet, stream
    <2>4. phase' # "clear"
        BY <1>2, <2>3 DEF poll
    <2>. QED  BY <2>2, <2>3, <2>4, StreamSame
<1>6. CASE FireReopen(k, s, d)
    <2>1. PICK i \in InUse : /\ resolved[i] /\ OpenIn(i, k, s, d)
                             /\ UNCHANGED <<count, poll>>
                             /\ InUse' = InUse \cup {i}
        BY <1>6, OpenCases
    <2>2. i \in Slots /\ phase' # "clear"
        BY <1>2, <2>1, InUseFacts DEF poll
    <2>3. /\ StreamMatchesEngine'
          /\ \A n \in Incidents : n > incSeq' => status'[n] = "none"
        BY <2>1, <2>2, StreamOpen
    <2>. QED  BY <2>2, <2>3 DEF StreamInv
<1>7. CASE FireAppend(k, s, d)
    <2>1. /\ count \in Slots /\ count \notin InUse
          /\ InUse' = InUse \cup {count}
        BY <1>7, OpenCases
    <2>2. OpenIn(count, k, s, d) /\ phase' # "clear"
        BY <1>2, <1>7 DEF FireAppend, poll
    <2>3. /\ StreamMatchesEngine'
          /\ \A n \in Incidents : n > incSeq' => status'[n] = "none"
        BY <2>1, <2>2, StreamOpen
    <2>. QED  BY <2>2, <2>3 DEF StreamInv
<1>8. CASE FireEvict(k, s, d)
    <2>1. PICK i \in Slots :
             IF resolved[i] THEN UNCHANGED <<resolved, seq, stream>>
                            ELSE Resolve(i)
        BY <1>8 DEF FireEvict
    <2>2. /\ count = MaxAlerts /\ phase' # "clear"
          /\ UNCHANGED <<count, key, inc, sev, incSeq>>
        BY <1>2, <1>8 DEF FireEvict
    <2>3. i \in InUse
        BY <2>2 DEF InUse, Slots
    <2>4. CASE resolved[i]
        <3>1. UNCHANGED <<resolved, seq, status, owner, lastSeq, known>>
            BY <2>1, <2>4 DEF stream
        <3>. QED  BY <2>2, <3>1, StreamSame
    <2>5. CASE ~resolved[i]
        <3>1. /\ StreamMatchesEngine'
              /\ \A n \in Incidents : n > incSeq' => status'[n] = "none"
            BY <2>1, <2>2, <2>3, <2>5, StreamResolve
        <3>. QED  BY <2>2, <3>1 DEF StreamInv
    <2>. QED  BY <2>4, <2>5
<1>. QED  BY <1>1, <1>3, <1>4, <1>5, <1>6, <1>7, <1>8

LEMMA StreamLoop ==
    ASSUME Inv, StreamInv, Expire \/ ClearOne
    PROVE  StreamInv'
<1>1. /\ phase \in {"expire", "clear"} /\ phase' = phase
      /\ walk < count /\ walk' = walk + 1
      /\ UNCHANGED <<count, key, inc, sev, incSeq>>
    BY DEF Expire, ClearOne
<1>2. /\ \/ UNCHANGED <<resolved, seq, stream>>
            /\ (phase = "clear" => resolved[walk])
         \/ ~resolved[walk] /\ Resolve(walk)
    BY DEF Expire, ClearOne
<1>3. walk \in InUse /\ walk \in Nat /\ \A j \in InUse : j \in Nat
    BY <1>1, EngineAssumption DEF EngineAssumption, Inv, TypeOK, InUse
<1>4. \A j \in InUse : j < walk' => j < walk \/ j = walk
    BY <1>1, <1>3
<1>5. CASE UNCHANGED <<resolved, seq, stream>>
              /\ (phase = "clear" => resolved[walk])
    <2>1. phase' = "clear" => \A j \in InUse : j < walk' => resolved[j]
        BY <1>1, <1>4, <1>5 DEF StreamInv
    <2>. QED  BY <1>1, <1>5, <2>1, StreamSame DEF stream
<1>6. CASE ~resolved[walk] /\ Resolve(walk)
    <2>1. /\ StreamMatchesEngine'
          /\ \A n \in Incidents : n > incSeq' => status'[n] = "none"
          /\ \A j \in InUse' : resolved'[j] <=> resolved[j] \/ j = walk
        BY <1>1, <1>3, <1>6, StreamResolve
    <2>2. InUse' = InUse
        BY <1>1 DEF InUse
    <2>3. phase' = "clear" => \A j \in InUse' : j < walk' => resolved'[j]
        BY <1>1, <1>4, <2>1, <2>2 DEF StreamInv
    <2>. QED  BY <2>1, <2>3 DEF StreamInv
<1>. QED  BY <1>2, <1>5, <1>6

LEMMA StreamEndClear ==
    ASSUME Inv, StreamInv, EndClear
    PROVE  StreamInv'
<1>1. /\ phase = "clear" /\ walk = count /\ phase' = "idle" /\ count' = 0
      /\ UNCHANGED <<incSeq, status>>
    BY DEF EndClear, stream
<1>2. Live = {}
    BY <1>1 DEF StreamInv, Live, InUse, Inv, TypeOK
<1>3. Live' = {}
    BY <1>1 DEF Live, InUse
<1>4. \A n \in Incidents : status[n] # "open"
    BY <1>2 DEF StreamInv, StreamMatchesEngine
<1>5. StreamMatchesEngine'
    BY <1>1, <1>3, <1>4 DEF StreamMatchesEngine
<1>. QED  BY <1>1, <1>5 DEF StreamInv

LEMMA StreamStep == Inv /\ StreamInv /\ [Next]_vars => StreamInv'
<1> SUFFICES ASSUME Inv, StreamInv, [Next]_vars PROVE StreamInv'
    OBVIOUS
<1>1. ASSUME NEW k \in Keys, Fire(k) PROVE StreamInv'
    BY <1>1, StreamFire
<1>2. ASSUME NEW k \in Keys, KeyResolve(k) PROVE StreamInv'
    <2>1. PICK i \in InUse : ~resolved[i] /\ Resolve(i)
        BY <1>2 DEF KeyResolve, SlotOf
    <2>2. /\ UNCHANGED <<count, key, inc, sev, incSeq>>
          /\ phase' # "clear"
        BY <1>2 DEF KeyResolve, Firing, poll
    <2>3. /\ StreamMatchesEngine'
          /\ \A n \in Incidents : n > incSeq' => status'[n] = "none"
        BY <2>1, <2>2, StreamResolve
    <2>. QED  BY <2>2, <2>3 DEF StreamInv
<1>3. CASE FireTakeSlot
    <2>1. firing[1] \in Slots /\ phase' # "clear"
        BY <1>3, TakeSlotFacts, InUseFacts
    <2>2. /\ StreamMatchesEngine'
          /\ \A n \in Incidents : n > incSeq' => status'[n] = "none"
        BY <1>3, <2>1, TakeSlotFacts, StreamOpen
    <2>. QED  BY <2>1, <2>2 DEF StreamInv
<1>4. CASE Expire \/ ClearOne
    BY <1>4, StreamLoop
<1>5. CASE EndClear
    BY <1>5, StreamEndClear
<1>6. CASE \/ BeginPoll \/ EndRules \/ EndPoll
           \/ BeginClear \/ Elapse \/ UNCHANGED vars
    <2>1. UNCHANGED <<count, key, inc, resolved, sev, seq, incSeq, status,
                      owner, lastSeq, known>>
        BY <1>6 DEF BeginPoll, EndRules, EndPoll, BeginClear, Elapse, vars,
                    engine, slotVars, stream
    <2>2. phase' = "clear" => \A i \in InUse : i < walk' => resolved[i]
        <3>1. CASE BeginClear
            BY <3>1 DEF BeginClear, InUse
        <3>2. CASE Elapse \/ UNCHANGED vars
            BY <3>2 DEF Elapse, vars, poll, StreamInv
        <3>3. CASE BeginPoll \/ EndRules \/ EndPoll
            BY <3>3 DEF BeginPoll, EndRules, EndPoll
        <3>. QED  BY <1>6, <3>1, <3>2, <3>3
    <2>. QED  BY <2>1, <2>2, StreamSame
<1>. QED  BY <1>1, <1>2, <1>3, <1>4, <1>5, <1>6 DEF Next

\* The consumer's open incidents are the engine's, event number and severity
\* included, through evictions, reuses of a slot and clears (engine.c:317-321,
\* 968-975).
THEOREM StreamAlwaysMatches == Spec => []StreamMatchesEngine
<1>1. Init => StreamInv
    BY DEF Init, StreamInv, StreamMatchesEngine, Live, InUse
<1>2. StreamInv => StreamMatchesEngine
    BY DEF StreamInv
<1>. QED  BY <1>1, <1>2, InitInv, InvStep, StreamStep, PTL DEF Spec

-----------------------------------------------------------------------------
(* The engine implements the incident stream                               *)

\* a severity announced is one a rule gave
SevInv == \A i \in InUse : sev[i] \in Sevs

LEMMA SevStep == Inv /\ SevInv /\ [Next]_vars => SevInv'
<1> SUFFICES ASSUME Inv, SevInv, [Next]_vars PROVE SevInv'
    OBVIOUS
<1>1. ASSUME UNCHANGED <<count, sev>> PROVE SevInv'
    BY <1>1 DEF SevInv, InUse
<1>2. ASSUME NEW i \in InUse, NEW s \in Sevs, NEW d \in Details,
             Evaluate(i, s, d)
      PROVE  SevInv'
    BY <1>2, InUseFacts DEF Evaluate, SevInv, InUse, Inv, TypeOK
<1>3. ASSUME NEW i \in Slots, NEW k \in Keys, NEW s \in Sevs,
             NEW d \in Details, OpenIn(i, k, s, d), InUse' = InUse \cup {i}
      PROVE  SevInv'
    <2>1. sev'[i] = s /\ \A j \in InUse : j # i => sev'[j] = sev[j]
        BY <1>3, InUseFacts DEF OpenIn, Inv, TypeOK
    <2>. QED  BY <1>3, <2>1 DEF SevInv
<1>4. ASSUME NEW k \in Keys, Fire(k) PROVE SevInv'
    <2>1. PICK s \in Sevs, d \in Details :
             \/ FireSeverity(k, s, d) \/ FireUpdate(k, d) \/ FireQuiet(k, d)
             \/ FireReopen(k, s, d) \/ FireAppend(k, s, d)
             \/ FireEvict(k, s, d)
        BY <1>4 DEF Fire
    <2>2. CASE FireSeverity(k, s, d)
        BY <2>2, <1>2 DEF FireSeverity, SlotOf
    <2>3. CASE FireUpdate(k, d) \/ FireQuiet(k, d)
        <3>1. PICK i \in InUse : Evaluate(i, sev[i], d)
            BY <2>3 DEF FireUpdate, FireQuiet, SlotOf
        <3>2. sev[i] \in Sevs
            BY DEF SevInv
        <3>. QED  BY <3>1, <3>2, <1>2
    <2>4. CASE FireReopen(k, s, d)
        BY <2>4, <1>3, OpenCases, InUseFacts
    <2>5. CASE FireAppend(k, s, d)
        BY <2>5, <1>3, OpenCases DEF FireAppend
    <2>6. CASE FireEvict(k, s, d)
        BY <2>6, <1>1 DEF FireEvict
    <2>. QED  BY <2>1, <2>2, <2>3, <2>4, <2>5, <2>6
<1>5. CASE FireTakeSlot
    <2>1. firing[1] \in Slots
        BY <1>5, TakeSlotFacts, InUseFacts
    <2>. QED  BY <1>5, <2>1, <1>3, TakeSlotFacts
<1>6. CASE EndClear
    BY <1>6 DEF EndClear, SevInv, InUse
<1>7. CASE \/ \E k \in Keys : KeyResolve(k)
           \/ BeginPoll \/ EndRules \/ Expire \/ EndPoll
           \/ BeginClear \/ ClearOne \/ Elapse \/ UNCHANGED vars
    <2>1. UNCHANGED <<count, sev>>
        BY <1>7 DEF KeyResolve, BeginPoll, EndRules, Expire, EndPoll,
                    BeginClear, ClearOne, Elapse, vars, engine, slotVars
    <2>. QED  BY <2>1, <1>1
<1>. QED  BY <1>4, <1>5, <1>6, <1>7 DEF Next

\* Every open incident has a live slot of its own, so while one slot is not
\* live there is room for one more.
LEMMA RoomForOne ==
    ASSUME Inv, StreamInv, NEW i \in Slots, i \notin Live
    PROVE  Cardinality(Stream!OpenNow) < MaxAlerts
<1> DEFINE slotted == [j \in Live |-> inc[j]]
<1>1. IsFiniteSet(Slots) /\ Cardinality(Slots) = MaxAlerts
    BY EngineAssumption, FS_Interval DEF EngineAssumption, Slots
<1>2. Live \in SUBSET (Slots \ {i})
    BY InUseFacts DEF Live
<1>3. /\ IsFiniteSet(Slots \ {i})
      /\ Cardinality(Slots \ {i}) = MaxAlerts - 1
    BY <1>1, FS_RemoveElement
<1>4. IsFiniteSet(Live) /\ Cardinality(Live) <= MaxAlerts - 1
    BY <1>2, <1>3, FS_Subset
<1>5. slotted \in Surjection(Live, Stream!OpenNow)
    <2>1. \A j \in Live : inc[j] \in Stream!OpenNow
        BY InUseFacts
        DEF Live, Stream!OpenNow, StreamInv, StreamMatchesEngine
    <2>2. \A n \in Stream!OpenNow : \E j \in Live : inc[j] = n
        BY DEF Stream!OpenNow, StreamInv, StreamMatchesEngine
    <2>. QED  BY <2>1, <2>2 DEF Surjection
<1>6. Cardinality(Stream!OpenNow) <= Cardinality(Live)
    BY <1>4, <1>5, FS_Surjection
<1>7. /\ Cardinality(Live) \in Nat
      /\ Cardinality(Stream!OpenNow) \in Nat
    BY <1>4, <1>5, FS_Surjection, FS_CardinalityType
<1>. QED  BY <1>4, <1>6, <1>7, EngineAssumption DEF EngineAssumption

LEMMA StreamCreates ==
    ASSUME Inv, StreamInv, NEW i \in Slots, NEW k \in Keys, NEW s \in Sevs,
           NEW d \in Details, OpenIn(i, k, s, d),
           i \in InUse => resolved[i],
           \A j \in Live : key[j] # k
    PROVE  Stream!Next
<1>1. incSeq \in Nat /\ incSeq + 1 \in Incidents
    BY EngineAssumption DEF EngineAssumption, Inv, TypeOK, OpenIn, Incidents
<1>2. status[incSeq + 1] = "none"
    BY <1>1 DEF StreamInv
<1>3. i \notin Live
    BY DEF Live
<1>4. Cardinality(Stream!OpenNow) < MaxAlerts
    BY <1>3, RoomForOne
<1>5. \A n \in Stream!OpenNow : owner[n] # k
    <2> SUFFICES ASSUME NEW n \in Incidents, status[n] = "open"
                 PROVE  owner[n] # k
        BY DEF Stream!OpenNow
    <2>1. PICK j \in Live : inc[j] = n
        BY DEF StreamInv, StreamMatchesEngine
    <2>2. owner[n] = key[j]
        BY <2>1 DEF StreamInv, StreamMatchesEngine
    <2>. QED  BY <2>2
<1>6. Stream!Create(incSeq + 1, k, s)
    <2>1. /\ status' = [status EXCEPT ![incSeq + 1] = "open"]
          /\ owner' = [owner EXCEPT ![incSeq + 1] = k]
          /\ lastSeq' = [lastSeq EXCEPT ![incSeq + 1] = 1]
          /\ known' = [known EXCEPT ![incSeq + 1] = s]
        BY DEF OpenIn, Emit
    <2>2. Stream!Cardinality(Stream!OpenNow) = Cardinality(Stream!OpenNow)
        BY DEF Stream!Cardinality, Cardinality
    <2>. QED  BY <1>2, <1>4, <1>5, <2>1, <2>2 DEF Stream!Create
<1>. QED  BY <1>1, <1>6 DEF Stream!Next

LEMMA StreamChanges ==
    ASSUME Inv, StreamInv, NEW i \in InUse, ~resolved[i], NEW s \in Sevs,
           NEW d \in Details, Evaluate(i, s, d), Announce(i, s, d)
    PROVE  Stream!Next
<1>1. inc[i] \in Incidents
    BY InUseFacts
<1>2. status[inc[i]] = "open" /\ lastSeq[inc[i]] = seq[i]
    BY DEF Live, StreamInv, StreamMatchesEngine
<1>3. status' = status
    BY <1>1, <1>2 DEF Announce, Emit, Inv, TypeOK
<1>4. Stream!Change(inc[i], s)
    BY <1>2, <1>3 DEF Stream!Change, Announce, Emit, Evaluate
<1>. QED  BY <1>1, <1>4 DEF Stream!Next

LEMMA StreamResolves ==
    ASSUME Inv, StreamInv, NEW i \in InUse, ~resolved[i], Resolve(i)
    PROVE  Stream!Next
<1>1. inc[i] \in Incidents
    BY InUseFacts
<1>2. /\ status[inc[i]] = "open" /\ lastSeq[inc[i]] = seq[i]
      /\ known[inc[i]] = sev[i]
    BY DEF Live, StreamInv, StreamMatchesEngine
<1>3. known' = known
    BY <1>1, <1>2 DEF Resolve, Emit, Inv, TypeOK
<1>4. Stream!Resolve(inc[i])
    BY <1>2, <1>3 DEF Stream!Resolve, Resolve, Emit
<1>. QED  BY <1>1, <1>4 DEF Stream!Next

LEMMA StreamRefines ==
    Inv /\ StreamInv /\ SevInv /\ KeysUnique /\ [Next]_vars
       => [Stream!Next]_<<status, owner, lastSeq, known>>
<1> SUFFICES ASSUME Inv, StreamInv, SevInv, KeysUnique, [Next]_vars
             PROVE  \/ Stream!Next
                    \/ UNCHANGED <<status, owner, lastSeq, known>>
    OBVIOUS
<1>1. ASSUME NEW k \in Keys, Fire(k)
      PROVE  Stream!Next \/ UNCHANGED <<status, owner, lastSeq, known>>
    <2>1. PICK s \in Sevs, d \in Details :
             \/ FireSeverity(k, s, d) \/ FireUpdate(k, d) \/ FireQuiet(k, d)
             \/ FireReopen(k, s, d) \/ FireAppend(k, s, d)
             \/ FireEvict(k, s, d)
        BY <1>1 DEF Fire
    <2>2. CASE FireSeverity(k, s, d)
        <3>1. PICK i \in InUse : /\ ~resolved[i] /\ Evaluate(i, s, d)
                                 /\ Announce(i, s, d)
            BY <2>2 DEF FireSeverity, SlotOf
        <3>. QED  BY <3>1, StreamChanges
    <2>3. CASE FireUpdate(k, d)
        <3>1. PICK i \in InUse : /\ ~resolved[i] /\ Evaluate(i, sev[i], d)
                                 /\ Announce(i, sev[i], d)
            BY <2>3 DEF FireUpdate, SlotOf
        <3>2. sev[i] \in Sevs
            BY DEF SevInv
        <3>. QED  BY <3>1, <3>2, StreamChanges
    <2>4. CASE FireQuiet(k, d)
        BY <2>4 DEF FireQuiet, stream
    <2>5. CASE FireReopen(k, s, d)
        <3>1. PICK i \in InUse : /\ key[i] = k /\ resolved[i]
                                 /\ OpenIn(i, k, s, d)
            BY <2>5, OpenCases
        <3>2. i \in Slots /\ \A j \in Live : key[j] # k
            BY <3>1, InUseFacts DEF KeysUnique, Live
        <3>. QED  BY <3>1, <3>2, StreamCreates
    <2>6. CASE FireAppend(k, s, d)
        <3>1. count \in Slots /\ count \notin InUse
            BY <2>6, OpenCases
        <3>2. OpenIn(count, k, s, d) /\ \A j \in Live : key[j] # k
            BY <2>6 DEF FireAppend, SlotOf, Live
        <3>. QED  BY <3>1, <3>2, StreamCreates
    <2>7. CASE FireEvict(k, s, d)
        <3>1. PICK i \in Slots :
                 IF resolved[i] THEN UNCHANGED <<resolved, seq, stream>>
                                ELSE Resolve(i)
            BY <2>7 DEF FireEvict
        <3>2. i \in InUse
            BY <2>7 DEF FireEvict, InUse, Slots
        <3>. QED  BY <3>1, <3>2, StreamResolves DEF stream
    <2>. QED  BY <2>1, <2>2, <2>3, <2>4, <2>5, <2>6, <2>7
<1>2. ASSUME NEW k \in Keys, KeyResolve(k) PROVE Stream!Next
    <2>1. PICK i \in InUse : ~resolved[i] /\ Resolve(i)
        BY <1>2 DEF KeyResolve, SlotOf
    <2>. QED  BY <2>1, StreamResolves
<1>3. CASE FireTakeSlot
    <2>1. firing[1] \in Slots /\ \A j \in Live : key[j] # firing[2]
        BY <1>3, TakeSlotFacts, InUseFacts DEF Live
    <2>. QED  BY <1>3, <2>1, TakeSlotFacts, StreamCreates
<1>4. CASE Expire \/ ClearOne
    <2>1. /\ walk < count
          /\ \/ UNCHANGED stream
             \/ ~resolved[walk] /\ Resolve(walk)
        BY <1>4 DEF Expire, ClearOne
    <2>2. walk \in InUse
        BY <2>1 DEF Inv, TypeOK, InUse
    <2>. QED  BY <2>1, <2>2, StreamResolves DEF stream
<1>5. CASE \/ BeginPoll \/ EndRules \/ EndPoll
           \/ BeginClear \/ EndClear \/ Elapse \/ UNCHANGED vars
    BY <1>5 DEF BeginPoll, EndRules, EndPoll, BeginClear, EndClear, Elapse,
                vars, stream
<1>. QED  BY <1>1, <1>2, <1>3, <1>4, <1>5 DEF Next

\* Every behaviour of the engine is one of the promised incident stream: each
\* record creates, changes or resolves one incident in its turn, whatever is
\* evicted, reopened, expired or cleared (engine.c:36-48, #98).
THEOREM EngineImplementsStream == Spec => ImplementsStream
<1>1. Init => StreamInv /\ SevInv /\ KeysUnique /\ Stream!Init
    BY DEF Init, StreamInv, StreamMatchesEngine, Live, InUse, SevInv,
           KeysUnique, Stream!Init
<1>. QED  BY <1>1, InitInv, InvStep, StreamStep, SevStep, KeysStep,
             StreamRefines, PTL
          DEF Spec, ImplementsStream, Stream!Spec

-----------------------------------------------------------------------------
(* Throttled evidence                                                      *)

\* The signature kept is that of the rendering last announced, and one the
\* last evaluation left unannounced was held back by the update floor.
StaleInv ==
    \A i \in Live :
       /\ shown[inc[i]] = sig[i]
       /\ evalAge[i] = 0 /\ detail[i] # sig[i] => eventAge[i] < UpdateMin

LEMMA StaleSame ==
    ASSUME StaleInv,
           UNCHANGED <<count, inc, resolved, detail, sig, evalAge, eventAge,
                       shown>>
    PROVE  StaleInv'
BY DEF StaleInv, Live, InUse

LEMMA StaleResolve ==
    ASSUME Inv, StaleInv, NEW i \in InUse, ~resolved[i], Resolve(i),
           UNCHANGED <<count, inc, detail, sig, evalAge, eventAge>>
    PROVE  StaleInv'
<1>1. Live' = Live \ {i} /\ \A j \in Live : j \in InUse
    BY InUseFacts DEF Inv, TypeOK, Resolve, Live, InUse
<1>2. \A n \in Incidents : n # inc[i] => shown'[n] = shown[n]
    BY InUseFacts DEF Inv, TypeOK, Resolve, Emit
<1>3. \A j \in Live' : inc[j] \in Incidents /\ inc[j] # inc[i]
    BY <1>1, InUseFacts DEF Inv, SlotsInv
<1>. QED  BY <1>1, <1>2, <1>3 DEF StaleInv

LEMMA StaleOpen ==
    ASSUME Inv, StaleInv, NEW i \in Slots, NEW k \in Keys, NEW s \in Sevs,
           NEW d \in Details, OpenIn(i, k, s, d), InUse' = InUse \cup {i}
    PROVE  StaleInv'
<1>1. incSeq \in Nat /\ incSeq + 1 \in Incidents
    BY EngineAssumption DEF EngineAssumption, Inv, TypeOK, OpenIn, Incidents
<1>2. /\ inc'[i] = incSeq + 1 /\ detail'[i] = d /\ sig'[i] = d
      /\ shown'[incSeq + 1] = d
      /\ \A n \in Incidents : n # incSeq + 1 => shown'[n] = shown[n]
    BY <1>1 DEF Inv, TypeOK, OpenIn, Emit
<1>3. \A j \in InUse : j # i =>
         /\ inc'[j] = inc[j] /\ resolved'[j] = resolved[j]
         /\ detail'[j] = detail[j] /\ sig'[j] = sig[j]
         /\ evalAge'[j] = evalAge[j] /\ eventAge'[j] = eventAge[j]
    BY InUseFacts DEF Inv, TypeOK, OpenIn
<1>4. \A j \in InUse : inc[j] \in Incidents /\ inc[j] # incSeq + 1
    BY <1>1, InUseFacts DEF Inv, SlotsInv
<1>5. \A j \in Live' : j = i \/ (j \in Live /\ j \in InUse /\ j # i)
    BY <1>3 DEF Live
<1>. QED  BY <1>2, <1>3, <1>4, <1>5 DEF StaleInv

LEMMA StaleEvaluate ==
    ASSUME Inv, StaleInv, NEW i \in InUse, ~resolved[i], NEW s,
           NEW d \in Details, Evaluate(i, s, d),
           \/ Announce(i, s, d)
           \/ /\ d = sig[i] \/ eventAge[i] < UpdateMin
              /\ UNCHANGED <<sig, eventAge, stream>>
    PROVE  StaleInv'
<1>1. i \in Slots /\ inc[i] \in Incidents
    BY InUseFacts
<1>2. /\ Live' = Live /\ inc' = inc /\ detail'[i] = d
      /\ \A j \in Live : j # i => /\ detail'[j] = detail[j]
                                  /\ evalAge'[j] = evalAge[j]
    BY <1>1, InUseFacts DEF Evaluate, Live, InUse, Inv, TypeOK
<1>3. CASE Announce(i, s, d)
    <2>1. /\ sig'[i] = d /\ shown'[inc[i]] = d
          /\ \A n \in Incidents : n # inc[i] => shown'[n] = shown[n]
          /\ \A j \in Live : j # i => /\ sig'[j] = sig[j]
                                      /\ eventAge'[j] = eventAge[j]
        BY <1>1, <1>3, InUseFacts DEF Announce, Emit, Live, Inv, TypeOK
    <2>2. \A j \in Live : j # i => inc[j] \in Incidents /\ inc[j] # inc[i]
        BY InUseFacts DEF Live, Inv, SlotsInv
    <2>. QED  BY <1>2, <2>1, <2>2 DEF StaleInv
<1>4. CASE /\ d = sig[i] \/ eventAge[i] < UpdateMin
           /\ UNCHANGED <<sig, eventAge, stream>>
    BY <1>2, <1>4 DEF StaleInv, stream
<1>. QED  BY <1>3, <1>4

LEMMA StaleElapse == ASSUME Inv, StaleInv, Elapse PROVE StaleInv'
<1>1. Live' = Live /\ inc' = inc /\ shown' = shown /\ sig' = sig
    BY DEF Elapse, Live, InUse, stream
<1>2. \A j \in Live : evalAge'[j] # 0
    BY InUseFacts, EngineAssumption
    DEF EngineAssumption, Inv, TypeOK, Elapse, Older, Live
<1>. QED  BY <1>1, <1>2 DEF StaleInv

LEMMA StaleStep == Inv /\ StaleInv /\ [Next]_vars => StaleInv'
<1> SUFFICES ASSUME Inv, StaleInv, [Next]_vars PROVE StaleInv'
    OBVIOUS
<1>1. ASSUME NEW k \in Keys, Fire(k) PROVE StaleInv'
    <2>1. PICK s \in Sevs, d \in Details :
             \/ FireSeverity(k, s, d) \/ FireUpdate(k, d) \/ FireQuiet(k, d)
             \/ FireReopen(k, s, d) \/ FireAppend(k, s, d)
             \/ FireEvict(k, s, d)
        BY <1>1 DEF Fire
    <2>2. CASE FireSeverity(k, s, d)
        BY <2>2, StaleEvaluate DEF FireSeverity, SlotOf
    <2>3. CASE FireUpdate(k, d)
        BY <2>3, StaleEvaluate DEF FireUpdate, SlotOf
    <2>4. CASE FireQuiet(k, d)
        BY <2>4, StaleEvaluate DEF FireQuiet, SlotOf
    <2>5. CASE FireReopen(k, s, d)
        BY <2>5, StaleOpen, OpenCases, InUseFacts
    <2>6. CASE FireAppend(k, s, d)
        BY <2>6, StaleOpen, OpenCases DEF FireAppend
    <2>7. CASE FireEvict(k, s, d)
        <3>1. PICK i \in Slots :
                 IF resolved[i] THEN UNCHANGED <<resolved, seq, stream>>
                                ELSE Resolve(i)
            BY <2>7 DEF FireEvict
        <3>2. /\ i \in InUse
              /\ UNCHANGED <<count, inc, detail, sig, evalAge, eventAge>>
            BY <2>7 DEF FireEvict, InUse, Slots
        <3>. QED  BY <3>1, <3>2, StaleResolve, StaleSame DEF stream
    <2>. QED  BY <2>1, <2>2, <2>3, <2>4, <2>5, <2>6, <2>7
<1>2. ASSUME NEW k \in Keys, KeyResolve(k) PROVE StaleInv'
    <2>1. PICK i \in InUse : ~resolved[i] /\ Resolve(i)
        BY <1>2 DEF KeyResolve, SlotOf
    <2>2. UNCHANGED <<count, inc, detail, sig, evalAge, eventAge>>
        BY <1>2 DEF KeyResolve
    <2>. QED  BY <2>1, <2>2, StaleResolve
<1>3. CASE FireTakeSlot
    <2>1. firing[1] \in Slots
        BY <1>3, TakeSlotFacts, InUseFacts
    <2>. QED  BY <1>3, <2>1, TakeSlotFacts, StaleOpen
<1>4. CASE Expire \/ ClearOne
    <2>1. /\ walk < count
          /\ UNCHANGED <<count, inc, detail, sig, evalAge, eventAge>>
          /\ \/ UNCHANGED <<resolved, seq, stream>>
             \/ ~resolved[walk] /\ Resolve(walk)
        BY <1>4 DEF Expire, ClearOne
    <2>2. walk \in InUse
        BY <2>1 DEF Inv, TypeOK, InUse
    <2>. QED  BY <2>1, <2>2, StaleResolve, StaleSame DEF stream
<1>5. CASE EndClear
    BY <1>5 DEF EndClear, StaleInv, Live, InUse
<1>6. CASE Elapse
    BY <1>6, StaleElapse
<1>7. CASE BeginPoll \/ EndRules \/ EndPoll \/ BeginClear \/ UNCHANGED vars
    BY <1>7, StaleSame
    DEF BeginPoll, EndRules, EndPoll, BeginClear, vars, engine, slotVars,
        stream
<1>. QED  BY <1>1, <1>2, <1>3, <1>4, <1>5, <1>6, <1>7 DEF Next

\* The floor delays a consumer's view of the evidence by less than its length
\* and never loses it: what an evaluation just left unannounced is younger
\* than the floor (engine.c:541-552).
THEOREM StaleDetailStaysRecent == Spec => []StaleDetailIsRecent
<1>1. Init => StaleInv
    BY DEF Init, StaleInv, Live, InUse
<1>2. StaleInv => StaleDetailIsRecent
    BY DEF StaleInv, StaleDetailIsRecent
<1>. QED  BY <1>1, <1>2, InitInv, InvStep, StaleStep, PTL DEF Spec

-----------------------------------------------------------------------------
(* Shares of a full engine                                                 *)

\* What is split into kinds, none with more than m, is at most m of each kind.
LEMMA Shares ==
    ASSUME NEW S, IsFiniteSet(S), NEW T, IsFiniteSet(T), NEW f \in [S -> T],
           NEW m \in Nat,
           \A t \in T : Cardinality({s \in S : f[s] = t}) <= m
    PROVE  Cardinality(S) <= m * Cardinality(T)
<1> DEFINE Kind(t) == {s \in S : f[s] = t}
           Line(t, b) == \A s \in Kind(t) :
                            \E n \in 1 .. m : b[n] = s
           line == [t \in T |-> CHOOSE b : Line(t, b)]
           place == [s \in S |-> CHOOSE n \in 1 .. m : line[f[s]][n] = s]
           seat == [s \in S |-> <<f[s], place[s]>>]
<1>1. ASSUME NEW t \in T PROVE \E b : Line(t, b)
    <2>1. Kind(t) \in SUBSET S /\ Cardinality(Kind(t)) <= m
        OBVIOUS
    <2>2. IsFiniteSet(Kind(t))
        BY <2>1, FS_Subset
    <2>3. Cardinality(Kind(t)) \in Nat
        BY <2>2, FS_CardinalityType
    <2>4. PICK b : b \in Bijection(1 .. Cardinality(Kind(t)), Kind(t))
        BY <2>2, FS_CardinalityType DEF ExistsBijection
    <2>5. \A s \in Kind(t) : \E n \in 1 .. Cardinality(Kind(t)) : b[n] = s
        BY <2>4 DEF Bijection, Surjection
    <2>6. 1 .. Cardinality(Kind(t)) \subseteq 1 .. m
        BY <2>1, <2>3
    <2>7. Line(t, b)
        BY <2>5, <2>6
    <2>. QED  BY <2>7
<1>2. \A t \in T : Line(t, line[t])
    <2> HIDE DEF Line
    <2>. QED  BY <1>1
<1>3. \A s \in S : f[s] \in T /\ \E n \in 1 .. m : line[f[s]][n] = s
    <2> HIDE DEF line
    <2>. QED  BY <1>2
<1>4. \A s \in S : place[s] \in 1 .. m /\ line[f[s]][place[s]] = s
    <2> HIDE DEF line
    <2>. QED  BY <1>3
<1> HIDE DEF line, place
<1>5. seat \in [S -> T \X (1 .. m)]
    BY <1>3, <1>4
<1>6. \A s \in S : seat[s] = <<f[s], place[s]>>
    OBVIOUS
<1> HIDE DEF seat
<1>7. \A r, s \in S : seat[r] = seat[s] => r = s
    BY <1>4, <1>6
<1>8. seat \in Injection(S, T \X (1 .. m))
    BY <1>5, <1>7 DEF Injection, IsInjective
<1>9. IsFiniteSet(1 .. m) /\ Cardinality(1 .. m) = m
    BY FS_Interval
<1>10. /\ IsFiniteSet(T \X (1 .. m))
       /\ Cardinality(T \X (1 .. m)) = Cardinality(T) * m
    BY <1>9, FS_Product
<1>11. Cardinality(S) <= Cardinality(T) * m
    BY <1>8, <1>10, FS_Injection
<1>12. Cardinality(T) \in Nat
    BY FS_CardinalityType
<1>. QED  BY <1>11, <1>12

\* a slot in use holds a key
KeysHeld == \A i \in InUse : key[i] \in Keys

LEMMA KeysHeldStep == Inv /\ KeysHeld /\ [Next]_vars => KeysHeld'
<1> SUFFICES ASSUME Inv, KeysHeld, [Next]_vars PROVE KeysHeld'
    OBVIOUS
<1>1. ASSUME NEW i \in Slots, NEW k \in Keys, NEW s \in Sevs,
             NEW d \in Details, OpenIn(i, k, s, d), InUse' = InUse \cup {i}
      PROVE  KeysHeld'
    BY <1>1 DEF Inv, TypeOK, OpenIn, KeysHeld
<1>2. ASSUME UNCHANGED <<count, key>> PROVE KeysHeld'
    BY <1>2 DEF KeysHeld, InUse
<1>3. ASSUME NEW k \in Keys, Fire(k) PROVE KeysHeld'
    <2>1. PICK s \in Sevs, d \in Details :
             \/ FireSeverity(k, s, d) \/ FireUpdate(k, d) \/ FireQuiet(k, d)
             \/ FireReopen(k, s, d) \/ FireAppend(k, s, d)
             \/ FireEvict(k, s, d)
        BY <1>3 DEF Fire
    <2>2. CASE FireReopen(k, s, d)
        BY <2>2, <1>1, OpenCases, InUseFacts
    <2>3. CASE FireAppend(k, s, d)
        BY <2>3, <1>1, OpenCases DEF FireAppend
    <2>4. CASE \/ FireSeverity(k, s, d) \/ FireUpdate(k, d)
               \/ FireQuiet(k, d) \/ FireEvict(k, s, d)
        BY <2>4, <1>2
        DEF FireSeverity, FireUpdate, FireQuiet, FireEvict, Evaluate
    <2>. QED  BY <2>1, <2>2, <2>3, <2>4
<1>4. CASE FireTakeSlot
    <2>1. firing[1] \in Slots
        BY <1>4, TakeSlotFacts, InUseFacts
    <2>. QED  BY <1>4, <2>1, TakeSlotFacts, <1>1
<1>5. CASE EndClear
    BY <1>5 DEF EndClear, KeysHeld, InUse
<1>6. CASE \/ \E k \in Keys : KeyResolve(k)
           \/ BeginPoll \/ EndRules \/ Expire \/ EndPoll
           \/ BeginClear \/ ClearOne \/ Elapse \/ UNCHANGED vars
    BY <1>6, <1>2
    DEF KeyResolve, BeginPoll, EndRules, Expire, EndPoll, BeginClear,
        ClearOne, Elapse, vars, engine, slotVars
<1>. QED  BY <1>3, <1>4, <1>5, <1>6 DEF Next

\* The share of a victim: the types present divide a full engine's slots
\* among them, and no type holds more than the victim's.
LEMMA EvictedShare ==
    ASSUME Inv, KeysHeld, count = MaxAlerts, NEW i \in InUse,
           MostHeld(TypeOf[key[i]])
    PROVE  Held(TypeOf[key[i]])
              * Cardinality({TypeOf[key[j]] : j \in InUse}) >= MaxAlerts
<1> DEFINE Present == {TypeOf[key[j]] : j \in InUse}
           type == [j \in InUse |-> TypeOf[key[j]]]
           most == Held(TypeOf[key[i]])
<1>1. IsFiniteSet(InUse) /\ Cardinality(InUse) = MaxAlerts
    <2>1. 0 \in Int /\ count - 1 \in Int /\ ~(0 > count - 1)
          /\ (count - 1) - 0 + 1 = MaxAlerts
        BY EngineAssumption DEF EngineAssumption, Inv, TypeOK
    <2>. QED  BY <2>1, FS_Interval DEF InUse
<1>2. Present \subseteq Types /\ type \in Surjection(InUse, Present)
    BY EngineAssumption DEF EngineAssumption, KeysHeld, Surjection
<1>3. IsFiniteSet(Present)
    BY <1>1, <1>2, FS_Surjection
<1>4. \A t \in Present : /\ {j \in InUse : type[j] = t}
                               = {j \in InUse : TypeOf[key[j]] = t}
                         /\ {j \in InUse : type[j] = t} \in SUBSET InUse
    OBVIOUS
<1>5. \A t \in Present : Cardinality({j \in InUse : type[j] = t}) <= most
    BY <1>2, <1>4 DEF MostHeld, Held
<1>6. most \in Nat
    <2>1. {j \in InUse : TypeOf[key[j]] = TypeOf[key[i]]} \in SUBSET InUse
        OBVIOUS
    <2>. QED  BY <1>1, <2>1, FS_Subset, FS_CardinalityType DEF Held
<1>7. type \in [InUse -> Present]
    OBVIOUS
<1> HIDE DEF Present, type, most
<1>8. Cardinality(InUse) <= most * Cardinality(Present)
    BY <1>1, <1>3, <1>5, <1>6, <1>7, Shares
<1>9. Cardinality(Present) \in Nat
    BY <1>3, FS_CardinalityType
<1>10. MaxAlerts \in Nat /\ most * Cardinality(Present) \in Nat
    BY <1>6, <1>9, EngineAssumption DEF EngineAssumption
<1>11. most * Cardinality(Present) >= MaxAlerts
    BY <1>1, <1>8, <1>10
<1>. QED  BY <1>11 DEF most, Present

LEMMA EvictStep == Inv /\ KeysHeld /\ [Next]_vars => EvictedFairly
<1> SUFFICES ASSUME Inv, KeysHeld, [Next]_vars, firing = NoFire,
                    firing' # NoFire, ~resolved[firing'[1]]
             PROVE  /\ Live = InUse
                    /\ Held(TypeOf[key[firing'[1]]])
                          * Cardinality({TypeOf[key[i]] : i \in InUse})
                             >= MaxAlerts
    BY DEF EvictedFairly
<1>1. PICK k \in Keys, s \in Sevs, d \in Details : FireEvict(k, s, d)
    BY DEF Next, Fire, FireSeverity, FireUpdate, FireQuiet, FireReopen,
           FireAppend, Evaluate, KeyResolve, FireTakeSlot, BeginPoll,
           EndRules, Expire, EndPoll, BeginClear, ClearOne, EndClear, Elapse,
           vars, poll
<1>2. PICK i \in Slots : Victim(i) /\ firing' = <<i, k, s, d>>
    BY <1>1 DEF FireEvict
<1>3. firing'[1] = i /\ count = MaxAlerts /\ i \in InUse
    BY <1>1, <1>2 DEF FireEvict, InUse, Slots
<1>4. i \in Live /\ i \in Evictable
    BY <1>2, <1>3 DEF Victim, Live
<1>5. Live = InUse /\ MostHeld(TypeOf[key[i]])
    BY <1>4 DEF Evictable
<1>6. Held(TypeOf[key[i]])
         * Cardinality({TypeOf[key[j]] : j \in InUse}) >= MaxAlerts
    BY <1>3, <1>5, EvictedShare
<1>. QED  BY <1>3, <1>5, <1>6

\* A full engine makes room at the expense of a closed incident or of a type
\* with at least its share of the slots (#96, engine.c:323-358).
THEOREM EvictsFairly == Spec => EvictionIsFair
<1>1. Init => KeysHeld
    BY DEF Init, KeysHeld, InUse
<1>. QED  BY <1>1, InitInv, InvStep, KeysHeldStep, EvictStep, PTL
          DEF Spec, EvictionIsFair
=============================================================================
