-------------------------- MODULE DataSocketProofs --------------------------
(***************************************************************************)
(* SlotsAreShared, EveryClientIsOffered and BaselineReachesAll of the data *)
(* socket's listener, for any number of peers, connections and slots and   *)
(* any cap and timers.                                                     *)
(***************************************************************************)
EXTENDS DataSocket, FiniteSetTheorems, TLAPS

Client ==
    [conn : Conns, peer : Peers, queued : BOOLEAN, age : Nat,
     owed : BOOLEAN, based : BOOLEAN]

SocketTypes ==
    /\ listening \in BOOLEAN /\ slots \in Seq(Client) /\ stuck \in SUBSET Conns
    /\ walk \in {"none", "accept", "tick", "emit"} /\ at \in Nat \ {0}
    /\ row \in BOOLEAN
    /\ accepted \in BOOLEAN /\ owes \in BOOLEAN /\ cached \in BOOLEAN

-----------------------------------------------------------------------------
(* The inductive invariant                                                 *)

\* of any array of clients, so that it can be asked of the one a step leaves
PlacesOf(s, p) == {i \in 1 .. Len(s) : s[i].peer = p}
Shared(s) == \A p \in Peers : Cardinality(PlacesOf(s, p)) <= PeerCap
Distinct(s) == \A i, j \in 1 .. Len(s) : s[i].conn = s[j].conn => i = j

\* without a listener there is no client, and no walk to be in; no tick runs
\* while the reset of the one before is still to come
Quiet ==
    /\ ~ listening => slots = <<>> /\ walk = "none"
    /\ walk \in {"accept", "tick"} => ~ owes

\* the walk of an emit leaves nobody owed behind it, and no other walk starts
\* with anybody owed
OfferedBehind ==
    \A i \in 1 .. Len(slots) : slots[i].owed => walk = "emit" /\ at <= i

\* whoever was not offered the steady row the cache holds is about to be, or
\* the cache is about to be cleared
Baseline ==
    cached /\ ~ owes /\ ~ (walk \in {"accept", "tick"} /\ accepted) =>
       \A i \in 1 .. Len(slots) :
          slots[i].based \/ (walk = "emit" /\ row /\ slots[i].owed)

SocketInv ==
    /\ SocketTypes /\ Shared(slots) /\ Distinct(slots)
    /\ Quiet /\ OfferedBehind /\ Baseline

-----------------------------------------------------------------------------
(* The array: places, and what a drop, an accept or a change in place does *)
(* to what the places hold                                                 *)

LEMMA FunctionIsArray ==
    ASSUME NEW n \in Nat, NEW f \in [1 .. n -> Client]
    PROVE  f \in Seq(Client) /\ Len(f) = n /\ DOMAIN f = 1 .. n
OBVIOUS

LEMMA ArrayFacts ==
    ASSUME NEW s \in Seq(Client)
    PROVE  /\ Len(s) \in Nat /\ DOMAIN s = 1 .. Len(s)
           /\ \A i \in 1 .. Len(s) : s[i] \in Client
OBVIOUS

LEMMA PlacesAreFinite ==
    ASSUME NEW s \in Seq(Client), NEW p
    PROVE  IsFiniteSet(PlacesOf(s, p)) /\ Cardinality(PlacesOf(s, p)) \in Nat
<1>1. IsFiniteSet(1 .. Len(s))
    BY ArrayFacts, FS_Interval
<1>2. PlacesOf(s, p) \subseteq 1 .. Len(s)
    BY DEF PlacesOf
<1>. QED  BY <1>1, <1>2, FS_Subset, FS_CardinalityType

LEMMA DropFacts ==
    ASSUME NEW s \in Seq(Client), NEW i \in 1 .. Len(s)
    PROVE  /\ DropAt(s, i) \in Seq(Client)
           /\ Len(DropAt(s, i)) = Len(s) - 1
           /\ \A j \in 1 .. Len(s) - 1 :
                 DropAt(s, i)[j] = IF j = i THEN s[Len(s)] ELSE s[j]
<1>1. /\ Len(s) \in Nat \ {0} /\ Len(s) - 1 \in Nat
      /\ \A j \in 1 .. Len(s) : s[j] \in Client
    BY ArrayFacts
<1>2. DropAt(s, i) \in [1 .. Len(s) - 1 -> Client]
    BY <1>1 DEF DropAt
<1>3. /\ DropAt(s, i) \in Seq(Client)
      /\ Len(DropAt(s, i)) = Len(s) - 1
    BY <1>1, <1>2, FunctionIsArray
<1>. QED  BY <1>3 DEF DropAt

\* the client swapped into a freed place came from one no longer counted
LEMMA DropShares ==
    ASSUME NEW s \in Seq(Client), NEW i \in 1 .. Len(s), Shared(s), Distinct(s)
    PROVE  Shared(DropAt(s, i)) /\ Distinct(DropAt(s, i))
<1> DEFINE t == DropAt(s, i)
           from(j) == IF j = i THEN Len(s) ELSE j
<1>1. /\ Len(s) \in Nat /\ t \in Seq(Client) /\ Len(t) = Len(s) - 1
      /\ \A j \in 1 .. Len(t) :
            from(j) \in 1 .. Len(s) /\ t[j] = s[from(j)]
      /\ \A j, k \in 1 .. Len(t) : from(j) = from(k) => j = k
    <2>1. Len(s) \in Nat
        BY ArrayFacts
    <2>2. /\ t \in Seq(Client) /\ Len(t) = Len(s) - 1
          /\ \A j \in 1 .. Len(s) - 1 : t[j] = IF j = i THEN s[Len(s)] ELSE s[j]
        BY DropFacts, Zenon
    <2> HIDE DEF t
    <2>. QED  BY <2>1, <2>2
<1>2. Distinct(t)
    BY <1>1 DEF Distinct
<1>3. ASSUME NEW p \in Peers PROVE Cardinality(PlacesOf(t, p)) <= PeerCap
    <2> DEFINE f == [j \in PlacesOf(t, p) |-> from(j)]
    <2> HIDE DEF t, from
    <2>1. f \in Injection(PlacesOf(t, p), PlacesOf(s, p))
        BY <1>1 DEF Injection, IsInjective, PlacesOf
    <2>2. Cardinality(PlacesOf(t, p)) <= Cardinality(PlacesOf(s, p))
        BY <1>1, <2>1, PlacesAreFinite, FS_Injection
    <2>. QED  BY <1>1, <2>2, PlacesAreFinite, SocketAssumption DEF Shared
<1>. QED  BY <1>2, <1>3 DEF Shared

\* a change that leaves every place its connection and its peer
LEMMA SameShares ==
    ASSUME NEW s \in Seq(Client), NEW t \in Seq(Client), Len(t) = Len(s),
           \A i \in 1 .. Len(s) : t[i].conn = s[i].conn /\ t[i].peer = s[i].peer,
           Shared(s), Distinct(s)
    PROVE  Shared(t) /\ Distinct(t)
<1>1. \A p \in Peers : PlacesOf(t, p) = PlacesOf(s, p)
    BY DEF PlacesOf
<1>. QED  BY <1>1 DEF Shared, Distinct

LEMMA AppendShares ==
    ASSUME NEW s \in Seq(Client), NEW c \in Client, Shared(s), Distinct(s),
           Cardinality(PlacesOf(s, c.peer)) < PeerCap,
           \A i \in 1 .. Len(s) : s[i].conn # c.conn
    PROVE  Shared(Append(s, c)) /\ Distinct(Append(s, c))
<1> DEFINE t == Append(s, c)
<1>1. /\ Len(s) \in Nat /\ t \in Seq(Client) /\ Len(t) = Len(s) + 1
      /\ \A i \in 1 .. Len(s) : t[i] = s[i]
      /\ t[Len(s) + 1] = c
    OBVIOUS
<1> HIDE DEF t
<1>2. Distinct(t)
    BY <1>1 DEF Distinct
<1>3. ASSUME NEW p \in Peers PROVE Cardinality(PlacesOf(t, p)) <= PeerCap
    <2>1. CASE p = c.peer
        <3>1. /\ PlacesOf(t, p) = PlacesOf(s, p) \cup {Len(s) + 1}
              /\ Len(s) + 1 \notin PlacesOf(s, p)
            BY <1>1, <2>1 DEF PlacesOf
        <3>2. Cardinality(PlacesOf(t, p)) = Cardinality(PlacesOf(s, p)) + 1
            BY <3>1, PlacesAreFinite, FS_AddElement
        <3>. QED  BY <2>1, <3>2, PlacesAreFinite, SocketAssumption
    <2>2. CASE p # c.peer
        <3>1. PlacesOf(t, p) = PlacesOf(s, p)
            BY <1>1, <2>2 DEF PlacesOf
        <3>. QED  BY <3>1 DEF Shared
    <2>. QED  BY <2>1, <2>2
<1>. QED  BY <1>2, <1>3 DEF Shared, t

\* a place given a new content, and every place given one
LEMMA ReplaceFacts ==
    ASSUME NEW s \in Seq(Client), NEW k \in 1 .. Len(s), NEW c \in Client
    PROVE  /\ [s EXCEPT ![k] = c] \in Seq(Client)
           /\ Len([s EXCEPT ![k] = c]) = Len(s)
           /\ \A i \in 1 .. Len(s) :
                 [s EXCEPT ![k] = c][i] = IF i = k THEN c ELSE s[i]
OBVIOUS

LEMMA EveryPlaceFacts ==
    ASSUME NEW s \in Seq(Client), NEW t, t = [i \in 1 .. Len(s) |-> t[i]],
           \A i \in 1 .. Len(s) : t[i] \in Client
    PROVE  t \in Seq(Client) /\ Len(t) = Len(s)
<1>1. Len(s) \in Nat /\ t \in [1 .. Len(s) -> Client]
    BY ArrayFacts
<1>. QED  BY <1>1, FunctionIsArray

-----------------------------------------------------------------------------
(* One client: sends change neither who it is nor what it is owed          *)

LEMMA FlushFacts ==
    ASSUME NEW c \in Client, NEW outcome
    PROVE  /\ Flushed(c, outcome) \in Client
           /\ Flushed(c, outcome).conn = c.conn
           /\ Flushed(c, outcome).peer = c.peer
           /\ Flushed(c, outcome).owed = c.owed
           /\ Flushed(c, outcome).based = c.based
BY DEF Flushed, Client

LEMMA OfferFacts ==
    ASSUME NEW c \in Client, NEW fits \in BOOLEAN, row \in BOOLEAN
    PROVE  /\ Offered(c, fits) \in Client
           /\ Offered(c, fits).conn = c.conn
           /\ Offered(c, fits).peer = c.peer
           /\ Offered(c, fits).owed = FALSE
           /\ Offered(c, fits).based = (c.based \/ row)
BY DEF Offered, Client

-----------------------------------------------------------------------------
(* What the two walks do at the place they have come to                    *)

\* what every step of a walk but its last leaves alone
Walking ==
    /\ walk \in {"tick", "emit"} /\ at \in 1 .. Len(slots)
    /\ UNCHANGED <<listening, walk, row, accepted, owes, cached>>

LEMMA CloseKeeps ==
    ASSUME SocketInv, Walking, Close(at) PROVE SocketInv'
<1>1. /\ slots \in Seq(Client) /\ Len(slots) \in Nat /\ at \in Nat \ {0}
      /\ Shared(slots) /\ Distinct(slots)
      /\ slots' = DropAt(slots, at) /\ at' = at /\ at \in 1 .. Len(slots)
    BY ArrayFacts DEF SocketInv, SocketTypes, Close, Walking
<1>2. /\ slots' \in Seq(Client) /\ Len(slots') = Len(slots) - 1
      /\ \A j \in 1 .. Len(slots) - 1 :
            slots'[j] = IF j = at THEN slots[Len(slots)] ELSE slots[j]
    BY <1>1, DropFacts
<1>3. Shared(slots)' /\ Distinct(slots)'
    BY <1>1, DropShares DEF Shared, Distinct, PlacesOf
<1>4. SocketTypes'
    BY <1>1, <1>2 DEF SocketInv, SocketTypes, Walking, Close
<1>5. Quiet'
    BY <1>1 DEF SocketInv, Quiet, Walking
<1>6. OfferedBehind'
    BY <1>1, <1>2 DEF SocketInv, OfferedBehind, Walking
<1>7. Baseline'
    BY <1>1, <1>2 DEF SocketInv, Baseline, Walking
<1>. QED  BY <1>3, <1>4, <1>5, <1>6, <1>7 DEF SocketInv

LEMMA PassKeeps ==
    ASSUME SocketInv, Walking, NEW c \in Client,
           c.conn = slots[at].conn, c.peer = slots[at].peer,
           ~ c.owed, slots[at].based => c.based,
           walk = "emit" /\ row => c.based,
           slots' = [slots EXCEPT ![at] = c], at' = at + 1, UNCHANGED stuck
    PROVE  SocketInv'
<1>1. /\ slots \in Seq(Client) /\ Len(slots) \in Nat /\ at \in Nat \ {0}
      /\ Shared(slots) /\ Distinct(slots) /\ at \in 1 .. Len(slots)
    BY ArrayFacts DEF SocketInv, SocketTypes, Walking
<1>2. /\ slots' \in Seq(Client) /\ Len(slots') = Len(slots)
      /\ \A i \in 1 .. Len(slots) :
            slots'[i] = IF i = at THEN c ELSE slots[i]
    BY <1>1, ReplaceFacts
<1>3. Shared(slots') /\ Distinct(slots')
    BY <1>1, <1>2, SameShares
<1>4. SocketTypes'
    BY <1>1, <1>2 DEF SocketInv, SocketTypes, Walking
<1>5. Quiet'
    BY <1>1 DEF SocketInv, Quiet, Walking
<1>6. OfferedBehind'
    BY <1>1, <1>2 DEF SocketInv, OfferedBehind, Walking
<1>7. Baseline'
    BY <1>1, <1>2 DEF SocketInv, Baseline, Walking
<1>. QED  BY <1>3, <1>4, <1>5, <1>6, <1>7 DEF SocketInv, Shared, Distinct, PlacesOf

LEMMA TickClientKeeps == ASSUME SocketInv, TickClient PROVE SocketInv'
<1>1. /\ Walking /\ walk = "tick" /\ slots[at] \in Client /\ ~ slots[at].owed
    BY ArrayFacts DEF SocketInv, SocketTypes, OfferedBehind, Walking, TickClient
<1>2. PICK outcome \in Outcomes(slots[at]) :
         \/ Close(at)
         \/ /\ slots' = [slots EXCEPT ![at] = Flushed(slots[at], outcome)]
            /\ at' = at + 1 /\ UNCHANGED stuck
    BY Zenon DEF TickClient
<1>3. CASE Close(at)
    BY <1>1, <1>3, CloseKeeps
<1>4. CASE ~ Close(at)
    <2> DEFINE c == Flushed(slots[at], outcome)
    <2>1. /\ c \in Client /\ c.conn = slots[at].conn
          /\ c.peer = slots[at].peer
          /\ c.owed = slots[at].owed /\ c.based = slots[at].based
        BY <1>1, FlushFacts, Zenon
    <2> HIDE DEF c
    <2>2. /\ slots' = [slots EXCEPT ![at] = c]
          /\ at' = at + 1 /\ UNCHANGED stuck
        BY <1>2, <1>4 DEF c
    <2>. QED  BY <1>1, <2>1, <2>2, PassKeeps
<1>. QED  BY <1>3, <1>4

LEMMA EmitClientKeeps == ASSUME SocketInv, EmitClient PROVE SocketInv'
<1>1. /\ Walking /\ walk = "emit" /\ slots[at] \in Client /\ row \in BOOLEAN
    BY ArrayFacts DEF SocketInv, SocketTypes, Walking, EmitClient, poll
<1>2. CASE Close(at)
    BY <1>1, <1>2, CloseKeeps
<1>3. CASE ~ Close(at)
    <2>1. PICK outcome \in Outcomes(slots[at]), fits \in BOOLEAN :
             \E then \in Outcomes(Offered(Flushed(slots[at], outcome), fits)) :
                /\ slots' = [slots EXCEPT ![at] =
                      Flushed(Offered(Flushed(slots[at], outcome), fits), then)]
                /\ at' = at + 1 /\ UNCHANGED stuck
        BY <1>3, Zenon DEF EmitClient
    <2> DEFINE f == Flushed(slots[at], outcome)
               o == Offered(f, fits)
    <2>2. PICK then \in Outcomes(o) :
             /\ slots' = [slots EXCEPT ![at] = Flushed(o, then)]
             /\ at' = at + 1 /\ UNCHANGED stuck
        BY <2>1
    <2> DEFINE c == Flushed(o, then)
    <2>3. /\ f \in Client /\ f.conn = slots[at].conn /\ f.peer = slots[at].peer
          /\ f.based = slots[at].based
        BY <1>1, FlushFacts, Zenon
    <2> HIDE DEF f
    <2>4. /\ o \in Client /\ o.conn = f.conn /\ o.peer = f.peer
          /\ o.owed = FALSE /\ o.based = (f.based \/ row)
        BY <1>1, <2>3, OfferFacts, Zenon
    <2> HIDE DEF o
    <2>5. /\ c \in Client /\ c.conn = o.conn /\ c.peer = o.peer
          /\ c.owed = o.owed /\ c.based = o.based
        BY <2>4, FlushFacts, Zenon
    <2>6. slots' = [slots EXCEPT ![at] = c]
        BY <2>2
    <2> HIDE DEF c
    <2>7. ~ c.owed /\ (slots[at].based => c.based) /\ (walk = "emit" /\ row => c.based)
        BY <2>3, <2>4, <2>5, Zenon
    <2>. QED  BY <1>1, <2>2, <2>3, <2>4, <2>5, <2>6, <2>7, PassKeeps
<1>. QED  BY <1>2, <1>3

-----------------------------------------------------------------------------
(* The steps that give the whole array a new content                       *)

LEMMA AcceptKeeps ==
    ASSUME SocketInv, NEW n \in Conns, NEW p \in Peers, Accept(n, p)
    PROVE  SocketInv'
<1> DEFINE c == NewClient(n, p)
<1>1. /\ slots \in Seq(Client) /\ Len(slots) \in Nat
      /\ c \in Client /\ c.conn = n /\ c.peer = p /\ ~ c.owed
    BY ArrayFacts DEF SocketInv, SocketTypes, NewClient, Client
<1>2. slots' = Append(slots, c)
    BY DEF Accept
<1> HIDE DEF c
<1>3. Cardinality(PlacesOf(slots, c.peer)) < PeerCap
    BY <1>1 DEF Accept, Held, PlacesOf
<1>4. \A i \in 1 .. Len(slots) : slots[i].conn # c.conn
    BY <1>1 DEF Accept, Connected
<1>5. Shared(slots') /\ Distinct(slots')
    BY <1>1, <1>2, <1>3, <1>4, AppendShares DEF SocketInv
<1>6. /\ slots' \in Seq(Client) /\ Len(slots') = Len(slots) + 1
      /\ \A i \in 1 .. Len(slots) : slots'[i] = slots[i]
      /\ slots'[Len(slots) + 1] = c
    BY <1>1, <1>2
<1>7. SocketTypes'
    BY <1>6 DEF SocketInv, SocketTypes, Accept
<1>8. Quiet'
    BY DEF SocketInv, SocketTypes, Quiet, Accept
<1>9. OfferedBehind'
    BY <1>1, <1>6 DEF SocketInv, OfferedBehind, Accept
<1>10. Baseline'
    BY DEF Baseline, Accept
<1>. QED  BY <1>5, <1>7, <1>8, <1>9, <1>10 DEF SocketInv, Shared, Distinct, PlacesOf

LEMMA BeginEmitKeeps ==
    ASSUME SocketInv, NEW steady \in BOOLEAN, BeginEmit(steady),
           UNCHANGED <<accepted, owes>>, cached' \in BOOLEAN,
           ~ steady => cached' = cached
    PROVE  SocketInv'
<1>1. slots \in Seq(Client) /\ Len(slots) \in Nat
      /\ \A i \in 1 .. Len(slots) : slots[i] \in Client
    BY ArrayFacts DEF SocketInv, SocketTypes
<1>2. /\ slots' = [i \in 1 .. Len(slots) |-> slots'[i]]
      /\ \A i \in 1 .. Len(slots) :
            /\ slots'[i] \in Client /\ slots'[i].owed
            /\ slots'[i].conn = slots[i].conn /\ slots'[i].peer = slots[i].peer
            /\ slots'[i].based = slots[i].based
    BY <1>1 DEF BeginEmit, Client
<1>3. slots' \in Seq(Client) /\ Len(slots') = Len(slots)
    BY <1>1, <1>2, EveryPlaceFacts
<1>4. Shared(slots') /\ Distinct(slots')
    BY <1>1, <1>2, <1>3, SameShares DEF SocketInv
<1>5. SocketTypes'
    BY <1>3 DEF SocketInv, SocketTypes, BeginEmit
<1>6. Quiet'
    BY DEF Quiet, BeginEmit
<1>7. OfferedBehind'
    BY <1>3 DEF OfferedBehind, BeginEmit
<1>8. Baseline'
    <2>1. CASE steady
        BY <1>2, <1>3, <2>1 DEF Baseline, BeginEmit
    <2>2. CASE ~ steady
        BY <1>2, <1>3, <2>2 DEF SocketInv, Baseline, BeginEmit
    <2>. QED  BY <2>1, <2>2
<1>. QED  BY <1>4, <1>5, <1>6, <1>7, <1>8 DEF SocketInv, Shared, Distinct, PlacesOf

LEMMA SnapshotRowKeeps == ASSUME SocketInv, SnapshotRow PROVE SocketInv'
<1>1. CASE BeginEmit(TRUE)
    BY <1>1, BeginEmitKeeps DEF SnapshotRow
<1>2. CASE ~ BeginEmit(TRUE)
    <2>1. /\ ~ listening /\ cached' = TRUE
          /\ UNCHANGED <<listening, slots, stuck, walk, at, row, accepted, owes>>
        BY <1>2 DEF SnapshotRow
    <2>2. slots = <<>> /\ Len(slots) = 0
        BY <2>1 DEF SocketInv, Quiet
    <2>3. Shared(slots)' /\ Distinct(slots)'
        BY <2>1 DEF SocketInv, Shared, Distinct, PlacesOf
    <2>4. SocketTypes'
        BY <2>1 DEF SocketInv, SocketTypes
    <2>5. Quiet' /\ OfferedBehind' /\ Baseline'
        BY <2>1, <2>2 DEF SocketInv, Quiet, OfferedBehind, Baseline
    <2>. QED  BY <2>3, <2>4, <2>5 DEF SocketInv
<1>. QED  BY <1>1, <1>2

LEMMA ElapseKeeps == ASSUME SocketInv, Elapse PROVE SocketInv'
<1>1. slots \in Seq(Client) /\ Len(slots) \in Nat
      /\ \A i \in 1 .. Len(slots) : slots[i] \in Client
    BY ArrayFacts DEF SocketInv, SocketTypes
<1>2. /\ slots' = [i \in 1 .. Len(slots) |-> slots'[i]]
      /\ \A i \in 1 .. Len(slots) :
            /\ slots'[i] \in Client /\ slots'[i].owed = slots[i].owed
            /\ slots'[i].conn = slots[i].conn /\ slots'[i].peer = slots[i].peer
            /\ slots'[i].based = slots[i].based
    <2> DEFINE Aged(c) == [c EXCEPT !.age = IF @ < MaxAge THEN @ + 1 ELSE @]
    <2>1. ASSUME NEW c \in Client
          PROVE  /\ Aged(c) \in Client
                 /\ Aged(c).conn = c.conn /\ Aged(c).peer = c.peer
                 /\ Aged(c).owed = c.owed /\ Aged(c).based = c.based
        BY <2>1 DEF Client
    <2>2. slots' = [i \in 1 .. Len(slots) |-> Aged(slots[i])]
        BY DEF Elapse
    <2> HIDE DEF Aged
    <2>. QED  BY <1>1, <2>1, <2>2
<1>3. slots' \in Seq(Client) /\ Len(slots') = Len(slots)
    BY <1>1, <1>2, EveryPlaceFacts
<1>4. Shared(slots') /\ Distinct(slots')
    BY <1>1, <1>2, <1>3, SameShares DEF SocketInv
<1>5. SocketTypes'
    BY <1>3 DEF SocketInv, SocketTypes, Elapse, poll
<1>6. Quiet'
    BY <1>1, <1>3 DEF SocketInv, Quiet, Elapse, poll
<1>7. OfferedBehind'
    BY <1>2, <1>3 DEF SocketInv, OfferedBehind, Elapse, poll
<1>8. Baseline'
    BY <1>2, <1>3 DEF SocketInv, Baseline, Elapse, poll
<1>. QED  BY <1>4, <1>5, <1>6, <1>7, <1>8 DEF SocketInv, Shared, Distinct, PlacesOf

LEMMA CleanupKeeps == ASSUME SocketInv, Cleanup PROVE SocketInv'
<1>1. slots' = <<>> /\ Len(slots') = 0
    BY DEF Cleanup
<1>2. \A p \in Peers : PlacesOf(slots', p) = {}
    BY <1>1 DEF PlacesOf
<1>3. Shared(slots') /\ Distinct(slots')
    BY <1>1, <1>2, FS_EmptySet, SocketAssumption DEF Shared, Distinct
<1>4. SocketTypes'
    <2>1. /\ <<>> \in Seq(Client) /\ {} \in SUBSET Conns
        OBVIOUS
    <2>2. slots' \in Seq(Client) /\ stuck' \in SUBSET Conns
        BY <2>1, Zenon DEF Cleanup
    <2>3. listening' \in BOOLEAN
        BY DEF Cleanup
    <2>. QED  BY <2>2, <2>3 DEF SocketInv, SocketTypes, Cleanup, poll
<1>5. Quiet' /\ OfferedBehind' /\ Baseline'
    BY <1>1 DEF SocketInv, Quiet, OfferedBehind, Baseline, Cleanup, poll
<1>. QED  BY <1>3, <1>4, <1>5 DEF SocketInv, Shared, Distinct, PlacesOf

-----------------------------------------------------------------------------
(* The specification                                                       *)

LEMMA SocketInit == Init => SocketInv
<1> SUFFICES ASSUME Init PROVE SocketInv
    OBVIOUS
<1>1. slots = <<>> /\ Len(slots) = 0 /\ \A p \in Peers : PlacesOf(slots, p) = {}
    BY DEF Init, PlacesOf
<1>2. Shared(slots) /\ Distinct(slots)
    BY <1>1, FS_EmptySet, SocketAssumption DEF Shared, Distinct
<1>3. SocketTypes
    <2>1. slots \in Seq(Client) /\ stuck \in SUBSET Conns
        BY DEF Init
    <2>2. walk \in {"none", "accept", "tick", "emit"} /\ at \in Nat \ {0}
        BY DEF Init
    <2>3. /\ listening \in BOOLEAN /\ row \in BOOLEAN
          /\ accepted \in BOOLEAN /\ owes \in BOOLEAN /\ cached \in BOOLEAN
        BY Zenon DEF Init
    <2>. QED  BY <2>1, <2>2, <2>3 DEF SocketTypes
<1>. QED  BY <1>1, <1>2, <1>3 DEF Init, SocketInv, Quiet, OfferedBehind, Baseline

\* the steps that leave the clients as they are
LEMMA OtherStepsKeep ==
    ASSUME SocketInv,
           \/ BeginTick \/ EndAccept \/ EndTick \/ DedupReset \/ EndEmit
           \/ Listen \/ (\E c \in Conns : PeerStops(c)) \/ UNCHANGED vars
    PROVE  SocketInv'
<1>1. /\ slots \in Seq(Client) /\ Len(slots) \in Nat /\ slots' = slots
      /\ at \in Nat \ {0}
    BY ArrayFacts DEF SocketInv, SocketTypes, BeginTick, EndAccept, EndTick,
       DedupReset, EndEmit, Listen, PeerStops, vars
<1>2. Shared(slots)' /\ Distinct(slots)'
    BY <1>1 DEF SocketInv, Shared, Distinct, PlacesOf
<1>3. SocketTypes' /\ Quiet'
    <2>1. CASE BeginTick
        BY <1>1, <2>1 DEF SocketInv, SocketTypes, Quiet, BeginTick
    <2>2. CASE EndAccept
        BY <1>1, <2>2 DEF SocketInv, SocketTypes, Quiet, EndAccept
    <2>3. CASE EndTick
        BY <1>1, <2>3 DEF SocketInv, SocketTypes, Quiet, EndTick
    <2>4. CASE DedupReset \/ EndEmit
        BY <1>1, <2>4 DEF SocketInv, SocketTypes, Quiet, DedupReset, EndEmit, poll
    <2>5. CASE Listen
        BY <1>1, <2>5 DEF SocketInv, SocketTypes, Quiet, Listen, poll
    <2>6. CASE \E c \in Conns : PeerStops(c)
        BY <1>1, <2>6 DEF SocketInv, SocketTypes, Quiet, PeerStops, poll
    <2>7. CASE UNCHANGED vars
        BY <2>7 DEF SocketInv, SocketTypes, Quiet, vars
    <2>. QED  BY <2>1, <2>2, <2>3, <2>4, <2>5, <2>6, <2>7
<1>4. OfferedBehind'
    BY <1>1 DEF SocketInv, OfferedBehind, BeginTick, EndAccept, EndTick,
       DedupReset, EndEmit, Listen, PeerStops, vars, poll
<1>5. Baseline'
    <2>1. CASE BeginTick \/ EndAccept
        BY <1>1, <2>1 DEF SocketInv, Baseline, BeginTick, EndAccept
    <2>2. CASE EndTick \/ DedupReset
        BY <1>1, <2>2 DEF SocketInv, SocketTypes, Quiet, Baseline, EndTick,
           DedupReset
    <2>3. CASE EndEmit
        BY <1>1, <2>3 DEF SocketInv, Baseline, OfferedBehind, EndEmit, poll
    <2>4. CASE Listen
        BY <1>1, <2>4 DEF SocketInv, Baseline, Listen, poll
    <2>5. CASE \E c \in Conns : PeerStops(c)
        BY <1>1, <2>5 DEF SocketInv, Baseline, PeerStops, poll
    <2>6. CASE UNCHANGED vars
        BY <2>6 DEF SocketInv, Baseline, vars
    <2>. QED  BY <2>1, <2>2, <2>3, <2>4, <2>5, <2>6
<1>. QED  BY <1>2, <1>3, <1>4, <1>5 DEF SocketInv

LEMMA SocketStep == SocketInv /\ [Next]_vars => SocketInv'
<1> SUFFICES ASSUME SocketInv, [Next]_vars PROVE SocketInv'
    OBVIOUS
<1>1. CASE TickClient
    BY <1>1, TickClientKeeps
<1>2. CASE EmitClient
    BY <1>2, EmitClientKeeps
<1>3. ASSUME NEW c \in Conns, NEW p \in Peers, Accept(c, p) PROVE SocketInv'
    BY <1>3, AcceptKeeps
<1>4. CASE EmitRecord
    <2>1. cached \in BOOLEAN
        BY DEF SocketInv, SocketTypes
    <2>. QED  BY <1>4, <2>1, BeginEmitKeeps DEF EmitRecord, poll
<1>5. CASE SnapshotRow
    BY <1>5, SnapshotRowKeeps
<1>6. CASE Elapse
    BY <1>6, ElapseKeeps
<1>7. CASE Cleanup
    BY <1>7, CleanupKeeps
<1>. QED  BY <1>1, <1>2, <1>3, <1>4, <1>5, <1>6, <1>7, OtherStepsKeep, Zenon
          DEF Next

LEMMA SocketInvHolds == Spec => []SocketInv
BY SocketInit, SocketStep, PTL DEF Spec

\* No peer gets past its cap and no connection into two slots: the cap is
\* checked where a slot is given out, and a swap of the last client into a
\* freed place moves a client without counting it twice (peer_slots() and
\* drop_client() in src/data_socket.c).
THEOREM SlotsStayShared == Spec => []SlotsAreShared
<1>1. SocketInv => SlotsAreShared
    BY DEF SocketInv, Shared, Distinct, PlacesOf, SlotsAreShared, Held
<1>. QED  BY <1>1, SocketInvHolds, PTL

\* Whatever is dropped during the walk of data_socket_emit(), each client is
\* offered the record: the walk stays at a place it has just refilled.
THEOREM EveryClientOffered == Spec => []EveryClientIsOffered
<1>1. SocketInv => EveryClientIsOffered
    BY DEF SocketInv, OfferedBehind, EveryClientIsOffered
<1>. QED  BY <1>1, SocketInvHolds, PTL

\* A steady row is suppressed only while each client has been offered it: the
\* accept of a client and the jsonl_dedup_reset() that follows its tick leave
\* no walk of a steady row between them (data_socket_tick()).
THEOREM BaselineReaches == Spec => []BaselineReachesAll
<1>1. SocketInv => BaselineReachesAll
    BY DEF SocketInv, Baseline, BaselineReachesAll
<1>. QED  BY <1>1, SocketInvHolds, PTL
=============================================================================
