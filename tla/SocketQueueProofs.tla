-------------------------- MODULE SocketQueueProofs --------------------------
(***************************************************************************)
(* The send queue for every queue size, record size and stream length.     *)
(*                                                                         *)
(* For NoSilentGap and ImplementsFeed the counters and the queue are       *)
(* enough: what the buffer does with the bytes plays no part, so a full    *)
(* queue and a failed realloc are one case, a lost record.  The bounds of  *)
(* the buffer and what it holds are proved after them.                     *)
(***************************************************************************)
EXTENDS SocketQueue, WellFoundedInduction, TLAPS

Item == [num : Nat, dropped : Nat, size : Nat \ {0}]

Counts ==
    /\ items \in Seq(Item)
    /\ seq \in Nat /\ gap \in Nat
    /\ offered \in Nat /\ got \in Nat /\ told \in Nat /\ newest \in Nat

-----------------------------------------------------------------------------
(* NoSilentGap taken apart, for any queue q and any count c of a consumer   *)
(* that has received none of it                                            *)

Step(item) == IF IsMarker(item) THEN item.dropped ELSE 1
Prior(q, c, i) == IF i = 1 THEN c ELSE q[i - 1].num
Linked(q, c) == \A i \in 1 .. Len(q) : q[i].num = Prior(q, c, i) + Step(q[i])
Followed(q) ==
    \A i \in 1 .. Len(q) :
       IsMarker(q[i]) => i < Len(q) /\ ~ IsMarker(q[i + 1])
\* no number is ahead of the n records offered, and a marker's is behind it
Bounded(q, n) ==
    \A i \in 1 .. Len(q) :
       /\ q[i].num <= n
       /\ IsMarker(q[i]) => q[i].num < n

Chain ==
    /\ seq = offered
    /\ Linked(items, got + told)
    /\ Followed(items)
    /\ Prior(items, got + told, Len(items) + 1) = seq - gap

Inv == Counts /\ Chain /\ Bounded(items, offered)

LEMMA ChainIsNoSilentGap == Chain <=> NoSilentGap
  BY DEF Chain, NoSilentGap, Linked, Followed, Prior, Step, Before

LEMMA AppendFacts ==
    ASSUME NEW S, NEW s \in Seq(S), NEW e \in S
    PROVE  /\ Append(s, e) \in Seq(S)
           /\ Len(s) \in Nat /\ Len(Append(s, e)) = Len(s) + 1
           /\ \A i \in 1 .. Len(s) : Append(s, e)[i] = s[i] /\ s[i] \in S
           /\ Append(s, e)[Len(s) + 1] = e
  OBVIOUS

LEMMA TailFacts ==
    ASSUME NEW S, NEW s \in Seq(S), s # <<>>
    PROVE  /\ Tail(s) \in Seq(S) /\ Len(s) \in Nat /\ Len(s) > 0
           /\ Len(Tail(s)) = Len(s) - 1
           /\ \A i \in 1 .. Len(s) - 1 : Tail(s)[i] = s[i + 1]
           /\ \A i \in 1 .. Len(s) : s[i] \in S
           /\ Head(s) = s[1]
  OBVIOUS

\* an item numbered after the last one goes behind it
LEMMA LinkAppend ==
    ASSUME NEW q \in Seq(Item), NEW c \in Nat, NEW e \in Item, Linked(q, c),
           e.num = Prior(q, c, Len(q) + 1) + Step(e)
    PROVE  /\ Linked(Append(q, e), c)
           /\ Prior(Append(q, e), c, Len(q) + 2) = e.num
<1> DEFINE r == Append(q, e)
<1>1. /\ r \in Seq(Item) /\ Len(q) \in Nat /\ Len(r) = Len(q) + 1
      /\ \A i \in 1 .. Len(q) : r[i] = q[i] /\ q[i] \in Item
      /\ r[Len(q) + 1] = e
  BY AppendFacts
<1> HIDE DEF r
<1>2. \A i \in 1 .. Len(q) + 1 : Prior(r, c, i) = Prior(q, c, i)
  BY <1>1 DEF Prior
<1>3. Linked(r, c)
  <2>1. SUFFICES ASSUME NEW i \in 1 .. Len(r)
                 PROVE  r[i].num = Prior(r, c, i) + Step(r[i])
    BY DEF Linked
  <2>2. CASE i = Len(q) + 1 BY <2>2, <1>1, <1>2
  <2>3. CASE i \in 1 .. Len(q) BY <2>3, <1>1, <1>2 DEF Linked
  <2> QED BY <2>2, <2>3, <1>1
<1>4. Prior(r, c, Len(q) + 2) = e.num
  BY <1>1 DEF Prior
<1> QED BY <1>3, <1>4 DEF r

LEMMA BoundAppend ==
    ASSUME NEW q \in Seq(Item), NEW n \in Nat, NEW m \in Nat, n <= m,
           NEW e \in Item, Bounded(q, n),
           e.num <= m, IsMarker(e) => e.num < m
    PROVE  Bounded(Append(q, e), m)
<1>1. SUFFICES ASSUME NEW i \in 1 .. Len(Append(q, e))
      PROVE  /\ Append(q, e)[i].num <= m
             /\ IsMarker(Append(q, e)[i]) => Append(q, e)[i].num < m
  BY DEF Bounded
<1>2. CASE i = Len(q) + 1
  BY <1>2, AppendFacts
<1>3. CASE i \in 1 .. Len(q)
  <2>1. Append(q, e)[i] = q[i] /\ q[i] \in Item
    BY <1>3, AppendFacts
  <2>2. q[i].num \in Nat BY <2>1 DEF Item
  <2> QED BY <1>3, <2>1, <2>2 DEF Bounded
<1> QED BY <1>2, <1>3, AppendFacts

-----------------------------------------------------------------------------
(* The steps                                                               *)

LEMMA RecFacts ==
    ASSUME Counts, NEW n \in Sizes
    PROVE  /\ Rec(n) \in Item /\ Rec(n).num = offered + 1
           /\ ~ IsMarker(Rec(n)) /\ Step(Rec(n)) = 1
  BY QueueAssumption DEF Rec, Item, IsMarker, Counts, Step

LEMMA MarkerFacts ==
    ASSUME Counts, gap > 0
    PROVE  /\ Marker \in Item /\ Marker.num = seq
           /\ IsMarker(Marker) /\ Step(Marker) = gap
  BY QueueAssumption DEF Marker, Item, IsMarker, Counts, Step

LEMMA RecordStep ==
    ASSUME Inv, NEW n \in Sizes, OfferRecord(n)
    PROVE  Inv'
<1>1. /\ items' = Append(items, Rec(n)) /\ items \in Seq(Item) /\ Rec(n) \in Item
      /\ offered' = offered + 1 /\ seq' = seq + 1 /\ gap' = 0 /\ gap = 0
      /\ got' = got /\ told' = told /\ newest' = newest
      /\ offered \in Nat /\ got + told \in Nat /\ seq \in Nat
  BY RecFacts DEF Inv, Counts, OfferRecord, Queued
<1>2. /\ items' \in Seq(Item) /\ Len(items') = Len(items) + 1 /\ Len(items) \in Nat
      /\ \A i \in 1 .. Len(items) : items'[i] = items[i]
      /\ items'[Len(items) + 1] = Rec(n)
  BY <1>1, AppendFacts
<1>3. Counts'
  BY <1>1, <1>2 DEF Inv, Counts
<1>4. /\ Linked(items', got + told)
      /\ Prior(items', got + told, Len(items) + 2) = offered + 1
  <2>1. Rec(n).num = Prior(items, got + told, Len(items) + 1) + Step(Rec(n))
    BY <1>1, RecFacts DEF Inv, Chain
  <2> QED BY <2>1, <1>1, LinkAppend, RecFacts DEF Inv, Chain
<1>5. Followed(items')
  BY <1>2, RecFacts DEF Inv, Chain, Followed
<1>6. Chain'
  BY <1>1, <1>2, <1>4, <1>5 DEF Inv, Chain
<1>7. Bounded(items', offered + 1)
  BY <1>1, BoundAppend, RecFacts DEF Inv
<1> QED BY <1>1, <1>3, <1>6, <1>7 DEF Inv

LEMMA MarkedStep ==
    ASSUME Inv, NEW n \in Sizes, OfferMarked(n)
    PROVE  Inv'
<1> DEFINE q == Append(items, Marker)
<1>1. /\ items' = Append(q, Rec(n)) /\ items \in Seq(Item)
      /\ Rec(n) \in Item /\ Marker \in Item
      /\ offered' = offered + 1 /\ seq' = seq + 1 /\ gap' = 0 /\ gap > 0
      /\ got' = got /\ told' = told /\ newest' = newest
      /\ offered \in Nat /\ got + told \in Nat /\ seq \in Nat /\ gap \in Nat
  BY RecFacts, MarkerFacts DEF Inv, Counts, OfferMarked, Queued
<1>2. /\ q \in Seq(Item) /\ Len(q) = Len(items) + 1 /\ Len(items) \in Nat
      /\ \A i \in 1 .. Len(items) : q[i] = items[i]
      /\ q[Len(items) + 1] = Marker
  BY <1>1, AppendFacts
<1>3. /\ Linked(q, got + told)
      /\ Prior(q, got + told, Len(items) + 2) = seq
  <2>1. Marker.num = Prior(items, got + told, Len(items) + 1) + Step(Marker)
    BY <1>1, MarkerFacts DEF Inv, Chain
  <2> QED BY <2>1, <1>1, LinkAppend, MarkerFacts DEF Inv, Chain
<1>4. Bounded(q, offered + 1)
  BY <1>1, BoundAppend, MarkerFacts DEF Inv, Chain
<1> HIDE DEF q
<1>5. /\ items' \in Seq(Item) /\ Len(items') = Len(items) + 2
      /\ \A i \in 1 .. Len(items) + 1 : items'[i] = q[i]
      /\ items'[Len(items) + 2] = Rec(n)
  BY <1>1, <1>2, AppendFacts
<1>6. Counts'
  BY <1>1, <1>5 DEF Inv, Counts
<1>7. /\ Linked(items', got + told)
      /\ Prior(items', got + told, Len(items) + 3) = offered + 1
  <2>1. Rec(n).num = Prior(q, got + told, Len(q) + 1) + Step(Rec(n))
    BY <1>1, <1>2, <1>3, RecFacts DEF Inv, Chain
  <2> QED BY <2>1, <1>1, <1>2, <1>3, LinkAppend, RecFacts DEF Inv
<1>8. Followed(items')
  <2>1. SUFFICES ASSUME NEW i \in 1 .. Len(items'), IsMarker(items'[i])
                 PROVE  i < Len(items') /\ ~ IsMarker(items'[i + 1])
    BY DEF Followed
  <2>2. CASE i = Len(items) + 2
    BY <2>1, <2>2, <1>5, RecFacts DEF Inv
  <2>3. CASE i = Len(items) + 1
    BY <2>3, <1>2, <1>5, RecFacts DEF Inv
  <2>4. CASE i \in 1 .. Len(items)
    <3>1. IsMarker(items[i]) BY <2>1, <2>4, <1>2, <1>5
    <3>2. i < Len(items) /\ ~ IsMarker(items[i + 1])
      BY <3>1, <2>4 DEF Inv, Chain, Followed
    <3> QED BY <3>2, <2>4, <1>2, <1>5
  <2> QED BY <2>2, <2>3, <2>4, <1>5, <1>2
<1>9. Chain'
  BY <1>1, <1>2, <1>5, <1>7, <1>8 DEF Inv, Chain
<1>10. Bounded(items', offered + 1)
  BY <1>1, <1>2, <1>4, BoundAppend, RecFacts DEF Inv
<1> QED BY <1>1, <1>6, <1>9, <1>10 DEF Inv

LEMMA LostStep ==
    ASSUME Inv, Lost
    PROVE  Inv'
<1>1. /\ items' = items /\ items \in Seq(Item)
      /\ offered' = offered + 1 /\ seq' = seq + 1 /\ gap' = gap + 1
      /\ got' = got /\ told' = told /\ newest' = newest
  BY DEF Inv, Counts, Lost
<1>2. Counts' BY <1>1 DEF Inv, Counts
<1>3. Chain' BY <1>1 DEF Inv, Counts, Chain
<1>4. Bounded(items', offered')
  <2>1. \A i \in 1 .. Len(items) : items[i] \in Item
    BY <1>1
  <2>2. \A i \in 1 .. Len(items) : items[i].num \in Nat
    BY <2>1 DEF Item
  <2> QED BY <1>1, <2>2 DEF Inv, Counts, Bounded
<1> QED BY <1>2, <1>3, <1>4 DEF Inv

\* what a consumer hears next, and what is left
LEMMA ReceiveStep ==
    ASSUME Inv, items # <<>>, Received(Head(items)), items' = Tail(items),
           UNCHANGED <<seq, gap, offered>>
    PROVE  /\ Inv'
           /\ \/ Feed!Hear
              \/ \E k \in 1 .. offered : Feed!Miss(k)
<1> DEFINE h == items[1]
<1>1. /\ items \in Seq(Item) /\ items' \in Seq(Item)
      /\ Len(items) \in Nat /\ Len(items) > 0 /\ Len(items') = Len(items) - 1
      /\ \A i \in 1 .. Len(items) - 1 : items'[i] = items[i + 1]
      /\ h \in Item /\ Head(items) = h
  BY TailFacts DEF Inv, Counts
<1>2. h.num \in Nat /\ h.dropped \in Nat /\ got \in Nat /\ told \in Nat /\ newest \in Nat
      /\ offered \in Nat /\ gap \in Nat /\ seq \in Nat
  BY <1>1 DEF Item, Inv, Counts
<1>3. /\ h.num = got + told + Step(h)
      /\ h.num <= offered
      /\ IsMarker(h) => h.num < offered
  BY <1>1 DEF Inv, Chain, Linked, Prior, Bounded
<1>4. /\ got' + told' = h.num
      /\ got' \in Nat /\ told' \in Nat /\ newest' \in Nat
  <2>1. CASE IsMarker(h)
    BY <2>1, <1>1, <1>2, <1>3 DEF Received, Step
  <2>2. CASE ~ IsMarker(h)
    BY <2>2, <1>1, <1>2, <1>3 DEF Received, Step
  <2> QED BY <2>1, <2>2
<1>5. Counts'
  BY <1>1, <1>2, <1>4 DEF Counts
<1>6. \A i \in 1 .. Len(items) : Prior(items', h.num, i) = Prior(items, got + told, i + 1)
  BY <1>1 DEF Prior
<1>7. Linked(items', h.num)
  BY <1>1, <1>6 DEF Inv, Chain, Linked
<1>8. Followed(items')
  BY <1>1 DEF Inv, Chain, Followed
<1>9. Chain'
  BY <1>1, <1>4, <1>6, <1>7, <1>8 DEF Inv, Chain
<1>10. Bounded(items', offered)
  BY <1>1 DEF Inv, Bounded
<1>11. CASE IsMarker(h)
  <2>1. Feed!Miss(h.dropped)
    BY <1>1, <1>2, <1>3, <1>4, <1>11 DEF Feed!Miss, Received
  <2>2. h.dropped \in 1 .. offered
    BY <1>2, <1>3, <1>11 DEF Step, IsMarker
  <2> QED BY <2>1, <2>2, <1>5, <1>9, <1>10 DEF Inv
<1>12. CASE ~ IsMarker(h)
  <2>1. Feed!Hear
    BY <1>1, <1>2, <1>3, <1>4, <1>12 DEF Feed!Hear, Received, Step
  <2> QED BY <2>1, <1>5, <1>9, <1>10 DEF Inv
<1> QED BY <1>11, <1>12

-----------------------------------------------------------------------------
(* The theorems                                                            *)

LEMMA InvInit == Init => Inv
<1> SUFFICES ASSUME Init PROVE Inv
  OBVIOUS
<1>1. items = <<>> /\ Len(items) = 0 /\ items \in Seq(Item)
  BY DEF Init
<1> QED BY <1>1 DEF Init, Inv, Counts, Chain, Linked, Followed, Prior, Bounded

LEMMA InvStep == Inv /\ [Next]_vars => Inv' /\ [Feed!Next]_<<offered, got, told, newest>>
<1> SUFFICES ASSUME Inv, [Next]_vars
             PROVE  Inv' /\ [Feed!Next]_<<offered, got, told, newest>>
  OBVIOUS
<1>1. ASSUME NEW n \in Sizes, OfferRecord(n)
      PROVE  Inv' /\ Feed!Next
  BY <1>1, RecordStep DEF OfferRecord, Queued, Feed!Next, Feed!Offer
<1>2. ASSUME NEW n \in Sizes, OfferMarked(n)
      PROVE  Inv' /\ Feed!Next
  BY <1>2, MarkedStep DEF OfferMarked, Queued, Feed!Next, Feed!Offer
<1>3. ASSUME Lost
      PROVE  Inv' /\ Feed!Next
  BY <1>3, LostStep DEF Lost, Feed!Next, Feed!Offer
<1>4. CASE Offer
  BY <1>4, <1>1, <1>2, <1>3 DEF Offer, OfferFull, OfferNoMemory
<1>5. ASSUME NEW k \in 1 .. QueueMax, WriteSome(k)
      PROVE  Inv' /\ UNCHANGED <<offered, got, told, newest>>
  BY <1>5 DEF WriteSome, Inv, Counts, Chain
<1>6. CASE WriteRest
  BY <1>6, ReceiveStep DEF WriteRest, Feed!Next
<1>7. CASE Reconnect
  <2>1. Feed!Restart
    BY <1>7 DEF Reconnect, Feed!Restart
  <2>2. items' = <<>> /\ Len(items') = 0 /\ items' \in Seq(Item)
    BY <1>7 DEF Reconnect
  <2>3. Inv'
    BY <1>7, <2>2 DEF Reconnect, Inv, Counts, Chain, Linked, Followed, Prior, Bounded
  <2> QED BY <2>1, <2>3 DEF Feed!Next
<1>8. CASE UNCHANGED vars
  BY <1>8 DEF vars, Inv, Counts, Chain
<1> QED BY <1>4, <1>5, <1>6, <1>7, <1>8 DEF Next

\* No loss on a connection is silent (#93): what reaches the consumer, counted
\* together with the losses it is told of, is always the stream as offered.
THEOREM LossIsNeverSilent == Spec => []NoSilentGap
<1>1. Init => Inv BY InvInit
<1>2. Inv /\ [Next]_vars => Inv' BY InvStep
<1>3. Inv => NoSilentGap BY ChainIsNoSilentGap DEF Inv
<1> QED BY <1>1, <1>2, <1>3, PTL DEF Spec

\* The send queue implements the feed, whatever is dropped and whatever fails:
\* every record heard is the one the consumer's own count says it is (#93).
THEOREM QueueImplementsFeed == Spec => ImplementsFeed
<1>1. Init => Inv /\ Feed!Init BY InvInit DEF Init, Feed!Init
<1>2. Inv /\ [Next]_vars => Inv' /\ [Feed!Next]_<<offered, got, told, newest>>
  BY InvStep
<1> QED BY <1>1, <1>2, PTL DEF Spec, ImplementsFeed, Feed!Spec
-----------------------------------------------------------------------------
(***************************************************************************)
(* Sums and doublings are recursive functions: what they are is proved by  *)
(* induction, over the set of the arguments at which it holds.             *)
(***************************************************************************)

LEMMA LeastNat ==
    ASSUME NEW T \in SUBSET Nat, T # {}
    PROVE  \E m \in T : \A n \in T : m <= n
<1> DEFINE R == OpToRel(<, Nat)
<1>1. IsWellFoundedOn(R, Nat)
  BY NatLessThanWellFounded
<1>2. \A x, y \in Nat : y < x => <<y, x>> \in R
  BY DEF OpToRel
<1> HIDE DEF R
<1>3. PICK x \in T : \A y \in T : ~ (<<y, x>> \in R)
  BY <1>1, WFMin
<1>4. \A y \in T : x \in Nat /\ y \in Nat /\ ~ (y < x)
  BY <1>2, <1>3
<1> QED BY <1>4

LEMMA Induction ==
    ASSUME NEW T, 0 \in T, \A n \in Nat : n \in T => n + 1 \in T
    PROVE  \A n \in Nat : n \in T
<1> SUFFICES ASSUME NEW n \in Nat, n \notin T PROVE FALSE
  OBVIOUS
<1>1. PICK m \in Nat \ T : \A k \in Nat \ T : m <= k
  BY LeastNat
<1>2. m # 0 /\ m - 1 \in Nat /\ m - 1 \in T
  BY <1>1
<1> QED BY <1>1, <1>2

LEMMA ItemSized == \A x \in Item : x.size \in Nat
  BY DEF Item

AreEnds(e, q) ==
    e = [n \in 0 .. Len(q) |-> IF n = 0 THEN 0 ELSE e[n - 1] + q[n].size]

LEMMA EndsExist ==
    ASSUME NEW q \in Seq(Item) PROVE \E e : AreEnds(e, q)
<1> DEFINE Sums(e, n) ==
              e[0] = 0 /\ \A i \in 1 .. n : e[i] = e[i - 1] + q[i].size
           T == {n \in Nat : n <= Len(q) => \E e \in [0 .. n -> Nat] : Sums(e, n)}
<1>1. /\ Len(q) \in Nat
      /\ \A i \in 1 .. Len(q) : q[i] \in Item /\ q[i].size \in Nat
  BY ItemSized
<1>2. 0 \in T
  <2>1. [i \in 0 .. 0 |-> 0] \in [0 .. 0 -> Nat]
    OBVIOUS
  <2>2. Sums([i \in 0 .. 0 |-> 0], 0)
    OBVIOUS
  <2> QED BY <2>1, <2>2
<1>3. ASSUME NEW n \in Nat, n \in T PROVE n + 1 \in T
  <2>1. ASSUME n + 1 <= Len(q)
        PROVE  \E e \in [0 .. n + 1 -> Nat] : Sums(e, n + 1)
    <3>1. PICK e \in [0 .. n -> Nat] : Sums(e, n)
      BY <1>1, <1>3, <2>1
    <3> DEFINE f == [i \in 0 .. n + 1 |->
                       IF i <= n THEN e[i] ELSE e[n] + q[n + 1].size]
    <3>2. q[n + 1].size \in Nat /\ e[n] \in Nat
      BY <1>1, <2>1, <3>1
    <3>3. f \in [0 .. n + 1 -> Nat]
      BY <3>1, <3>2
    <3>4. \A i \in 0 .. n : f[i] = e[i]
      OBVIOUS
    <3>5. f[n + 1] = f[n] + q[n + 1].size
      OBVIOUS
    <3> HIDE DEF f
    <3>6. Sums(f, n + 1)
      BY <3>1, <3>4, <3>5
    <3> QED BY <3>3, <3>6
  <2>2. n + 1 \in Nat
    OBVIOUS
  <2> QED BY <2>1, <2>2, Zenon
<1> HIDE DEF T
<1>4. Len(q) \in T
  BY <1>1, <1>2, <1>3, Induction
<1>5. PICK e \in [0 .. Len(q) -> Nat] : Sums(e, Len(q))
  BY <1>4 DEF T
<1>6. e = [n \in 0 .. Len(q) |-> IF n = 0 THEN 0 ELSE e[n - 1] + q[n].size]
  BY <1>1, <1>5
<1> QED BY <1>6 DEF AreEnds

LEMMA EndsFacts ==
    ASSUME NEW q \in Seq(Item)
    PROVE  /\ Ends(q)[0] = 0
           /\ \A n \in 1 .. Len(q) : Ends(q)[n] = Ends(q)[n - 1] + q[n].size
           /\ \A n \in 0 .. Len(q) : Ends(q)[n] \in Nat
<1>1. Ends(q) = CHOOSE e : AreEnds(e, q)
  BY DEF Ends, AreEnds
<1>2. AreEnds(Ends(q), q)
  BY <1>1, EndsExist
<1>3. /\ Len(q) \in Nat
      /\ \A i \in 1 .. Len(q) : q[i] \in Item /\ q[i].size \in Nat
  BY ItemSized
<1> DEFINE e == Ends(q)
<1> HIDE DEF e
<1>4. /\ e[0] = 0
      /\ \A n \in 1 .. Len(q) : e[n] = e[n - 1] + q[n].size
  BY <1>2, <1>3 DEF AreEnds, e
<1> DEFINE T == {n \in Nat : n <= Len(q) => e[n] \in Nat}
<1>5. 0 \in T
  BY <1>4
<1>6. ASSUME NEW n \in Nat, n \in T PROVE n + 1 \in T
  BY <1>3, <1>4, <1>6
<1> HIDE DEF T
<1>7. \A n \in Nat : n \in T
  BY <1>5, <1>6, Induction
<1>8. \A n \in 0 .. Len(q) : e[n] \in Nat
  BY <1>3, <1>7 DEF T
<1> QED BY <1>4, <1>8 DEF e

\* What a queue holds grows by the item that joins it.
LEMMA EndsAppend ==
    ASSUME NEW q \in Seq(Item), NEW x \in Item
    PROVE  Ends(Append(q, x))[Len(q) + 1] = Ends(q)[Len(q)] + x.size
<1> DEFINE r == Append(q, x)
<1>1. /\ r \in Seq(Item) /\ Len(q) \in Nat /\ Len(r) = Len(q) + 1
      /\ \A i \in 1 .. Len(q) : r[i] = q[i] /\ q[i] \in Item
      /\ r[Len(q) + 1] = x
  BY AppendFacts
<1> HIDE DEF r
<1> DEFINE d == Ends(q)
           e == Ends(r)
<1>2. /\ d[0] = 0
      /\ \A n \in 1 .. Len(q) : d[n] = d[n - 1] + q[n].size
  BY EndsFacts
<1>3. /\ e[0] = 0
      /\ \A n \in 1 .. Len(q) + 1 : e[n] = e[n - 1] + r[n].size
  BY <1>1, EndsFacts
<1> HIDE DEF d, e
<1> DEFINE T == {n \in Nat : n <= Len(q) => e[n] = d[n]}
<1>4. 0 \in T
  BY <1>2, <1>3
<1>5. ASSUME NEW n \in Nat, n \in T PROVE n + 1 \in T
  BY <1>1, <1>2, <1>3, <1>5
<1> HIDE DEF T
<1>6. Len(q) \in T
  BY <1>1, <1>4, <1>5, Induction
<1>7. e[Len(q)] = d[Len(q)]
  BY <1>1, <1>6 DEF T
<1> QED BY <1>1, <1>3, <1>7 DEF d, e, r

\* What a queue holds is its oldest item and what the rest holds.
LEMMA EndsTail ==
    ASSUME NEW q \in Seq(Item), q # <<>>
    PROVE  Ends(q)[Len(q)] = q[1].size + Ends(Tail(q))[Len(q) - 1]
<1> DEFINE r == Tail(q)
<1>1. /\ r \in Seq(Item) /\ Len(q) \in Nat /\ Len(q) > 0
      /\ Len(r) = Len(q) - 1
      /\ \A i \in 1 .. Len(q) - 1 : r[i] = q[i + 1]
      /\ \A i \in 1 .. Len(q) : q[i] \in Item
  BY TailFacts
<1>2. \A i \in 1 .. Len(q) : q[i].size \in Nat
  BY <1>1, ItemSized
<1> HIDE DEF r
<1> DEFINE d == Ends(q)
           e == Ends(r)
<1>3. /\ d[0] = 0
      /\ \A n \in 1 .. Len(q) : d[n] = d[n - 1] + q[n].size
  BY EndsFacts
<1>4. /\ e[0] = 0
      /\ \A n \in 1 .. Len(q) - 1 : e[n] = e[n - 1] + r[n].size
      /\ \A n \in 0 .. Len(q) - 1 : e[n] \in Nat
  BY <1>1, EndsFacts
<1> HIDE DEF d, e
<1> DEFINE T == {n \in Nat : n < Len(q) => d[n + 1] = q[1].size + e[n]}
<1>5. 0 \in T
  BY <1>1, <1>2, <1>3, <1>4
<1>6. ASSUME NEW n \in Nat, n \in T PROVE n + 1 \in T
  <2>1. SUFFICES ASSUME n + 1 < Len(q)
                 PROVE  d[n + 2] = q[1].size + e[n + 1]
    OBVIOUS
  <2>2. d[n + 1] = q[1].size + e[n]
    BY <1>1, <1>6, <2>1
  <2>3. d[n + 2] = d[n + 1] + q[n + 2].size /\ e[n + 1] = e[n] + q[n + 2].size
    <3>1. /\ n + 2 \in 1 .. Len(q) /\ (n + 2) - 1 = n + 1
          /\ n + 1 \in 1 .. Len(q) - 1 /\ (n + 1) - 1 = n /\ (n + 1) + 1 = n + 2
      BY <1>1, <2>1
    <3>2. d[n + 2] = d[(n + 2) - 1] + q[n + 2].size
      BY <1>3, <3>1
    <3>3. e[n + 1] = e[(n + 1) - 1] + r[n + 1].size /\ r[n + 1] = q[(n + 1) + 1]
      BY <1>1, <1>4, <3>1
    <3> QED BY <3>1, <3>2, <3>3, Zenon
  <2>4. /\ q[1].size \in Nat /\ q[n + 2].size \in Nat /\ e[n] \in Nat
    BY <1>1, <1>2, <1>4, <2>1
  <2> QED BY <2>2, <2>3, <2>4
<1> HIDE DEF T
<1>7. Len(q) - 1 \in T
  BY <1>1, <1>5, <1>6, Induction
<1>8. d[Len(q)] = q[1].size + e[Len(q) - 1]
  BY <1>1, <1>7 DEF T
<1> QED BY <1>8 DEF d, e, r

\* Doubled often enough, a capacity is any size that was wanted.
AreDoubled(c, cap) ==
    c = [i \in 0 .. QueueMax |->
           IF i = 0 THEN IF cap = 0 THEN FirstCap ELSE cap ELSE 2 * c[i - 1]]

LEMMA DoubledExist ==
    ASSUME NEW cap \in Nat PROVE \E c : AreDoubled(c, cap)
<1> DEFINE from == IF cap = 0 THEN FirstCap ELSE cap
           Twice(c, n) == c[0] = from /\ \A i \in 1 .. n : c[i] = 2 * c[i - 1]
           T == {n \in Nat : \E c \in [0 .. n -> Nat] : Twice(c, n)}
<1>1. from \in Nat /\ QueueMax \in Nat
  BY QueueAssumption
<1> HIDE DEF from
<1>2. 0 \in T
  <2>1. [i \in 0 .. 0 |-> from] \in [0 .. 0 -> Nat]
    BY <1>1
  <2>2. Twice([i \in 0 .. 0 |-> from], 0)
    OBVIOUS
  <2> QED BY <2>1, <2>2
<1>3. ASSUME NEW n \in Nat, n \in T PROVE n + 1 \in T
  <2>1. PICK c \in [0 .. n -> Nat] : Twice(c, n)
    BY <1>3
  <2> DEFINE f == [i \in 0 .. n + 1 |-> IF i <= n THEN c[i] ELSE 2 * c[n]]
  <2>2. f \in [0 .. n + 1 -> Nat]
    BY <2>1
  <2>3. (\A i \in 0 .. n : f[i] = c[i]) /\ f[n + 1] = 2 * c[n]
    OBVIOUS
  <2> HIDE DEF f
  <2>4. Twice(f, n + 1)
    BY <2>1, <2>3
  <2>5. n + 1 \in Nat
    OBVIOUS
  <2> QED BY <2>2, <2>4, <2>5, Zenon
<1> HIDE DEF T
<1>4. QueueMax \in T
  BY <1>1, <1>2, <1>3, Induction
<1>5. PICK c \in [0 .. QueueMax -> Nat] : Twice(c, QueueMax)
  BY <1>4 DEF T
<1>6. c = [i \in 0 .. QueueMax |-> IF i = 0 THEN from ELSE 2 * c[i - 1]]
  BY <1>1, <1>5
<1> QED BY <1>6 DEF AreDoubled, from

LEMMA DoubledFacts ==
    ASSUME NEW cap \in Nat
    PROVE  /\ Doublings(cap) \subseteq Nat
           /\ \E c \in Doublings(cap) : c > QueueMax
<1>1. Doubled(cap) = CHOOSE c : AreDoubled(c, cap)
  BY DEF Doubled, AreDoubled
<1> DEFINE c == Doubled(cap)
<1>2. AreDoubled(c, cap)
  BY <1>1, DoubledExist
<1> HIDE DEF c
<1>3. /\ QueueMax \in Nat /\ c[0] \in Nat \ {0}
      /\ \A i \in 1 .. QueueMax : c[i] = 2 * c[i - 1]
  <2>1. \A i \in 0 .. QueueMax :
           c[i] = IF i = 0 THEN IF cap = 0 THEN FirstCap ELSE cap ELSE 2 * c[i - 1]
    BY <1>2, Zenon DEF AreDoubled
  <2> QED BY <2>1, QueueAssumption
<1> DEFINE T == {n \in Nat : n <= QueueMax => c[n] \in Nat /\ c[n] > n}
<1>4. 0 \in T
  BY <1>3
<1>5. ASSUME NEW n \in Nat, n \in T PROVE n + 1 \in T
  BY <1>3, <1>5
<1> HIDE DEF T
<1>6. \A n \in Nat : n \in T
  BY <1>4, <1>5, Induction
<1>7. \A n \in 0 .. QueueMax : c[n] \in Nat /\ c[n] > n
  BY <1>3, <1>6 DEF T
<1> QED BY <1>3, <1>7 DEF Doublings, c

\* enqueue() grows the buffer to what is wanted and never past its bound.
LEMMA GrownFacts ==
    ASSUME NEW cap \in Nat, NEW want \in Nat, want <= QueueMax
    PROVE  Grown(cap, want) \in want .. QueueMax
<1> DEFINE enough == {c \in Doublings(cap) : c >= want}
           least  == CHOOSE c \in enough : \A d \in enough : c <= d
<1>1. QueueMax \in Nat /\ enough \in SUBSET Nat /\ enough # {}
  BY QueueAssumption, DoubledFacts
<1>2. \E c \in enough : \A d \in enough : c <= d
  BY <1>1, LeastNat
<1>3. least \in enough
  BY <1>2
<1>4. least \in Nat /\ least >= want
  BY <1>1, <1>3
<1>5. Grown(cap, want) = IF least > QueueMax THEN QueueMax ELSE least
  BY DEF Grown
<1> HIDE DEF least, enough
<1> QED BY <1>1, <1>4, <1>5

-----------------------------------------------------------------------------
(* What the buffer holds                                                   *)

Buffer == [cap : 0 .. QueueMax, len : 0 .. QueueMax, off : 0 .. QueueMax]

Offsets(b) ==
    /\ b \in Buffer
    /\ b.off <= b.len /\ b.len <= b.cap

BufferInv == TypeOK /\ BytesAreItems

LEMMA Moved ==
    ASSUME NEW b \in Buffer, NEW n \in 0 .. QueueMax
    PROVE  /\ [b EXCEPT !.off = n] \in Buffer
           /\ [b EXCEPT !.off = n].cap = b.cap
           /\ [b EXCEPT !.off = n].len = b.len
           /\ [b EXCEPT !.off = n].off = n
           /\ [b EXCEPT !.len = n] \in Buffer
           /\ [b EXCEPT !.len = n].cap = b.cap
           /\ [b EXCEPT !.len = n].len = n
           /\ [b EXCEPT !.len = n].off = b.off
BY DEF Buffer

LEMMA OffsetFacts ==
    ASSUME NEW b, Offsets(b)
    PROVE  /\ QueueMax \in Nat /\ b \in Buffer
           /\ b.cap \in 0 .. QueueMax /\ b.len \in 0 .. QueueMax
           /\ b.off \in 0 .. QueueMax /\ b.off <= b.len /\ b.len <= b.cap
BY QueueAssumption DEF Offsets, Buffer

LEMMA CompactedFacts ==
    ASSUME NEW b, Offsets(b), NEW n \in Nat
    PROVE  /\ Offsets(Compacted(b, n))
           /\ Compacted(b, n).len - Compacted(b, n).off = b.len - b.off
           /\ (b.len - b.off) + n <= QueueMax /\ NeedsMemory(b, n)
                 => Compacted(b, n).len + n <= QueueMax
<1>1. QueueMax \in Nat /\ b \in Buffer
  BY OffsetFacts
<1>2. /\ b.cap \in 0 .. QueueMax /\ b.len \in 0 .. QueueMax
      /\ b.off \in 0 .. QueueMax /\ b.off <= b.len /\ b.len <= b.cap
  BY OffsetFacts
<1>3. CASE b.len + n > b.cap /\ b.off > 0
  <2> DEFINE d == [b EXCEPT !.len = b.len - b.off]
             c == [d EXCEPT !.off = 0]
  <2>1. Compacted(b, n) = c
    BY <1>3 DEF Compacted
  <2>3. b.len - b.off \in 0 .. QueueMax /\ 0 \in 0 .. QueueMax
    BY <1>1, <1>2
  <2>4. d \in Buffer /\ d.cap = b.cap /\ d.len = b.len - b.off
    BY <1>1, <2>3, Moved
  <2> HIDE DEF d
  <2>2. /\ c \in Buffer
        /\ c.cap = b.cap /\ c.len = b.len - b.off /\ c.off = 0
    BY <2>3, <2>4, Moved
  <2> HIDE DEF c
  <2> QED BY <1>1, <1>2, <2>1, <2>2 DEF Offsets
<1>4. CASE ~ (b.len + n > b.cap /\ b.off > 0)
  <2>1. Compacted(b, n) = b
    BY <1>4 DEF Compacted
  <2>2. NeedsMemory(b, n) => b.len + n > b.cap
    BY <2>1 DEF NeedsMemory
  <2> QED BY <1>1, <1>2, <1>4, <2>1, <2>2
<1> QED BY <1>3, <1>4

LEMMA EnqueuedFacts ==
    ASSUME NEW b, Offsets(b), NEW n \in Nat, (b.len - b.off) + n <= QueueMax
    PROVE  /\ Offsets(Enqueued(b, n))
           /\ Enqueued(b, n).len - Enqueued(b, n).off = (b.len - b.off) + n
<1> DEFINE c == Compacted(b, n)
           cap == IF NeedsMemory(b, n) THEN Grown(c.cap, c.len + n) ELSE c.cap
<1>1. /\ QueueMax \in Nat
      /\ c \in Buffer
      /\ c.off <= c.len /\ c.len <= c.cap
      /\ c.len - c.off = b.len - b.off
      /\ NeedsMemory(b, n) => c.len + n <= QueueMax
  BY CompactedFacts, QueueAssumption DEF Offsets
<1>2. /\ c.cap \in 0 .. QueueMax /\ c.len \in 0 .. QueueMax
      /\ c.off \in 0 .. QueueMax
  BY CompactedFacts, OffsetFacts
<1>3. NeedsMemory(b, n) <=> c.len + n > c.cap
  BY DEF NeedsMemory
<1>4. Enqueued(b, n) = [c EXCEPT !.cap = cap, !.len = c.len + n]
  BY DEF Enqueued
<1> HIDE DEF c
<1>5. cap \in 0 .. QueueMax /\ c.len + n <= cap
  <2>1. CASE NeedsMemory(b, n)
    <3>1. c.cap \in Nat /\ c.len + n \in Nat /\ c.len + n <= QueueMax
      BY <1>1, <1>2, <2>1
    <3>2. cap \in c.len + n .. QueueMax
      BY <2>1, <3>1, GrownFacts
    <3> HIDE DEF cap
    <3> QED BY <1>1, <3>1, <3>2
  <2>2. CASE ~ NeedsMemory(b, n)
    BY <1>1, <1>2, <1>3, <2>2
  <2> QED BY <2>1, <2>2
<1> HIDE DEF cap
<1>6. c.len + n \in 0 .. QueueMax
  BY <1>1, <1>2, <1>5
<1> DEFINE d == [c EXCEPT !.cap = cap]
           e == [d EXCEPT !.len = c.len + n]
<1>10. d \in Buffer /\ d.cap = cap /\ d.len = c.len /\ d.off = c.off
  BY <1>1, <1>5 DEF Buffer
<1>11. Enqueued(b, n) = e
  BY <1>4
<1> HIDE DEF d
<1>7. /\ e \in Buffer
      /\ e.cap = cap /\ e.len = c.len + n /\ e.off = c.off
  BY <1>6, <1>10, Moved
<1> HIDE DEF e
<1>8. Enqueued(b, n) = e
  BY <1>11 DEF e
<1>9. e.off <= e.len /\ e.len <= e.cap /\ e.len - e.off = (b.len - b.off) + n
  BY <1>1, <1>2, <1>5, <1>7
<1> QED BY <1>7, <1>8, <1>9 DEF Offsets

LEMMA HeadAppend ==
    ASSUME NEW q \in Seq(Item), NEW x \in Item
    PROVE  /\ Append(q, x) # <<>>
           /\ Head(Append(q, x)) = IF q = <<>> THEN x ELSE Head(q)
<1>1. /\ Append(q, x) \in Seq(Item) /\ Len(q) \in Nat
      /\ Len(Append(q, x)) = Len(q) + 1
      /\ \A i \in 1 .. Len(q) : Append(q, x)[i] = q[i]
      /\ Append(q, x)[Len(q) + 1] = x
  BY AppendFacts
<1>2. Append(q, x) # <<>> /\ Head(Append(q, x)) = Append(q, x)[1]
  BY <1>1, TailFacts
<1>3. CASE q = <<>>
  <2>1. Len(q) = 0
    BY <1>3
  <2> QED BY <1>1, <1>2, <1>3, <2>1
<1>4. CASE q # <<>>
  <2>1. Len(q) > 0 /\ Head(q) = q[1]
    BY <1>4, TailFacts
  <2> QED BY <1>1, <1>2, <1>4, <2>1
<1> QED BY <1>3, <1>4

\* An item that goes in whole joins the bytes that were there.
LEMMA ItemJoins ==
    ASSUME NEW q \in Seq(Item), NEW x \in Item, NEW p \in Nat,
           p < IF q = <<>> THEN 1 ELSE Head(q).size
    PROVE  /\ Append(q, x) \in Seq(Item)
           /\ Ends(Append(q, x))[Len(Append(q, x))] = Ends(q)[Len(q)] + x.size
           /\ p < IF Append(q, x) = <<>> THEN 1 ELSE Head(Append(q, x)).size
<1>1. x.size \in Nat \ {0}
  BY DEF Item
<1>2. p < Head(Append(q, x)).size
  BY <1>1, HeadAppend
<1>3. Append(q, x) \in Seq(Item) /\ Len(Append(q, x)) = Len(q) + 1
  BY AppendFacts
<1> QED BY <1>2, <1>3, EndsAppend, HeadAppend

LEMMA BufferFacts ==
    ASSUME BufferInv
    PROVE  /\ Offsets(buf) /\ items \in Seq(Item) /\ part \in Nat
           /\ buf.cap \in Nat /\ buf.len \in Nat /\ buf.off \in Nat
           /\ Ends(items)[Len(items)] \in Nat /\ Len(items) \in Nat
           /\ buf.len - buf.off = Ends(items)[Len(items)] - part
<1>1. /\ Offsets(buf) /\ items \in Seq(Item) /\ part \in Nat
      /\ buf.len - buf.off = Ends(items)[Len(items)] - part
  BY DEF BufferInv, TypeOK, Offsets, Buffer, Item, BytesAreItems
<1>2. Len(items) \in Nat
  BY <1>1
<1>3. Ends(items)[Len(items)] \in Nat
  BY <1>1, <1>2, EndsFacts
<1>4. buf.cap \in Nat /\ buf.len \in Nat /\ buf.off \in Nat
  <2>1. /\ buf.cap \in 0 .. QueueMax /\ buf.len \in 0 .. QueueMax
        /\ buf.off \in 0 .. QueueMax /\ QueueMax \in Nat
    BY <1>1, OffsetFacts
  <2> QED BY <2>1
<1> QED BY <1>1, <1>2, <1>3, <1>4

\* The parts of BufferInv that a step of the queue has to show.
LEMMA BufferNext ==
    ASSUME Inv', Offsets(buf'), part' \in Nat, dropped' \in Nat, BytesAreItems'
    PROVE  BufferInv'
BY DEF BufferInv, TypeOK, Offsets, Buffer, Inv, Counts, Item

LEMMA OfferKeepsBuffer ==
    ASSUME Inv, Inv', BufferInv, Offer PROVE BufferInv'
<1>1. /\ Offsets(buf) /\ items \in Seq(Item) /\ part \in Nat
      /\ buf.cap \in Nat /\ buf.len \in Nat /\ buf.off \in Nat
      /\ Ends(items)[Len(items)] \in Nat
      /\ buf.len - buf.off = Ends(items)[Len(items)] - part
      /\ part < IF items = <<>> THEN 1 ELSE Head(items).size
      /\ dropped \in Nat /\ gap \in Nat /\ MarkSize \in Nat
  BY BufferFacts, QueueAssumption DEF BufferInv, BytesAreItems, TypeOK
<1>2. ASSUME NEW n \in Sizes, OfferRecord(n) PROVE BufferInv'
  <2>1. /\ n \in Nat /\ (buf.len - buf.off) + n <= QueueMax
        /\ buf' = Enqueued(buf, n) /\ items' = Append(items, Rec(n))
        /\ part' = part /\ dropped' = dropped
        /\ Rec(n) \in Item /\ Rec(n).size = n
    BY <1>2, QueueAssumption, RecFacts DEF OfferRecord, Queued, Room, Rec, Inv
  <2>2. Offsets(buf') /\ buf'.len - buf'.off = (buf.len - buf.off) + n
    BY <1>1, <2>1, EnqueuedFacts
  <2>3. /\ Ends(items')[Len(items')] = Ends(items)[Len(items)] + n
        /\ part' < IF items' = <<>> THEN 1 ELSE Head(items').size
    BY <1>1, <2>1, ItemJoins
  <2>4. BytesAreItems'
    BY <1>1, <2>1, <2>2, <2>3 DEF BytesAreItems
  <2> QED BY <1>1, <2>1, <2>2, <2>4, BufferNext
<1>3. ASSUME NEW n \in Sizes, OfferMarked(n) PROVE BufferInv'
  <2> DEFINE b == Enqueued(buf, MarkSize)
             q == Append(items, Marker)
  <2>1. /\ n \in Nat /\ (buf.len - buf.off) + (MarkSize + n) <= QueueMax
        /\ buf' = Enqueued(b, n) /\ items' = Append(q, Rec(n))
        /\ part' = part /\ dropped' = dropped
        /\ Rec(n) \in Item /\ Rec(n).size = n
        /\ Marker \in Item /\ Marker.size = MarkSize
    BY <1>3, QueueAssumption, RecFacts, MarkerFacts
       DEF OfferMarked, Queued, Room, Rec, Marker, Inv
  <2>2. (buf.len - buf.off) + MarkSize <= QueueMax
    BY <1>1, <2>1, QueueAssumption
  <2>3. Offsets(b) /\ b.len - b.off = (buf.len - buf.off) + MarkSize
    BY <1>1, <2>2, EnqueuedFacts
  <2>4. /\ q \in Seq(Item)
        /\ Ends(q)[Len(q)] = Ends(items)[Len(items)] + MarkSize
        /\ part < IF q = <<>> THEN 1 ELSE Head(q).size
    BY <1>1, <2>1, ItemJoins
  <2> HIDE DEF b, q
  <2>5. (b.len - b.off) + n <= QueueMax
    BY <1>1, <2>1, <2>3, QueueAssumption
  <2>6. Offsets(buf') /\ buf'.len - buf'.off = (b.len - b.off) + n
    BY <2>1, <2>3, <2>5, EnqueuedFacts
  <2>7. /\ Ends(items')[Len(items')] = Ends(q)[Len(q)] + n
        /\ part' < IF items' = <<>> THEN 1 ELSE Head(items').size
    BY <1>1, <2>1, <2>4, ItemJoins
  <2>8. BytesAreItems'
    <3>1. (buf.len - buf.off) + MarkSize + n
             = (Ends(items)[Len(items)] + MarkSize) + n - part
      BY <1>1, <2>1
    <3>2. buf'.len - buf'.off = Ends(items')[Len(items')] - part'
      <4>1. buf'.len - buf'.off = ((buf.len - buf.off) + MarkSize) + n
        BY <2>3, <2>6
      <4>2. Ends(items')[Len(items')] = (Ends(items)[Len(items)] + MarkSize) + n
        BY <2>4, <2>7
      <4> QED BY <1>1, <2>1, <3>1, <4>1, <4>2
    <3> QED BY <2>7, <3>2 DEF BytesAreItems
  <2> QED BY <1>1, <2>1, <2>6, <2>8, BufferNext
<1>4. ASSUME Offsets(buf'), buf'.len - buf'.off = buf.len - buf.off, Lost
      PROVE  BufferInv'
  <2>1. items' = items /\ part' = part /\ dropped' \in Nat
    BY <1>1, <1>4 DEF Lost
  <2>2. BytesAreItems'
    BY <1>1, <1>4, <2>1 DEF BytesAreItems
  <2> QED BY <1>1, <1>4, <2>1, <2>2, BufferNext
<1>5. ASSUME NEW n \in Sizes, OfferFull(n) PROVE BufferInv'
  BY <1>1, <1>4, <1>5 DEF OfferFull
<1>6. ASSUME NEW n \in Sizes, OfferNoMemory(n) PROVE BufferInv'
  <2>1. n \in Nat /\ Lost
    BY <1>6, QueueAssumption DEF OfferNoMemory
  <2>2. ASSUME NEW m \in Nat, buf' = Compacted(buf, m) PROVE BufferInv'
    BY <1>1, <1>4, <2>1, <2>2, CompactedFacts
  <2>3. ASSUME gap > 0, buf' = Unwound(Compacted(Enqueued(buf, MarkSize), n))
        PROVE  BufferInv'
    <3> DEFINE b == Enqueued(buf, MarkSize)
               c == Compacted(b, n)
    <3>1. (buf.len - buf.off) + (MarkSize + n) <= QueueMax
      BY <1>6, <2>3 DEF OfferNoMemory, Room
    <3>2. (buf.len - buf.off) + MarkSize <= QueueMax
      BY <1>1, <2>1, <3>1, QueueAssumption
    <3>3. Offsets(b) /\ b.len - b.off = (buf.len - buf.off) + MarkSize
      BY <1>1, <3>2, EnqueuedFacts
    <3> HIDE DEF b
    <3>4. Offsets(c) /\ c.len - c.off = b.len - b.off
      BY <2>1, <3>3, CompactedFacts
    <3>5. buf' = [c EXCEPT !.len = c.len - MarkSize]
      BY <2>3 DEF Unwound, b
    <3> HIDE DEF c
    <3>6. /\ c.cap \in 0 .. QueueMax /\ c.len \in 0 .. QueueMax
          /\ c.off \in 0 .. QueueMax /\ c.off <= c.len /\ c.len <= c.cap
          /\ c \in Buffer /\ QueueMax \in Nat
      BY <3>4, OffsetFacts
    <3>10. /\ buf.off \in Nat /\ buf.len \in Nat /\ MarkSize \in Nat
           /\ buf.off <= buf.len
           /\ c.len - c.off = (buf.len - buf.off) + MarkSize
      BY <1>1, <3>3, <3>4, OffsetFacts
    <3>12. c.len \in Nat /\ c.off \in Nat /\ c.cap \in Nat
      BY <3>6
    <3>7. c.len - MarkSize \in 0 .. QueueMax /\ c.off <= c.len - MarkSize
      BY <3>6, <3>10, <3>12
    <3>8. /\ buf' \in Buffer
          /\ buf'.cap = c.cap /\ buf'.len = c.len - MarkSize /\ buf'.off = c.off
      BY <3>5, <3>6, <3>7, Moved
    <3>11. (c.len - MarkSize) - c.off = buf.len - buf.off /\ c.len - MarkSize <= c.cap
      BY <3>6, <3>10, <3>12
    <3>9. Offsets(buf') /\ buf'.len - buf'.off = buf.len - buf.off
      BY <3>7, <3>8, <3>11 DEF Offsets
    <3> QED BY <1>4, <2>1, <3>9
  <2> QED BY <1>1, <1>6, <2>1, <2>2, <2>3 DEF OfferNoMemory
<1> QED BY <1>2, <1>3, <1>5, <1>6 DEF Offer

\* Bytes that leave the front: the offset moves, or both go back to 0.
LEMMA SentFacts ==
    ASSUME Offsets(buf), NEW k \in Nat, buf.off + k <= buf.len, Sent(k)
    PROVE  Offsets(buf') /\ buf'.len - buf'.off = (buf.len - buf.off) - k
<1>1. /\ QueueMax \in Nat
      /\ buf \in Buffer
      /\ buf.cap \in 0 .. QueueMax /\ buf.len \in 0 .. QueueMax
      /\ buf.off \in 0 .. QueueMax /\ buf.off <= buf.len /\ buf.len <= buf.cap
  BY OffsetFacts
<1>2. CASE buf.off + k = buf.len
  <2> DEFINE b == [buf EXCEPT !.off = 0]
  <2>1. buf' = [b EXCEPT !.len = 0]
    BY <1>2 DEF Sent
  <2>3. b \in Buffer /\ b.cap = buf.cap /\ b.off = 0 /\ 0 \in 0 .. QueueMax
    <3>1. 0 \in 0 .. QueueMax
      BY <1>1
    <3> QED BY <1>1, <3>1, Moved
  <2> HIDE DEF b
  <2>2. /\ buf' \in Buffer
        /\ buf'.cap = buf.cap /\ buf'.len = 0 /\ buf'.off = 0
    BY <2>1, <2>3, Moved
  <2> QED BY <1>1, <1>2, <2>2 DEF Offsets
<1>3. CASE buf.off + k # buf.len
  <2>1. buf' = [buf EXCEPT !.off = buf.off + k]
    BY <1>3 DEF Sent
  <2>2. buf.off + k \in 0 .. QueueMax
    BY <1>1
  <2>3. /\ buf' \in Buffer
        /\ buf'.cap = buf.cap /\ buf'.len = buf.len /\ buf'.off = buf.off + k
    BY <1>1, <2>1, <2>2, Moved
  <2> QED BY <1>1, <2>3 DEF Offsets
<1> QED BY <1>2, <1>3

LEMMA WriteKeepsBuffer ==
    ASSUME Inv, Inv', BufferInv,
           (\E k \in 1 .. QueueMax : WriteSome(k)) \/ WriteRest
    PROVE  BufferInv'
<1>1. /\ Offsets(buf) /\ items \in Seq(Item) /\ part \in Nat
      /\ buf.cap \in Nat /\ buf.len \in Nat /\ buf.off \in Nat
      /\ Ends(items)[Len(items)] \in Nat /\ Len(items) \in Nat
      /\ buf.len - buf.off = Ends(items)[Len(items)] - part
      /\ dropped \in Nat /\ QueueMax \in Nat /\ items # <<>>
      /\ part < Head(items).size
  BY BufferFacts, QueueAssumption
     DEF BufferInv, BytesAreItems, TypeOK, WriteSome, WriteRest
<1> DEFINE size == Head(items).size
           rest == Ends(Tail(items))[Len(items) - 1]
<1>2. /\ Tail(items) \in Seq(Item) /\ Len(Tail(items)) = Len(items) - 1
      /\ Len(items) - 1 \in Nat /\ Head(items) = items[1] /\ items[1] \in Item
  BY <1>1, TailFacts
<1>3. size \in Nat
  BY <1>2, ItemSized
<1>4. Ends(items)[Len(items)] = size + rest
  BY <1>1, <1>2, EndsTail
<1>5. rest \in Nat
  <2>1. \A n \in 0 .. Len(Tail(items)) : Ends(Tail(items))[n] \in Nat
    BY <1>2, EndsFacts
  <2>2. Len(items) - 1 \in 0 .. Len(Tail(items))
    BY <1>2
  <2> QED BY <2>1, <2>2
<1> HIDE DEF size, rest
<1>6. ASSUME NEW k \in 1 .. QueueMax, WriteSome(k) PROVE BufferInv'
  <2>1. /\ part + k < size /\ part' = part + k /\ Sent(k)
        /\ items' = items /\ dropped' = dropped /\ k \in Nat
    BY <1>1, <1>6 DEF WriteSome, size
  <2>2. buf.off + k <= buf.len
    BY <1>1, <1>3, <1>4, <1>5, <2>1
  <2>3. Offsets(buf') /\ buf'.len - buf'.off = (buf.len - buf.off) - k
    BY <1>1, <2>1, <2>2, SentFacts
  <2>4. buf'.len - buf'.off = Ends(items')[Len(items')] - part'
    BY <1>1, <2>1, <2>3
  <2>5. BytesAreItems'
    BY <1>1, <2>1, <2>4 DEF BytesAreItems, size
  <2> QED BY <1>1, <2>1, <2>3, <2>5, BufferNext
<1>7. CASE WriteRest
  <2>1. /\ Sent(size - part) /\ items' = Tail(items) /\ part' = 0
        /\ dropped' = dropped
    BY <1>7 DEF WriteRest, size
  <2>2. /\ part < size /\ size - part \in Nat
        /\ buf.off + (size - part) <= buf.len
    <3>1. part < size
      BY <1>1 DEF size
    <3> QED BY <1>1, <1>3, <1>4, <1>5, <3>1
  <2>3. /\ Offsets(buf')
        /\ buf'.len - buf'.off = (buf.len - buf.off) - (size - part)
    BY <1>1, <2>1, <2>2, SentFacts
  <2>4. Ends(items')[Len(items')] = rest
    BY <1>2, <2>1 DEF rest
  <2>5. buf'.len - buf'.off = Ends(items')[Len(items')] - part'
    BY <1>1, <1>3, <1>4, <1>5, <2>1, <2>3, <2>4
  <2>6. part' < IF items' = <<>> THEN 1 ELSE Head(items').size
    <3>1. CASE items' = <<>>
      BY <2>1, <3>1
    <3>2. CASE items' # <<>>
      <4>1. items' \in Seq(Item)
        BY <1>2, <2>1
      <4>2. Head(items') \in Item
        BY <3>2, <4>1
      <4> QED BY <2>1, <3>2, <4>2 DEF Item
    <3> QED BY <3>1, <3>2
  <2> QED BY <1>1, <2>1, <2>3, <2>5, <2>6, BufferNext DEF BytesAreItems
<1> QED BY <1>6, <1>7

LEMMA EmptyKeepsBuffer ==
    /\ Init => BufferInv
    /\ Inv' /\ Reconnect => BufferInv'
<1>1. /\ <<>> \in Seq(Item) /\ Len(<<>>) = 0 /\ Ends(<<>>)[0] = 0
      /\ Offsets(NoBuffer) /\ NoBuffer.len = 0 /\ NoBuffer.off = 0
  <2>1. <<>> \in Seq(Item) /\ Len(<<>>) = 0
    OBVIOUS
  <2>2. Offsets(NoBuffer) /\ NoBuffer.len = 0 /\ NoBuffer.off = 0
    BY QueueAssumption DEF Offsets, Buffer, NoBuffer
  <2> QED BY <2>1, <2>2, EndsFacts
<1>2. ASSUME Init PROVE BufferInv
  <2>1. TypeOK
    BY <1>1, <1>2 DEF Init, TypeOK, Offsets, Buffer, Item
  <2>2. BytesAreItems
    BY <1>1, <1>2 DEF Init, BytesAreItems
  <2> QED BY <2>1, <2>2 DEF BufferInv
<1>3. ASSUME Inv', Reconnect PROVE BufferInv'
  <2>1. /\ buf' = NoBuffer /\ items' = <<>> /\ part' = 0 /\ dropped' = 0
    BY <1>3 DEF Reconnect
  <2>2. BytesAreItems'
    BY <1>1, <2>1 DEF BytesAreItems
  <2> QED BY <1>1, <1>3, <2>1, <2>2, BufferNext
<1> QED BY <1>2, <1>3

LEMMA BufferInvHolds == Spec => []BufferInv
<1>1. Inv /\ [Next]_vars => Inv'
  BY InvStep
<1>2. BufferInv /\ UNCHANGED vars => BufferInv'
  BY DEF BufferInv, TypeOK, BytesAreItems, vars
<1>3. Inv /\ BufferInv /\ [Next]_vars => BufferInv'
  BY <1>1, <1>2, OfferKeepsBuffer, WriteKeepsBuffer, EmptyKeepsBuffer DEF Next
<1> QED BY <1>1, <1>3, InvInit, EmptyKeepsBuffer, PTL DEF Spec

\* The buffer's offsets stay in bounds and in order and its capacity under
\* DATA_SOCKET_QUEUE_MAX after any mix of records, markers, partial writes,
\* failed reallocs and reconnections: the memcpy of enqueue() and the memmove
\* of the compaction are inside it (#93).
THEOREM BufferStaysInBounds == Spec => []TypeOK
<1>1. BufferInv => TypeOK
  BY DEF BufferInv
<1> QED BY <1>1, BufferInvHolds, PTL

\* The unsent bytes are the queued items, whole and in order, less what the
\* kernel took of the oldest: no record is cut short, glued to another or
\* sent twice, whatever part of it each send() takes (#93).
THEOREM BufferIsTheQueue == Spec => []BufferHoldsQueue
<1>1. BufferInv => BufferHoldsQueue
  BY DEF BufferInv, TypeOK, BufferHoldsQueue
<1> QED BY <1>1, BufferInvHolds, PTL

=============================================================================
