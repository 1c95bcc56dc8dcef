------------------------- MODULE EvidenceRingProofs -------------------------
(***************************************************************************)
(* Proofs about the evidence ring, for every budget, every frame length    *)
(* and any number of IDs: every observation is accounted for, and what a   *)
(* reader gets back is the promised log of frames.                         *)
(*                                                                         *)
(* The log says nothing of offsets, so the invariant has to say where the  *)
(* bytes lie: read as positions on an endless tape of which the arena      *)
(* shows the last `cap` bytes, the live records follow one another and end *)
(* at the write offset.                                                    *)
(***************************************************************************)
EXTENDS EvidenceRing, TLAPS

RingTypes ==
    /\ cap \in Nat /\ slots \in Nat
    /\ IF cap = 0 THEN slots = 0 ELSE slots > 0 /\ cap >= FrameMax
    /\ mId \in [0 .. slots - 1 -> Nat] /\ mOff \in [0 .. slots - 1 -> Nat]
    /\ mLen \in [0 .. slots - 1 -> 0 .. FrameMax]
    /\ mTrunc \in [0 .. slots - 1 -> BOOLEAN]
    /\ tail \in Nat /\ count \in 0 .. slots /\ (Up => tail < slots)
    /\ used \in Int /\ write \in Nat
    /\ nextId \in Nat /\ tally \in Nat /\ cleared \in Nat
    /\ pending \in Frames \cup {NoFrame}
    /\ pending # NoFrame => Up

\* the j-th oldest record starts at position pos[j] of the tape
Layout(pos) ==
    /\ \A i, j \in 0 .. count : i <= j => pos[i] <= pos[j]
    /\ used = pos[count] - pos[0]
    /\ write = pos[count] % cap
    /\ \A j \in Window : /\ mOff[Slot(j)] = pos[j] % cap
                         /\ pos[j + 1] = pos[j] + mLen[Slot(j)]

\* the IDs of the live records are the last ones issued, in order
IdsInOrder ==
    \A j \in Window : mId[Slot(j)] = nextId - count + 1 + j

\* every byte of a live record is where a reader looks for it
BytesInPlace ==
    \A j \in Window : \A k \in 0 .. mLen[Slot(j)] - 1 :
       arena[(mOff[Slot(j)] + k) % cap] = <<mId[Slot(j)], k>>

RingInv ==
    /\ RingTypes
    /\ count <= nextId
    /\ LossIsTallied
    /\ Up => \E pos \in [0 .. count -> Nat] : Layout(pos)
    /\ IdsInOrder
    /\ BytesInPlace

-----------------------------------------------------------------------------
(* Arithmetic of a circular buffer                                         *)

LEMMA Remainder ==
    ASSUME NEW c \in Nat \ {0}, NEW a \in Int
    PROVE  /\ a % c \in 0 .. c - 1
           /\ \E q \in Int : a = c * q + (a % c)
<1>1. a % c \in 0 .. c - 1
    OBVIOUS
<1>2. a = c * (a \div c) + (a % c)
    OBVIOUS
<1>3. a \div c \in Int
    OBVIOUS
<1>. QED  BY <1>1, <1>2, <1>3

LEMMA OneRemainder ==
    ASSUME NEW c \in Nat \ {0}, NEW q \in Int, NEW r \in 0 .. c - 1
    PROVE  (c * q + r) % c = r
OBVIOUS

LEMMA SmallRemainder ==
    ASSUME NEW c \in Nat \ {0}, NEW a \in Int, 0 <= a, a < c
    PROVE  a % c = a
<1>1. c * 0 + a = a /\ a \in 0 .. c - 1
    OBVIOUS
<1>. QED  BY <1>1, OneRemainder

LEMMA Distribute ==
    ASSUME NEW c \in Int, NEW p \in Int, NEW q \in Int
    PROVE  /\ c * (p - q) = c * p - c * q
           /\ c * (p - q + 1) = c * p - c * q + c
OBVIOUS

\* a step from a reduced offset is a step from the offset
LEMMA StepFromRemainder ==
    ASSUME NEW c \in Nat \ {0}, NEW a \in Int, NEW b \in Int
    PROVE  ((a % c) + b) % c = (a + b) % c
<1>1. PICK q \in Int : a = c * q + (a % c)
    BY Remainder
<1>2. PICK p \in Int : a + b = c * p + ((a + b) % c)
    <2>1. a + b \in Int
        OBVIOUS
    <2>. QED  BY <2>1, Remainder
<1>3. (a + b) % c \in 0 .. c - 1 /\ a % c \in 0 .. c - 1
    BY Remainder
<1>4. (a % c) + b = c * (p - q) + ((a + b) % c) /\ p - q \in Int
    BY <1>1, <1>2, <1>3, Distribute
<1>. QED  BY <1>3, <1>4, OneRemainder

\* two offsets less than a lap apart are different places
LEMMA LessThanALap ==
    ASSUME NEW c \in Nat \ {0}, NEW a \in Int, NEW b \in Int,
           a < b, b < a + c
    PROVE  a % c # b % c
<1>1. PICK q \in Int : a = c * q + (a % c)
    BY Remainder
<1>2. PICK p \in Int : b = c * p + (b % c)
    BY Remainder
<1>3. a % c \in 0 .. c - 1 /\ b % c \in 0 .. c - 1
    BY Remainder
<1> SUFFICES ASSUME a % c = b % c PROVE FALSE
    OBVIOUS
<1>4. b - a = c * (p - q) /\ p - q \in Int
    BY <1>1, <1>2, <1>3, Distribute
<1>5. ASSUME NEW d \in Int, d >= 1 PROVE c * d >= c
    BY <1>5
<1>6. ASSUME NEW d \in Int, d <= 0 PROVE c * d <= 0
    BY <1>6
<1>. QED  BY <1>4, <1>5, <1>6

\* how far an offset lies past another one, for a lap at most
LEMMA Past ==
    ASSUME NEW c \in Nat \ {0}, NEW a \in Int, NEW w \in Int,
           NEW d \in 0 .. c - 1, (a = w + d) \/ (a + c = w + d)
    PROVE  ((a % c) - (w % c) + c) % c = d
<1>1. PICK q \in Int : a = c * q + (a % c)
    BY Remainder
<1>2. PICK p \in Int : w = c * p + (w % c)
    BY Remainder
<1>3. a % c \in 0 .. c - 1 /\ w % c \in 0 .. c - 1
    BY Remainder
<1>4. CASE a = w + d
    <2>1. (a % c) - (w % c) + c = c * (p - q + 1) + d /\ p - q + 1 \in Int
        BY <1>1, <1>2, <1>3, <1>4, Distribute
    <2>. QED  BY <2>1, OneRemainder
<1>5. CASE a + c = w + d
    <2>1. (a % c) - (w % c) + c = c * (p - q) + d /\ p - q \in Int
        BY <1>1, <1>2, <1>3, <1>5, Distribute
    <2>. QED  BY <2>1, OneRemainder
<1>. QED  BY <1>4, <1>5
-----------------------------------------------------------------------------
(* The slots of the window                                                 *)

LEMMA SlotFacts ==
    ASSUME RingTypes, slots > 0
    PROVE  /\ \A j \in Nat : Slot(j) \in 0 .. slots - 1
           /\ \A i, j \in Nat : i < j /\ j < slots => Slot(i) # Slot(j)
<1>1. slots \in Nat \ {0} /\ tail \in Int
    BY DEF RingTypes
<1>2. ASSUME NEW j \in Nat PROVE Slot(j) \in 0 .. slots - 1
    <2>1. tail + j \in Int
        BY <1>1
    <2>. QED  BY <1>1, <2>1, Remainder DEF Slot
<1>3. ASSUME NEW i \in Nat, NEW j \in Nat, i < j, j < slots
      PROVE  Slot(i) # Slot(j)
    <2>1. /\ tail + i \in Int /\ tail + j \in Int
          /\ tail + i < tail + j /\ tail + j < tail + i + slots
        BY <1>1, <1>3
    <2>. QED  BY <1>1, <2>1, LessThanALap DEF Slot
<1>. QED  BY <1>2, <1>3

LEMMA InitRing == Init => RingInv
<1> SUFFICES ASSUME Init PROVE RingInv
    OBVIOUS
<1>1. cap = 0 /\ slots = 0 /\ count = 0
    BY DEF Init
<1>2. \A S : <<>> \in [0 .. slots - 1 -> S]
    BY <1>1
<1>3. RingTypes
    BY <1>1, <1>2 DEF Init, RingTypes, Up
<1>. QED  BY <1>1, <1>3
          DEF Init, RingInv, LossIsTallied, Up, IdsInOrder, BytesInPlace,
              Window

\* an empty window, laid out from the start of the arena
LEMMA EmptyKeeps ==
    ASSUME RingTypes', count' = 0, used' = 0, write' = 0, LossIsTallied'
    PROVE  RingInv'
<1>1. Window' = {} /\ (0 .. count)' = {0}
    BY DEF Window
<1>2. ASSUME Up' PROVE \E pos \in [(0 .. count)' -> Nat] : Layout(pos)'
    <2> DEFINE zero == [j \in {0} |-> 0]
    <2>1. zero \in [(0 .. count)' -> Nat] /\ zero[0] = 0
        BY <1>1
    <2>2. cap' \in Nat \ {0}
        BY <1>2 DEF RingTypes, Up
    <2>3. 0 % (cap') = 0
        <3>1. \A c \in Nat \ {0} : 0 % c = 0
            BY SmallRemainder
        <3>. QED  BY <2>2, <3>1
    <2> HIDE DEF zero
    <2>4. \A i, j \in (0 .. count)' : zero[i] <= zero[j]
        BY <1>1, <2>1
    <2>5. Layout(zero)'
        BY <1>1, <2>1, <2>3, <2>4 DEF Layout
    <2>. QED  BY <2>1, <2>5
<1>3. IdsInOrder' /\ BytesInPlace'
    BY <1>1 DEF IdsInOrder, BytesInPlace
<1>4. (count <= nextId)'
    BY DEF RingTypes
<1>. QED  BY <1>2, <1>3, <1>4 DEF RingInv

LEMMA UnsetKeeps ==
    ASSUME RingInv, NEW c \in Nat, NEW n \in Nat, pending = NoFrame,
           IF c = 0 THEN n = 0 ELSE n > 0 /\ c >= FrameMax, Unset(c, n)
    PROVE  RingInv'
<1>1. RingTypes'
    BY RingAssumption
    DEF RingAssumption, RingInv, RingTypes, Unset, Up
<1>2. LossIsTallied'
    BY DEF RingInv, RingTypes, LossIsTallied, Unset
<1>. QED  BY <1>1, <1>2, EmptyKeeps DEF Unset

LEMMA ResetKeeps == ASSUME RingInv, Reset PROVE RingInv'
<1>1. RingTypes'
    BY DEF RingInv, RingTypes, Reset, meta, Up
<1>2. LossIsTallied'
    BY DEF RingInv, RingTypes, LossIsTallied, Reset
<1>. QED  BY <1>1, <1>2, EmptyKeeps DEF Reset

\* what holds in a state with a frame to make room for
LEMMA PendingFacts ==
    ASSUME RingInv, pending # NoFrame
    PROVE  /\ Up /\ cap \in Nat \ {0} /\ slots \in Nat \ {0}
           /\ pending \in Frames /\ pending[1] \in Nat \ {0}
           /\ Store(pending) \in 1 .. FrameMax /\ Store(pending) <= cap
           /\ Store(pending)
                 = IF pending[1] < FrameMax THEN pending[1] ELSE FrameMax
BY RingAssumption
DEF RingAssumption, RingInv, RingTypes, Up, Store

\* the window moves up by one slot
LEMMA EvictFacts ==
    ASSUME RingInv, EvictOldest
    PROVE  /\ count \in Nat \ {0} /\ count' = count - 1
           /\ tail \in 0 .. slots - 1 /\ Slot(0) = tail
           /\ \A j \in Nat : Slot(j)' = Slot(j + 1)
           /\ \A j \in Window' : /\ j \in Nat /\ j + 1 \in Window
                                 /\ Slot(j + 1) # tail
                                 /\ mId'[Slot(j + 1)] = mId[Slot(j + 1)]
<1>1. count \in Nat /\ slots \in Nat \ {0} /\ count <= slots /\ tail \in Nat
      /\ tail < slots /\ mId \in [0 .. slots - 1 -> Nat]
    <2>1. pending # NoFrame
        BY DEF EvictOldest
    <2>2. slots \in Nat \ {0} /\ Up
        BY <2>1, PendingFacts
    <2>. QED  BY <2>2 DEF RingInv, RingTypes
<1>2. count # 0
    <2> SUFFICES ASSUME count = 0 PROVE FALSE
        OBVIOUS
    <2>1. PICK pos \in [0 .. count -> Nat] : Layout(pos)
        BY PendingFacts DEF EvictOldest, RingInv
    <2>2. pos[0] \in Nat
        BY <1>1
    <2>3. used = 0
        BY <2>1, <2>2 DEF Layout
    <2>. QED  BY <1>1, <2>3, PendingFacts DEF EvictOldest, MustEvict
<1>3. Slot(0) = tail
    <2>1. tail % slots = tail
        BY <1>1, SmallRemainder
    <2>. QED  BY <1>1, <2>1 DEF Slot
<1>4. ASSUME NEW j \in Nat PROVE Slot(j)' = Slot(j + 1)
    <2>1. Slot(j)' = (((tail + 1) % slots) + j) % slots
        BY DEF EvictOldest, Slot
    <2>2. \A a, b \in Int : ((a % slots) + b) % slots = (a + b) % slots
        BY <1>1, StepFromRemainder
    <2>3. (((tail + 1) % slots) + j) % slots = ((tail + 1) + j) % slots
        <3>1. tail + 1 \in Int /\ j \in Int
            BY <1>1
        <3>. QED  BY <2>2, <3>1, Zenon
    <2>4. (tail + 1) + j = tail + (j + 1)
        BY <1>1
    <2>. QED  BY <2>1, <2>3, <2>4 DEF Slot
<1>5. ASSUME NEW j \in Window'
      PROVE  /\ j \in Nat /\ j + 1 \in Window
             /\ Slot(j + 1) # tail
             /\ mId'[Slot(j + 1)] = mId[Slot(j + 1)]
    <2>1. j \in Nat /\ j + 1 \in Window /\ 0 < j + 1 /\ j + 1 < slots
        BY <1>1, <1>2 DEF EvictOldest, Window
    <2>2. RingTypes /\ slots > 0 /\ 0 \in Nat /\ j + 1 \in Nat
        BY <1>1, <2>1 DEF RingInv
    <2>3. Slot(j + 1) # tail
        BY <1>3, <2>1, <2>2, SlotFacts
    <2>4. mId'[Slot(j + 1)] = mId[Slot(j + 1)]
        BY <1>1, <2>2, <2>3, SlotFacts DEF EvictOldest
    <2>. QED  BY <2>1, <2>3, <2>4
<1>6. count' = count - 1 /\ tail \in 0 .. slots - 1
    BY <1>1 DEF EvictOldest
<1>. QED  BY <1>1, <1>2, <1>3, <1>4, <1>5, <1>6

LEMMA EvictKeeps == ASSUME RingInv, EvictOldest PROVE RingInv'
<1>1. /\ Up /\ slots \in Nat \ {0} /\ count \in Nat \ {0}
      /\ count' = count - 1 /\ tail \in 0 .. slots - 1
    BY PendingFacts, EvictFacts DEF EvictOldest
<1>2. RingTypes'
    <2>1. (tail + 1) % slots \in 0 .. slots - 1
        <3>1. tail + 1 \in Int
            BY DEF RingInv, RingTypes
        <3>. QED  BY <1>1, <3>1, Remainder
    <2>2. mLen[tail] \in Int
        BY <1>1, RingAssumption DEF RingAssumption, RingInv, RingTypes
    <2>3. count' \in 0 .. slots
        BY <1>1 DEF RingInv, RingTypes
    <2>4. RingTypes /\ Up
        BY <1>1 DEF RingInv
    <2>5. tail' \in Nat /\ tail' < slots /\ used' \in Int /\ tally' \in Nat
        BY <1>1, <2>1, <2>2, <2>4 DEF EvictOldest, RingTypes
    <2>6. mId' \in [0 .. slots - 1 -> Nat]
        BY <2>4 DEF EvictOldest, RingTypes
    <2>7. UNCHANGED <<cap, slots, mOff, mLen, mTrunc, write, nextId, cleared,
                      pending>>
        BY DEF EvictOldest
    <2>. QED  BY <2>3, <2>4, <2>5, <2>6, <2>7 DEF RingTypes, Up
<1>3. LossIsTallied' /\ (count <= nextId)'
    BY DEF EvictOldest, RingInv, RingTypes, LossIsTallied
<1>4. \E pos \in [(0 .. count)' -> Nat] : Layout(pos)'
    <2>1. PICK pos \in [0 .. count -> Nat] : Layout(pos)
        BY <1>1 DEF RingInv
    <2>2. PICK next \in [0 .. count - 1 -> Nat] :
             \A j \in 0 .. count - 1 : next[j] = pos[j + 1]
        <3>1. [j \in 0 .. count - 1 |-> pos[j + 1]]
                 \in [0 .. count - 1 -> Nat]
            BY <1>1
        <3>. QED  BY <3>1
    <2>3. /\ (0 .. count)' = 0 .. count - 1
          /\ \A j \in 0 .. count - 1 : j \in Nat /\ j + 1 \in 0 .. count
        BY <1>1
    <2>4. \A i, j \in (0 .. count)' : i <= j => next[i] <= next[j]
        <3>1. SUFFICES ASSUME NEW i \in 0 .. count - 1,
                              NEW j \in 0 .. count - 1, i <= j
                       PROVE  pos[i + 1] <= pos[j + 1]
            BY <2>2, <2>3
        <3>2. /\ i + 1 \in 0 .. count /\ j + 1 \in 0 .. count
              /\ i + 1 <= j + 1
            BY <2>3, <3>1
        <3>. QED  BY <2>1, <3>2 DEF Layout
    <2>5. /\ next[count - 1] = pos[count] /\ next[0] = pos[1]
          /\ pos[1] = pos[0] + mLen[tail] /\ pos[0] \in Nat
        <3>1. Slot(0) = tail
            BY EvictFacts
        <3>2. pos[0 + 1] = pos[0] + mLen[Slot(0)]
            <4>1. 0 \in Window
                BY <1>1 DEF Window
            <4>. QED  BY <2>1, <4>1 DEF Layout
        <3>. QED  BY <1>1, <2>2, <3>1, <3>2
    <2>6. mLen[tail] \in Int /\ pos[count] \in Nat
        BY <1>1, RingAssumption DEF RingAssumption, RingInv, RingTypes
    <2>7. (used = next[count] - next[0])' /\ (write = next[count] % cap)'
        <3>1. used = pos[count] - pos[0] /\ write = pos[count] % cap
            BY <2>1 DEF Layout
        <3>2. used' = used - mLen[tail] /\ write' = write /\ cap' = cap
            BY DEF EvictOldest
        <3>. QED  BY <1>1, <2>5, <2>6, <3>1, <3>2
    <2>8. ASSUME NEW j \in Window'
          PROVE  /\ (mOff[Slot(j)])' = next[j] % cap
                 /\ next[j + 1] = next[j] + (mLen[Slot(j)])'
        <3>1. /\ j \in Nat /\ j + 1 \in Window /\ j \in 0 .. count - 1
              /\ j + 1 \in 0 .. count - 1
            BY <1>1, <2>8 DEF Window
        <3>2. /\ (mOff[Slot(j)])' = mOff[Slot(j + 1)]
              /\ (mLen[Slot(j)])' = mLen[Slot(j + 1)]
            BY <3>1, EvictFacts DEF EvictOldest
        <3>3. /\ mOff[Slot(j + 1)] = pos[j + 1] % cap
              /\ pos[(j + 1) + 1] = pos[j + 1] + mLen[Slot(j + 1)]
            BY <2>1, <3>1 DEF Layout
        <3>4. next[j] = pos[j + 1] /\ next[j + 1] = pos[(j + 1) + 1]
            BY <2>2, <3>1
        <3>. QED  BY <3>2, <3>3, <3>4
    <2>9. cap' = cap
        BY DEF EvictOldest
    <2>10. Layout(next)'
        BY <2>4, <2>7, <2>8, <2>9 DEF Layout
    <2>. QED  BY <2>3, <2>10
<1>5. IdsInOrder'
    <2> SUFFICES ASSUME NEW j \in Window'
                 PROVE  (mId[Slot(j)] = nextId - count + 1 + j)'
        BY DEF IdsInOrder
    <2>1. (mId[Slot(j)])' = mId[Slot(j + 1)] /\ j \in Nat /\ j + 1 \in Window
        BY EvictFacts
    <2>2. mId[Slot(j + 1)] = nextId - count + 1 + (j + 1)
        BY <2>1 DEF RingInv, IdsInOrder
    <2>3. nextId' = nextId /\ count' = count - 1 /\ nextId \in Nat
          /\ count \in Nat
        BY DEF EvictOldest, RingInv, RingTypes
    <2>. QED  BY <2>1, <2>2, <2>3
<1>6. BytesInPlace'
    <2> SUFFICES ASSUME NEW j \in Window',
                        NEW k \in (0 .. mLen[Slot(j)] - 1)'
                 PROVE  (arena[(mOff[Slot(j)] + k) % cap]
                            = <<mId[Slot(j)], k>>)'
        BY DEF BytesInPlace
    <2>1. /\ (mId[Slot(j)])' = mId[Slot(j + 1)] /\ j + 1 \in Window
          /\ (mOff[Slot(j)])' = mOff[Slot(j + 1)]
          /\ (mLen[Slot(j)])' = mLen[Slot(j + 1)]
        BY EvictFacts DEF EvictOldest
    <2>2. k \in 0 .. mLen[Slot(j + 1)] - 1
        BY <2>1
    <2>3. arena[(mOff[Slot(j + 1)] + k) % cap] = <<mId[Slot(j + 1)], k>>
        BY <2>1, <2>2 DEF RingInv, BytesInPlace
    <2>. QED  BY <2>1, <2>3 DEF EvictOldest
<1>. QED  BY <1>2, <1>3, <1>4, <1>5, <1>6 DEF RingInv

\* the frame goes into the first slot behind the window
LEMMA StoreFacts ==
    ASSUME RingInv, NoteStore
    PROVE  /\ count \in Nat /\ count < slots /\ count' = count + 1
           /\ used + Store(pending) <= cap /\ used \in Int
           /\ nextId \in Nat /\ nextId' = nextId + 1
           /\ Slot(count) \in 0 .. slots - 1
           /\ \A j \in Nat : Slot(j)' = Slot(j)
           /\ mId'[Slot(count)] = nextId + 1
           /\ mOff'[Slot(count)] = write
           /\ mLen'[Slot(count)] = Store(pending)
           /\ mTrunc'[Slot(count)] = (\/ Store(pending) < pending[1]
                                      \/ Store(pending) < pending[2])
           /\ \A j \in Window :
                 /\ j \in Nat
                 /\ mId'[Slot(j)] = mId[Slot(j)]
                 /\ mOff'[Slot(j)] = mOff[Slot(j)]
                 /\ mLen'[Slot(j)] = mLen[Slot(j)]
                 /\ mTrunc'[Slot(j)] = mTrunc[Slot(j)]
<1>1. pending # NoFrame /\ ~MustEvict
    BY DEF NoteStore
<1>2. slots \in Nat \ {0} /\ Store(pending) \in Nat /\ cap \in Nat
    BY <1>1, PendingFacts
<1>3. /\ count \in Nat /\ count < slots /\ used \in Int /\ nextId \in Nat
      /\ used + Store(pending) <= cap
    BY <1>1, <1>2 DEF RingInv, RingTypes, MustEvict
<1>4. /\ Slot(count) \in 0 .. slots - 1
      /\ \A j \in Window : /\ j \in Nat /\ Slot(j) \in 0 .. slots - 1
                           /\ Slot(j) # Slot(count)
    <2>1. RingTypes /\ slots > 0
        BY <1>2 DEF RingInv
    <2>2. \A j \in Window : j \in Nat /\ j < count
        BY <1>3 DEF Window
    <2>. QED  BY <1>3, <2>1, <2>2, SlotFacts
<1>5. /\ mId \in [0 .. slots - 1 -> Nat] /\ mOff \in [0 .. slots - 1 -> Nat]
      /\ mLen \in [0 .. slots - 1 -> 0 .. FrameMax]
      /\ mTrunc \in [0 .. slots - 1 -> BOOLEAN]
    BY DEF RingInv, RingTypes
<1>6. /\ mId' = [mId EXCEPT ![Slot(count)] = nextId + 1]
      /\ mOff' = [mOff EXCEPT ![Slot(count)] = write]
      /\ mLen' = [mLen EXCEPT ![Slot(count)] = Store(pending)]
      /\ mTrunc' = [mTrunc EXCEPT ![Slot(count)] =
                       \/ Store(pending) < pending[1]
                       \/ Store(pending) < pending[2]]
      /\ nextId' = nextId + 1 /\ count' = count + 1
    BY DEF NoteStore
<1>7. \A j \in Nat : Slot(j)' = Slot(j)
    BY DEF NoteStore, Slot
<1> HIDE DEF Slot
<1>. QED  BY <1>3, <1>4, <1>5, <1>6, <1>7

\* the new frame's bytes follow those of the last record, none of a live
\* record's is overwritten
LEMMA CopyFacts ==
    ASSUME RingInv, NoteStore, NEW pos \in [0 .. count -> Nat], Layout(pos),
           NEW a \in Nat
    PROVE  /\ pos[0] <= a /\ a < pos[count] =>
                 arena'[a % cap] = arena[a % cap]
           /\ pos[count] <= a /\ a < pos[count] + Store(pending) =>
                 arena'[a % cap] = <<nextId + 1, a - pos[count]>>
<1> DEFINE w == pos[count]
           len == Store(pending)
<1>1. pending # NoFrame /\ arena' = Copied(len, nextId + 1)
    BY DEF NoteStore
<1>2. cap \in Nat \ {0} /\ len \in Nat \ {0} /\ len <= cap
    BY <1>1, PendingFacts
<1>3. count \in Nat /\ used + len <= cap
    BY StoreFacts
<1>4. w \in Nat /\ pos[0] \in Nat /\ used = w - pos[0] /\ write = w % cap
    BY <1>3 DEF Layout
<1> HIDE DEF w, len
<1>5. a % cap \in 0 .. cap - 1
    BY <1>2, Remainder
<1>6. arena'[a % cap] =
         LET k == ((a % cap) - (w % cap) + cap) % cap
         IN  IF k < len THEN <<nextId + 1, k>> ELSE arena[a % cap]
    BY <1>1, <1>4, <1>5 DEF Copied
<1>7. ASSUME pos[0] <= a, a < w PROVE arena'[a % cap] = arena[a % cap]
    <2>1. PICK d \in 0 .. cap - 1 : a + cap = w + d /\ d >= len
        <3>1. /\ a + cap - w \in 0 .. cap - 1 /\ a + cap - w >= len
              /\ a + cap = w + (a + cap - w)
            BY <1>2, <1>3, <1>4, <1>7
        <3>. QED  BY <3>1
    <2>2. ((a % cap) - (w % cap) + cap) % cap = d
        <3>1. a \in Int /\ w \in Int
            BY <1>4
        <3>2. a = w + d \/ a + cap = w + d
            BY <2>1
        <3>. QED  BY <1>2, <3>1, <3>2, Past, Zenon
    <2>3. ~(d < len)
        BY <1>2, <2>1
    <2>. QED  BY <1>6, <2>2, <2>3
<1>8. ASSUME w <= a, a < w + len
      PROVE  arena'[a % cap] = <<nextId + 1, a - w>>
    <2>1. PICK d \in 0 .. cap - 1 : a = w + d /\ d < len /\ d = a - w
        <3>1. a - w \in 0 .. cap - 1 /\ a - w < len /\ a = w + (a - w)
            BY <1>2, <1>3, <1>4, <1>8
        <3>. QED  BY <3>1
    <2>2. ((a % cap) - (w % cap) + cap) % cap = d
        <3>1. a \in Int /\ w \in Int
            BY <1>4
        <3>2. a = w + d \/ a + cap = w + d
            BY <2>1
        <3>. QED  BY <1>2, <3>1, <3>2, Past, Zenon
    <2>. QED  BY <1>6, <2>1, <2>2
<1>. QED  BY <1>7, <1>8 DEF w, len

LEMMA StoreKeeps == ASSUME RingInv, NoteStore PROVE RingInv'
<1> DEFINE len == Store(pending)
<1>1. /\ pending # NoFrame /\ cap \in Nat \ {0} /\ len \in Nat /\ len <= cap
      /\ len \in 0 .. FrameMax /\ Up
    <2>1. pending # NoFrame
        BY DEF NoteStore
    <2>. QED  BY <2>1, PendingFacts, RingAssumption DEF RingAssumption
<1>2. /\ count \in Nat /\ count < slots /\ count' = count + 1
      /\ used + len <= cap /\ used \in Int
      /\ nextId \in Nat /\ nextId' = nextId + 1
      /\ Slot(count) \in 0 .. slots - 1
      /\ UNCHANGED <<cap, slots, tail, tally, cleared>>
      /\ used' = used + len /\ pending' = NoFrame
    BY StoreFacts DEF NoteStore
<1>w. write' = (write + len) % cap
    BY DEF NoteStore
<1>3. Window' = 0 .. count /\ \A j \in Window' : j \in Window \/ j = count
    BY <1>2 DEF Window
<1>4. RingTypes'
    <2>1. RingTypes
        BY DEF RingInv
    <2>2. write' \in Nat
        <3>1. write + len \in Int
            BY <1>1, <2>1 DEF RingTypes
        <3>2. (write + len) % cap \in 0 .. cap - 1
            BY <1>1, <3>1, Remainder
        <3>. QED  BY <1>1, <1>w, <3>2
    <2>3. mId' \in [0 .. slots - 1 -> Nat] /\ mOff' \in [0 .. slots - 1 -> Nat]
        <3>1. /\ mId' = [mId EXCEPT ![Slot(count)] = nextId + 1]
              /\ mOff' = [mOff EXCEPT ![Slot(count)] = write]
            BY DEF NoteStore
        <3>2. /\ mId \in [0 .. slots - 1 -> Nat]
              /\ mOff \in [0 .. slots - 1 -> Nat]
              /\ nextId + 1 \in Nat /\ write \in Nat
            BY <2>1 DEF RingTypes
        <3>. QED  BY <3>1, <3>2
    <2>4. /\ mLen' \in [0 .. slots - 1 -> 0 .. FrameMax]
          /\ mTrunc' \in [0 .. slots - 1 -> BOOLEAN]
        <3>1. /\ mLen' = [mLen EXCEPT ![Slot(count)] = len]
              /\ mTrunc' = [mTrunc EXCEPT ![Slot(count)] =
                               len < pending[1] \/ len < pending[2]]
            BY DEF NoteStore
        <3>2. /\ mLen \in [0 .. slots - 1 -> 0 .. FrameMax]
              /\ mTrunc \in [0 .. slots - 1 -> BOOLEAN]
            BY <2>1 DEF RingTypes
        <3>. QED  BY <1>1, <3>1, <3>2
    <2>5. count' \in 0 .. slots /\ used' \in Int /\ nextId' \in Nat
        BY <1>1, <1>2, <2>1 DEF RingTypes
    <2>. QED  BY <1>2, <2>1, <2>2, <2>3, <2>4, <2>5 DEF RingTypes, Up
<1>5. LossIsTallied' /\ (count <= nextId)'
    BY <1>2 DEF RingInv, RingTypes, LossIsTallied
<1>6. PICK pos \in [0 .. count -> Nat] : Layout(pos)
    BY <1>1 DEF RingInv
<1>7. \E q \in [(0 .. count)' -> Nat] : Layout(q)'
    <2> DEFINE longer == [j \in 0 .. count + 1 |->
                            IF j <= count THEN pos[j] ELSE pos[count] + len]
    <2>1. pos[count] \in Nat /\ \A j \in 0 .. count : pos[j] \in Nat
        BY <1>2
    <2>2. PICK q \in [0 .. count + 1 -> Nat] :
             /\ \A j \in 0 .. count : q[j] = pos[j]
             /\ q[count + 1] = pos[count] + len
        <3>1. longer \in [0 .. count + 1 -> Nat]
            BY <1>1, <1>2, <2>1
        <3>2. /\ \A j \in 0 .. count : longer[j] = pos[j]
              /\ longer[count + 1] = pos[count] + len
            BY <1>2
        <3>. QED  BY <3>1, <3>2
    <2>3. (0 .. count)' = 0 .. count + 1
        BY <1>2
    <2>4. \A i, j \in 0 .. count + 1 : i <= j => q[i] <= q[j]
        <3> SUFFICES ASSUME NEW i \in 0 .. count + 1,
                            NEW j \in 0 .. count + 1, i <= j
                     PROVE  q[i] <= q[j]
            OBVIOUS
        <3>1. CASE j = count + 1 /\ i = count + 1
            BY <3>1, <2>2
        <3>2. CASE j = count + 1 /\ i # count + 1
            <4>1. i \in 0 .. count /\ count \in 0 .. count /\ i <= count
                BY <1>2, <3>2
            <4>2. pos[i] <= pos[count]
                BY <4>1, <1>6 DEF Layout
            <4>. QED  BY <1>1, <2>1, <2>2, <3>2, <4>1, <4>2
        <3>3. CASE j # count + 1
            <4>1. i \in 0 .. count /\ j \in 0 .. count
                BY <1>2, <3>3
            <4>. QED  BY <4>1, <2>2, <1>6 DEF Layout
        <3>. QED  BY <3>1, <3>2, <3>3
    <2>5. (used = q[count] - q[0])'
        <3>1. used = pos[count] - pos[0] /\ 0 \in 0 .. count
            BY <1>2, <1>6 DEF Layout
        <3>. QED  BY <1>1, <1>2, <2>1, <2>2, <3>1
    <2>6. (write = q[count] % cap)'
        <3>1. write = pos[count] % cap
            BY <1>6 DEF Layout
        <3>2. ((pos[count] % cap) + len) % cap = (pos[count] + len) % cap
            <4>1. pos[count] \in Int /\ len \in Int
                BY <1>1, <2>1
            <4>. QED  BY <1>1, <4>1, StepFromRemainder, Zenon
        <3>. QED  BY <1>2, <1>w, <2>2, <3>1, <3>2
    <2>7. ASSUME NEW j \in Window'
          PROVE  /\ (mOff[Slot(j)])' = q[j] % cap
                 /\ q[j + 1] = q[j] + (mLen[Slot(j)])'
        <3>1. j \in Nat /\ Slot(j)' = Slot(j)
            BY <1>2, <1>3, StoreFacts
        <3>2. CASE j \in Window
            <4>1. /\ (mOff[Slot(j)])' = mOff[Slot(j)]
                  /\ (mLen[Slot(j)])' = mLen[Slot(j)]
                BY <3>1, <3>2, StoreFacts
            <4>2. j \in 0 .. count /\ j + 1 \in 0 .. count
                BY <1>2, <3>2 DEF Window
            <4>3. /\ mOff[Slot(j)] = pos[j] % cap
                  /\ pos[j + 1] = pos[j] + mLen[Slot(j)]
                BY <1>6, <3>2 DEF Layout
            <4>. QED  BY <2>2, <4>1, <4>2, <4>3
        <3>3. CASE j = count
            <4>1. (mOff[Slot(j)])' = write /\ (mLen[Slot(j)])' = len
                BY <3>1, <3>3, StoreFacts
            <4>2. write = pos[count] % cap /\ count \in 0 .. count
                BY <1>2, <1>6 DEF Layout
            <4>. QED  BY <2>2, <3>3, <4>1, <4>2
        <3>. QED  BY <1>3, <3>2, <3>3
    <2>8. Layout(q)'
        BY <1>2, <2>3, <2>4, <2>5, <2>6, <2>7 DEF Layout
    <2>. QED  BY <2>3, <2>8
<1>8. IdsInOrder'
    <2> SUFFICES ASSUME NEW j \in Window'
                 PROVE  (mId[Slot(j)] = nextId - count + 1 + j)'
        BY DEF IdsInOrder
    <2>1. j \in Nat /\ Slot(j)' = Slot(j)
        BY <1>2, <1>3, StoreFacts
    <2>2. CASE j \in Window
        <3>1. (mId[Slot(j)])' = mId[Slot(j)]
            BY <2>1, <2>2, StoreFacts
        <3>2. mId[Slot(j)] = nextId - count + 1 + j
            BY <2>2 DEF RingInv, IdsInOrder
        <3>. QED  BY <1>2, <2>1, <3>1, <3>2
    <2>3. CASE j = count
        <3>1. (mId[Slot(j)])' = nextId + 1
            BY <2>1, <2>3, StoreFacts
        <3>. QED  BY <1>2, <2>3, <3>1
    <2>. QED  BY <1>3, <2>2, <2>3
<1>9. BytesInPlace'
    <2> SUFFICES ASSUME NEW j \in Window',
                        NEW k \in (0 .. mLen[Slot(j)] - 1)'
                 PROVE  (arena[(mOff[Slot(j)] + k) % cap]
                            = <<mId[Slot(j)], k>>)'
        BY DEF BytesInPlace
    <2>1. j \in Nat /\ Slot(j)' = Slot(j) /\ cap' = cap
        BY <1>2, <1>3, StoreFacts
    <2>2. CASE j \in Window
        <3>1. /\ (mId[Slot(j)])' = mId[Slot(j)]
              /\ (mOff[Slot(j)])' = mOff[Slot(j)]
              /\ (mLen[Slot(j)])' = mLen[Slot(j)]
            BY <2>1, <2>2, StoreFacts
        <3>2. k \in 0 .. mLen[Slot(j)] - 1
            BY <3>1
        <3>3. arena[(mOff[Slot(j)] + k) % cap] = <<mId[Slot(j)], k>>
            BY <2>2, <3>2 DEF RingInv, BytesInPlace
        <3>4. /\ mOff[Slot(j)] = pos[j] % cap
              /\ pos[j + 1] = pos[j] + mLen[Slot(j)]
            BY <1>6, <2>2 DEF Layout
        <3>5. /\ j \in 0 .. count /\ j + 1 \in 0 .. count
              /\ 0 \in 0 .. count /\ count \in 0 .. count /\ 0 <= j
              /\ j + 1 <= count
            BY <1>2, <2>2 DEF Window
        <3>6. pos[0] <= pos[j] /\ pos[j + 1] <= pos[count]
            BY <1>6, <3>5 DEF Layout
        <3>7. /\ pos[0] \in Nat /\ pos[j] \in Nat /\ pos[j + 1] \in Nat
              /\ pos[count] \in Nat
            BY <3>5
        <3>8. mLen[Slot(j)] \in Int /\ k \in Nat /\ k < mLen[Slot(j)]
            <4>1. Slot(j) \in 0 .. slots - 1 /\ slots > 0
                <5>1. RingTypes
                    BY DEF RingInv
                <5>2. slots > 0
                    BY <1>2, <5>1 DEF RingTypes
                <5>. QED  BY <2>1, <5>1, <5>2, SlotFacts
            <4>2. mLen[Slot(j)] \in 0 .. FrameMax /\ FrameMax \in Nat
                BY <4>1, RingAssumption DEF RingAssumption, RingInv, RingTypes
            <4>. QED  BY <3>2, <4>2
        <3>9. /\ pos[j] + k \in Nat /\ pos[0] <= pos[j] + k
              /\ pos[j] + k < pos[count]
            BY <3>4, <3>6, <3>7, <3>8
        <3>10. arena'[(pos[j] + k) % cap] = arena[(pos[j] + k) % cap]
            BY <1>6, <3>9, CopyFacts
        <3>11. (mOff[Slot(j)] + k) % cap = (pos[j] + k) % cap
            <4>1. pos[j] \in Int /\ k \in Int
                BY <3>7, <3>8
            <4>2. ((pos[j] % cap) + k) % cap = (pos[j] + k) % cap
                BY <1>1, <4>1, StepFromRemainder, Zenon
            <4>. QED  BY <3>4, <4>2
        <3>. QED  BY <2>1, <3>1, <3>3, <3>10, <3>11
    <2>3. CASE j = count
        <3>1. /\ (mId[Slot(j)])' = nextId + 1 /\ (mOff[Slot(j)])' = write
              /\ (mLen[Slot(j)])' = len
            BY <2>1, <2>3, StoreFacts
        <3>2. k \in Nat /\ k < len
            BY <1>1, <3>1
        <3>3. write = pos[count] % cap /\ pos[count] \in Nat
            BY <1>2, <1>6 DEF Layout
        <3>4. /\ pos[count] + k \in Nat /\ pos[count] <= pos[count] + k
              /\ pos[count] + k < pos[count] + len
              /\ (pos[count] + k) - pos[count] = k
            BY <1>1, <3>2, <3>3
        <3>5. arena'[(pos[count] + k) % cap] = <<nextId + 1, k>>
            BY <1>6, <3>4, CopyFacts
        <3>6. (write + k) % cap = (pos[count] + k) % cap
            <4>1. pos[count] \in Int /\ k \in Int
                BY <3>2, <3>3
            <4>2. ((pos[count] % cap) + k) % cap = (pos[count] + k) % cap
                BY <1>1, <4>1, StepFromRemainder, Zenon
            <4>. QED  BY <3>3, <4>2
        <3>. QED  BY <2>1, <3>1, <3>5, <3>6
    <2>. QED  BY <1>3, <2>2, <2>3
<1>. QED  BY <1>4, <1>5, <1>7, <1>8, <1>9 DEF RingInv

LEMMA RingStep == RingInv /\ [Next]_vars => RingInv'
<1> SUFFICES ASSUME RingInv, [Next]_vars PROVE RingInv'
    OBVIOUS
<1>1. ASSUME NEW z \in Sizes, RingInit(z) PROVE RingInv'
    <2>1. z[1] \in Nat /\ z[2] \in Nat /\ z[1] # 0 /\ z[2] > 0
          /\ z[1] >= FrameMax
        BY RingAssumption DEF RingAssumption
    <2>. QED  BY <1>1, <2>1, UnsetKeeps DEF RingInit
<1>2. CASE Shutdown
    BY <1>2, UnsetKeeps DEF Shutdown
<1>3. CASE Reset
    BY <1>3, ResetKeeps
<1>4. CASE (\E f \in Frames : NoteBegin(f)) \/ UNCHANGED vars
    <2>1. UNCHANGED <<cap, slots, arena, mId, mOff, mLen, mTrunc, tail, count,
                      used, write, nextId, tally, cleared>>
        BY <1>4 DEF NoteBegin, vars, meta
    <2>2. RingTypes'
        BY <1>4, <2>1 DEF NoteBegin, RingInv, RingTypes, vars, Up
    <2>3. IdsInOrder' /\ BytesInPlace' /\ LossIsTallied' /\ (count <= nextId)'
        BY <2>1 DEF RingInv, IdsInOrder, BytesInPlace, LossIsTallied, Window,
                    Slot
    <2>4. Up' => \E pos \in [(0 .. count)' -> Nat] : Layout(pos)'
        BY <2>1 DEF RingInv, Up, Layout, Window, Slot
    <2>. QED  BY <2>2, <2>3, <2>4 DEF RingInv
<1>. QED  BY <1>1, <1>2, <1>3, <1>4, EvictKeeps, StoreKeeps DEF Next

\* Nothing the ring ever observed is lost without being counted
\* (evidence_ring.c:187-189).
THEOREM LossAlwaysTallied == Spec => []LossIsTallied
<1>1. RingInv => LossIsTallied
    BY DEF RingInv
<1>. QED  BY <1>1, InitRing, RingStep, PTL DEF Spec

-----------------------------------------------------------------------------
(* What a reader gets back                                                 *)

Oldest == nextId - count + 1
LiveIds == Oldest .. nextId

\* the record in a slot, were every byte in its place
RecordIn(s) ==
    [bytes |-> [k \in 1 .. mLen[s] |-> <<mId[s], k - 1>>],
     truncated |-> mTrunc[s]]

Readable ==
    [id \in {i \in 1 .. nextId : Get(i, FrameMax).hit} |->
        Get(id, FrameMax).rec]

LEMMA OldestId == ASSUME RingInv, count > 0 PROVE mId[tail] = Oldest
<1>1. /\ count \in Nat \ {0} /\ nextId \in Nat /\ slots \in Nat \ {0}
      /\ tail \in Int /\ 0 <= tail /\ tail < slots /\ tail + 0 = tail
    BY DEF RingInv, RingTypes, Up
<1>2. 0 \in Window
    BY <1>1 DEF Window
<1>3. mId[Slot(0)] = nextId - count + 1 + 0
    BY <1>2 DEF RingInv, IdsInOrder
<1>4. tail % slots = tail
    BY <1>1, SmallRemainder
<1>. QED  BY <1>1, <1>3, <1>4 DEF Slot, Oldest

\* a look-up hits the IDs of the window and nothing else ...
LEMMA GetHits ==
    ASSUME RingInv, NEW id \in 1 .. nextId
    PROVE  Get(id, FrameMax).hit <=> id \in LiveIds
<1>1. count \in Nat /\ nextId \in Nat /\ count <= nextId /\ count <= slots
    BY DEF RingInv, RingTypes
<1>2. CASE count = 0
    BY <1>1, <1>2 DEF Get, LiveIds, Oldest
<1>3. CASE count > 0
    <2>1. Up /\ slots > 0
        BY <1>1, <1>3 DEF RingInv, RingTypes, Up
    <2>2. mId[tail] = Oldest
        BY <1>3, OldestId
    <2>3. id >= Oldest => mId[(tail + (id - Oldest)) % slots] = id
        <3> SUFFICES ASSUME id >= Oldest
                     PROVE  mId[Slot(id - Oldest)] = id
            BY DEF Slot
        <3>1. id - Oldest \in Window
            BY <1>1 DEF Window, Oldest
        <3>2. mId[Slot(id - Oldest)] = nextId - count + 1 + (id - Oldest)
            BY <3>1 DEF RingInv, IdsInOrder
        <3>. QED  BY <1>1, <3>2 DEF Oldest
    <2>4. /\ id # 0 /\ id <= nextId
          /\ id >= Oldest <=> id \in LiveIds
        BY <1>1 DEF LiveIds, Oldest
    <2>. QED  BY <1>3, <2>1, <2>2, <2>3, <2>4 DEF Get
<1>. QED  BY <1>1, <1>2, <1>3

\* ... and finds under each the whole record of its slot
LEMMA GetFinds ==
    ASSUME RingInv, NEW id \in LiveIds
    PROVE  /\ id - Oldest \in Window
           /\ mId[Slot(id - Oldest)] = id
           /\ id \in 1 .. nextId
           /\ Get(id, FrameMax).rec = RecordIn(Slot(id - Oldest))
<1> DEFINE j == id - Oldest
           s == Slot(j)
<1>1. /\ count \in Nat \ {0} /\ nextId \in Nat /\ count <= nextId
      /\ slots > 0 /\ slots \in Nat /\ Up
    BY DEF RingInv, RingTypes, LiveIds, Oldest, Up
<1>2. j \in Window /\ j \in Nat /\ id \in 1 .. nextId
    BY <1>1 DEF Window, LiveIds, Oldest
<1>3. mId[s] = id
    <2>1. mId[s] = nextId - count + 1 + j
        BY <1>2 DEF RingInv, IdsInOrder
    <2>. QED  BY <1>1, <1>2, <2>1 DEF Oldest
<1>4. Get(id, FrameMax).hit
    BY <1>2, GetHits
<1>5. mId[tail] = Oldest
    BY <1>1, OldestId
<1>6. mLen[s] \in 0 .. FrameMax /\ FrameMax \in Nat
    <2>1. RingTypes
        BY DEF RingInv
    <2>2. s \in 0 .. slots - 1
        BY <1>1, <1>2, <2>1, SlotFacts
    <2>. QED  BY <2>1, <2>2, RingAssumption DEF RingTypes, RingAssumption
<1>7. \A k \in 1 .. mLen[s] :
         arena[(mOff[s] + k - 1) % cap] = <<mId[s], k - 1>>
    <2> SUFFICES ASSUME NEW k \in 1 .. mLen[s]
                 PROVE  arena[(mOff[s] + k - 1) % cap] = <<mId[s], k - 1>>
        OBVIOUS
    <2>1. k - 1 \in 0 .. mLen[s] - 1
        BY <1>6
    <2>2. arena[(mOff[s] + (k - 1)) % cap] = <<mId[s], k - 1>>
        BY <1>2, <2>1 DEF RingInv, BytesInPlace
    <2>3. mOff[s] \in Int
        <3>1. RingTypes
            BY DEF RingInv
        <3>2. s \in 0 .. slots - 1
            BY <1>1, <1>2, <3>1, SlotFacts
        <3>. QED  BY <3>1, <3>2 DEF RingTypes
    <2>4. mOff[s] + (k - 1) = mOff[s] + k - 1
        BY <2>3
    <2>. QED  BY <2>2, <2>4
<1>8. Get(id, FrameMax).rec =
         [bytes |-> [k \in 1 .. mLen[s] |-> arena[(mOff[s] + k - 1) % cap]],
          truncated |-> mTrunc[s]]
    <2>1. (IF mLen[s] < FrameMax THEN mLen[s] ELSE FrameMax) = mLen[s]
        BY <1>6
    <2>2. /\ id # 0 /\ Up /\ count > 0 /\ id >= Oldest /\ id <= nextId
          /\ s = (tail + (id - Oldest)) % slots
        BY <1>1, <1>2 DEF LiveIds, Oldest, Slot
    <2>. QED  BY <1>3, <1>5, <2>1, <2>2 DEF Get
<1>9. [k \in 1 .. mLen[s] |-> arena[(mOff[s] + k - 1) % cap]]
         = [k \in 1 .. mLen[s] |-> <<mId[s], k - 1>>]
    BY <1>7
<1>. QED  BY <1>2, <1>3, <1>8, <1>9 DEF RecordIn

LEMMA ReadableIs ==
    RingInv => Readable = [id \in LiveIds |-> RecordIn(Slot(id - Oldest))]
<1> SUFFICES ASSUME RingInv
             PROVE  Readable = [id \in LiveIds |->
                                  RecordIn(Slot(id - Oldest))]
    OBVIOUS
<1>1. {i \in 1 .. nextId : Get(i, FrameMax).hit} = LiveIds
    BY GetHits, GetFinds
<1>2. \A id \in LiveIds :
         Get(id, FrameMax).rec = RecordIn(Slot(id - Oldest))
    BY GetFinds
<1>. QED  BY <1>1, <1>2 DEF Readable

LEMMA ReadableNext ==
    RingInv' => Readable' = [id \in LiveIds' |->
                               RecordIn(Slot(id - Oldest))']
<1>1. (RingInv => Readable = [id \in LiveIds |->
                                RecordIn(Slot(id - Oldest))])'
    BY ReadableIs, PTL
<1>. QED  BY <1>1

\* two windows that hold the same IDs and records read the same
LEMMA SameReading ==
    ASSUME RingInv, RingInv', LiveIds' = LiveIds,
           \A id \in LiveIds :
              RecordIn(Slot(id - Oldest))' = RecordIn(Slot(id - Oldest))
    PROVE  Readable' = Readable
BY ReadableIs, ReadableNext

\* no record, no ID in the window
LEMMA EmptyWindow == RingInv /\ count = 0 => LiveIds = {}
<1> SUFFICES ASSUME RingInv, count = 0 PROVE LiveIds = {}
    OBVIOUS
<1>1. nextId \in Nat
    BY DEF RingInv, RingTypes
<1>2. Oldest = nextId + 1
    BY <1>1 DEF Oldest
<1>3. \A id \in Int : ~ (nextId + 1 <= id /\ id <= nextId)
    BY <1>1
<1>. QED  BY <1>1, <1>2, <1>3 DEF LiveIds

\* an empty window reads as an empty log
LEMMA EmptyReading ==
    ASSUME RingInv', count' = 0 PROVE Readable' = <<>>
<1>1. LiveIds' = {}
    <2>1. (RingInv /\ count = 0 => LiveIds = {})'
        BY EmptyWindow, PTL
    <2>. QED  BY <2>1
<1>2. Readable' = [id \in {} |-> RecordIn(Slot(id - Oldest))']
    BY <1>1, ReadableNext
<1>3. Readable' \in [{} -> {}] /\ <<>> \in [{} -> {}]
    BY <1>2
<1>. QED  BY <1>3

LEMMA EvictForgets ==
    ASSUME RingInv, RingInv', EvictOldest
    PROVE  /\ \E id \in DOMAIN Readable :
                 /\ \A other \in DOMAIN Readable : id <= other
                 /\ Readable' = [x \in DOMAIN Readable \ {id} |-> Readable[x]]
           /\ nextId' = nextId
<1>1. /\ count \in Nat \ {0} /\ nextId \in Nat /\ count <= nextId
      /\ count' = count - 1 /\ nextId' = nextId
    BY EvictFacts DEF RingInv, RingTypes, EvictOldest
<1>2. /\ Oldest \in LiveIds /\ \A id \in LiveIds : Oldest <= id
      /\ Oldest' = Oldest + 1 /\ LiveIds' = LiveIds \ {Oldest}
    BY <1>1 DEF LiveIds, Oldest
<1>3. ASSUME NEW id \in LiveIds'
      PROVE  RecordIn(Slot(id - Oldest))' = RecordIn(Slot(id - Oldest))
    <2>1. /\ id - (Oldest') \in Window' /\ id - (Oldest') \in Nat
          /\ (id - (Oldest')) + 1 = id - Oldest
        BY <1>1, <1>2, <1>3 DEF LiveIds, Oldest, Window
    <2>2. /\ (Slot(id - Oldest))' = Slot(id - Oldest)
          /\ mId'[Slot(id - Oldest)] = mId[Slot(id - Oldest)]
        <3>1. (Slot(id - Oldest))' = Slot((id - (Oldest')) + 1)
            BY <2>1, EvictFacts
        <3>. QED  BY <2>1, <3>1, EvictFacts
    <2>3. mLen' = mLen /\ mTrunc' = mTrunc
        BY DEF EvictOldest
    <2> HIDE DEF Slot
    <2>. QED  BY <2>2, <2>3 DEF RecordIn
<1>4. /\ DOMAIN Readable = LiveIds
      /\ \A id \in LiveIds : Readable[id] = RecordIn(Slot(id - Oldest))
    BY ReadableIs
<1>5. Readable' = [id \in LiveIds \ {Oldest} |->
                     RecordIn(Slot(id - Oldest))]
    BY <1>2, <1>3, ReadableNext
<1>. QED  BY <1>1, <1>2, <1>4, <1>5

LEMMA StoreRecords ==
    ASSUME RingInv, RingInv', NoteStore
    PROVE  /\ nextId' = nextId + 1
           /\ Readable' = [id \in DOMAIN Readable \cup {nextId + 1} |->
                             IF id = nextId + 1
                             THEN Log!Record(nextId + 1, pending)
                             ELSE Readable[id]]
<1>1. /\ count \in Nat /\ nextId \in Nat /\ count <= nextId
      /\ count' = count + 1 /\ nextId' = nextId + 1
    BY StoreFacts DEF RingInv
<1>2. /\ Oldest' = Oldest /\ LiveIds' = LiveIds \cup {nextId + 1}
      /\ nextId + 1 \notin LiveIds /\ (nextId + 1) - Oldest = count
    BY <1>1 DEF LiveIds, Oldest
<1>3. ASSUME NEW id \in LiveIds
      PROVE  RecordIn(Slot(id - Oldest))' = RecordIn(Slot(id - Oldest))
    <2>1. id - Oldest \in Window
        BY GetFinds
    <2>2. /\ (Slot(id - Oldest))' = Slot(id - Oldest)
          /\ mId'[Slot(id - Oldest)] = mId[Slot(id - Oldest)]
          /\ mLen'[Slot(id - Oldest)] = mLen[Slot(id - Oldest)]
          /\ mTrunc'[Slot(id - Oldest)] = mTrunc[Slot(id - Oldest)]
        BY <1>2, <2>1, StoreFacts
    <2> HIDE DEF Slot
    <2>. QED  BY <2>2 DEF RecordIn
<1>4. RecordIn(Slot(nextId - Oldest))' = Log!Record(nextId + 1, pending)
    <2>1. Store(pending) = Log!Kept(pending[1])
        <3>1. pending # NoFrame
            BY DEF NoteStore
        <3>. QED  BY <3>1, PendingFacts DEF Log!Kept
    <2>2. (Slot(nextId - Oldest))' = Slot(count)
        BY <1>1, <1>2, StoreFacts
    <2>3. /\ mId'[Slot(count)] = nextId + 1
          /\ mLen'[Slot(count)] = Log!Kept(pending[1])
          /\ mTrunc'[Slot(count)] = (\/ Log!Kept(pending[1]) < pending[1]
                                     \/ Log!Kept(pending[1]) < pending[2])
        BY <2>1, StoreFacts
    <2> HIDE DEF Slot
    <2>. QED  BY <2>2, <2>3 DEF RecordIn, Log!Record
<1>5. /\ DOMAIN Readable = LiveIds
      /\ \A id \in LiveIds : Readable[id] = RecordIn(Slot(id - Oldest))
    BY ReadableIs
<1>6. Readable' = [id \in LiveIds \cup {nextId + 1} |->
                     RecordIn(Slot(id - Oldest))']
    BY <1>2, ReadableNext
<1>7. \A id \in LiveIds \cup {nextId + 1} :
         RecordIn(Slot(id - Oldest))' =
            IF id = nextId + 1 THEN Log!Record(nextId + 1, pending)
                               ELSE Readable[id]
    BY <1>1, <1>2, <1>3, <1>4, <1>5
<1>. QED  BY <1>1, <1>5, <1>6, <1>7

LEMMA LogInit == Init => Readable = <<>> /\ nextId = 0
<1> SUFFICES ASSUME Init PROVE Readable = <<>> /\ nextId = 0
    OBVIOUS
<1>1. {i \in 1 .. nextId : Get(i, FrameMax).hit} = {} /\ nextId = 0
    BY DEF Init
<1>2. Readable \in [{} -> {}] /\ <<>> \in [{} -> {}]
    BY <1>1 DEF Readable
<1>. QED  BY <1>1, <1>2

\* what a step may do to what readers see
ReadsOn ==
    \/ Readable' = <<>> /\ nextId' = nextId
    \/ Readable' = Readable /\ nextId' = nextId
    \/ /\ nextId' = nextId
       /\ \E id \in DOMAIN Readable :
             /\ \A other \in DOMAIN Readable : id <= other
             /\ Readable' = [x \in DOMAIN Readable \ {id} |-> Readable[x]]
    \/ /\ nextId' = nextId + 1
       /\ \E f \in Frames :
             Readable' = [id \in DOMAIN Readable \cup {nextId + 1} |->
                            IF id = nextId + 1
                            THEN Log!Record(nextId + 1, f)
                            ELSE Readable[id]]

LEMMA LogStep == RingInv /\ RingInv' /\ [Next]_vars => ReadsOn
<1> SUFFICES ASSUME RingInv, RingInv', [Next]_vars PROVE ReadsOn
    OBVIOUS
<1>1. ASSUME \/ \E z \in Sizes : RingInit(z)
             \/ Shutdown \/ Reset
      PROVE  Readable' = <<>> /\ nextId' = nextId
    <2>1. count' = 0 /\ nextId' = nextId
        BY <1>1 DEF RingInit, Shutdown, Reset, Unset
    <2>. QED  BY <2>1, EmptyReading
<1>2. ASSUME (\E f \in Frames : NoteBegin(f)) \/ UNCHANGED vars
      PROVE  Readable' = Readable /\ nextId' = nextId
    <2>1. UNCHANGED <<slots, mId, mLen, mTrunc, tail, count, nextId>>
        BY <1>2 DEF NoteBegin, vars, meta
    <2>2. /\ LiveIds' = LiveIds
          /\ \A id \in LiveIds :
                RecordIn(Slot(id - Oldest))' = RecordIn(Slot(id - Oldest))
        BY <2>1 DEF LiveIds, Oldest, RecordIn, Slot
    <2>. QED  BY <2>1, <2>2, SameReading
<1>3. CASE EvictOldest
    BY <1>3, EvictForgets DEF ReadsOn
<1>4. CASE NoteStore
    <2>1. pending \in Frames
        <3>1. pending # NoFrame
            BY <1>4 DEF NoteStore
        <3>. QED  BY <3>1, PendingFacts
    <2>. QED  BY <1>4, <2>1, StoreRecords DEF ReadsOn
<1>. QED  BY <1>1, <1>2, <1>3, <1>4 DEF Next, ReadsOn

LEMMA LogRefines ==
    RingInv /\ RingInv' /\ [Next]_vars => [Log!Next]_<<Readable, nextId>>
<1> SUFFICES ASSUME RingInv, RingInv', [Next]_vars
             PROVE  Log!Next \/ UNCHANGED <<Readable, nextId>>
    OBVIOUS
<1>1. ASSUME Readable' = <<>>, nextId' = nextId PROVE Log!Clear
    BY <1>1 DEF Log!Clear, Readable
<1>2. ASSUME nextId' = nextId, NEW id \in DOMAIN Readable,
             \A other \in DOMAIN Readable : id <= other,
             Readable' = [x \in DOMAIN Readable \ {id} |-> Readable[x]]
      PROVE  Log!Forget
    BY <1>2 DEF Log!Forget, Log!Restrict, Readable
<1>3. ASSUME nextId' = nextId + 1, NEW f \in Frames,
             Readable' = [id \in DOMAIN Readable \cup {nextId + 1} |->
                            IF id = nextId + 1
                            THEN Log!Record(nextId + 1, f)
                            ELSE Readable[id]]
      PROVE  Log!Note(f)
    BY <1>3 DEF Log!Note, Readable
<1>. QED  BY <1>1, <1>2, <1>3, LogStep DEF Log!Next, ReadsOn

\* A reader gets the frame noted under an ID or a miss, and only the oldest
\* frames go: the arena's wrap-around, the two eviction limits, the clamps
\* and a reset show nothing else (evidence_ring.c:255-283).
THEOREM RingImplementsLog == Spec => ImplementsLog
<1>1. Init => Log!Init
    BY LogInit DEF Log!Init, Readable
<1>2. RingInv /\ RingInv' /\ [Next]_vars
         => [Log!Next]_<<[id \in {i \in 1 .. nextId : Get(i, FrameMax).hit} |->
                            Get(id, FrameMax).rec], nextId>>
    BY LogRefines DEF Readable
<1>. QED  BY <1>1, <1>2, InitRing, RingStep, PTL
          DEF Spec, ImplementsLog, Log!Spec
=============================================================================
