---------------------------- MODULE EvidenceRing ----------------------------
(***************************************************************************)
(* The bounded ring of raw 802.11 frames (src/evidence_ring.c): a byte     *)
(* arena written circularly and a ring of metadata slots addressed by a    *)
(* monotonic event ID.                                                     *)
(*                                                                         *)
(* The mutex is held through every call, so a call is one action; only     *)
(* evidence_ring_note, whose loop evicts one record per turn, is several,  *)
(* and while it runs (pending # NoFrame) no other call does.  A payload    *)
(* byte is <<id, k>>, byte k of the frame noted under id: what a reader    *)
(* gets back is then known to be the right frame or not.                   *)
(*                                                                         *)
(* Names ending in _m and a number are defective forms of the definition   *)
(* that follows; no action uses them.                                      *)
(***************************************************************************)
EXTENDS Integers, FiniteSets

CONSTANTS
    Sizes,      \* <<arena bytes, slots>> of the budgets init accepts
    Frames,     \* <<captured length, length on the air>> of possible frames
    FrameMax,   \* EVIDENCE_FRAME_MAX
    NoFrame,    \* no note is in progress
    MaxId       \* bound: IDs issued in one behaviour

\* init refuses a budget without slots or whose arena is below FrameMax
ASSUME RingAssumption ==
    /\ FrameMax \in Nat \ {0}
    /\ Sizes \subseteq (Nat \ {0}) \X (Nat \ {0})
    /\ \A z \in Sizes : z[1] >= FrameMax
    /\ Frames \subseteq (Nat \ {0}) \X Nat
    /\ NoFrame \notin Frames
    /\ MaxId \in Nat

VARIABLES
    cap,        \* arena bytes, 0 when there is no arena
    slots,      \* metadata ring length, 0 when there is no arena
    arena,      \* offset -> payload byte
    mId,        \* slot -> event_id, 0 when the slot is out of the window
    mOff,       \* slot -> off
    mLen,       \* slot -> cap_len
    mTrunc,     \* slot -> truncated
    tail,       \* oldest live slot
    count,      \* live slots
    used,       \* payload bytes live
    write,      \* next arena write offset
    nextId,     \* last ID issued
    tally,      \* evict_evidence_frame, the sensor-health counter
    cleared,    \* history: records dropped by reset, init and shutdown
    pending     \* the frame evidence_ring_note is making room for

meta == <<mId, mOff, mLen, mTrunc>>
vars == <<cap, slots, arena, meta, tail, count, used, write, nextId, tally,
          cleared, pending>>

Up      == cap > 0
NoByte  == <<0, 0>>
Slot(j) == (tail + j) % slots     \* the slot of the j-th oldest record
Window  == 0 .. count - 1

-----------------------------------------------------------------------------
(* Helpers *)

\* both clamps of evidence_ring_note
Store(f) ==
    LET capped == IF f[1] < FrameMax THEN f[1] ELSE FrameMax
    IN  IF capped < cap THEN capped ELSE cap

\* the condition of the eviction loop
MustEvict == count = slots \/ used + Store(pending) > cap

\* the circular copy: byte k of the frame lands k past the write offset
Copied_m1(len, id) ==
    [p \in 0 .. cap - 1 |->
        IF p >= write /\ p - write < len THEN <<id, p - write>> ELSE arena[p]]
Copied(len, id) ==
    [p \in 0 .. cap - 1 |->
        LET k == (p - write + cap) % cap
        IN  IF k < len THEN <<id, k>> ELSE arena[p]]

\* evidence_ring_get with room for `max` bytes: the range test, the slot the
\* ID indexes, the slot's own ID, then the bytes from the slot's offset
Get(id, max) ==
    LET oldest == mId[tail]
        s == (tail + (id - oldest)) % slots
        want == IF mLen[s] < max THEN mLen[s] ELSE max
        hit == /\ id # 0 /\ Up /\ count > 0
               /\ id >= oldest /\ id <= nextId
               /\ mId[s] = id
    IN  IF hit
           THEN [hit |-> TRUE,
                 rec |-> [bytes |-> [k \in 1 .. want |->
                                       arena[(mOff[s] + k - 1) % cap]],
                          truncated |-> mTrunc[s]]]
           ELSE [hit |-> FALSE]

-----------------------------------------------------------------------------
(* Actions *)

\* no arena: what ring_free_locked leaves, nextId apart
Unset(c, n) ==
    /\ cap' = c
    /\ slots' = n
    /\ arena' = [p \in 0 .. c - 1 |-> NoByte]
    /\ mId' = [s \in 0 .. n - 1 |-> 0]
    /\ mOff' = [s \in 0 .. n - 1 |-> 0]
    /\ mLen' = [s \in 0 .. n - 1 |-> 0]
    /\ mTrunc' = [s \in 0 .. n - 1 |-> FALSE]
    /\ tail' = 0
    /\ count' = 0
    /\ used' = 0
    /\ write' = 0
    /\ cleared' = cleared + count
    /\ UNCHANGED <<nextId, tally, pending>>

Init ==
    /\ cap = 0
    /\ slots = 0
    /\ arena = <<>>
    /\ mId = <<>> /\ mOff = <<>> /\ mLen = <<>> /\ mTrunc = <<>>
    /\ tail = 0
    /\ count = 0
    /\ used = 0
    /\ write = 0
    /\ nextId = 0
    /\ tally = 0
    /\ cleared = 0
    /\ pending = NoFrame

\* evidence_ring_init: a fresh arena replaces any there was
RingInit(z) ==
    /\ pending = NoFrame
    /\ Unset(z[1], z[2])

\* evidence_ring_shutdown
Shutdown ==
    /\ pending = NoFrame
    /\ Up
    /\ Unset(0, 0)

\* evidence_ring_reset: the window is emptied, slots and arena left as found
Reset ==
    /\ pending = NoFrame
    /\ Up /\ count > 0
    /\ used' = 0
    /\ write' = 0
    /\ tail' = 0
    /\ count' = 0
    /\ cleared' = cleared + count
    /\ UNCHANGED <<cap, slots, arena, meta, nextId, tally, pending>>

\* evidence_ring_note takes the lock with a frame to keep
NoteBegin(f) ==
    /\ pending = NoFrame
    /\ Up
    /\ nextId < MaxId
    /\ pending' = f
    /\ UNCHANGED <<cap, slots, arena, meta, tail, count, used, write, nextId,
                   tally, cleared>>

\* one turn of its eviction loop (evict_oldest_locked)
EvictOldest_m1 ==
    /\ pending # NoFrame
    /\ MustEvict
    /\ used' = used - mLen[tail]
    /\ mId' = [mId EXCEPT ![tail] = 0]
    /\ tail' = (tail + 1) % slots
    /\ count' = count - 1
    /\ UNCHANGED <<cap, slots, arena, mOff, mLen, mTrunc, write, nextId, tally,
                   cleared, pending>>
EvictOldest ==
    /\ pending # NoFrame
    /\ MustEvict
    /\ used' = used - mLen[tail]
    /\ mId' = [mId EXCEPT ![tail] = 0]
    /\ tail' = (tail + 1) % slots
    /\ count' = count - 1
    /\ tally' = tally + 1
    /\ UNCHANGED <<cap, slots, arena, mOff, mLen, mTrunc, write, nextId,
                   cleared, pending>>

\* the rest of evidence_ring_note, once there is room
NoteStore ==
    /\ pending # NoFrame
    /\ ~MustEvict
    /\ LET len  == Store(pending)
           id   == nextId + 1
           head == Slot(count)
       IN  /\ nextId' = id
           /\ mId' = [mId EXCEPT ![head] = id]
           /\ mOff' = [mOff EXCEPT ![head] = write]
           /\ mLen' = [mLen EXCEPT ![head] = len]
           /\ mTrunc' = [mTrunc EXCEPT ![head] =
                            len < pending[1] \/ len < pending[2]]
           /\ arena' = Copied(len, id)
           /\ write' = (write + len) % cap
           /\ used' = used + len
    /\ count' = count + 1
    /\ pending' = NoFrame
    /\ UNCHANGED <<cap, slots, tail, tally, cleared>>

Next ==
    \/ \E z \in Sizes : RingInit(z)
    \/ Shutdown
    \/ Reset
    \/ \E f \in Frames : NoteBegin(f)
    \/ EvictOldest
    \/ NoteStore

Spec == Init /\ [][Next]_vars

-----------------------------------------------------------------------------
(* Properties *)

\* Every ID ever issued is live, was cleared by the operator's reset or
\* shutdown, or was counted as a lost observation (evidence_ring.c:187-189).
LossIsTallied == nextId = count + tally + cleared

\* A reader sees the promised log: the record under an ID is the very frame
\* noted under it, whole up to FrameMax and flagged when it is not, or a
\* miss; only the oldest go, and no ID ever names a second frame.
Log == INSTANCE EvidenceLog WITH
          held <- [id \in {i \in 1 .. nextId : Get(i, FrameMax).hit} |->
                     Get(id, FrameMax).rec],
          lastId <- nextId
ImplementsLog == Log!Spec
=============================================================================
