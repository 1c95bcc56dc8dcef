----------------------------- MODULE EvidenceLog -----------------------------
(***************************************************************************)
(* What the evidence ring promises its readers: a log of captured frames,  *)
(* addressed by event ID, from which only the oldest frames are ever       *)
(* forgotten.  It says nothing of slots, offsets or an arena.              *)
(***************************************************************************)
EXTENDS Integers, Functions

CONSTANTS
    Frames,     \* <<captured length, length on the air>> of possible frames
    FrameMax    \* bytes kept of one frame at most (EVIDENCE_FRAME_MAX)

VARIABLES
    held,       \* event ID -> the record a reader gets for it
    lastId      \* the last event ID issued; 0 = none yet

Kept(len) == IF len < FrameMax THEN len ELSE FrameMax

\* The record noted under `id`: its leading bytes, each known by the frame it
\* came from and its place there, and whether some of the frame is missing.
Record(id, f) ==
    [bytes |-> [k \in 1 .. Kept(f[1]) |-> <<id, k - 1>>],
     truncated |-> Kept(f[1]) < f[1] \/ Kept(f[1]) < f[2]]

Init == held = <<>> /\ lastId = 0

\* the oldest frame makes room for a newer one
Forget ==
    /\ \E id \in DOMAIN held :
          /\ \A other \in DOMAIN held : id <= other
          /\ held' = Restrict(held, DOMAIN held \ {id})
    /\ UNCHANGED lastId

\* a frame is recorded under an ID never used before
Note(f) ==
    /\ lastId' = lastId + 1
    /\ held' = [id \in DOMAIN held \cup {lastId'} |->
                  IF id = lastId' THEN Record(id, f) ELSE held[id]]

\* reset, re-initialisation and shutdown forget every frame, and no ID
Clear == held' = <<>> /\ UNCHANGED lastId

Next == Forget \/ Clear \/ \E f \in Frames : Note(f)

Spec == Init /\ [][Next]_<<held, lastId>>
=============================================================================
