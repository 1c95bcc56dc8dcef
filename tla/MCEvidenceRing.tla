--------------------------- MODULE MCEvidenceRing ---------------------------
(***************************************************************************)
(* Small instances of the evidence ring.  One budget is tight in bytes     *)
(* (an arena of one maximum frame and three slots), the other in slots;    *)
(* frames are short, longer than FrameMax, snapped by the kernel, and of a *)
(* malformed on-air length.                                                *)
(***************************************************************************)
EXTENDS EvidenceRing

McSizes  == {<<3, 3>>, <<6, 2>>}
McFrames == {<<1, 1>>, <<2, 4>>, <<3, 1>>, <<5, 5>>}
=============================================================================
