------------------------- MODULE MC_CoroutineSession -------------------------
(* Streams of up to three frames: ordinary ones, an empty one, one with an  *)
(* id and one with a length out of range, and one with a negative length.   *)
(* MAX_SENDQUE = 1 lets the send queue fill.                                *)
EXTENDS CoroutineSession

Frames == {[id |-> 1, len |-> 2], [id |-> 1, len |-> 0], [id |-> 3, len |-> 1],
           [id |-> 1, len |-> 3], [id |-> 1, len |-> -2]}

MCStreams == UNION {[1..n -> Frames] : n \in 1..3}
=============================================================================
