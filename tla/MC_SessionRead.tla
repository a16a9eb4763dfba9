--------------------------- MODULE MC_SessionRead ---------------------------
(* With HEAD_TOTAL_LEN = 2 and MAX_LENGTH = 3 a body of 3 is the largest     *)
(* legal one and, with its head, does not fit one read; frames of length 0,  *)
(* 1 and 3 put every boundary (end of head, of body, of both) at every       *)
(* offset of a read. Header field 4 is out of range, and -2 is a length that *)
(* passes the test but cannot be allocated.                                  *)
EXTENDS SessionRead

Frames == {[id |-> 1, len |-> 0], [id |-> 2, len |-> 1], [id |-> 3, len |-> 3],
           [id |-> 4, len |-> 1], [id |-> 1, len |-> 4], [id |-> 1, len |-> -2]}

(* Without a strand two frames are enough for handlers to overlap in the     *)
(* first and to run on in what follows it.                                   *)
MCUnbound == UNION {[1..n -> Frames] : n \in 1..2}

MCStreams == UNION {[1..n -> Frames] : n \in 1..3}
=============================================================================
