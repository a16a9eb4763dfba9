----------------------------- MODULE FrameReader -----------------------------
(***************************************************************************)
(* What the read side of a CSession promises, with no buffers: the frames  *)
(* of the client's stream are posted one by one and in order, the first    *)
(* frame whose header is out of range ends the session without being       *)
(* posted and leaves the socket open, and a session ends early only when   *)
(* its connection fails, which closes the socket.                          *)
(***************************************************************************)
EXTENDS Integers, Sequences

CONSTANTS
  Streams,      (* the streams of frames a client may send                  *)
  MAX_LENGTH    (* the largest id and the largest length of a frame         *)

VARIABLES
  stream,       (* the frames this client sends                             *)
  count,        (* how many of them have been posted                        *)
  closed,       (* the socket has been closed                               *)
  over          (* the session reads no more                                *)

vars == <<stream, count, closed, over>>

InRange(frame) == frame.id <= MAX_LENGTH /\ frame.len \in 0..MAX_LENGTH

Init ==
  /\ stream \in Streams
  /\ count = 0
  /\ closed = FALSE
  /\ over = FALSE

PostFrame ==
  /\ ~over
  /\ count < Len(stream)
  /\ InRange(stream[count + 1])
  /\ count' = count + 1
  /\ UNCHANGED <<stream, closed, over>>

RejectFrame ==
  /\ ~over
  /\ count < Len(stream)
  /\ ~InRange(stream[count + 1])
  /\ over' = TRUE
  /\ UNCHANGED <<stream, count, closed>>

(* A failed write closes the socket and the read side finds out later.      *)
SocketCloses ==
  /\ ~closed
  /\ closed' = TRUE
  /\ UNCHANGED <<stream, count, over>>

ConnectionEnds ==
  /\ ~over
  /\ over' = TRUE
  /\ closed' = TRUE
  /\ UNCHANGED <<stream, count>>

Next == PostFrame \/ RejectFrame \/ SocketCloses \/ ConnectionEnds

Spec == Init /\ [][Next]_vars
=============================================================================
