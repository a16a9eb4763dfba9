------------------------------ MODULE WorkQueue ------------------------------
(***************************************************************************)
(* What LogicSystem promises to the sessions that post to it, with no      *)
(* mutex, no condition variable and no thread: messages are dealt with one *)
(* at a time in the order in which they were posted, those whose id has a  *)
(* registered callback reach it, the others are discarded, and as long as  *)
(* something is queued the next message is eventually dealt with.          *)
(***************************************************************************)
EXTENDS Naturals, Sequences

CONSTANTS
  MsgIds,       (* the message ids a client can send                        *)
  Registered,   (* the ids in _fun_callbacks                                *)
  MaxPosts      (* bound of the model: messages posted over a behaviour     *)

VARIABLES
  posted,       (* ids in posting order; a message is named by its position *)
  taken,        (* how many messages have left the queue                    *)
  handled       (* positions whose callback ran, in the order it ran        *)

vars == <<posted, taken, handled>>

Init ==
  /\ posted = <<>>
  /\ taken = 0
  /\ handled = <<>>

Post(id) ==
  /\ Len(posted) < MaxPosts
  /\ posted' = Append(posted, id)
  /\ UNCHANGED <<taken, handled>>

Deal ==
  /\ taken < Len(posted)
  /\ taken' = taken + 1
  /\ handled' = IF posted[taken + 1] \in Registered
                THEN Append(handled, taken + 1) ELSE handled
  /\ UNCHANGED posted

Next ==
  \/ \E id \in MsgIds : Post(id)
  \/ Deal

Spec == Init /\ [][Next]_vars /\ WF_vars(Deal)
=============================================================================
