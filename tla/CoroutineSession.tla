-------------------------- MODULE CoroutineSession --------------------------
(***************************************************************************)
(* One connection of CoroutineServer, from HandleAccept to the destruction *)
(* of its CSession. A coroutine reads head and body in turn where the      *)
(* other servers have a read handler; the LogicSystem worker answers with  *)
(* Send, and HandleWrite runs on the pool's one network thread, the        *)
(* coroutine's too. HandleAccept runs on main's thread.                    *)
(*                                                                         *)
(* The coroutine's lambda captures by value only what it uses, which is    *)
(* `this`: unlike a read handler it does not keep the session alive. What  *)
(* does is the registry, the accept handler, the queued LogicNodes and an  *)
(* outstanding async_write.                                                *)
(***************************************************************************)
EXTENDS Integers, Sequences

CONSTANTS
  Streams,      (* the streams of frames [id, len] a client may send        *)
  MAX_LENGTH,   (* limit of both header fields                              *)
  MAX_SENDQUE   (* limit of the send queue, tested with > before the push   *)

(* A length of -1 is left out: new char[0] succeeds, and the body is read   *)
(* into a buffer of SIZE_MAX bytes, which is undefined.                     *)
ASSUME CoroutineAssumption ==
  /\ \A s \in Streams : s \in Seq([id : Int, len : Int \ {-1}])
  /\ MAX_LENGTH \in Nat
  /\ MAX_SENDQUE \in Nat

VARIABLES
  stream,       (* the frames this client sends                             *)
  accept,       (* HandleAccept: "pending", "inserting" or "returned"       *)
  co,           (* the coroutine: "none" (not spawned), "loop" (line 51),   *)
                (* "head" or "body" (suspended in async_read), "ended", or  *)
                (* "dangling" (resumed after the session was destroyed)     *)
  registered,   (* the session is in _sessions                              *)
  closed,       (* _b_close: Close() has been called                        *)
  count,        (* frames given to PostMsgToQue                             *)
  nodes,        (* LogicNodes of the session, queued or being dealt with    *)
  sendque,      (* length of _send_que                                      *)
  writing,      (* an async_write is outstanding                            *)
  wfailed,      (* history: HandleWrite has been called with an error       *)
  late          (* history: registered after a ClearSession of it           *)

client == <<stream, count>>
refs == <<accept, registered>>
send == <<nodes, sendque, writing, wfailed>>
vars == <<client, refs, co, closed, send, late>>

Init ==
  /\ stream \in Streams
  /\ accept = "pending"
  /\ co = "none"
  /\ registered = FALSE
  /\ closed = FALSE
  /\ count = 0
  /\ nodes = 0
  /\ sendque = 0
  /\ writing = FALSE
  /\ wfailed = FALSE
  /\ late = FALSE

(* A shared_ptr to the session exists. Without one it has been destroyed,   *)
(* and nothing can make another.                                            *)
Alive == accept # "returned" \/ registered \/ nodes > 0 \/ writing

-----------------------------------------------------------------------------
(* HandleAccept, on the thread that runs main's io_context.                 *)

(* Start: co_spawn posts the coroutine to the pool's io_context.            *)
Start ==
  /\ accept = "pending"
  /\ accept' = "inserting"
  /\ co' = "loop"
  /\ UNCHANGED <<client, registered, closed, send, late>>

(* Faulty: the session is not registered.                                   *)
Insert_Forgotten ==
  /\ accept = "inserting"
  /\ accept' = "returned"
  /\ late' = (co = "ended" \/ wfailed)
  /\ UNCHANGED <<client, registered, co, closed, send>>

(* The insertion, and the handler's own reference goes.                     *)
Insert ==
  /\ accept = "inserting"
  /\ accept' = "returned"
  /\ registered' = TRUE
  /\ late' = (co = "ended" \/ wfailed)
  /\ UNCHANGED <<client, co, closed, send>>

-----------------------------------------------------------------------------
(* The coroutine, on the pool's thread. It runs from one co_await to the    *)
(* next; the loop test after a post is a step of its own.                   *)

(* Faulty: ClearSession is left to the destructor.                          *)
EndSession_NoClear(close) ==
  /\ co' = "ended"
  /\ closed' = (closed \/ close)
  /\ UNCHANGED registered

(* Close (unless the header is out of range), ClearSession, co_return.      *)
EndSession(close) ==
  /\ co' = "ended"
  /\ closed' = (closed \/ close)
  /\ registered' = FALSE

(* Faulty: the length is not checked.                                       *)
InRange_IdOnly(frame) == frame.id <= MAX_LENGTH

InRange(frame) == frame.id <= MAX_LENGTH /\ frame.len <= MAX_LENGTH

LoopTest ==
  /\ co = "loop" /\ Alive
  /\ co' = IF closed THEN "ended" ELSE "head"
  /\ UNCHANGED <<client, refs, closed, send, late>>

(* The head has been read. A header out of range ends the session with its  *)
(* socket open; a length below -1 makes RecvNode throw, which closes it.    *)
HeadRead ==
  /\ co = "head" /\ Alive
  /\ count < Len(stream)
  /\ LET h == stream[count + 1] IN
       \/ /\ ~InRange(h)
          /\ EndSession(FALSE)
       \/ /\ InRange(h) /\ h.len < -1
          /\ EndSession(TRUE)
       \/ /\ InRange(h) /\ h.len >= 0
          /\ co' = "body"
          /\ UNCHANGED <<registered, closed>>
  /\ UNCHANGED <<client, accept, send, late>>

(* The body has been read and is posted. Of an empty body n = 0 bytes are   *)
(* read, which the code takes for a peer that has closed.                   *)
BodyRead ==
  /\ co = "body" /\ Alive
  /\ \/ /\ stream[count + 1].len = 0
        /\ EndSession(TRUE)
        /\ UNCHANGED <<nodes, count>>
     \/ /\ stream[count + 1].len > 0
        /\ co' = "loop"
        /\ nodes' = nodes + 1
        /\ count' = count + 1
        /\ UNCHANGED <<registered, closed>>
  /\ UNCHANGED <<stream, accept, sendque, writing, wfailed, late>>

(* End of file, a reset, or the socket was closed: async_read throws.       *)
ReadThrows ==
  /\ co \in {"head", "body"} /\ Alive
  /\ EndSession(TRUE)
  /\ UNCHANGED <<client, accept, send, late>>

(* The session is gone: its socket's destructor aborts the read, and the    *)
(* catch clause calls Close and ClearSession on the dead object.            *)
ResumeDangling ==
  /\ co \in {"loop", "head", "body"} /\ ~Alive
  /\ co' = "dangling"
  /\ UNCHANGED <<client, refs, closed, send, late>>

-----------------------------------------------------------------------------
(* The worker and HandleWrite.                                              *)

QueueFull == sendque > MAX_SENDQUE

(* DealMsg: a callback, if any, Sends a reply; then the node is released.   *)
DealMsg ==
  /\ nodes > 0
  /\ nodes' = nodes - 1
  /\ \/ UNCHANGED <<sendque, writing>>
     \/ /\ ~QueueFull
        /\ sendque' = sendque + 1
        /\ writing' = (writing \/ sendque = 0)
  /\ UNCHANGED <<client, refs, co, closed, wfailed, late>>

WriteCompletes ==
  /\ writing
  /\ sendque' = sendque - 1
  /\ writing' = (sendque > 1)
  /\ UNCHANGED <<client, refs, co, closed, nodes, wfailed, late>>

(* HandleWrite with an error: Close and ClearSession; the reply stays.      *)
WriteFails ==
  /\ writing
  /\ writing' = FALSE
  /\ wfailed' = TRUE
  /\ closed' = TRUE
  /\ registered' = FALSE
  /\ UNCHANGED <<client, accept, co, nodes, sendque, late>>

HandleAccept == Start \/ Insert
Coroutine == LoopTest \/ HeadRead \/ BodyRead \/ ResumeDangling
HandleWrite == WriteCompletes \/ WriteFails

(* The coroutine has ended and nobody holds the session, or only a client   *)
(* that has sent everything and stays connected.                            *)
Finished ==
  /\ accept = "returned" /\ nodes = 0 /\ ~writing
  /\ \/ co \in {"ended", "dangling"}
     \/ co = "head" /\ Alive /\ ~closed /\ count = Len(stream)
  /\ UNCHANGED vars

Next == HandleAccept \/ Coroutine \/ ReadThrows \/ DealMsg \/ HandleWrite \/ Finished

(* Every thread runs what is ready. A read ends by failing only when the    *)
(* socket is closed; nothing obliges the client to leave.                   *)
Fairness ==
  /\ WF_vars(HandleAccept)
  /\ WF_vars(Coroutine)
  /\ WF_vars(closed /\ ReadThrows)
  /\ WF_vars(DealMsg)
  /\ WF_vars(HandleWrite)

Spec == Init /\ [][Next]_vars /\ Fairness

-----------------------------------------------------------------------------
Over == co \in {"ended", "dangling"}

(* The coroutine can still be resumed.                                      *)
Reading == co \in {"loop", "head", "body"}

(* The lambda's `this` is valid while the coroutine can be resumed: the     *)
(* registry keeps the session until its own coroutine clears it. Only a     *)
(* failed write, which clears it from HandleWrite, breaks this.             *)
CoroutineKeepsSession == Reading => Alive \/ wfailed

(* The coroutine keeps the promise of FrameReader although it takes an      *)
(* empty frame for the end of the connection: frames are posted in order,   *)
(* and a session that ends with its socket open ended at a frame out of     *)
(* range.                                                                   *)
Abstract == INSTANCE FrameReader WITH over <- Over
RefinesFrameReader == Abstract!Spec

(* A session whose coroutine has ended is destroyed, unless HandleAccept    *)
(* registered it after the coroutine, or a failed write, had cleared it.    *)
EndedIsReleased == (co = "ended") ~> (~Alive \/ late)
=============================================================================
