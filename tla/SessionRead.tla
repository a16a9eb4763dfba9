----------------------------- MODULE SessionRead -----------------------------
(***************************************************************************)
(* The read side of one CSession of the servers whose io_context is run by *)
(* several threads: HandleRead cuts the byte stream into frames (a head of *)
(* HEAD_TOTAL_LEN bytes with id and length, then the body), whatever the   *)
(* sizes in which the bytes arrive, and keeps exactly one async_read_some  *)
(* outstanding.                                                            *)
(*                                                                         *)
(* In StrandPoolServer the session's strand lets at most one thread be in  *)
(* a handler of the session; in ThreadPoolServer, the same code without    *)
(* bind_executor, nothing does. One iteration of the while loop is one     *)
(* step. The one branch that re-arms the read before it has finished       *)
(* (b_head_parse is set after async_read_some) is two steps, and there two *)
(* handlers can overlap.                                                   *)
(* A byte is <<frame, offset>>: where in the client's stream it belongs.   *)
(***************************************************************************)
EXTENDS Integers, Sequences, FiniteSetsExt

CONSTANTS
  Threads,        (* the threads that run the io_context                    *)
  Streams,        (* the streams a client may send: sequences of [id, len]  *)
  Unbound,        (* those of them also sent to a server without strands    *)
  HEAD_TOTAL_LEN, (* bytes in a head                                        *)
  MAX_LENGTH      (* size of _data and limit of both header fields          *)

(* A length of -1 is left out: new char[0] succeeds and its use is undefined.*)
ASSUME SessionReadAssumption ==
  /\ IsFiniteSet(Threads)
  /\ \A s \in Streams : s \in Seq([id : Int, len : Int \ {-1}])
  /\ HEAD_TOTAL_LEN \in Nat \ {0}
  /\ MAX_LENGTH \in Nat \ {0}

VARIABLES
  bound,          (* handlers are bound to a strand (StrandPoolServer)      *)
  stream,         (* the frames this client sends                           *)
  wire,           (* the bytes of them that have not been read yet          *)
  armed,          (* outstanding async_read_some operations                 *)
  pc,             (* pc[t]: "idle", "loop", or "set_flag" before line 166   *)
  chunk,          (* chunk[t]: bytes its HandleRead has not consumed yet    *)
  head,           (* _recv_head_node up to _cur_len                         *)
  node,           (* _recv_msg_node: [id, len, data]                        *)
  b_head_parse,   (* _b_head_parse                                          *)
  closed,         (* Close() has been called                                *)
  over,           (* the read side has ended: nothing re-arms the read      *)
  overlapped,     (* history: a read completed while a handler was running  *)
  posted,         (* history: what PostMsgToQue was given, [id, data]       *)
  count           (* history: Len(posted)                                   *)

parse == <<head, node, b_head_parse>>
deployment == <<bound, stream>>
vars == <<bound, stream, wire, armed, pc, chunk, head, node, b_head_parse,
          closed, over, overlapped, posted, count>>

(* A length below zero comes with no body.                                  *)
Body(k) == [j \in 1..Max({0, stream[k].len}) |-> <<k, HEAD_TOTAL_LEN + j>>]
FrameHead(k) == [j \in 1..HEAD_TOTAL_LEN |-> <<k, j>>]

(* The bytes of the last m frames of the stream.                            *)
Bytes[m \in 0..Len(stream)] ==
  IF m = 0 THEN <<>>
  ELSE FrameHead(Len(stream) - m + 1) \o Body(Len(stream) - m + 1) \o Bytes[m - 1]

Init ==
  /\ stream \in Streams
  /\ bound \in IF stream \in Unbound THEN BOOLEAN ELSE {TRUE}
  /\ wire = Bytes[Len(stream)]
  /\ armed = 1
  /\ pc = [t \in Threads |-> "idle"]
  /\ chunk = [t \in Threads |-> <<>>]
  /\ head = <<>>
  /\ node = [id |-> 0, len |-> 0, data |-> <<>>]
  /\ b_head_parse = FALSE
  /\ closed = FALSE
  /\ over = FALSE
  /\ overlapped = FALSE
  /\ posted = <<>>
  /\ count = 0

-----------------------------------------------------------------------------
(* Completions.                                                             *)

Quiet == \A t \in Threads : pc[t] = "idle"

(* Faulty: bind_executor is forgotten although the server relies on it.     *)
StrandFree_Unbound == TRUE

(* bind_executor(_strand, ...): no two handlers of the session at once.     *)
StrandFree == bound => Quiet

(* async_read_some completes with some of the bytes that have arrived.      *)
ReadCompletes(t) ==
  /\ armed > 0
  /\ pc[t] = "idle"
  /\ StrandFree
  /\ \E n \in 1..Len(wire) :
       /\ n <= MAX_LENGTH
       /\ chunk' = [chunk EXCEPT ![t] = SubSeq(wire, 1, n)]
       /\ wire' = SubSeq(wire, n + 1, Len(wire))
  /\ armed' = armed - 1
  /\ pc' = [pc EXCEPT ![t] = "loop"]
  /\ overlapped' = (overlapped \/ (~bound /\ ~Quiet))
  /\ UNCHANGED <<deployment, parse, closed, over, posted, count>>

(* End of file, a reset, or the socket was closed: Close and ClearSession.  *)
ReadFails(t) ==
  /\ armed > 0
  /\ pc[t] = "idle"
  /\ StrandFree
  /\ armed' = armed - 1
  /\ closed' = TRUE
  /\ over' = TRUE
  /\ UNCHANGED <<deployment, overlapped, wire, pc, chunk, parse, posted, count>>

(* HandleWrite with an error: Close. The outstanding read then completes.   *)
WriteFails ==
  /\ ~closed
  /\ StrandFree
  /\ closed' = TRUE
  /\ UNCHANGED <<deployment, overlapped, wire, armed, pc, chunk, parse, over, posted, count>>

-----------------------------------------------------------------------------
(* The branches of the while loop of HandleRead.                            *)
InLoop(t) == pc[t] = "loop"

(* async_read_some and return.                                              *)
ReArm(t, where) ==
  /\ armed' = armed + 1
  /\ pc' = [pc EXCEPT ![t] = where]
  /\ chunk' = [chunk EXCEPT ![t] = <<>>]

Rest(s, n) == SubSeq(s, n + 1, Len(s))

HeadRemain == HEAD_TOTAL_LEN - Len(head)
WholeHead(t) == head \o SubSeq(chunk[t], 1, HeadRemain)
AfterHead(t) == Rest(chunk[t], HeadRemain)

(* Bytes that are not the head of a frame (two handlers have overlapped)    *)
(* decode to any header.                                                    *)
Garbage ==
  {[id |-> MAX_LENGTH + 1, len |-> 0]} \cup [id : {1}, len : {-2} \cup 0..MAX_LENGTH]

(* The headers that the bytes may decode to: one, when they are a head.     *)
Header(bytes) ==
  IF \E k \in 1..Len(stream) : bytes = FrameHead(k)
  THEN {stream[k] : k \in {i \in 1..Len(stream) : bytes = FrameHead(i)}}
  ELSE Garbage

(* Faulty: the length is not checked.                                       *)
Valid_IdOnly(header) == header.id <= MAX_LENGTH

(* Both fields are signed: a negative one is not above MAX_LENGTH.          *)
Valid(header) == header.id <= MAX_LENGTH /\ header.len <= MAX_LENGTH

(* Faulty: the handler returns without reading on.                          *)
PartialHead_NoRead(t) ==
  /\ InLoop(t) /\ ~b_head_parse
  /\ Len(chunk[t]) + Len(head) < HEAD_TOTAL_LEN
  /\ head' = head \o chunk[t]
  /\ pc' = [pc EXCEPT ![t] = "idle"]
  /\ chunk' = [chunk EXCEPT ![t] = <<>>]
  /\ UNCHANGED <<deployment, overlapped, wire, armed, node, b_head_parse, closed, over, posted, count>>

PartialHead(t) ==
  /\ InLoop(t) /\ ~b_head_parse
  /\ Len(chunk[t]) + Len(head) < HEAD_TOTAL_LEN
  /\ head' = head \o chunk[t]
  /\ ReArm(t, "idle")
  /\ UNCHANGED <<deployment, overlapped, wire, node, b_head_parse, closed, over, posted, count>>

HeadComplete(t) ==
  InLoop(t) /\ ~b_head_parse /\ Len(chunk[t]) + Len(head) >= HEAD_TOTAL_LEN

(* Faulty: the session is cleared and read on.                              *)
RejectHeader_ReadsOn(t) ==
  /\ HeadComplete(t)
  /\ \E h \in Header(WholeHead(t)) : ~Valid(h)
  /\ over' = TRUE
  /\ ReArm(t, "idle")
  /\ UNCHANGED <<deployment, overlapped, wire, parse, closed, posted, count>>

(* An id or length above MAX_LENGTH: ClearSession, no Close, no new read.   *)
RejectHeader(t) ==
  /\ HeadComplete(t)
  /\ \E h \in Header(WholeHead(t)) : ~Valid(h)
  /\ over' = TRUE
  /\ pc' = [pc EXCEPT ![t] = "idle"]
  /\ chunk' = [chunk EXCEPT ![t] = <<>>]
  /\ UNCHANGED <<deployment, overlapped, wire, armed, parse, closed, posted, count>>

(* A negative length (below -1) passes the test and makes the allocation in *)
(* RecvNode throw. The catch clause only logs: no new read, no ClearSession.*)
AllocationThrows(t) ==
  /\ HeadComplete(t)
  /\ \E h \in Header(WholeHead(t)) : Valid(h) /\ h.len < 0
  /\ over' = TRUE
  /\ pc' = [pc EXCEPT ![t] = "idle"]
  /\ chunk' = [chunk EXCEPT ![t] = <<>>]
  /\ UNCHANGED <<deployment, overlapped, wire, armed, parse, closed, posted, count>>

(* Not all of the body is here: keep it, re-arm the read, and only then set *)
(* b_head_parse.                                                            *)
PartialBody(t) ==
  /\ HeadComplete(t)
  /\ \E h \in Header(WholeHead(t)) :
       /\ Valid(h) /\ h.len >= 0
       /\ Len(AfterHead(t)) < h.len
       /\ node' = [id |-> h.id, len |-> h.len, data |-> AfterHead(t)]
  /\ ReArm(t, "set_flag")
  /\ UNCHANGED <<deployment, overlapped, wire, head, b_head_parse, closed, over, posted, count>>

SetFlag(t) ==
  /\ pc[t] = "set_flag"
  /\ b_head_parse' = TRUE
  /\ pc' = [pc EXCEPT ![t] = "idle"]
  /\ UNCHANGED <<deployment, overlapped, wire, armed, chunk, head, node, closed, over, posted, count>>

(* PostMsgToQue, reset the parser, and go on with the bytes that are left   *)
(* or, when there are none, read again.                                     *)
PostAndGoOn(t, message, rest) ==
  /\ node' = message
  /\ posted' = Append(posted, [id |-> message.id, data |-> message.data])
  /\ count' = count + 1
  /\ b_head_parse' = FALSE
  /\ head' = <<>>
  /\ IF rest = <<>>
     THEN ReArm(t, "idle")
     ELSE /\ chunk' = [chunk EXCEPT ![t] = rest]
          /\ UNCHANGED <<armed, pc>>
  /\ UNCHANGED <<deployment, overlapped, wire, closed, over>>

WholeBody(t) ==
  /\ HeadComplete(t)
  /\ \E h \in Header(WholeHead(t)) :
       /\ Valid(h) /\ h.len >= 0
       /\ Len(AfterHead(t)) >= h.len
       /\ PostAndGoOn(t, [id |-> h.id, len |-> h.len, data |-> SubSeq(AfterHead(t), 1, h.len)],
                      Rest(AfterHead(t), h.len))

BodyRemain == node.len - Len(node.data)

MoreBody(t) ==
  /\ InLoop(t) /\ b_head_parse
  /\ Len(chunk[t]) < BodyRemain
  /\ node' = [node EXCEPT !.data = @ \o chunk[t]]
  /\ ReArm(t, "idle")
  /\ UNCHANGED <<deployment, overlapped, wire, head, b_head_parse, closed, over, posted, count>>

BodyComplete(t) ==
  /\ InLoop(t) /\ b_head_parse
  /\ Len(chunk[t]) >= BodyRemain
  /\ PostAndGoOn(t, [node EXCEPT !.data = @ \o SubSeq(chunk[t], 1, BodyRemain)],
                 Rest(chunk[t], BodyRemain))

HandleRead(t) ==
  \/ PartialHead(t) \/ RejectHeader(t) \/ AllocationThrows(t) \/ PartialBody(t) \/ SetFlag(t)
  \/ WholeBody(t) \/ MoreBody(t) \/ BodyComplete(t)

(* The session reads no more and no handler is running.                     *)
Finished == over /\ Quiet /\ UNCHANGED vars

Next ==
  \/ \E t \in Threads : ReadCompletes(t) \/ ReadFails(t) \/ HandleRead(t)
  \/ WriteFails
  \/ Finished

(* The io_context's threads run what is ready: a handler that has started   *)
(* goes on, and a read with bytes to deliver, or on a closed socket,        *)
(* completes. Nothing obliges the connection to fail.                       *)
Fairness ==
  /\ \A t \in Threads : WF_vars(HandleRead(t))
  /\ WF_vars(\E t \in Threads : ReadCompletes(t))
  /\ WF_vars(closed /\ \E t \in Threads : ReadFails(t))

Spec == Init /\ [][Next]_vars /\ Fairness

-----------------------------------------------------------------------------
(* Each variable has its type; the buffers are never filled past their end. *)
TypeOK ==
  /\ armed \in Nat
  /\ pc \in [Threads -> {"idle", "loop", "set_flag"}]
  /\ DOMAIN chunk = Threads /\ \A t \in Threads : Len(chunk[t]) <= MAX_LENGTH
  /\ Len(head) <= HEAD_TOTAL_LEN
  /\ node.len <= MAX_LENGTH /\ Len(node.data) <= node.len
  /\ b_head_parse \in BOOLEAN /\ closed \in BOOLEAN /\ over \in BOOLEAN
  /\ overlapped \in BOOLEAN /\ count = Len(posted)

(* HandleRead re-arms on every path that returns except the rejecting, the  *)
(* throwing and the failing ones: the session has exactly one outstanding   *)
(* read or running loop until it is over, and none afterwards, with a       *)
(* strand and without one.                                                  *)
OneReadChain ==
  armed + Cardinality({t \in Threads : InLoop(t)}) = IF over THEN 0 ELSE 1

(* However the bytes were cut, the messages posted are the frames the       *)
(* client sent, in order, each with its own id and its own body, as long as *)
(* no two handlers have overlapped. On a strand they never do.              *)
FramesExact ==
  \/ overlapped
  \/ /\ Len(posted) <= Len(stream)
     /\ \A i \in 1..Len(posted) : posted[i] = [id |-> stream[i].id, data |-> Body(i)]

(* Every frame up to the first invalid one is posted, unless the session    *)
(* ended first or handlers overlapped.                                      *)
AllFramesPosted == <>(over \/ overlapped \/ count = Len(stream))

(* The read side keeps the promise of FrameReader until handlers overlap:   *)
(* in particular a session that ends with its socket open ended at a frame  *)
(* out of range, and nothing is posted after the end.                       *)
Abstract == INSTANCE FrameReader
RefinesFrameReader ==
  Abstract!Init /\ [][overlapped' \/ Abstract!Next]_(Abstract!vars)
=============================================================================
