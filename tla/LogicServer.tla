----------------------------- MODULE LogicServer -----------------------------
(***************************************************************************)
(* The logic servers as a whole: CServer accepts connections and keeps the *)
(* registry _sessions, each CSession reads requests and posts them to the  *)
(* LogicSystem, whose worker answers through CSession::Send, and the       *)
(* session writes its replies from _send_que, one async_write at a time.   *)
(*                                                                         *)
(* LogicSystem is used through what module LogicSystem shows of it (a FIFO *)
(* queue dealt with one message at a time), the cutting of the byte stream *)
(* through what SessionRead shows of it (whole requests, in order).        *)
(*                                                                         *)
(* pooled tells the deployments apart. FALSE: LogicServer01/02, one thread *)
(* runs the io_context, so handlers never overlap. TRUE: IoContextPool and *)
(* StrandPool servers, only the handlers of one session never overlap.     *)
(***************************************************************************)
EXTENDS Naturals, Sequences, FiniteSets, SequencesExt

CONSTANTS
  Sessions,      (* the connections clients open over a behaviour           *)
  NoSession,     (* HandleAccept is not running                             *)
  MAX_SENDQUE,   (* const.h                                                 *)
  MaxRequests    (* bound of the model: requests of one connection          *)

ASSUME LogicServerAssumption ==
  /\ NoSession \notin Sessions
  /\ MAX_SENDQUE \in Nat
  /\ MaxRequests \in Nat \ {0}

VARIABLES
  pooled,        (* which deployment; never changes                         *)
  accepting,     (* the session HandleAccept has started, not yet inserted  *)
  sessions,      (* CServer::_sessions                                      *)
  read,          (* the read chain: "none", "armed", "running", "over", or  *)
                 (* "thrown" when an exception has ended it                 *)
  closed,        (* Close() has been called                                 *)
  msg_que,       (* LogicSystem::_msg_que, records [s, n]                   *)
  send_que,      (* _send_que: numbers of the requests answered             *)
  writing,       (* the outstanding async_write: "none", or the state of    *)
                 (* the socket, "open" or "shut", when it was issued        *)
  requests,      (* history: kinds of the requests read                     *)
  wire,          (* history: numbers of the requests whose reply was sent   *)
  dropped,       (* history: numbers whose reply found the queue full       *)
  broken,        (* history: a write has failed                             *)
  cleared        (* history: ClearSession has been called                   *)

sessionVars == <<pooled, accepting, sessions, read, closed, cleared>>
vars == <<pooled, accepting, sessions, read, closed, msg_que, send_que, writing,
          requests, wire, dropped, broken, cleared>>

(* MSG_HELLO_WORD has a callback, the other legal ids have none.            *)
Kinds == {"hello", "unknown"}

Init ==
  /\ pooled \in BOOLEAN
  /\ accepting = NoSession
  /\ sessions = {}
  /\ read = [s \in Sessions |-> "none"]
  /\ closed = [s \in Sessions |-> FALSE]
  /\ msg_que = <<>>
  /\ send_que = [s \in Sessions |-> <<>>]
  /\ writing = [s \in Sessions |-> "none"]
  /\ requests = [s \in Sessions |-> <<>>]
  /\ wire = [s \in Sessions |-> <<>>]
  /\ dropped = [s \in Sessions |-> {}]
  /\ broken = [s \in Sessions |-> FALSE]
  /\ cleared = [s \in Sessions |-> FALSE]

-----------------------------------------------------------------------------
(* Faulty: the handlers of a single-threaded server may overlap.            *)
ThreadFree_Never(s) == TRUE

(* With one network thread a handler runs only when no other is half done.  *)
ThreadFree(s) ==
  pooled \/ (accepting = NoSession /\ \A o \in Sessions \ {s} : read[o] # "running")

ClearSession(s) ==
  /\ sessions' = sessions \ {s}
  /\ cleared' = [cleared EXCEPT ![s] = TRUE]

Close(s) == closed' = [closed EXCEPT ![s] = TRUE]

(* HandleAccept: Start arms the first read, then the session is inserted    *)
(* and the next accept is issued.                                           *)
AcceptStart(s) ==
  /\ accepting = NoSession
  /\ ThreadFree(s)
  /\ read[s] = "none"
  /\ accepting' = s
  /\ read' = [read EXCEPT ![s] = "armed"]
  /\ UNCHANGED <<pooled, sessions, closed, msg_que, send_que, writing, requests, wire,
                 dropped, broken, cleared>>

AcceptInsert(s) ==
  /\ accepting = s
  /\ sessions' = sessions \union {s}
  /\ accepting' = NoSession
  /\ UNCHANGED <<pooled, read, closed, msg_que, send_que, writing, requests, wire,
                 dropped, broken, cleared>>

-----------------------------------------------------------------------------
(* HandleRead. A completion whose bytes end inside the first frame posts    *)
(* nothing and re-arms: it changes nothing here.                            *)
ReadCompletes(s) ==
  /\ read[s] = "armed"
  /\ ThreadFree(s)
  /\ Len(requests[s]) < MaxRequests
  /\ read' = [read EXCEPT ![s] = "running"]
  /\ UNCHANGED <<pooled, accepting, sessions, closed, msg_que, send_que, writing,
                 requests, wire, dropped, broken, cleared>>

(* A whole request: PostMsgToQue, then loop or re-arm the read.             *)
PostRequest(s, kind) ==
  /\ read[s] = "running"
  /\ requests' = [requests EXCEPT ![s] = Append(@, kind)]
  /\ msg_que' = Append(msg_que, [s |-> s, n |-> Len(requests[s]) + 1])
  /\ \E next \in {"armed"} \union
                 (IF Len(requests'[s]) < MaxRequests THEN {"running"} ELSE {}) :
       read' = [read EXCEPT ![s] = next]
  /\ UNCHANGED <<pooled, accepting, sessions, closed, send_que, writing, wire, dropped,
                 broken, cleared>>

(* Faulty: the session is cleared and read on.                              *)
RejectRequest_ReadsOn(s) ==
  /\ read[s] = "running"
  /\ read' = [read EXCEPT ![s] = "armed"]
  /\ ClearSession(s)
  /\ UNCHANGED <<pooled, accepting, closed, msg_que, send_que, writing, requests, wire,
                 dropped, broken>>

(* A header out of range: ClearSession and no new read.                     *)
RejectRequest(s) ==
  /\ read[s] = "running"
  /\ read' = [read EXCEPT ![s] = "over"]
  /\ ClearSession(s)
  /\ UNCHANGED <<pooled, accepting, closed, msg_que, send_que, writing, requests, wire,
                 dropped, broken>>

(* A negative length passes the test of the header and RecvNode's           *)
(* allocation throws. HandleRead only logs what it catches: it neither      *)
(* re-arms the read nor calls ClearSession or Close. (-1 is left to         *)
(* SessionRead's assumption: new char[0] succeeds, and what follows is      *)
(* undefined.)                                                              *)
AllocationThrows(s) ==
  /\ read[s] = "running"
  /\ read' = [read EXCEPT ![s] = "thrown"]
  /\ UNCHANGED <<pooled, accepting, sessions, closed, cleared, msg_que, send_que, writing,
                 requests, wire, dropped, broken>>

(* Faulty: the socket is closed and the session stays in the registry.      *)
ReadFails_NoClear(s) ==
  /\ read[s] = "armed"
  /\ ThreadFree(s)
  /\ read' = [read EXCEPT ![s] = "over"]
  /\ Close(s)
  /\ UNCHANGED <<pooled, accepting, sessions, cleared, msg_que, send_que, writing,
                 requests, wire, dropped, broken>>

(* The peer closed or reset the connection, or Close() was called here.     *)
ReadFails(s) ==
  /\ read[s] = "armed"
  /\ ThreadFree(s)
  /\ read' = [read EXCEPT ![s] = "over"]
  /\ Close(s)
  /\ ClearSession(s)
  /\ UNCHANGED <<pooled, accepting, msg_que, send_que, writing, requests, wire, dropped,
                 broken>>

-----------------------------------------------------------------------------
(* CSession::Send and HandleWrite.                                          *)
IssueWrite(s) ==
  writing' = [writing EXCEPT ![s] = IF closed[s] THEN "shut" ELSE "open"]

QueueFull(s) == Len(send_que[s]) > MAX_SENDQUE

(* Faulty: the test for an outstanding write is inverted.                   *)
Send_Inverted(s, n) ==
  \/ /\ QueueFull(s)
     /\ dropped' = [dropped EXCEPT ![s] = @ \union {n}]
     /\ UNCHANGED <<send_que, writing>>
  \/ /\ ~QueueFull(s)
     /\ send_que' = [send_que EXCEPT ![s] = Append(@, n)]
     /\ IF send_que[s] # <<>> THEN IssueWrite(s) ELSE UNCHANGED writing
     /\ UNCHANGED dropped

Send(s, n) ==
  \/ /\ QueueFull(s)
     /\ dropped' = [dropped EXCEPT ![s] = @ \union {n}]
     /\ UNCHANGED <<send_que, writing>>
  \/ /\ ~QueueFull(s)
     /\ send_que' = [send_que EXCEPT ![s] = Append(@, n)]
     /\ IF send_que[s] = <<>> THEN IssueWrite(s) ELSE UNCHANGED writing
     /\ UNCHANGED dropped

(* Faulty: whatever arrives is answered.                                    *)
DealMsg_NoLookup ==
  /\ msg_que # <<>>
  /\ LET m == Head(msg_que) IN Send(m.s, m.n)
  /\ msg_que' = Tail(msg_que)
  /\ UNCHANGED <<sessionVars, requests, wire, broken>>

(* DealMsg: the front message leaves the queue; a hello is answered.        *)
DealMsg ==
  /\ msg_que # <<>>
  /\ LET m == Head(msg_que) IN
       IF requests[m.s][m.n] = "hello"
       THEN Send(m.s, m.n)
       ELSE UNCHANGED <<send_que, writing, dropped>>
  /\ msg_que' = Tail(msg_que)
  /\ UNCHANGED <<sessionVars, requests, wire, broken>>

(* The strand keeps HandleWrite out of a running HandleRead.                *)
HandleWriteMayRun(s) ==
  /\ writing[s] # "none"
  /\ ThreadFree(s)
  /\ read[s] # "running"

(* Faulty: the reply that was sent stays at the front.                      *)
WriteCompletes_NoPop(s) ==
  /\ HandleWriteMayRun(s)
  /\ writing[s] = "open"
  /\ wire' = [wire EXCEPT ![s] = Append(@, Head(send_que[s]))]
  /\ Len(wire[s]) < MaxRequests
  /\ IssueWrite(s)
  /\ UNCHANGED <<sessionVars, msg_que, send_que, requests, dropped, broken>>

(* Faulty: the replies behind the one that was sent are not started.        *)
WriteCompletes_NoNext(s) ==
  /\ HandleWriteMayRun(s)
  /\ writing[s] = "open"
  /\ wire' = [wire EXCEPT ![s] = Append(@, Head(send_que[s]))]
  /\ send_que' = [send_que EXCEPT ![s] = Tail(@)]
  /\ writing' = [writing EXCEPT ![s] = "none"]
  /\ UNCHANGED <<sessionVars, msg_que, requests, dropped, broken>>

(* A write issued on a closed socket cannot succeed.                        *)
WriteCompletes(s) ==
  /\ HandleWriteMayRun(s)
  /\ writing[s] = "open"
  /\ wire' = [wire EXCEPT ![s] = Append(@, Head(send_que[s]))]
  /\ send_que' = [send_que EXCEPT ![s] = Tail(@)]
  /\ IF Tail(send_que[s]) = <<>>
     THEN writing' = [writing EXCEPT ![s] = "none"]
     ELSE IssueWrite(s)
  /\ UNCHANGED <<sessionVars, msg_que, requests, dropped, broken>>

WriteFails(s) ==
  /\ HandleWriteMayRun(s)
  /\ writing' = [writing EXCEPT ![s] = "none"]
  /\ broken' = [broken EXCEPT ![s] = TRUE]
  /\ Close(s)
  /\ ClearSession(s)
  /\ UNCHANGED <<pooled, accepting, read, msg_que, send_que, requests, wire, dropped>>

-----------------------------------------------------------------------------
HandleRead(s) == (\E kind \in Kinds : PostRequest(s, kind)) \/ RejectRequest(s) \/ AllocationThrows(s)
HandleWrite(s) == WriteCompletes(s) \/ WriteFails(s)

(* Every connection has come and gone; the server waits for signals.        *)
Quiescent ==
  /\ \A s \in Sessions : read[s] \in {"over", "thrown"} /\ writing[s] = "none"
  /\ accepting = NoSession
  /\ msg_que = <<>>
  /\ UNCHANGED vars

Next ==
  \/ Quiescent
  \/ \E s \in Sessions :
       \/ AcceptStart(s) \/ AcceptInsert(s)
       \/ ReadCompletes(s) \/ HandleRead(s) \/ ReadFails(s)
       \/ HandleWrite(s)
  \/ DealMsg

(* A handler that has started finishes, the worker runs (LogicSystem shows  *)
(* that no wake-up is lost), a write ends one way or the other, and a read  *)
(* on a closed socket completes. Clients owe no requests.                   *)
Fairness ==
  /\ WF_vars(DealMsg)
  /\ \A s \in Sessions :
       /\ WF_vars(AcceptInsert(s))
       /\ WF_vars(HandleRead(s))
       /\ SF_vars(HandleWrite(s))
       /\ SF_vars(closed[s] /\ ReadFails(s))

Spec == Init /\ [][Next]_vars /\ Fairness

-----------------------------------------------------------------------------

Increasing(q) == \A i, j \in 1..Len(q) : i < j => q[i] < q[j]

(* Where the requests of a session are in the worker's queue, and the       *)
(* numbers of those answered, in the order of sending.                      *)
Waiting(s) == {i \in 1..Len(msg_que) : msg_que[i].s = s}
Replies(s) == wire[s] \o send_que[s]
Hellos(s) == {n \in 1..Len(requests[s]) : requests[s][n] = "hello"}

(* The session object is kept alive by a shared_ptr in the registry, in     *)
(* HandleAccept, in an outstanding operation or in a queued LogicNode.      *)
Referenced(s) ==
  \/ s \in sessions
  \/ accepting = s
  \/ read[s] \in {"armed", "running"}
  \/ writing[s] # "none"
  \/ \E i \in 1..Len(msg_que) : msg_que[i].s = s

(* Each variable has its type.                                              *)
TypeOK ==
  /\ pooled \in BOOLEAN
  /\ accepting \in Sessions \union {NoSession}
  /\ sessions \subseteq Sessions
  /\ read \in [Sessions -> {"none", "armed", "running", "over", "thrown"}]
  /\ closed \in [Sessions -> BOOLEAN]
  /\ msg_que \in Seq([s : Sessions, n : Nat])
  /\ send_que \in [Sessions -> Seq(Nat)]
  /\ writing \in [Sessions -> {"none", "open", "shut"}]
  /\ requests \in [Sessions -> Seq(Kinds)]
  /\ wire \in [Sessions -> Seq(Nat)]
  /\ dropped \in [Sessions -> SUBSET Nat]
  /\ broken \in [Sessions -> BOOLEAN]
  /\ cleared \in [Sessions -> BOOLEAN]

(* Send starts a write only on an empty queue and HandleWrite starts the    *)
(* next one only after it has popped: a session has one async_write         *)
(* outstanding exactly while it has replies, until a write has failed.      *)
WriteChain ==
  \A s \in Sessions : writing[s] # "none" <=> send_que[s] # <<>> /\ ~broken[s]

(* Send tests the size before it pushes, so the queue holds at most one     *)
(* reply more than MAX_SENDQUE, and a reply is dropped only when it does.   *)
SendQueBounded == \A s \in Sessions : Len(send_que[s]) <= MAX_SENDQUE + 1

(* Replies leave in the order of their requests, none twice: what a client  *)
(* has received, then what waits in its session, then what waits for the    *)
(* worker is in strictly increasing order.                                  *)
RepliesInOrder ==
  \A s \in Sessions :
    /\ Increasing(Replies(s))
    /\ \A i \in Waiting(s) : \A j \in 1..Len(Replies(s)) : Replies(s)[j] < msg_que[i].n
    /\ \A i, j \in Waiting(s) : i < j => msg_que[i].n < msg_que[j].n

(* No request is lost or answered by mistake: each hello is still queued,   *)
(* being answered, answered or was dropped, and nothing else is answered.   *)
EveryRequestAccounted ==
  \A s \in Sessions :
    LET waiting == {msg_que[i].n : i \in Waiting(s)}
        answered == ToSet(Replies(s)) \union dropped[s]
    IN /\ answered \subseteq Hellos(s)
       /\ Hellos(s) \subseteq answered \union waiting
       /\ answered \intersect waiting = {}

(* A session whose read side is live is in the registry, or HandleAccept is *)
(* about to put it there, or its socket has been closed.                    *)
LiveSessionsRegistered ==
  \A s \in Sessions :
    read[s] \in {"armed", "running"} => s \in sessions \/ accepting = s \/ closed[s]

(* With a single network thread HandleAccept inserts before any handler of  *)
(* the session can run: a session that was cleared never comes back. In the *)
(* pooled servers Start precedes the insertion and ClearSession can come    *)
(* between them.                                                            *)
ClearedStaysCleared ==
  \A s \in Sessions : cleared[s] /\ s \in sessions => pooled

(* A request that reached the LogicSystem is answered, unless its session's *)
(* queue was full or a write of the session failed.                         *)
EveryHelloAnswered ==
  \A s \in Sessions : \A n \in 1..MaxRequests :
    n \in Hellos(s) ~> (n \in ToSet(wire[s]) \/ n \in dropped[s] \/ broken[s])

(* When its read side is over, a session is eventually released. Two kinds  *)
(* stay in the registry for good: those the accept race has put back after  *)
(* ClearSession, and those whose HandleRead has thrown, unless a write of   *)
(* theirs fails: nobody else calls ClearSession for them, even when the     *)
(* client has gone.                                                         *)
SessionsReleased ==
  \A s \in Sessions :
    read[s] \in {"over", "thrown"} ~>
      \/ ~Referenced(s)
      \/ s \in sessions /\ (cleared[s] \/ (read[s] = "thrown" /\ ~closed[s]))
=============================================================================
