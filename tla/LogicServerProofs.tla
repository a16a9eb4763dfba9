-------------------------- MODULE LogicServerProofs --------------------------
(***************************************************************************)
(* Proofs about LogicServer for any number of connections and requests and *)
(* any MAX_SENDQUE.                                                        *)
(***************************************************************************)
EXTENDS LogicServer, SequenceTheorems, TLAPS

(* A connection nobody has accepted yet has left no trace anywhere.         *)
Untouched ==
  /\ \A s \in Sessions :
       read[s] = "none" => ~cleared[s] /\ writing[s] = "none" /\ send_que[s] = <<>>
  /\ \A i \in 1..Len(msg_que) : read[msg_que[i].s] # "none"

(* With one network thread nothing happens to a session between its Start   *)
(* and its insertion.                                                       *)
AcceptExclusive ==
  ~pooled => \A s \in Sessions : accepting = s => read[s] = "armed" /\ ~cleared[s]

(* A failed write leaves its reply in the queue.                            *)
BrokenStaysFull == \A s \in Sessions : broken[s] => send_que[s] # <<>>

IInv ==
  /\ TypeOK /\ Untouched /\ AcceptExclusive /\ BrokenStaysFull
  /\ WriteChain /\ SendQueBounded /\ LiveSessionsRegistered /\ ClearedStaysCleared

LEMMA InitIInv == Init => IInv
<1> SUFFICES ASSUME Init PROVE IInv
  OBVIOUS
<1> USE LogicServerAssumption DEF Init
<1>1. TypeOK
  <2>1. msg_que \in Seq([s : Sessions, n : Nat])
    OBVIOUS
  <2>2. send_que \in [Sessions -> Seq(Nat)] /\ wire \in [Sessions -> Seq(Nat)]
    OBVIOUS
  <2>3. requests \in [Sessions -> Seq(Kinds)]
    OBVIOUS
  <2>4. QED
    BY <2>1, <2>2, <2>3 DEF TypeOK
<1>2. Untouched /\ AcceptExclusive /\ BrokenStaysFull
  BY DEF Untouched, AcceptExclusive, BrokenStaysFull
<1>3. WriteChain /\ SendQueBounded /\ LiveSessionsRegistered /\ ClearedStaysCleared
  BY DEF WriteChain, SendQueBounded, LiveSessionsRegistered, ClearedStaysCleared
<1>4. QED
  BY <1>1, <1>2, <1>3 DEF IInv

(* What a queued message is.                                                *)
LEMMA QueuedMessage ==
  ASSUME TypeOK, NEW i \in 1..Len(msg_que)
  PROVE  msg_que[i] \in [s : Sessions, n : Nat] /\ msg_que[i].s \in Sessions
<1> DEFINE R == [s : Sessions, n : Nat]
<1>1. msg_que \in Seq(R)
  BY DEF TypeOK
<1> HIDE DEF R
<1>2. msg_que[i] \in R
  BY <1>1
<1>3. QED
  BY <1>2 DEF R

(* A send queue takes a reply, or a dropped one is remembered.              *)
LEMMA SendKeepsTypes ==
  ASSUME NEW s \in Sessions, NEW n \in Nat, Send(s, n),
         send_que \in [Sessions -> Seq(Nat)], dropped \in [Sessions -> SUBSET Nat]
  PROVE  send_que' \in [Sessions -> Seq(Nat)] /\ dropped' \in [Sessions -> SUBSET Nat]
<1>1. CASE QueueFull(s)
  <2>1. dropped' = [dropped EXCEPT ![s] = dropped[s] \union {n}] /\ send_que' = send_que
    BY <1>1 DEF Send
  <2>2. dropped[s] \union {n} \in SUBSET Nat
    OBVIOUS
  <2>3. QED
    BY <2>1, <2>2
<1>2. CASE ~QueueFull(s)
  <2>1. send_que' = [send_que EXCEPT ![s] = Append(send_que[s], n)] /\ dropped' = dropped
    BY <1>2 DEF Send
  <2>2. Append(send_que[s], n) \in Seq(Nat)
    OBVIOUS
  <2>3. QED
    BY <2>1, <2>2
<1>3. QED
  BY <1>1, <1>2

(* The conjuncts about the send queues survive a step that leaves the       *)
(* queues and the outstanding writes alone.                                 *)
LEMMA SendSideUnchanged ==
  ASSUME IInv, UNCHANGED <<send_que, writing, broken>>
  PROVE  WriteChain' /\ SendQueBounded' /\ BrokenStaysFull'
BY DEF IInv, WriteChain, SendQueBounded, BrokenStaysFull

(* Those about the registry survive one that leaves the sessions alone.     *)
LEMMA RegistryUnchanged ==
  ASSUME IInv, UNCHANGED sessionVars
  PROVE  AcceptExclusive' /\ LiveSessionsRegistered' /\ ClearedStaysCleared'
BY DEF IInv, sessionVars, AcceptExclusive, LiveSessionsRegistered, ClearedStaysCleared

LEMMA AcceptKeepsIInv ==
  ASSUME IInv, NEW s \in Sessions, AcceptStart(s) \/ AcceptInsert(s)
  PROVE  IInv'
<1> USE LogicServerAssumption DEF IInv
<1>1. CASE AcceptStart(s)
  <2>1. TypeOK'
    BY <1>1 DEF AcceptStart, TypeOK
  <2>2. /\ read'[s] = "armed" /\ read[s] = "none" /\ accepting' = s
        /\ \A o \in Sessions \ {s} : read'[o] = read[o]
        /\ UNCHANGED <<cleared, writing, send_que, msg_que, pooled>>
    BY <1>1 DEF AcceptStart, TypeOK
  <2>3. Untouched'
    <3>1. \A i \in 1..Len(msg_que) : msg_que[i].s \in Sessions \ {s}
      BY <2>2, QueuedMessage DEF Untouched
    <3>2. QED
      BY <2>2, <3>1 DEF Untouched
  <2>4. AcceptExclusive'
    BY <2>2 DEF Untouched, AcceptExclusive
  <2>5. LiveSessionsRegistered' /\ ClearedStaysCleared'
    BY <1>1 DEF AcceptStart, TypeOK, LiveSessionsRegistered, ClearedStaysCleared
  <2>6. QED
    BY <1>1, <2>1, <2>3, <2>4, <2>5, SendSideUnchanged DEF AcceptStart
<1>2. CASE AcceptInsert(s)
  <2>1. TypeOK' /\ Untouched' /\ AcceptExclusive'
    BY <1>2 DEF AcceptInsert, TypeOK, Untouched, AcceptExclusive
  <2>2. LiveSessionsRegistered' /\ ClearedStaysCleared'
    BY <1>2 DEF AcceptInsert, TypeOK, LiveSessionsRegistered, ClearedStaysCleared, AcceptExclusive
  <2>3. QED
    BY <1>2, <2>1, <2>2, SendSideUnchanged DEF AcceptInsert
<1>3. QED
  BY <1>1, <1>2

LEMMA PostKeepsIInv ==
  ASSUME IInv, NEW s \in Sessions, NEW kind \in Kinds, PostRequest(s, kind)
  PROVE  IInv'
<1> USE DEF IInv
<1>1. PICK next \in {"armed", "running"} : read' = [read EXCEPT ![s] = next]
  BY DEF PostRequest
<1>2. read[s] = "running" /\ msg_que' = Append(msg_que, [s |-> s, n |-> Len(requests[s]) + 1])
  BY DEF PostRequest
<1>3. TypeOK'
  <2>1. requests' \in [Sessions -> Seq(Kinds)] /\ Len(requests[s]) \in Nat
    BY DEF PostRequest, TypeOK
  <2>2. msg_que' \in Seq([s : Sessions, n : Nat])
    BY <1>2, <2>1 DEF TypeOK
  <2>3. QED
    BY <1>1, <2>1, <2>2 DEF PostRequest, TypeOK
<1>4. Untouched'
  <2>1. \A o \in Sessions : read'[o] = "none" <=> read[o] = "none"
    BY <1>1, <1>2 DEF TypeOK
  <2>2. ASSUME NEW i \in 1..Len(msg_que') PROVE read'[msg_que'[i].s] # "none"
    <3> DEFINE R == [s : Sessions, n : Nat]
               last == [s |-> s, n |-> Len(requests[s]) + 1]
    <3>0. last.s = s
      OBVIOUS
    <3>1. msg_que \in Seq(R) /\ msg_que' = Append(msg_que, last)
      BY <1>2 DEF TypeOK
    <3> HIDE DEF R, last
    <3>2. i \in 1..(Len(msg_que) + 1)
      BY <3>1
    <3>3. CASE i = Len(msg_que) + 1
      BY <1>2, <2>1, <3>0, <3>1, <3>3
    <3>4. CASE i \in 1..Len(msg_que)
      <4>1. msg_que'[i] = msg_que[i]
        BY <3>1, <3>4
      <4>2. msg_que[i].s \in Sessions
        BY <3>4, QueuedMessage
      <4>3. QED
        BY <2>1, <3>4, <4>1, <4>2 DEF Untouched
    <3>5. QED
      BY <3>1, <3>2, <3>3, <3>4
  <2>3. QED
    BY <2>1, <2>2 DEF PostRequest, Untouched
<1>5. AcceptExclusive' /\ LiveSessionsRegistered' /\ ClearedStaysCleared'
  <2>1. UNCHANGED <<pooled, accepting, sessions, closed, cleared>>
    BY DEF PostRequest
  <2>2. read'[s] \in {"armed", "running"} /\ \A o \in Sessions \ {s} : read'[o] = read[o]
    BY <1>1 DEF TypeOK
  <2>3. AcceptExclusive'
    <3>1. ~pooled => accepting # s
      BY <1>2 DEF AcceptExclusive
    <3>2. QED
      BY <2>1, <2>2, <3>1 DEF AcceptExclusive
  <2>4. LiveSessionsRegistered'
    BY <1>2, <2>1, <2>2 DEF LiveSessionsRegistered
  <2>5. ClearedStaysCleared'
    BY <2>1 DEF ClearedStaysCleared
  <2>6. QED
    BY <2>3, <2>4, <2>5
<1>6. QED
  BY <1>3, <1>4, <1>5, SendSideUnchanged DEF PostRequest

LEMMA ReadKeepsIInv ==
  ASSUME IInv, NEW s \in Sessions,
         ReadCompletes(s) \/ RejectRequest(s) \/ AllocationThrows(s) \/ ReadFails(s)
  PROVE  IInv'
<1> USE LogicServerAssumption DEF IInv, ClearSession, Close, ThreadFree
<1>1. UNCHANGED <<send_que, writing, broken, msg_que, pooled, accepting>>
  BY DEF ReadCompletes, RejectRequest, AllocationThrows, ReadFails
<1>2. TypeOK'
  BY DEF ReadCompletes, RejectRequest, AllocationThrows, ReadFails, TypeOK
<1>3. Untouched'
  <2>1. \A o \in Sessions : read'[o] = "none" <=> read[o] = "none"
    BY DEF ReadCompletes, RejectRequest, AllocationThrows, ReadFails, TypeOK
  <2>2. \A i \in 1..Len(msg_que) : msg_que[i].s \in Sessions
    BY QueuedMessage
  <2>3. \A o \in Sessions \ {s} : cleared'[o] = cleared[o]
    BY DEF ReadCompletes, RejectRequest, AllocationThrows, ReadFails, TypeOK
  <2>4. read[s] # "none"
    BY DEF ReadCompletes, RejectRequest, AllocationThrows, ReadFails
  <2>5. QED
    BY <1>1, <2>1, <2>2, <2>3, <2>4 DEF Untouched
<1>4. AcceptExclusive'
  <2>1. CASE ReadCompletes(s) \/ ReadFails(s)
    <3>1. ~pooled => accepting = NoSession
      BY <2>1 DEF ReadCompletes, ReadFails
    <3>2. QED
      BY <1>1, <3>1 DEF AcceptExclusive
  <2>2. CASE RejectRequest(s) \/ AllocationThrows(s)
    <3>1. read[s] = "running" /\ \A o \in Sessions \ {s} : read'[o] = read[o] /\ cleared'[o] = cleared[o]
      BY <2>2 DEF RejectRequest, AllocationThrows, TypeOK
    <3>2. QED
      BY <1>1, <3>1 DEF AcceptExclusive
  <2>3. QED
    BY <2>1, <2>2
<1>5. LiveSessionsRegistered' /\ ClearedStaysCleared'
  <2>1. CASE ReadCompletes(s)
    BY <2>1 DEF ReadCompletes, TypeOK, LiveSessionsRegistered, ClearedStaysCleared
  <2>2. CASE RejectRequest(s)
    BY <2>2 DEF RejectRequest, TypeOK, LiveSessionsRegistered, ClearedStaysCleared
  <2>3. CASE ReadFails(s)
    BY <2>3 DEF ReadFails, TypeOK, LiveSessionsRegistered, ClearedStaysCleared
  <2>4. CASE AllocationThrows(s)
    BY <2>4 DEF AllocationThrows, TypeOK, LiveSessionsRegistered, ClearedStaysCleared
  <2>5. QED
    BY <2>1, <2>2, <2>3, <2>4
<1>6. QED
  BY <1>1, <1>2, <1>3, <1>4, <1>5, SendSideUnchanged

LEMMA DealKeepsIInv == ASSUME IInv, DealMsg PROVE IInv'
<1> USE DEF IInv
<1> DEFINE m == Head(msg_que)
<1>1. /\ msg_que # <<>> /\ msg_que' = Tail(msg_que)
      /\ UNCHANGED sessionVars /\ UNCHANGED <<requests, wire, broken>>
  BY DEF DealMsg
<1> DEFINE R == [s : Sessions, n : Nat]
<1>r. msg_que \in Seq(R)
  BY DEF TypeOK
<1> HIDE DEF R
<1>2. m = msg_que[1] /\ 1 \in 1..Len(msg_que)
  BY <1>1, <1>r
<1>3. m.s \in Sessions /\ m.n \in Nat /\ read[m.s] # "none"
  BY <1>2, QueuedMessage DEF Untouched
<1>4. /\ msg_que' \in Seq(R)
      /\ \A i \in 1..Len(msg_que') : read[msg_que'[i].s] # "none"
  <2>1. Len(msg_que') = Len(msg_que) - 1 /\ \A i \in 1..Len(msg_que') : msg_que'[i] = msg_que[i + 1]
    BY <1>1, <1>r
  <2>2. \A i \in 1..Len(msg_que') : i + 1 \in 1..Len(msg_que)
    BY <1>1, <1>r, <2>1
  <2>3. msg_que' \in Seq(R)
    BY <1>1, <1>r
  <2>4. QED
    BY <2>1, <2>2, <2>3 DEF Untouched
<1> HIDE DEF m
<1>5. Send(m.s, m.n) \/ UNCHANGED <<send_que, writing, dropped>>
  BY DEF DealMsg, m
<1>6. CASE UNCHANGED <<send_que, writing, dropped>>
  <2>1. TypeOK' /\ Untouched'
    BY <1>1, <1>4, <1>6 DEF TypeOK, Untouched, sessionVars, R
  <2>2. QED
    BY <1>1, <1>6, <2>1, SendSideUnchanged, RegistryUnchanged
<1>7. CASE Send(m.s, m.n)
  <2>1. TypeOK'
    <3>1. dropped' \in [Sessions -> SUBSET Nat] /\ send_que' \in [Sessions -> Seq(Nat)]
      BY <1>3, <1>7, SendKeepsTypes DEF TypeOK
    <3>2. writing' \in [Sessions -> {"none", "open", "shut"}]
      BY <1>3, <1>7 DEF Send, IssueWrite, TypeOK
    <3>3. QED
      BY <1>1, <1>4, <3>1, <3>2 DEF TypeOK, sessionVars, R
  <2>2. Untouched'
    <3>1. \A o \in Sessions \ {m.s} : send_que'[o] = send_que[o] /\ writing'[o] = writing[o]
      BY <1>3, <1>7 DEF Send, IssueWrite, TypeOK
    <3>2. QED
      BY <1>1, <1>3, <1>4, <3>1 DEF Untouched, sessionVars
  <2>3. WriteChain' /\ SendQueBounded' /\ BrokenStaysFull'
    <3>1. CASE QueueFull(m.s)
      BY <1>1, <1>7, <3>1, SendSideUnchanged DEF Send
    <3>2. CASE ~QueueFull(m.s)
      <4>1. /\ send_que' = [send_que EXCEPT ![m.s] = Append(@, m.n)]
            /\ IF send_que[m.s] = <<>> THEN IssueWrite(m.s) ELSE UNCHANGED writing
        BY <1>7, <3>2 DEF Send
      <4>q. /\ send_que[m.s] \in Seq(Nat) /\ send_que'[m.s] = Append(send_que[m.s], m.n)
            /\ \A o \in Sessions \ {m.s} : send_que'[o] = send_que[o]
        BY <1>3, <4>1 DEF TypeOK
      <4>2. /\ send_que'[m.s] # <<>> /\ Len(send_que'[m.s]) = Len(send_que[m.s]) + 1
            /\ Len(send_que[m.s]) <= MAX_SENDQUE
            /\ \A o \in Sessions \ {m.s} : send_que'[o] = send_que[o]
        BY <1>3, <3>2, <4>q, LogicServerAssumption DEF QueueFull
      <4>3. writing'[m.s] # "none" <=> ~broken[m.s]
        BY <1>3, <4>1 DEF IssueWrite, TypeOK, WriteChain, BrokenStaysFull
      <4>4. \A o \in Sessions \ {m.s} : writing'[o] = writing[o]
        BY <1>3, <4>1 DEF IssueWrite, TypeOK
      <4>5. WriteChain'
        BY <1>1, <4>2, <4>3, <4>4 DEF WriteChain
      <4>6. SendQueBounded'
        <5>1. Len(send_que'[m.s]) <= MAX_SENDQUE + 1
          BY <4>2, <4>q, LogicServerAssumption
        <5>2. QED
          BY <4>2, <5>1 DEF SendQueBounded
      <4>7. BrokenStaysFull'
        BY <1>1, <4>2 DEF BrokenStaysFull
      <4>8. QED
        BY <4>5, <4>6, <4>7
    <3>3. QED
      BY <3>1, <3>2
  <2>4. QED
    BY <1>1, <2>1, <2>2, <2>3, RegistryUnchanged
<1>8. QED
  BY <1>5, <1>6, <1>7

LEMMA WriteCompletesKeepsIInv ==
  ASSUME IInv, NEW s \in Sessions, WriteCompletes(s)
  PROVE  IInv'
<1> USE DEF IInv
<1>1. /\ writing[s] = "open" /\ send_que' = [send_que EXCEPT ![s] = Tail(@)]
      /\ UNCHANGED sessionVars /\ UNCHANGED <<msg_que, requests, dropped, broken>>
  BY DEF WriteCompletes
<1>2. send_que[s] # <<>> /\ ~broken[s]
  BY <1>1 DEF WriteChain
<1>3. /\ Tail(send_que[s]) \in Seq(Nat) /\ Len(Tail(send_que[s])) = Len(send_que[s]) - 1
      /\ Head(send_que[s]) \in Nat
  BY <1>2 DEF TypeOK
<1>4. send_que'[s] = Tail(send_que[s]) /\ \A o \in Sessions \ {s} : send_que'[o] = send_que[o]
  BY <1>1 DEF TypeOK
<1>5. /\ writing' \in [Sessions -> {"none", "open", "shut"}]
      /\ writing'[s] # "none" <=> Tail(send_que[s]) # <<>>
      /\ \A o \in Sessions \ {s} : writing'[o] = writing[o]
  BY DEF WriteCompletes, IssueWrite, TypeOK
<1>6. TypeOK'
  <2>1. send_que' \in [Sessions -> Seq(Nat)]
    BY <1>1, <1>3 DEF TypeOK
  <2>2. wire' \in [Sessions -> Seq(Nat)]
    BY <1>3 DEF WriteCompletes, TypeOK
  <2>3. QED
    BY <1>1, <1>5, <2>1, <2>2 DEF TypeOK, sessionVars
<1>7. Untouched'
  BY <1>1, <1>4, <1>5 DEF Untouched, sessionVars
<1>8. WriteChain' /\ BrokenStaysFull'
  BY <1>1, <1>2, <1>4, <1>5 DEF WriteChain, BrokenStaysFull
<1>9. SendQueBounded'
  <2>1. Len(send_que[s]) \in Nat /\ Len(send_que[s]) <= MAX_SENDQUE + 1
    BY DEF SendQueBounded, TypeOK
  <2>2. Len(send_que'[s]) <= MAX_SENDQUE + 1
    BY <1>3, <1>4, <2>1, LogicServerAssumption
  <2>3. QED
    BY <1>4, <2>2 DEF SendQueBounded
<1>10. QED
  BY <1>1, <1>6, <1>7, <1>8, <1>9, RegistryUnchanged

LEMMA WriteFailsKeepsIInv ==
  ASSUME IInv, NEW s \in Sessions, WriteFails(s)
  PROVE  IInv'
<1> USE DEF IInv
<1>1. writing[s] # "none" /\ ThreadFree(s)
  BY DEF WriteFails, HandleWriteMayRun
<1>2. send_que[s] # <<>> /\ read[s] # "none"
  BY <1>1 DEF WriteChain, Untouched, TypeOK
<1>3. TypeOK' /\ Untouched'
  BY <1>2 DEF WriteFails, Close, ClearSession, TypeOK, Untouched
<1>4. WriteChain' /\ BrokenStaysFull' /\ SendQueBounded'
  BY <1>2 DEF WriteFails, TypeOK, WriteChain, BrokenStaysFull, SendQueBounded
<1>5. AcceptExclusive'
  BY <1>1, LogicServerAssumption DEF WriteFails, ClearSession, ThreadFree, TypeOK, AcceptExclusive
<1>6. LiveSessionsRegistered' /\ ClearedStaysCleared'
  BY DEF WriteFails, Close, ClearSession, TypeOK, LiveSessionsRegistered, ClearedStaysCleared
<1>7. QED
  BY <1>3, <1>4, <1>5, <1>6

LEMMA StutterKeepsIInv == ASSUME IInv, UNCHANGED vars PROVE IInv'
<1> USE DEF IInv, vars
<1>1. TypeOK'
  BY DEF TypeOK
<1>2. Untouched'
  BY DEF Untouched
<1>3. QED
  BY <1>1, <1>2, SendSideUnchanged, RegistryUnchanged DEF sessionVars

(* The inductive invariant holds in every reachable state.                  *)
THEOREM Invariance == Spec => []IInv
<1>1. IInv /\ [Next]_vars => IInv'
  BY AcceptKeepsIInv, PostKeepsIInv, ReadKeepsIInv, DealKeepsIInv, WriteCompletesKeepsIInv,
     WriteFailsKeepsIInv, StutterKeepsIInv DEF Next, HandleRead, HandleWrite, Quiescent
<1>2. QED
  BY InitIInv, <1>1, PTL DEF Spec

(* Send and HandleWrite keep exactly one async_write outstanding while a    *)
(* session has replies.                                                     *)
THEOREM OneWriteOutstanding == Spec => []WriteChain
BY Invariance, PTL DEF IInv

(* Send never lets _send_que grow past MAX_SENDQUE + 1.                     *)
THEOREM SendQueueBound == Spec => []SendQueBounded
BY Invariance, PTL DEF IInv

(* ClearSession and HandleAccept: with one network thread a session that    *)
(* has been cleared is never in the registry again.                         *)
THEOREM ClearedForGood == Spec => []ClearedStaysCleared
BY Invariance, PTL DEF IInv

(* A session that still reads can be found in the registry until its socket *)
(* has been closed.                                                         *)
THEOREM LiveRegistered == Spec => []LiveSessionsRegistered
BY Invariance, PTL DEF IInv

-----------------------------------------------------------------------------
(* The way of a request's number from the worker's queue to the wire.       *)

(* Where a number waits it is that of a request, and it is newer than those *)
(* whose reply has been dropped.                                            *)
QueuedNumbers ==
  \A i \in 1..Len(msg_que) : msg_que[i].n \in 1..Len(requests[msg_que[i].s])

DroppedBefore ==
  \A s \in Sessions : \A i \in Waiting(s) : \A n \in dropped[s] : n < msg_que[i].n

Ledger == RepliesInOrder /\ EveryRequestAccounted /\ QueuedNumbers /\ DroppedBefore

Answered(s) == {Replies(s)[j] : j \in 1..Len(Replies(s))} \union dropped[s]
WaitingNumbers(s) == {msg_que[i].n : i \in Waiting(s)}

(* EveryRequestAccounted without the names it introduces.                   *)
LEMMA Accounted ==
  ASSUME TypeOK, NEW s \in Sessions
  PROVE  /\ Replies(s) \in Seq(Nat)
         /\ EveryRequestAccounted =>
              /\ Answered(s) \subseteq Hellos(s)
              /\ Hellos(s) \subseteq Answered(s) \union WaitingNumbers(s)
              /\ Answered(s) \intersect WaitingNumbers(s) = {}
<1>1. wire[s] \in Seq(Nat) /\ send_que[s] \in Seq(Nat)
  BY DEF TypeOK
<1>2. Replies(s) \in Seq(Nat)
  BY <1>1 DEF Replies
<1>3. ToSet(Replies(s)) = {Replies(s)[j] : j \in 1..Len(Replies(s))}
  BY <1>2 DEF ToSet
<1>4. QED
  BY <1>2, <1>3 DEF EveryRequestAccounted, Answered, WaitingNumbers

LEMMA AccountedNext ==
  ASSUME \A s \in Sessions :
           /\ Replies(s)' \in Seq(Nat)
           /\ Answered(s)' \subseteq Hellos(s)'
           /\ Hellos(s)' \subseteq Answered(s)' \union WaitingNumbers(s)'
           /\ Answered(s)' \intersect WaitingNumbers(s)' = {}
  PROVE  EveryRequestAccounted'
<1>1. \A s \in Sessions : ToSet(Replies(s)') = {Replies(s)'[j] : j \in 1..Len(Replies(s)')}
  BY DEF ToSet
<1>2. QED
  BY <1>1 DEF EveryRequestAccounted, Answered, WaitingNumbers

(* A reply that goes from the queue to the wire keeps its place.            *)
LEMMA ReplyMoves ==
  ASSUME NEW w \in Seq(Nat), NEW q \in Seq(Nat), q # <<>>
  PROVE  Append(w, Head(q)) \o Tail(q) = w \o q
<1>1. Head(q) \in Nat /\ Tail(q) \in Seq(Nat) /\ Len(Tail(q)) = Len(q) - 1
      /\ Len(q) >= 1
  OBVIOUS
<1>2. Append(w, Head(q)) \in Seq(Nat) /\ Len(Append(w, Head(q))) = Len(w) + 1
  BY <1>1
<1>3. /\ Append(w, Head(q)) \o Tail(q) \in Seq(Nat) /\ w \o q \in Seq(Nat)
      /\ Len(Append(w, Head(q)) \o Tail(q)) = Len(w) + Len(q)
      /\ Len(w \o q) = Len(w) + Len(q)
  BY <1>1, <1>2
<1>4. ASSUME NEW i \in 1..(Len(w) + Len(q))
      PROVE  (Append(w, Head(q)) \o Tail(q))[i] = (w \o q)[i]
  <2>1. CASE i <= Len(w)
    BY <1>1, <1>2, <2>1
  <2>2. CASE i = Len(w) + 1
    BY <1>1, <1>2, <2>2
  <2>3. CASE i > Len(w) + 1
    <3>1. (Append(w, Head(q)) \o Tail(q))[i] = Tail(q)[i - (Len(w) + 1)]
      BY <1>1, <1>2, <2>3
    <3>2. Tail(q)[i - (Len(w) + 1)] = q[i - Len(w)]
      BY <1>1, <2>3
    <3>3. (w \o q)[i] = q[i - Len(w)]
      BY <1>1, <2>3
    <3>4. QED
      BY <3>1, <3>2, <3>3
  <2>4. QED
    BY <2>1, <2>2, <2>3
<1>5. QED
  BY <1>3, <1>4, SeqEqual

LEMMA ReplyAppended ==
  ASSUME NEW w \in Seq(Nat), NEW q \in Seq(Nat), NEW n \in Nat
  PROVE  w \o Append(q, n) = Append(w \o q, n)
<1>1. /\ w \o Append(q, n) \in Seq(Nat) /\ Append(w \o q, n) \in Seq(Nat)
      /\ Len(w \o Append(q, n)) = Len(w) + Len(q) + 1
      /\ Len(Append(w \o q, n)) = Len(w) + Len(q) + 1
  OBVIOUS
<1>2. ASSUME NEW i \in 1..(Len(w) + Len(q) + 1)
      PROVE  (w \o Append(q, n))[i] = Append(w \o q, n)[i]
  <2>1. CASE i <= Len(w)
    BY <2>1
  <2>2. CASE i > Len(w) /\ i <= Len(w) + Len(q)
    BY <2>2
  <2>3. CASE i = Len(w) + Len(q) + 1
    BY <2>3
  <2>4. QED
    BY <2>1, <2>2, <2>3
<1>3. QED
  BY <1>1, <1>2, SeqEqual

(* Steps that leave all four numbers' places alone.                         *)
LEMMA LedgerUnchanged ==
  ASSUME Ledger, UNCHANGED <<msg_que, requests, dropped>>,
         \A s \in Sessions : Replies(s)' = Replies(s)
  PROVE  Ledger'
BY DEF Ledger, RepliesInOrder, EveryRequestAccounted, QueuedNumbers, DroppedBefore,
       Waiting, Hellos

(* A request read has a number above all others of its session.             *)
LEMMA PostKeepsLedger ==
  ASSUME IInv, Ledger, NEW s \in Sessions, NEW kind \in Kinds, PostRequest(s, kind)
  PROVE  Ledger'
<1> DEFINE N == Len(requests[s]) + 1
           R == [s : Sessions, n : Nat]
<1>1. /\ msg_que' = Append(msg_que, [s |-> s, n |-> N])
      /\ requests' = [requests EXCEPT ![s] = Append(@, kind)]
      /\ UNCHANGED <<wire, send_que, dropped>>
  BY DEF PostRequest
<1>2. /\ requests[s] \in Seq(Kinds) /\ N \in Nat
      /\ Len(requests'[s]) = N /\ requests'[s][N] = kind
      /\ \A n \in 1..Len(requests[s]) : requests'[s][n] = requests[s][n]
      /\ \A o \in Sessions \ {s} : requests'[o] = requests[o]
  BY <1>1 DEF IInv, TypeOK
<1>3. msg_que \in Seq(R) /\ [s |-> s, n |-> N] \in R
  BY <1>2 DEF IInv, TypeOK
<1> HIDE DEF R
<1>4. /\ Len(msg_que') = Len(msg_que) + 1 /\ Len(msg_que) \in Nat
      /\ msg_que'[Len(msg_que) + 1] = [s |-> s, n |-> N]
      /\ \A i \in 1..Len(msg_que) : msg_que'[i] = msg_que[i]
  BY <1>1, <1>3
<1>5. \A i \in 1..Len(msg_que) : msg_que[i].s \in Sessions /\ msg_que[i].n \in Nat
  BY QueuedMessage DEF IInv
<1> HIDE DEF N
<1>6. /\ Waiting(s)' = Waiting(s) \union {Len(msg_que) + 1}
      /\ \A o \in Sessions \ {s} : Waiting(o)' = Waiting(o)
  BY <1>4 DEF Waiting
<1>7. \A o \in Sessions : Replies(o)' = Replies(o) /\ Waiting(o) \subseteq 1..Len(msg_que)
  BY <1>1 DEF Replies, Waiting
<1>8. \A o \in Sessions : Replies(o) \in Seq(Nat) /\ Answered(o)' = Answered(o)
  BY <1>1, <1>7, Accounted DEF Answered, IInv
<1>9. /\ Answered(s) \subseteq Hellos(s)
      /\ Hellos(s) \subseteq Answered(s) \union WaitingNumbers(s)
      /\ Answered(s) \intersect WaitingNumbers(s) = {}
  BY Accounted DEF Ledger, IInv
<1>10. \A n \in Answered(s) : n \in Nat /\ n < N
  <2>1. \A n \in Hellos(s) : n \in 1..Len(requests[s])
    BY DEF Hellos
  <2>2. QED
    BY <1>2, <1>9, <2>1 DEF N
<1>11. /\ WaitingNumbers(s)' = WaitingNumbers(s) \union {N}
       /\ \A o \in Sessions \ {s} : WaitingNumbers(o)' = WaitingNumbers(o)
  BY <1>4, <1>6, <1>7 DEF WaitingNumbers
<1>12. \A i \in Waiting(s) : msg_que[i].n < N
  BY <1>2, <1>5, <1>7 DEF Ledger, QueuedNumbers, Waiting, N
<1>13. RepliesInOrder'
  <2>1. ASSUME NEW o \in Sessions \ {s}
        PROVE  /\ Increasing(Replies(o))'
               /\ \A i \in Waiting(o)' : \A j \in 1..Len(Replies(o)') : Replies(o)'[j] < msg_que'[i].n
               /\ \A i, j \in Waiting(o)' : i < j => msg_que'[i].n < msg_que'[j].n
    BY <1>4, <1>6, <1>7 DEF Ledger, RepliesInOrder, Increasing
  <2>2. /\ Increasing(Replies(s))'
        /\ \A i \in Waiting(s)' : \A j \in 1..Len(Replies(s)') : Replies(s)'[j] < msg_que'[i].n
    BY <1>4, <1>6, <1>7, <1>10 DEF Ledger, RepliesInOrder, Increasing, Answered
  <2>3. \A i, j \in Waiting(s)' : i < j => msg_que'[i].n < msg_que'[j].n
    BY <1>4, <1>6, <1>7, <1>12 DEF Ledger, RepliesInOrder
  <2>4. QED
    BY <2>1, <2>2, <2>3 DEF RepliesInOrder
<1>14. QueuedNumbers'
  <2>1. ASSUME NEW i \in 1..Len(msg_que)
        PROVE  msg_que'[i].n \in 1..Len(requests'[msg_que'[i].s])
    <3>1. msg_que'[i] = msg_que[i] /\ msg_que[i].s \in Sessions
      BY <1>4, <1>5
    <3>2. msg_que[i].n \in 1..Len(requests[msg_que[i].s])
      BY DEF Ledger, QueuedNumbers
    <3>3. CASE msg_que[i].s = s
      BY <1>2, <3>1, <3>2, <3>3 DEF N
    <3>4. CASE msg_que[i].s # s
      BY <1>2, <3>1, <3>2, <3>4
    <3>5. QED
      BY <3>3, <3>4
  <2>2. N \in 1..Len(requests'[s])
    BY <1>2 DEF N
  <2>3. QED
    BY <1>4, <2>1, <2>2 DEF QueuedNumbers
<1>15. DroppedBefore'
  BY <1>1, <1>4, <1>6, <1>7, <1>10 DEF Ledger, DroppedBefore, Answered
<1>16. /\ Hellos(s) \subseteq Hellos(s)' /\ Hellos(s)' \subseteq Hellos(s) \union {N}
       /\ \A o \in Sessions \ {s} : Hellos(o)' = Hellos(o)
  BY <1>2 DEF Hellos, N
<1>17. EveryRequestAccounted'
  <2>1. ASSUME NEW o \in Sessions
        PROVE  /\ Replies(o)' \in Seq(Nat)
               /\ Answered(o)' \subseteq Hellos(o)'
               /\ Hellos(o)' \subseteq Answered(o)' \union WaitingNumbers(o)'
               /\ Answered(o)' \intersect WaitingNumbers(o)' = {}
    <3>1. CASE o = s
      BY <1>7, <1>8, <1>9, <1>10, <1>11, <1>16, <3>1
    <3>2. CASE o # s
      BY <1>7, <1>8, <1>11, <1>16, <3>2, Accounted DEF Ledger, IInv
    <3>3. QED
      BY <3>1, <3>2
  <2>2. QED
    BY <2>1, AccountedNext
<1>18. QED
  BY <1>13, <1>14, <1>15, <1>17 DEF Ledger

(* The worker takes the oldest request: its number is above all replies of  *)
(* its session and below the numbers that still wait.                       *)
LEMMA DealtKeepsLedger ==
  ASSUME IInv, Ledger, DealMsg,
         NEW s \in Sessions, NEW n \in Nat, s = msg_que[1].s, n = msg_que[1].n
  PROVE  Ledger'
<1> DEFINE R == [s : Sessions, n : Nat]
<1>2. msg_que \in Seq(R) /\ msg_que # <<>> /\ msg_que' = Tail(msg_que)
  BY DEF IInv, TypeOK, DealMsg
<1> HIDE DEF R
<1>3. /\ Len(msg_que) >= 1 /\ Len(msg_que) \in Nat /\ Len(msg_que') = Len(msg_que) - 1
      /\ \A i \in 1..Len(msg_que') : msg_que'[i] = msg_que[i + 1]
      /\ Head(msg_que) = msg_que[1]
  BY <1>2
<1>1. /\ UNCHANGED <<requests, wire>>
      /\ IF requests[s][n] = "hello" THEN Send(s, n) ELSE UNCHANGED <<send_que, writing, dropped>>
  BY <1>3 DEF DealMsg
<1>4. \A i \in 1..Len(msg_que) : msg_que[i].s \in Sessions /\ msg_que[i].n \in Nat
  BY QueuedMessage DEF IInv
<1>5. n \in 1..Len(requests[s]) /\ 1 \in Waiting(s)
  BY <1>3, <1>4 DEF Ledger, QueuedNumbers, Waiting
<1>6. \A o \in Sessions : /\ \A i \in Waiting(o)' : i >= 1 /\ i + 1 \in Waiting(o) /\ msg_que'[i] = msg_que[i + 1]
                          /\ Waiting(o)' \subseteq Nat /\ Waiting(o) \subseteq Nat
  BY <1>3 DEF Waiting
<1>7. \A o \in Sessions \ {s} : \A i \in Waiting(o) : i - 1 \in Waiting(o)' /\ msg_que'[i - 1] = msg_que[i]
  BY <1>3 DEF Waiting
<1>8. \A i \in Waiting(s) \ {1} : i - 1 \in Waiting(s)' /\ msg_que'[i - 1] = msg_que[i]
  BY <1>3 DEF Waiting
<1>9. \A i \in Waiting(s) \ {1} : i > 1 /\ n < msg_que[i].n /\ msg_que[i].n \in Nat
  <2>1. \A i \in Waiting(s) \ {1} : i > 1 /\ i \in 1..Len(msg_que)
    BY <1>3 DEF Waiting
  <2>2. QED
    BY <1>3, <1>4, <1>5, <2>1 DEF Ledger, RepliesInOrder
<1>10. /\ WaitingNumbers(s) = WaitingNumbers(s)' \union {n} /\ n \notin WaitingNumbers(s)'
       /\ \A o \in Sessions \ {s} : WaitingNumbers(o)' = WaitingNumbers(o)
  <2>1. n = msg_que[1].n
    BY <1>3
  <2>2. ASSUME NEW k \in WaitingNumbers(s)' PROVE k \in WaitingNumbers(s) /\ k > n
    <3>1. PICK i \in Waiting(s)' : k = msg_que'[i].n
      BY DEF WaitingNumbers
    <3>2. i + 1 \in Waiting(s) \ {1} /\ k = msg_que[i + 1].n
      BY <1>6, <3>1
    <3>3. QED
      BY <1>9, <3>2 DEF WaitingNumbers
  <2>3. \A k \in WaitingNumbers(s) : k = n \/ k \in WaitingNumbers(s)'
    BY <1>8, <2>1 DEF WaitingNumbers
  <2>4. \A o \in Sessions \ {s} : WaitingNumbers(o)' \subseteq WaitingNumbers(o)
    BY <1>6 DEF WaitingNumbers
  <2>5. \A o \in Sessions \ {s} : WaitingNumbers(o) \subseteq WaitingNumbers(o)'
    BY <1>7 DEF WaitingNumbers
  <2>6. n \in WaitingNumbers(s)
    BY <1>5, <2>1 DEF WaitingNumbers
  <2>7. n \notin WaitingNumbers(s)'
    BY <2>2
  <2>8. WaitingNumbers(s) = WaitingNumbers(s)' \union {n}
    BY <2>2, <2>3, <2>6
  <2>9. QED
    BY <2>4, <2>5, <2>7, <2>8
<1>11. /\ Answered(s) \subseteq Hellos(s)
       /\ Hellos(s) \subseteq Answered(s) \union WaitingNumbers(s)
       /\ Answered(s) \intersect WaitingNumbers(s) = {}
       /\ Replies(s) \in Seq(Nat)
  BY <1>5, Accounted DEF Ledger, IInv
<1>12. \A o \in Sessions : Hellos(o)' = Hellos(o)
  BY <1>1 DEF Hellos
<1>13. \/ /\ n \in Hellos(s)
          /\ Replies(s)' = Append(Replies(s), n) /\ dropped' = dropped
       \/ /\ n \in Hellos(s)
          /\ Replies(s)' = Replies(s) /\ dropped' = [dropped EXCEPT ![s] = @ \union {n}]
       \/ /\ n \notin Hellos(s)
          /\ Replies(s)' = Replies(s) /\ dropped' = dropped
  <2>1. CASE requests[s][n] # "hello"
    BY <1>1, <2>1 DEF Hellos, Replies
  <2>2. CASE requests[s][n] = "hello" /\ QueueFull(s)
    BY <1>1, <1>5, <2>2 DEF Hellos, Replies, Send
  <2>3. CASE requests[s][n] = "hello" /\ ~QueueFull(s)
    <3>1. send_que' = [send_que EXCEPT ![s] = Append(@, n)] /\ dropped' = dropped
      BY <1>1, <2>3 DEF Send
    <3>2. wire[s] \in Seq(Nat) /\ send_que[s] \in Seq(Nat) /\ send_que'[s] = Append(send_que[s], n)
      BY <1>5, <3>1 DEF IInv, TypeOK
    <3>3. wire[s] \o Append(send_que[s], n) = Append(wire[s] \o send_que[s], n)
      BY <3>2, ReplyAppended
    <3>4. QED
      BY <1>1, <1>5, <2>3, <3>1, <3>2, <3>3 DEF Hellos, Replies
  <2>4. QED
    BY <2>1, <2>2, <2>3
<1>14. \A o \in Sessions \ {s} : Replies(o)' = Replies(o) /\ dropped'[o] = dropped[o]
  BY <1>1, <1>5 DEF Replies, Send, IInv, TypeOK
<1>15. \A o \in Sessions \ {s} : Answered(o)' = Answered(o)
  BY <1>14 DEF Answered
<1>16. dropped[s] \subseteq Nat /\ dropped[s] \subseteq dropped'[s] /\ dropped'[s] \subseteq dropped[s] \union {n}
  <2>1. dropped \in [Sessions -> SUBSET Nat]
    BY DEF IInv, TypeOK
  <2>2. dropped' = dropped \/ dropped' = [dropped EXCEPT ![s] = dropped[s] \union {n}]
    BY <1>13
  <2>3. dropped'[s] = dropped[s] \/ dropped'[s] = dropped[s] \union {n}
    BY <2>1, <2>2
  <2>4. QED
    BY <2>1, <2>3
<1>17. \/ /\ n \in Hellos(s) /\ Answered(s)' = Answered(s) \union {n}
       \/ /\ n \notin Hellos(s) /\ Answered(s)' = Answered(s)
  <2>1. CASE Replies(s)' = Append(Replies(s), n) /\ dropped' = dropped /\ n \in Hellos(s)
    <3>0. /\ Len(Replies(s)) \in Nat /\ Len(Replies(s)') = Len(Replies(s)) + 1
          /\ Replies(s)'[Len(Replies(s)) + 1] = n
          /\ \A j \in 1..Len(Replies(s)) : Replies(s)'[j] = Replies(s)[j]
      BY <1>5, <1>11, <2>1
    <3>1. {Replies(s)'[j] : j \in 1..Len(Replies(s)')}
            = {Replies(s)[j] : j \in 1..Len(Replies(s))} \union {n}
      BY <3>0
    <3>2. QED
      BY <2>1, <3>1 DEF Answered
  <2>2. CASE /\ n \in Hellos(s) /\ Replies(s)' = Replies(s)
            /\ dropped' = [dropped EXCEPT ![s] = @ \union {n}]
    <3>1. dropped'[s] = dropped[s] \union {n}
      BY <2>2 DEF IInv, TypeOK
    <3>2. QED
      BY <2>2, <3>1 DEF Answered
  <2>3. CASE n \notin Hellos(s) /\ Replies(s)' = Replies(s) /\ dropped' = dropped
    BY <2>3 DEF Answered
  <2>4. QED
    BY <1>13, <2>1, <2>2, <2>3
<1>18. \A j \in 1..Len(Replies(s)) : Replies(s)[j] \in Nat /\ Replies(s)[j] < n
  <2>1. \A j \in 1..Len(Replies(s)) : Replies(s)[j] < msg_que[1].n
    BY <1>5 DEF Ledger, RepliesInOrder
  <2>2. \A j \in 1..Len(Replies(s)) : Replies(s)[j] \in Nat
    BY <1>11
  <2>3. QED
    BY <2>1, <2>2
<1>19. RepliesInOrder'
  <2>1. ASSUME NEW o \in Sessions
        PROVE  \A i, j \in Waiting(o)' : i < j => msg_que'[i].n < msg_que'[j].n
    <3>1. \A i, j \in Waiting(o)' : i < j => i + 1 < j + 1
      BY <1>6
    <3>2. QED
      BY <1>6, <3>1 DEF Ledger, RepliesInOrder
  <2>2. ASSUME NEW o \in Sessions \ {s}
        PROVE  /\ Increasing(Replies(o))'
               /\ \A i \in Waiting(o)' : \A j \in 1..Len(Replies(o)') : Replies(o)'[j] < msg_que'[i].n
    BY <1>6, <1>14 DEF Ledger, RepliesInOrder, Increasing
  <2>3. Increasing(Replies(s))'
    <3>1. CASE Replies(s)' = Append(Replies(s), n)
      BY <1>5, <1>11, <1>18, <3>1 DEF Ledger, RepliesInOrder, Increasing
    <3>2. CASE Replies(s)' = Replies(s)
      BY <1>5, <3>2 DEF Ledger, RepliesInOrder, Increasing
    <3>3. QED
      BY <1>13, <3>1, <3>2
  <2>4. \A i \in Waiting(s)' : \A j \in 1..Len(Replies(s)') : Replies(s)'[j] < msg_que'[i].n
    <3>1. \A i \in Waiting(s)' : i + 1 \in Waiting(s) \ {1} /\ msg_que'[i].n > n /\ msg_que'[i].n \in Nat
      BY <1>3, <1>5, <1>6, <1>9 DEF Waiting
    <3>2. \A j \in 1..Len(Replies(s)') : Replies(s)'[j] \in Nat /\ Replies(s)'[j] <= n
      <4>1. CASE Replies(s)' = Append(Replies(s), n)
        BY <1>5, <1>11, <1>18, <4>1
      <4>2. CASE Replies(s)' = Replies(s)
        BY <1>5, <1>18, <4>2
      <4>3. QED
        BY <1>13, <4>1, <4>2
    <3>3. QED
      BY <1>5, <3>1, <3>2
  <2>5. QED
    BY <2>1, <2>2, <2>3, <2>4 DEF RepliesInOrder
<1>20. QueuedNumbers'
  <2>1. \A i \in 1..Len(msg_que') : i + 1 \in 1..Len(msg_que) /\ msg_que'[i] = msg_que[i + 1]
    BY <1>3
  <2>2. QED
    BY <1>1, <2>1 DEF Ledger, QueuedNumbers
<1>21. DroppedBefore'
  <2>1. ASSUME NEW o \in Sessions \ {s}, NEW i \in Waiting(o)', NEW k \in dropped'[o]
        PROVE  k < msg_que'[i].n
    BY <1>6, <1>14 DEF Ledger, DroppedBefore
  <2>2. ASSUME NEW i \in Waiting(s)', NEW k \in dropped'[s]
        PROVE  k < msg_que'[i].n
    <3>1. i + 1 \in Waiting(s) \ {1} /\ msg_que'[i] = msg_que[i + 1]
      BY <1>3, <1>5, <1>6 DEF Waiting
    <3>2. k = n \/ k \in dropped[s]
      BY <1>16
    <3>3. QED
      BY <1>5, <1>9, <3>1, <3>2 DEF Ledger, DroppedBefore
  <2>3. QED
    BY <1>5, <2>1, <2>2 DEF DroppedBefore
<1>22. EveryRequestAccounted'
  <2>1. ASSUME NEW o \in Sessions
        PROVE  /\ Replies(o)' \in Seq(Nat)
               /\ Answered(o)' \subseteq Hellos(o)'
               /\ Hellos(o)' \subseteq Answered(o)' \union WaitingNumbers(o)'
               /\ Answered(o)' \intersect WaitingNumbers(o)' = {}
    <3>1. CASE o = s
      <4>1. Replies(s)' \in Seq(Nat)
        BY <1>5, <1>11, <1>13
      <4>2. QED
        BY <1>10, <1>11, <1>12, <1>17, <3>1, <4>1
    <3>2. CASE o # s
      BY <1>10, <1>12, <1>14, <1>15, <3>2, Accounted DEF Ledger, IInv
    <3>3. QED
      BY <3>1, <3>2
  <2>2. QED
    BY <2>1, AccountedNext
<1>23. QED
  BY <1>19, <1>20, <1>21, <1>22 DEF Ledger

LEMMA DealKeepsLedger == ASSUME IInv, Ledger, DealMsg PROVE Ledger'
<1>1. 1 \in 1..Len(msg_que)
  <2> DEFINE R == [s : Sessions, n : Nat]
  <2>1. msg_que \in Seq(R) /\ msg_que # <<>>
    BY DEF IInv, TypeOK, DealMsg
  <2> HIDE DEF R
  <2>2. QED
    BY <2>1
<1>2. msg_que[1].s \in Sessions /\ msg_que[1].n \in Nat
  BY <1>1, QueuedMessage DEF IInv
<1>3. QED
  BY <1>2, DealtKeepsLedger

(* A write that succeeds moves a reply, and one that fails leaves it.       *)
LEMMA HandleWriteKeepsLedger ==
  ASSUME IInv, Ledger, NEW s \in Sessions, HandleWrite(s)
  PROVE  Ledger'
<1>1. CASE WriteCompletes(s)
  <2>1. /\ wire' = [wire EXCEPT ![s] = Append(@, Head(send_que[s]))]
        /\ send_que' = [send_que EXCEPT ![s] = Tail(@)]
        /\ UNCHANGED <<msg_que, requests, dropped>>
        /\ writing[s] = "open"
    BY <1>1 DEF WriteCompletes
  <2>2. wire[s] \in Seq(Nat) /\ send_que[s] \in Seq(Nat) /\ send_que[s] # <<>>
    BY <2>1 DEF IInv, TypeOK, WriteChain
  <2>3. Replies(s)' = Append(wire[s], Head(send_que[s])) \o Tail(send_que[s])
    BY <2>1 DEF IInv, TypeOK, Replies
  <2>4. Replies(s)' = Replies(s)
    BY <2>2, <2>3, ReplyMoves DEF Replies
  <2>5. \A o \in Sessions \ {s} : Replies(o)' = Replies(o)
    BY <2>1 DEF IInv, TypeOK, Replies
  <2>6. QED
    BY <2>1, <2>4, <2>5, LedgerUnchanged
<1>2. CASE WriteFails(s)
  BY <1>2, LedgerUnchanged DEF WriteFails, Replies
<1>3. QED
  BY <1>1, <1>2 DEF HandleWrite

LEMMA LedgerKept ==
  ASSUME IInv, Ledger, [Next]_vars
  PROVE  Ledger'
<1>1. CASE UNCHANGED <<msg_que, requests, dropped, wire, send_que>>
  BY <1>1, LedgerUnchanged DEF Replies
<1>2. \/ UNCHANGED <<msg_que, requests, dropped, wire, send_que>>
      \/ \E s \in Sessions : (\E kind \in Kinds : PostRequest(s, kind)) \/ HandleWrite(s)
      \/ DealMsg
  BY DEF Next, AcceptStart, AcceptInsert, ReadCompletes, HandleRead, RejectRequest, AllocationThrows,
         ReadFails, Quiescent, vars
<1>3. QED
  BY <1>1, <1>2, PostKeepsLedger, HandleWriteKeepsLedger, DealKeepsLedger

LEMMA InitLedger == Init => Ledger
<1> SUFFICES ASSUME Init PROVE Ledger
  OBVIOUS
<1>1. /\ Len(msg_que) = 0
      /\ \A s \in Sessions : Waiting(s) = {} /\ Hellos(s) = {} /\ dropped[s] = {}
  BY DEF Init, Waiting, Hellos
<1>2. \A s \in Sessions : Replies(s) = <<>>
  BY DEF Init, Replies
<1>3. \A s \in Sessions : ToSet(Replies(s)) = {}
  BY <1>2 DEF ToSet
<1>4. RepliesInOrder /\ QueuedNumbers /\ DroppedBefore
  BY <1>1, <1>2 DEF RepliesInOrder, QueuedNumbers, DroppedBefore, Increasing
<1>5. EveryRequestAccounted
  BY <1>1, <1>3 DEF EveryRequestAccounted
<1>6. QED
  BY <1>4, <1>5 DEF Ledger

THEOREM LedgerInvariance == Spec => []Ledger
<1>1. IInv /\ Ledger /\ [Next]_vars => Ledger'
  BY LedgerKept
<1>2. QED
  BY InitLedger, Invariance, <1>1, PTL DEF Spec

(* CSession::Send and HandleWrite: replies leave in the order in which      *)
(* their requests were read, and none leaves twice.                         *)
THEOREM RepliesLeaveInOrder == Spec => []RepliesInOrder
BY LedgerInvariance, PTL DEF Ledger

(* PostMsgToQue, DealMsg and Send: a hello is waiting, answered or dropped  *)
(* at the full queue, and never more than one of them.                      *)
THEOREM RequestsAccounted == Spec => []EveryRequestAccounted
BY LedgerInvariance, PTL DEF Ledger
=============================================================================
