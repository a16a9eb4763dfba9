-------------------------- MODULE LogicSystemProofs --------------------------
(***************************************************************************)
(* Proofs about LogicSystem for any number of posting threads, any set of  *)
(* ids and any number of messages.                                         *)
(***************************************************************************)
EXTENDS LogicSystem, TLAPS

(* The queue holds, in order, the positions posted and not yet taken.       *)
QueueIsSuffix ==
  /\ Len(msg_que) = Len(posted) - taken
  /\ \A i \in 1..Len(msg_que) : msg_que[i] = taken + i

(* What the worker knows at each of its steps.                              *)
WorkerKnows ==
  /\ worker = "sleeping" => msg_que = <<>>
  /\ worker = "serve" => msg_que # <<>>
  /\ worker \in {"drain", "exited"} => b_stop
  /\ worker = "exited" => msg_que = <<>>

(* The destructor runs after the posting threads are gone.                  *)
StopOrder ==
  /\ b_stop <=> destructor # "alive"
  /\ b_stop => \A t \in Posters : poster[t] = "idle"

IInv == TypeOK /\ QueueIsSuffix /\ WorkerKnows /\ StopOrder /\ NoLostWakeup

LEMMA InitIInv == Init => IInv
<1> SUFFICES ASSUME Init PROVE IInv
  OBVIOUS
<1>1. TypeOK
  <2>1. msg_que \in Seq(Nat) /\ posted \in Seq(MsgIds) /\ handled \in Seq(Nat)
    BY DEF Init
  <2>2. poster \in [Posters -> {"idle", "notify"}]
    BY DEF Init
  <2>3. QED
    BY <2>1, <2>2 DEF Init, TypeOK, WorkerPC
<1>2. QueueIsSuffix
  BY DEF Init, QueueIsSuffix
<1>3. WorkerKnows /\ NoLostWakeup
  BY DEF Init, WorkerKnows, NoLostWakeup
<1>4. StopOrder
  BY DEF Init, StopOrder
<1>5. QED
  BY <1>1, <1>2, <1>3, <1>4 DEF IInv

(* A push at the end keeps the queue a suffix of what has been posted.      *)
LEMMA PostKeepsSuffix ==
  ASSUME IInv, NEW t \in Posters, NEW id \in MsgIds, PostMsgToQue(t, id)
  PROVE  QueueIsSuffix' /\ posted' \in Seq(MsgIds) /\ msg_que' \in Seq(Nat)
<1> USE DEF IInv, TypeOK
<1>1. posted' = Append(posted, id) /\ msg_que' = Append(msg_que, Len(posted) + 1) /\ taken' = taken
  BY DEF PostMsgToQue
<1>2. posted' \in Seq(MsgIds) /\ msg_que' \in Seq(Nat)
  BY <1>1
<1>3. Len(msg_que') = Len(msg_que) + 1 /\ Len(posted') = Len(posted) + 1
  BY <1>1
<1>4. ASSUME NEW i \in 1..Len(msg_que') PROVE msg_que'[i] = taken' + i
  <2>1. CASE i = Len(msg_que) + 1
    <3>1. msg_que'[i] = Len(posted) + 1
      BY <1>1, <2>1
    <3>2. Len(posted) = Len(msg_que) + taken
      BY DEF QueueIsSuffix
    <3>3. QED
      BY <1>1, <2>1, <3>1, <3>2
  <2>2. CASE i \in 1..Len(msg_que)
    BY <1>1, <2>2 DEF QueueIsSuffix
  <2>3. QED
    BY <1>3, <2>1, <2>2
<1>5. QED
  BY <1>1, <1>2, <1>3, <1>4 DEF QueueIsSuffix

(* Taking the front message keeps it one too, and the message taken is the  *)
(* oldest one posted and not yet taken.                                     *)
LEMMA DealKeepsSuffix ==
  ASSUME IInv, DealFront
  PROVE  /\ QueueIsSuffix' /\ msg_que' \in Seq(Nat)
         /\ taken' \in Nat /\ handled' \in Seq(Nat)
         /\ Head(msg_que) = taken + 1 /\ taken < Len(posted)
<1> USE DEF IInv, TypeOK
<1>1. msg_que # <<>> /\ msg_que' = Tail(msg_que) /\ taken' = taken + 1 /\ posted' = posted
  BY DEF DealFront
<1>2. Len(msg_que) > 0 /\ Len(msg_que') = Len(msg_que) - 1 /\ msg_que' \in Seq(Nat)
  BY <1>1
<1>3. Head(msg_que) = taken + 1 /\ taken < Len(posted)
  BY <1>1, <1>2 DEF QueueIsSuffix
<1>4. handled' \in Seq(Nat)
  BY <1>3 DEF DealFront
<1>5. \A i \in 1..Len(msg_que') : msg_que'[i] = taken' + i
  BY <1>1, <1>2 DEF QueueIsSuffix
<1>6. QED
  BY <1>1, <1>2, <1>3, <1>4, <1>5 DEF QueueIsSuffix

LEMMA NextIInv == IInv /\ [Next]_vars => IInv'
<1> SUFFICES ASSUME IInv, [Next]_vars PROVE IInv'
  OBVIOUS
<1> USE DEF IInv
<1>1. ASSUME NEW t \in Posters, NEW id \in MsgIds, PostMsgToQue(t, id) PROVE IInv'
  <2>1. TypeOK' /\ QueueIsSuffix'
    BY <1>1, PostKeepsSuffix DEF PostMsgToQue, TypeOK
  <2>2. WorkerKnows' /\ StopOrder'
    BY <1>1 DEF PostMsgToQue, TypeOK, WorkerKnows, StopOrder, MutexFree
  <2>3. NoLostWakeup'
    <3>1. CASE msg_que = <<>>
      <4>1. Len(msg_que') = 1
        BY <1>1, <3>1 DEF PostMsgToQue
      <4>2. poster'[t] = "notify"
        BY <1>1, <4>1 DEF PostMsgToQue, NotifyDue, TypeOK
      <4>3. QED
        BY <4>2 DEF NoLostWakeup
    <3>2. CASE msg_que # <<>>
      BY <1>1, <3>2 DEF PostMsgToQue, NoLostWakeup, TypeOK
    <3>3. QED
      BY <3>1, <3>2
  <2>4. QED
    BY <2>1, <2>2, <2>3
<1>2. ASSUME NEW t \in Posters, PostNotify(t) PROVE IInv'
  BY <1>2 DEF PostNotify, NotifyOne, queueVars, TypeOK, WorkerPC, QueueIsSuffix, WorkerKnows,
              StopOrder, NoLostWakeup
<1>3. CASE Acquire
  BY <1>3 DEF Acquire, queueVars, TypeOK, WorkerPC, QueueIsSuffix, WorkerKnows, StopOrder, NoLostWakeup
<1>4. CASE Check
  BY <1>4 DEF Check, queueVars, TypeOK, WorkerPC, QueueIsSuffix, WorkerKnows, StopOrder, NoLostWakeup
<1>5. CASE Wait
  BY <1>5 DEF Wait, queueVars, TypeOK, WorkerPC, QueueIsSuffix, WorkerKnows, StopOrder, NoLostWakeup
<1>6. CASE SpuriousWakeup
  BY <1>6 DEF SpuriousWakeup, queueVars, TypeOK, WorkerPC, QueueIsSuffix, WorkerKnows, StopOrder,
              NoLostWakeup
<1>7. CASE Serve
  <2>1. DealFront /\ worker' = "loop"
    BY <1>7 DEF Serve
  <2>2. TypeOK' /\ QueueIsSuffix'
    BY <2>1, DealKeepsSuffix DEF DealFront, TypeOK, WorkerPC
  <2>3. WorkerKnows' /\ StopOrder' /\ NoLostWakeup'
    BY <2>1 DEF DealFront, WorkerKnows, StopOrder, NoLostWakeup
  <2>4. QED
    BY <2>2, <2>3
<1>8. CASE DrainOne
  <2>1. DealFront /\ worker' = "drain" /\ worker = "drain"
    BY <1>8 DEF DrainOne
  <2>2. TypeOK' /\ QueueIsSuffix'
    BY <2>1, DealKeepsSuffix DEF DealFront, TypeOK, WorkerPC
  <2>3. WorkerKnows' /\ StopOrder' /\ NoLostWakeup'
    BY <2>1 DEF DealFront, WorkerKnows, StopOrder, NoLostWakeup
  <2>4. QED
    BY <2>2, <2>3
<1>9. CASE DrainDone
  BY <1>9 DEF DrainDone, queueVars, TypeOK, WorkerPC, QueueIsSuffix, WorkerKnows, StopOrder, NoLostWakeup
<1>10. CASE SetStop
  BY <1>10 DEF SetStop, queueVars, TypeOK, QueueIsSuffix, WorkerKnows, StopOrder, NoLostWakeup
<1>11. CASE StopNotify
  BY <1>11 DEF StopNotify, NotifyOne, queueVars, TypeOK, WorkerPC, QueueIsSuffix, WorkerKnows,
               StopOrder, NoLostWakeup
<1>12. CASE Join
  BY <1>12 DEF Join, queueVars, TypeOK, QueueIsSuffix, WorkerKnows, StopOrder, NoLostWakeup
<1>13. CASE UNCHANGED vars
  BY <1>13 DEF vars, TypeOK, QueueIsSuffix, WorkerKnows, StopOrder, NoLostWakeup
<1>14. QED
  BY <1>1, <1>2, <1>3, <1>4, <1>5, <1>6, <1>7, <1>8, <1>9, <1>10, <1>11, <1>12, <1>13
     DEF Next, Worker, Destructor, Terminated

(* The inductive invariant holds in every reachable state.                  *)
THEOREM Invariance == Spec => []IInv
BY InitIInv, NextIInv, PTL DEF Spec

(* PostMsgToQue and DealMsg: no interleaving of any number of posting       *)
(* threads leaves the worker asleep on a non-empty queue with no            *)
(* notification on its way.                                                 *)
THEOREM WakeupsAreNotLost == Spec => []NoLostWakeup
<1>1. IInv => NoLostWakeup
  BY DEF IInv
<1>2. QED
  BY <1>1, Invariance, PTL

(* DealMsg under _b_stop: the worker never leaves messages behind.          *)
THEOREM WorkerExitsDrained == Spec => []ExitedDrained
<1>1. IInv => ExitedDrained
  BY DEF IInv, WorkerKnows, QueueIsSuffix, ExitedDrained, TypeOK
<1>2. QED
  BY <1>1, Invariance, PTL

(* Every step of LogicSystem is a step of WorkQueue or changes none of its  *)
(* variables: messages are dealt with in order and once, and a callback     *)
(* runs for registered ids only. (The fairness half of RefinesWorkQueue is  *)
(* left to the model checker.)                                              *)
THEOREM ImplementsWorkQueue == Spec => Abstract!Init /\ [][Abstract!Next]_(Abstract!vars)
<1>1. Init => Abstract!Init
  BY DEF Init, Abstract!Init
<1>2. IInv /\ [Next]_vars => [Abstract!Next]_(Abstract!vars)
  <2> SUFFICES ASSUME IInv, [Next]_vars PROVE [Abstract!Next]_(Abstract!vars)
    OBVIOUS
  <2>1. ASSUME NEW t \in Posters, NEW id \in MsgIds, PostMsgToQue(t, id) PROVE Abstract!Next
    BY <2>1 DEF PostMsgToQue, Abstract!Next, Abstract!Post
  <2>2. ASSUME DealFront PROVE Abstract!Next
    BY <2>2, DealKeepsSuffix DEF DealFront, Abstract!Next, Abstract!Deal
  <2>3. ASSUME UNCHANGED queueVars PROVE UNCHANGED Abstract!vars
    BY <2>3 DEF queueVars, Abstract!vars
  <2>4. QED
    BY <2>1, <2>2, <2>3 DEF Next, Worker, Destructor, Terminated, vars, queueVars, PostNotify, Acquire,
       Check, Wait, SpuriousWakeup, Serve, DrainOne, DrainDone, SetStop, StopNotify, Join
<1>3. QED
  BY <1>1, <1>2, Invariance, PTL DEF Spec
=============================================================================
