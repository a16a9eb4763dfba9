----------------------------- MODULE LogicSystem -----------------------------
(***************************************************************************)
(* LogicSystem of the logic servers: the network threads post decoded      *)
(* messages to _msg_que, one worker thread (DealMsg) takes them out and    *)
(* runs their callback, and the destructor stops and joins the worker.     *)
(*                                                                         *)
(* The mutex is modelled where somebody can act while it is held: the      *)
(* destructor writes _b_stop and notifies without it, so the worker's test *)
(* of _b_stop and its going to sleep are separate steps. A critical        *)
(* section that only reads and writes what the mutex protects is one step. *)
(* A LogicNode is named by its position in the order of posting.           *)
(***************************************************************************)
EXTENDS Naturals, Sequences

CONSTANTS
  Posters,      (* the network threads that call PostMsgToQue               *)
  MsgIds,       (* the message ids a client can send                        *)
  Registered,   (* the ids in _fun_callbacks                                *)
  MaxPosts      (* bound of the model: messages posted over a behaviour     *)

ASSUME LogicSystemAssumption ==
  /\ Registered \subseteq MsgIds
  /\ MaxPosts \in Nat

VARIABLES
  msg_que,      (* _msg_que: positions of the queued messages               *)
  b_stop,       (* _b_stop                                                  *)
  worker,       (* where the worker thread is in DealMsg                    *)
  poster,       (* poster[t]: "idle", or "notify" between unlock and notify *)
  destructor,   (* where ~LogicSystem is                                    *)
  missed,       (* history: the stop notification found the worker awake    *)
                (* although it had already seen _b_stop = false             *)
  posted, taken, handled   (* history, the variables of WorkQueue           *)

queueVars == <<msg_que, posted, taken, handled>>
vars == <<msg_que, b_stop, worker, poster, destructor, missed, posted, taken, handled>>

(* The worker holds _mutex at "check", "sleeping" (it decided to wait and   *)
(* has not released the mutex yet), "serve" and "drain"; it does not at     *)
(* "loop", "blocked" (inside wait), "woken" and "exited".                   *)
WorkerPC == {"loop", "check", "sleeping", "blocked", "woken", "serve", "drain", "exited"}
MutexFree == worker \in {"loop", "blocked", "woken", "exited"}

Init ==
  /\ msg_que = <<>>
  /\ b_stop = FALSE
  /\ worker = "loop"
  /\ poster = [t \in Posters |-> "idle"]
  /\ destructor = "alive"
  /\ missed = FALSE
  /\ posted = <<>>
  /\ taken = 0
  /\ handled = <<>>

-----------------------------------------------------------------------------
(* notify_one on _consume: wakes the worker if it is blocked, else is lost. *)
NotifyOne == worker' = IF worker = "blocked" THEN "woken" ELSE worker

(* Faulty: the size is tested before the push would have changed it.        *)
NotifyDue_BeforePush(q) == Len(q) = 0

(* PostMsgToQue: push under the mutex; a notification is due only when the  *)
(* push made the queue non-empty.                                           *)
NotifyDue(q) == Len(q) = 1

PostMsgToQue(t, id) ==
  /\ destructor = "alive"
  /\ poster[t] = "idle"
  /\ MutexFree
  /\ Len(posted) < MaxPosts
  /\ posted' = Append(posted, id)
  /\ msg_que' = Append(msg_que, Len(posted) + 1)
  /\ poster' = [poster EXCEPT ![t] = IF NotifyDue(msg_que') THEN "notify" ELSE "idle"]
  /\ UNCHANGED <<b_stop, worker, destructor, missed, taken, handled>>

PostNotify(t) ==
  /\ poster[t] = "notify"
  /\ poster' = [poster EXCEPT ![t] = "idle"]
  /\ NotifyOne
  /\ UNCHANGED <<queueVars, b_stop, destructor, missed>>

-----------------------------------------------------------------------------
(* DealMsg. *)
Acquire ==
  /\ worker \in {"loop", "woken"}
  /\ worker' = "check"
  /\ UNCHANGED <<queueVars, b_stop, poster, destructor, missed>>

(* while (_msg_que.empty() && !_b_stop), then if (_b_stop).                 *)
Check ==
  /\ worker = "check"
  /\ worker' = IF b_stop THEN "drain"
               ELSE IF msg_que = <<>> THEN "sleeping" ELSE "serve"
  /\ UNCHANGED <<queueVars, b_stop, poster, destructor, missed>>

(* _consume.wait: releases the mutex and blocks in one step.                *)
Wait ==
  /\ worker = "sleeping"
  /\ worker' = "blocked"
  /\ UNCHANGED <<queueVars, b_stop, poster, destructor, missed>>

SpuriousWakeup ==
  /\ worker = "blocked"
  /\ worker' = "woken"
  /\ UNCHANGED <<queueVars, b_stop, poster, destructor, missed>>

(* Faulty: the callback is called without looking whether there is one.     *)
DealFront_NoLookup ==
  /\ msg_que # <<>>
  /\ handled' = Append(handled, Head(msg_que))
  /\ msg_que' = Tail(msg_que)
  /\ taken' = taken + 1
  /\ UNCHANGED <<posted, b_stop, poster, destructor, missed>>

(* Look the front message's id up, run its callback if it has one, pop it.  *)
DealFront ==
  /\ msg_que # <<>>
  /\ handled' = IF posted[Head(msg_que)] \in Registered
                THEN Append(handled, Head(msg_que)) ELSE handled
  /\ msg_que' = Tail(msg_que)
  /\ taken' = taken + 1
  /\ UNCHANGED <<posted, b_stop, poster, destructor, missed>>

Serve ==
  /\ worker = "serve"
  /\ DealFront
  /\ worker' = "loop"

DrainOne ==
  /\ worker = "drain"
  /\ DealFront
  /\ UNCHANGED worker

(* Faulty: the worker leaves as soon as it sees _b_stop.                    *)
DrainDone_AtOnce ==
  /\ worker = "drain"
  /\ worker' = "exited"
  /\ UNCHANGED <<queueVars, b_stop, poster, destructor, missed>>

DrainDone ==
  /\ worker = "drain"
  /\ msg_que = <<>>
  /\ worker' = "exited"
  /\ UNCHANGED <<queueVars, b_stop, poster, destructor, missed>>

-----------------------------------------------------------------------------
(* ~LogicSystem runs during static destruction, after main has joined the   *)
(* threads that post. It takes no lock.                                     *)
SetStop ==
  /\ destructor = "alive"
  /\ \A t \in Posters : poster[t] = "idle"
  /\ b_stop' = TRUE
  /\ destructor' = "notify"
  /\ UNCHANGED <<queueVars, worker, poster, missed>>

(* Faulty: the destructor forgets to notify.                                *)
StopNotify_Silent ==
  /\ destructor = "notify"
  /\ missed' = FALSE
  /\ destructor' = "join"
  /\ UNCHANGED <<queueVars, b_stop, worker, poster>>

StopNotify ==
  /\ destructor = "notify"
  /\ NotifyOne
  /\ missed' = (worker = "sleeping")
  /\ destructor' = "join"
  /\ UNCHANGED <<queueVars, b_stop, poster>>

Join ==
  /\ destructor = "join"
  /\ worker = "exited"
  /\ destructor' = "joined"
  /\ UNCHANGED <<queueVars, b_stop, worker, poster, missed>>

(* The process is gone.                                                     *)
Terminated == destructor = "joined" /\ UNCHANGED vars

-----------------------------------------------------------------------------
Worker == Acquire \/ Check \/ Wait \/ Serve \/ DrainOne \/ DrainDone
Destructor == SetStop \/ StopNotify \/ Join

Next ==
  \/ \E t \in Posters, id \in MsgIds : PostMsgToQue(t, id)
  \/ \E t \in Posters : PostNotify(t)
  \/ Worker
  \/ SpuriousWakeup
  \/ Destructor
  \/ Terminated

(* The operating system runs the worker, a thread that owes a notification  *)
(* and a destructor that has started. Nobody owes a message, a shutdown or  *)
(* a spurious wake-up. Weak fairness of Acquire suffices: the mutex is then *)
(* only ever held by the worker itself.                                     *)
Fairness ==
  /\ WF_vars(Worker)
  /\ \A t \in Posters : WF_vars(PostNotify(t))
  /\ WF_vars(StopNotify)
  /\ WF_vars(Join)

Spec == Init /\ [][Next]_vars /\ Fairness

-----------------------------------------------------------------------------
(* Each variable has its type.                                              *)
TypeOK ==
  /\ msg_que \in Seq(Nat)
  /\ b_stop \in BOOLEAN
  /\ worker \in WorkerPC
  /\ poster \in [Posters -> {"idle", "notify"}]
  /\ destructor \in {"alive", "notify", "join", "joined"}
  /\ missed \in BOOLEAN
  /\ posted \in Seq(MsgIds)
  /\ taken \in Nat
  /\ handled \in Seq(Nat)

(* PostMsgToQue notifies only on the transition from empty to one message,  *)
(* and does so after unlocking: no interleaving leaves the worker asleep on *)
(* a non-empty queue with nobody about to wake it.                          *)
NoLostWakeup ==
  worker = "blocked" /\ msg_que # <<>> => \E t \in Posters : poster[t] = "notify"

(* The worker leaves DealMsg only after the stop drain has dealt with every *)
(* message ever posted, and no message is queued after it has left.         *)
ExitedDrained == worker = "exited" => b_stop /\ msg_que = <<>> /\ taken = Len(posted)

(* Once ~LogicSystem has notified, its join returns, except in the one      *)
(* interleaving the unlocked store of _b_stop allows: the notification fell *)
(* between the worker's test of _b_stop and its wait.                       *)
ShutdownJoins == destructor = "join" ~> (destructor = "joined" \/ missed)

(* LogicSystem keeps the promise of WorkQueue: in order, once, callbacks    *)
(* for registered ids only, and no queued message waits for ever.           *)
Abstract == INSTANCE WorkQueue
RefinesWorkQueue == Abstract!Spec
=============================================================================
