----------------------------- MODULE ThreadPool -----------------------------
(***************************************************************************)
(* boost/concurrent/threadpool.h: worker threads take tasks from tasks_,   *)
(* commit pushes them, stop (from the destructor) ends the pool. stop_ is  *)
(* an atomic read and written without the mutex, so a worker's evaluation  *)
(* of the wait predicate and its going to sleep are separate steps.        *)
(*                                                                         *)
(* A task is named by its position in the order of pushing. thread_num_    *)
(* only counts idle workers once start has made them, and is left out.     *)
(***************************************************************************)
EXTENDS Naturals, Sequences, FiniteSets

CONSTANTS
  Workers,      (* pool_                                                    *)
  Callers,      (* the threads that call commit                             *)
  MaxTasks      (* bound of the model: tasks committed over a behaviour     *)

ASSUME ThreadPoolAssumption ==
  /\ IsFiniteSet(Workers)
  /\ IsFiniteSet(Callers)
  /\ MaxTasks \in Nat

VARIABLES
  tasks_,       (* positions of the tasks in the queue                      *)
  stop_,        (* stop_                                                    *)
  worker,       (* where each worker is                                     *)
  running,      (* the task it runs, 0 for none                             *)
  caller,       (* where each caller is in commit                           *)
  stopper,      (* where stop() is: "alive", "notify", "join", "joined"     *)
  pushed,       (* history: number of tasks pushed                          *)
  executed,     (* history: the tasks that have run                         *)
  late,         (* history: tasks each worker took after stop_ was set      *)
  missed        (* history: notify_all came while a worker had evaluated    *)
                (* the predicate and was not waiting yet                    *)

vars == <<tasks_, stop_, worker, running, caller, stopper, pushed, executed, late, missed>>

(* A worker at "deciding" has found the predicate false and still holds     *)
(* cv_mtx_; at the other labels it does not hold it between two steps.      *)
WorkerPC == {"loop", "enter", "deciding", "blocked", "woken", "running", "exited"}
MutexFree == \A w \in Workers : worker[w] # "deciding"

Init ==
  /\ tasks_ = <<>>
  /\ stop_ = FALSE
  /\ worker = [w \in Workers |-> "loop"]
  /\ running = [w \in Workers |-> 0]
  /\ caller = [c \in Callers |-> "idle"]
  /\ stopper = "alive"
  /\ pushed = 0
  /\ executed = {}
  /\ late = [w \in Workers |-> 0]
  /\ missed = FALSE

-----------------------------------------------------------------------------
(* commit: stop_ is tested before the mutex is taken.                       *)
Commit(c) ==
  /\ caller[c] = "idle"
  /\ stopper # "joined"
  /\ ~stop_
  /\ pushed + Cardinality({d \in Callers : caller[d] = "push"}) < MaxTasks
  /\ caller' = [caller EXCEPT ![c] = "push"]
  /\ UNCHANGED <<tasks_, stop_, worker, running, stopper, pushed, executed, late, missed>>

Push(c) ==
  /\ caller[c] = "push"
  /\ MutexFree
  /\ tasks_' = Append(tasks_, pushed + 1)
  /\ pushed' = pushed + 1
  /\ caller' = [caller EXCEPT ![c] = "notify"]
  /\ UNCHANGED <<stop_, worker, running, stopper, executed, late, missed>>

(* Faulty: a notification is only sent for a queue that was empty.          *)
NotifyOne_FirstOnly(c) ==
  /\ caller[c] = "notify"
  /\ IF Len(tasks_) = 1 /\ \E w \in Workers : worker[w] = "blocked"
     THEN \E w \in Workers : worker[w] = "blocked" /\ worker' = [worker EXCEPT ![w] = "woken"]
     ELSE UNCHANGED worker
  /\ caller' = [caller EXCEPT ![c] = "idle"]
  /\ UNCHANGED <<tasks_, stop_, running, stopper, pushed, executed, late, missed>>

NotifyOne(c) ==
  /\ caller[c] = "notify"
  /\ IF \E w \in Workers : worker[w] = "blocked"
     THEN \E w \in Workers : worker[w] = "blocked" /\ worker' = [worker EXCEPT ![w] = "woken"]
     ELSE UNCHANGED worker
  /\ caller' = [caller EXCEPT ![c] = "idle"]
  /\ UNCHANGED <<tasks_, stop_, running, stopper, pushed, executed, late, missed>>

-----------------------------------------------------------------------------
(* The workers started by start().                                          *)

(* Faulty: the loop ends only on an empty queue.                            *)
LoopTest_Drains(w) ==
  /\ worker[w] = "loop"
  /\ worker' = [worker EXCEPT ![w] = IF stop_ /\ tasks_ = <<>> THEN "exited" ELSE "enter"]
  /\ UNCHANGED <<tasks_, stop_, running, caller, stopper, pushed, executed, late, missed>>

LoopTest(w) ==
  /\ worker[w] = "loop"
  /\ worker' = [worker EXCEPT ![w] = IF stop_ THEN "exited" ELSE "enter"]
  /\ UNCHANGED <<tasks_, stop_, running, caller, stopper, pushed, executed, late, missed>>

(* With the mutex: evaluate the predicate of wait, on entry and after every *)
(* wake-up.                                                                 *)
AtPredicate(w) == worker[w] \in {"enter", "woken"} /\ MutexFree

(* Faulty: the front task is copied and stays in the queue.                 *)
TakeTask_NoPop(w) ==
  /\ AtPredicate(w)
  /\ tasks_ # <<>>
  /\ running' = [running EXCEPT ![w] = Head(tasks_)]
  /\ late' = [late EXCEPT ![w] = IF stop_ THEN @ + 1 ELSE @]
  /\ worker' = [worker EXCEPT ![w] = "running"]
  /\ UNCHANGED <<tasks_, stop_, caller, stopper, pushed, executed, missed>>

TakeTask(w) ==
  /\ AtPredicate(w)
  /\ tasks_ # <<>>
  /\ running' = [running EXCEPT ![w] = Head(tasks_)]
  /\ tasks_' = Tail(tasks_)
  /\ late' = [late EXCEPT ![w] = IF stop_ THEN @ + 1 ELSE @]
  /\ worker' = [worker EXCEPT ![w] = "running"]
  /\ UNCHANGED <<stop_, caller, stopper, pushed, executed, missed>>

StopOrDecide(w) ==
  /\ AtPredicate(w)
  /\ tasks_ = <<>>
  /\ worker' = [worker EXCEPT ![w] = IF stop_ THEN "exited" ELSE "deciding"]
  /\ UNCHANGED <<tasks_, stop_, running, caller, stopper, pushed, executed, late, missed>>

(* wait releases the mutex and blocks in one step.                          *)
Block(w) ==
  /\ worker[w] = "deciding"
  /\ worker' = [worker EXCEPT ![w] = "blocked"]
  /\ UNCHANGED <<tasks_, stop_, running, caller, stopper, pushed, executed, late, missed>>

SpuriousWakeup(w) ==
  /\ worker[w] = "blocked"
  /\ worker' = [worker EXCEPT ![w] = "woken"]
  /\ UNCHANGED <<tasks_, stop_, running, caller, stopper, pushed, executed, late, missed>>

RunTask(w) ==
  /\ worker[w] = "running"
  /\ executed' = executed \union {running[w]}
  /\ running' = [running EXCEPT ![w] = 0]
  /\ worker' = [worker EXCEPT ![w] = "loop"]
  /\ UNCHANGED <<tasks_, stop_, caller, stopper, pushed, late, missed>>

-----------------------------------------------------------------------------
(* stop *)
SetStop ==
  /\ stopper = "alive"
  /\ stop_' = TRUE
  /\ stopper' = "notify"
  /\ UNCHANGED <<tasks_, worker, running, caller, pushed, executed, late, missed>>

(* Faulty: notify_one.                                                      *)
NotifyAll_One ==
  /\ stopper = "notify"
  /\ IF \E w \in Workers : worker[w] = "blocked"
     THEN \E w \in Workers : worker[w] = "blocked" /\ worker' = [worker EXCEPT ![w] = "woken"]
     ELSE UNCHANGED worker
  /\ missed' = ~MutexFree
  /\ stopper' = "join"
  /\ UNCHANGED <<tasks_, stop_, running, caller, pushed, executed, late>>

NotifyAll ==
  /\ stopper = "notify"
  /\ worker' = [w \in Workers |-> IF worker[w] = "blocked" THEN "woken" ELSE worker[w]]
  /\ missed' = ~MutexFree
  /\ stopper' = "join"
  /\ UNCHANGED <<tasks_, stop_, running, caller, pushed, executed, late>>

(* Only the workers are joined: a call of commit that had found stop_ unset *)
(* may still be under way. The destruction of the members after stop() is   *)
(* not modelled, so such a call goes on here as if they were still there.   *)
Join ==
  /\ stopper = "join"
  /\ \A w \in Workers : worker[w] = "exited"
  /\ stopper' = "joined"
  /\ UNCHANGED <<tasks_, stop_, worker, running, caller, pushed, executed, late, missed>>

Terminated == stopper = "joined" /\ UNCHANGED vars

-----------------------------------------------------------------------------
Step(w) == LoopTest(w) \/ TakeTask(w) \/ StopOrDecide(w) \/ Block(w) \/ RunTask(w)
Finish(c) == Push(c) \/ NotifyOne(c)
Stop == NotifyAll \/ Join

Next ==
  \/ \E c \in Callers : Commit(c) \/ Finish(c)
  \/ \E w \in Workers : Step(w) \/ SpuriousWakeup(w)
  \/ SetStop
  \/ Stop
  \/ Terminated

(* Threads that can go on do so, and the mutex is fair between them: a      *)
(* worker that decides to wait releases it at once.                         *)
Fairness ==
  /\ \A w \in Workers : SF_vars(Step(w))
  /\ \A c \in Callers : SF_vars(Finish(c))
  /\ WF_vars(Stop)

Spec == Init /\ [][Next]_vars /\ Fairness

-----------------------------------------------------------------------------
(* Each variable has its type.                                              *)
TypeOK ==
  /\ tasks_ \in Seq(Nat)
  /\ stop_ \in BOOLEAN
  /\ worker \in [Workers -> WorkerPC]
  /\ running \in [Workers -> Nat]
  /\ caller \in [Callers -> {"idle", "push", "notify"}]
  /\ stopper \in {"alive", "notify", "join", "joined"}
  /\ pushed \in 0..MaxTasks
  /\ executed \subseteq Nat
  /\ late \in [Workers -> Nat]
  /\ missed \in BOOLEAN
  /\ \A w \in Workers : running[w] # 0 <=> worker[w] = "running"

(* Every task pushed is in the queue, with one worker, or has run: no task  *)
(* is taken twice and none gets lost between the queue and a worker.        *)
EachTaskOnce ==
  /\ {tasks_[i] : i \in 1..Len(tasks_)} \union ({running[w] : w \in Workers} \ {0})
       \union executed = 1..pushed
  /\ Len(tasks_) + Cardinality({w \in Workers : running[w] # 0}) + Cardinality(executed)
       = pushed

(* stop drops the tasks still queued, yet not at once: a worker that was on *)
(* its way to the queue takes one more, and only one.                       *)
OneLateTaskAtMost == \A w \in Workers : late[w] <= 1

(* Every commit notifies: while the pool lives, a queued task has its turn. *)
CommittedTasksRun ==
  \A n \in 1..MaxTasks : n <= pushed ~> (n \in executed \/ stop_)

(* commit notifies for every task, not only for the first: while a worker   *)
(* is blocked there are at least as many wake-ups on their way, or workers  *)
(* about to look at the queue, as there are tasks in it.                    *)
EnoughAwake ==
  ~stop_ /\ (\E w \in Workers : worker[w] = "blocked") =>
    Len(tasks_) <= Cardinality({c \in Callers : caller[c] = "notify"})
                     + Cardinality({w \in Workers : worker[w] \in {"loop", "enter", "woken"}})

(* After notify_all every worker is joined, except when the notification    *)
(* fell between a worker's evaluation of the predicate and its wait.        *)
StopJoins == stopper = "join" ~> (stopper = "joined" \/ missed)
=============================================================================
