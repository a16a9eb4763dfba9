-------------------------- MODULE ThreadPoolProofs --------------------------
(***************************************************************************)
(* Proofs about ThreadPool for any number of workers, committing threads   *)
(* and tasks.                                                              *)
(***************************************************************************)
EXTENDS ThreadPool, FiniteSetTheorems, TLAPS

(* The threads that the properties count.                                   *)
Busy == {w \in Workers : running[w] # 0}
Awake == {w \in Workers : worker[w] \in {"loop", "enter", "woken"}}
Notifying == {c \in Callers : caller[c] = "notify"}
Pushing == {c \in Callers : caller[c] = "push"}

StopOrder == stop_ <=> stopper # "alive"

(* A worker that has decided to wait holds the mutex.                       *)
DecidedOnEmpty == \A w \in Workers : worker[w] = "deciding" => tasks_ = <<>>

(* A worker that has taken a task after stop will not come back to the      *)
(* queue: the loop test is ahead of it.                                     *)
LateOnce ==
  \A w \in Workers :
    \/ late[w] = 0
    \/ late[w] = 1 /\ stop_ /\ worker[w] \in {"running", "loop", "exited"}

(* A caller past the test of commit has its place among MaxTasks.           *)
Room == pushed + Cardinality(Pushing) <= MaxTasks

(* The queue holds the last tasks pushed, in order.                         *)
Taken == pushed - Len(tasks_)

QueueIsSuffix ==
  /\ Taken \in Nat
  /\ \A i \in 1..Len(tasks_) : tasks_[i] = Taken + i

(* The tasks taken are those that run or have run, each in one place.       *)
TakenOnce ==
  /\ ({running[w] : w \in Workers} \ {0}) \union executed = 1..Taken
  /\ \A w \in Busy : running[w] \notin executed
  /\ \A v, w \in Busy : v # w => running[v] # running[w]
  /\ IsFiniteSet(executed)
  /\ Cardinality(Busy) + Cardinality(executed) = Taken

IInv == /\ TypeOK /\ StopOrder /\ DecidedOnEmpty /\ LateOnce /\ Room
        /\ QueueIsSuffix /\ TakenOnce /\ EnoughAwake

-----------------------------------------------------------------------------
(* Sets of threads are finite, and a step adds or removes one of them.      *)
LEMMA FiniteCounts ==
  /\ IsFiniteSet(Busy) /\ IsFiniteSet(Awake) /\ IsFiniteSet(Notifying) /\ IsFiniteSet(Pushing)
  /\ Cardinality(Busy) \in Nat /\ Cardinality(Awake) \in Nat
  /\ Cardinality(Notifying) \in Nat /\ Cardinality(Pushing) \in Nat
<1>1. Busy \subseteq Workers /\ Awake \subseteq Workers
  BY DEF Busy, Awake
<1>2. Notifying \subseteq Callers /\ Pushing \subseteq Callers
  BY DEF Notifying, Pushing
<1>3. IsFiniteSet(Busy) /\ IsFiniteSet(Awake)
  BY <1>1, ThreadPoolAssumption, FS_Subset
<1>4. IsFiniteSet(Notifying) /\ IsFiniteSet(Pushing)
  BY <1>2, ThreadPoolAssumption, FS_Subset
<1>5. QED
  BY <1>3, <1>4, FS_CardinalityType

LEMMA CountAdded ==
  ASSUME NEW S, IsFiniteSet(S), NEW x, x \notin S, NEW T, T = S \union {x}
  PROVE  Cardinality(T) = Cardinality(S) + 1
BY FS_AddElement

LEMMA CountRemoved ==
  ASSUME NEW S, IsFiniteSet(S), NEW x \in S, NEW T, T = S \ {x}
  PROVE  Cardinality(T) = Cardinality(S) - 1
BY FS_RemoveElement

LEMMA InitIInv == Init => IInv
<1> SUFFICES ASSUME Init PROVE IInv
  OBVIOUS
<1> USE DEF Init
<1>0. <<>> \in Seq(Nat) /\ Len(<<>>) = 0 /\ pushed \in 0..MaxTasks
  BY ThreadPoolAssumption
<1>1. TypeOK
  BY <1>0 DEF TypeOK, WorkerPC
<1>2. StopOrder /\ DecidedOnEmpty /\ LateOnce /\ EnoughAwake
  BY DEF StopOrder, DecidedOnEmpty, LateOnce, EnoughAwake
<1>3. Cardinality({}) = 0 /\ IsFiniteSet({})
  BY FS_EmptySet
<1>4. Busy = {} /\ Pushing = {}
  BY DEF Busy, Pushing
<1>5. Room
  BY <1>3, <1>4, ThreadPoolAssumption DEF Room
<1>6. Taken = 0
  <2>1. Len(tasks_) = 0 /\ pushed = 0
    BY <1>0
  <2> HIDE DEF Init
  <2>2. QED
    BY <2>1 DEF Taken
<1>7. QueueIsSuffix
  BY <1>0, <1>6 DEF QueueIsSuffix
<1>8. TakenOnce
  BY <1>3, <1>4, <1>6 DEF TakenOnce
<1>9. QED
  BY <1>1, <1>2, <1>5, <1>7, <1>8 DEF IInv

-----------------------------------------------------------------------------
(* Whoever commits has its place, so pushed stays within its bound.         *)
LEMMA RoomKept ==
  ASSUME TypeOK, Room, [Next]_vars
  PROVE  Room' /\ pushed' \in 0..MaxTasks /\ caller' \in [Callers -> {"idle", "push", "notify"}]
<1> USE DEF TypeOK
<1>0. IsFiniteSet(Pushing) /\ Cardinality(Pushing) \in Nat
  BY FiniteCounts
<1>1. ASSUME NEW c \in Callers, Commit(c)
      PROVE  Room' /\ pushed' = pushed /\ caller' \in [Callers -> {"idle", "push", "notify"}]
  <2>1. Pushing' = Pushing \union {c} /\ c \notin Pushing
    BY <1>1 DEF Commit, Pushing
  <2>2. Cardinality(Pushing') = Cardinality(Pushing) + 1
    BY <1>0, <2>1, CountAdded
  <2>3. pushed + Cardinality(Pushing) < MaxTasks /\ pushed' = pushed
    BY <1>1 DEF Commit, Pushing
  <2>4. QED
    BY <1>0, <1>1, <2>2, <2>3, ThreadPoolAssumption DEF Room, Commit
<1>2. ASSUME NEW c \in Callers, Push(c)
      PROVE  Room' /\ pushed' = pushed + 1 /\ caller' \in [Callers -> {"idle", "push", "notify"}]
  <2>1. c \in Pushing /\ Pushing' = Pushing \ {c}
    BY <1>2 DEF Push, Pushing
  <2>2. Cardinality(Pushing') = Cardinality(Pushing) - 1
    BY <1>0, <2>1, CountRemoved
  <2>3. pushed' = pushed + 1
    BY <1>2 DEF Push
  <2>4. QED
    BY <1>0, <1>2, <2>2, <2>3, ThreadPoolAssumption DEF Room, Push
<1>3. ASSUME NEW c \in Callers, NotifyOne(c)
      PROVE  Room' /\ pushed' = pushed /\ caller' \in [Callers -> {"idle", "push", "notify"}]
  <2>1. Pushing' = Pushing /\ pushed' = pushed
    BY <1>3 DEF NotifyOne, Pushing
  <2>2. QED
    BY <1>3, <2>1 DEF Room, NotifyOne
<1>4. ASSUME UNCHANGED <<caller, pushed>>
      PROVE  Room' /\ pushed' = pushed /\ caller' \in [Callers -> {"idle", "push", "notify"}]
  BY <1>4 DEF Room, Pushing
<1>5. \/ \E c \in Callers : Commit(c) \/ Push(c) \/ NotifyOne(c)
      \/ UNCHANGED <<caller, pushed>>
  BY DEF Next, Finish, Step, LoopTest, TakeTask, StopOrDecide, Block, RunTask, SpuriousWakeup,
         SetStop, Stop, NotifyAll, Join, Terminated, vars
<1>6. Room' /\ pushed' \in Nat /\ caller' \in [Callers -> {"idle", "push", "notify"}]
  BY <1>1, <1>2, <1>3, <1>4, <1>5
<1>7. Pushing' \subseteq Callers
  BY DEF Pushing
<1>8. Cardinality(Pushing') \in Nat
  BY <1>7, ThreadPoolAssumption, FS_Subset, FS_CardinalityType
<1>9. QED
  BY <1>6, <1>8, ThreadPoolAssumption DEF Room

-----------------------------------------------------------------------------
(* Types, the order of stopping and what a worker knows at its labels.      *)
Control == TypeOK /\ StopOrder /\ DecidedOnEmpty /\ LateOnce /\ Room

LEMMA ControlKept ==
  ASSUME Control, QueueIsSuffix, [Next]_vars
  PROVE  Control'
<1> USE DEF Control
<1>0. Room' /\ pushed' \in 0..MaxTasks /\ caller' \in [Callers -> {"idle", "push", "notify"}]
  BY RoomKept
<1> USE <1>0
<1>1. ASSUME NEW c \in Callers, Commit(c) PROVE Control'
  BY <1>1 DEF Commit, TypeOK, StopOrder, DecidedOnEmpty, LateOnce
<1>2. ASSUME NEW c \in Callers, Push(c) PROVE Control'
  <2>1. tasks_' \in Seq(Nat)
    BY <1>2 DEF Push, TypeOK
  <2>2. TypeOK'
    BY <1>2, <2>1 DEF Push, TypeOK
  <2>3. QED
    BY <1>2, <2>2 DEF Push, MutexFree, StopOrder, DecidedOnEmpty, LateOnce
<1>3. ASSUME NEW c \in Callers, NotifyOne(c) PROVE Control'
  <2>1. /\ UNCHANGED <<tasks_, stop_, running, stopper, pushed, executed, late, missed>>
        /\ \/ UNCHANGED worker
           \/ \E w \in Workers : worker[w] = "blocked" /\ worker' = [worker EXCEPT ![w] = "woken"]
    BY <1>3 DEF NotifyOne
  <2>2. TypeOK'
    BY <2>1 DEF TypeOK, WorkerPC
  <2>3. \A w \in Workers : worker'[w] = worker[w] \/ (worker[w] = "blocked" /\ worker'[w] = "woken")
    BY <2>1 DEF TypeOK
  <2>4. StopOrder' /\ DecidedOnEmpty'
    BY <2>1, <2>3 DEF StopOrder, DecidedOnEmpty
  <2>5. LateOnce'
    BY <2>1, <2>3 DEF LateOnce
  <2>6. QED
    BY <2>2, <2>4, <2>5
<1>4. ASSUME NEW w \in Workers, LoopTest(w) PROVE Control'
  <2>1. /\ worker[w] = "loop" /\ worker'[w] \in {"enter", "exited"}
        /\ stop_ => worker'[w] = "exited"
        /\ \A v \in Workers \ {w} : worker'[v] = worker[v]
        /\ UNCHANGED <<tasks_, stop_, running, stopper, pushed, executed, late, missed>>
    BY <1>4 DEF LoopTest, TypeOK
  <2>2. TypeOK'
    BY <1>4, <2>1 DEF LoopTest, TypeOK, WorkerPC
  <2>3. StopOrder' /\ DecidedOnEmpty'
    BY <2>1 DEF StopOrder, DecidedOnEmpty
  <2>4. LateOnce'
    BY <2>1 DEF LateOnce
  <2>5. QED
    BY <2>2, <2>3, <2>4
<1>5. ASSUME NEW w \in Workers, TakeTask(w) PROVE Control'
  <2>1. Len(tasks_) >= 1 /\ Head(tasks_) = Taken + 1 /\ tasks_' \in Seq(Nat)
    BY <1>5 DEF TakeTask, TypeOK, QueueIsSuffix
  <2>2. Head(tasks_) \in Nat \ {0}
    BY <2>1 DEF QueueIsSuffix
  <2>3. late[w] = 0 /\ late'[w] \in {0, 1} /\ (late'[w] = 1 => stop_)
    <3>1. late[w] = 0
      BY <1>5 DEF TakeTask, AtPredicate, LateOnce
    <3>2. late'[w] = IF stop_ THEN late[w] + 1 ELSE late[w]
      BY <1>5 DEF TakeTask, TypeOK
    <3>3. QED
      BY <3>1, <3>2
  <2>4. late' \in [Workers -> Nat] /\ \A v \in Workers \ {w} : late'[v] = late[v]
    BY <1>5, <2>3 DEF TakeTask, TypeOK
  <2>5. TypeOK'
    BY <1>5, <2>1, <2>2, <2>4 DEF TakeTask, TypeOK, WorkerPC
  <2>6. StopOrder' /\ DecidedOnEmpty'
    BY <1>5 DEF TakeTask, AtPredicate, MutexFree, TypeOK, StopOrder, DecidedOnEmpty
  <2>7. LateOnce'
    BY <1>5, <2>3, <2>4 DEF TakeTask, TypeOK, LateOnce
  <2>8. QED
    BY <2>5, <2>6, <2>7
<1>6. ASSUME NEW w \in Workers, StopOrDecide(w) PROVE Control'
  BY <1>6 DEF StopOrDecide, AtPredicate, TypeOK, WorkerPC, StopOrder, DecidedOnEmpty, LateOnce
<1>7. ASSUME NEW w \in Workers, Block(w) \/ SpuriousWakeup(w) PROVE Control'
  <2>1. /\ \E label \in {"blocked", "woken"} : worker' = [worker EXCEPT ![w] = label]
        /\ worker[w] \in {"deciding", "blocked"}
        /\ UNCHANGED <<tasks_, stop_, running, caller, stopper, pushed, executed, late, missed>>
    BY <1>7 DEF Block, SpuriousWakeup
  <2>2. TypeOK'
    BY <2>1 DEF TypeOK, WorkerPC
  <2>3. StopOrder' /\ DecidedOnEmpty'
    BY <2>1 DEF TypeOK, StopOrder, DecidedOnEmpty
  <2>4. LateOnce'
    BY <2>1 DEF TypeOK, LateOnce
  <2>5. QED
    BY <2>2, <2>3, <2>4
<1>8. ASSUME NEW w \in Workers, RunTask(w) PROVE Control'
  BY <1>8 DEF RunTask, TypeOK, WorkerPC, StopOrder, DecidedOnEmpty, LateOnce
<1>9. CASE SetStop
  BY <1>9 DEF SetStop, TypeOK, StopOrder, DecidedOnEmpty, LateOnce
<1>10. CASE NotifyAll
  BY <1>10 DEF NotifyAll, MutexFree, TypeOK, WorkerPC, StopOrder, DecidedOnEmpty, LateOnce
<1>11. CASE Join
  BY <1>11 DEF Join, TypeOK, StopOrder, DecidedOnEmpty, LateOnce
<1>12. CASE UNCHANGED vars
  BY <1>12 DEF vars, TypeOK, StopOrder, DecidedOnEmpty, LateOnce
<1>13. QED
  BY <1>1, <1>2, <1>3, <1>4, <1>5, <1>6, <1>7, <1>8, <1>9, <1>10, <1>11, <1>12
  DEF Next, Finish, Step, Stop, Terminated

-----------------------------------------------------------------------------
(* commit, the queue and the workers hand every task on exactly once.       *)
Tasks == QueueIsSuffix /\ TakenOnce

LEMMA PushKeepsTasks ==
  ASSUME TypeOK, Tasks, NEW c \in Callers, Push(c)
  PROVE  Tasks'
<1> USE DEF TypeOK, Tasks
<1>1. /\ tasks_' = Append(tasks_, pushed + 1) /\ pushed' = pushed + 1
      /\ UNCHANGED <<running, executed>>
  BY DEF Push
<1>2. Len(tasks_') = Len(tasks_) + 1 /\ Taken' = Taken
  BY <1>1 DEF Taken
<1>3. pushed = Taken + Len(tasks_) /\ Len(tasks_) \in Nat
  BY DEF Taken
<1>4. ASSUME NEW i \in 1..Len(tasks_') PROVE tasks_'[i] = Taken' + i
  <2>1. CASE i = Len(tasks_) + 1
    <3>1. tasks_'[i] = pushed + 1
      BY <1>1, <2>1
    <3>2. QED
      BY <1>2, <1>3, <2>1, <3>1 DEF QueueIsSuffix
  <2>2. CASE i \in 1..Len(tasks_)
    BY <1>1, <1>2, <2>2 DEF QueueIsSuffix
  <2>3. QED
    BY <1>2, <2>1, <2>2
<1>5. QueueIsSuffix'
  BY <1>2, <1>4 DEF QueueIsSuffix
<1>6. TakenOnce'
  BY <1>1, <1>2 DEF TakenOnce, Busy
<1>7. QED
  BY <1>5, <1>6

LEMMA TakeKeepsTasks ==
  ASSUME TypeOK, Tasks, NEW w \in Workers, TakeTask(w)
  PROVE  Tasks'
<1> USE DEF TypeOK, Tasks
<1>1. /\ Len(tasks_) >= 1 /\ tasks_' = Tail(tasks_)
      /\ running' = [running EXCEPT ![w] = Head(tasks_)]
      /\ UNCHANGED <<pushed, executed>>
  BY DEF TakeTask
<1>2. running[w] = 0
  BY DEF TakeTask, AtPredicate
<1>3. Taken \in Nat /\ Head(tasks_) = Taken + 1 /\ Len(tasks_') = Len(tasks_) - 1
  BY <1>1 DEF QueueIsSuffix
<1>4. Taken' = Taken + 1
  <2>1. Len(tasks_) \in Nat /\ pushed \in Nat /\ pushed' = pushed
    BY <1>1
  <2>2. QED
    BY <1>3, <2>1 DEF Taken
<1>5. QueueIsSuffix'
  <2>1. \A i \in 1..Len(tasks_') : tasks_'[i] = tasks_[i + 1] /\ i + 1 \in 1..Len(tasks_)
    BY <1>1, <1>3
  <2>2. \A i \in 1..Len(tasks_') : tasks_'[i] = Taken' + i
    BY <1>3, <1>4, <2>1 DEF QueueIsSuffix
  <2>3. QED
    BY <1>3, <1>4, <2>2 DEF QueueIsSuffix
<1>6. running'[w] = Taken + 1 /\ \A v \in Workers \ {w} : running'[v] = running[v]
  BY <1>1, <1>3
<1>7. Busy' = Busy \union {w} /\ w \notin Busy
  BY <1>2, <1>3, <1>6 DEF Busy
<1>8. Cardinality(Busy') = Cardinality(Busy) + 1
  BY <1>7, FiniteCounts, CountAdded
<1>9. \A v \in Busy : running[v] \in 1..Taken
  BY DEF TakenOnce, Busy
<1>10. executed \subseteq 1..Taken
  BY DEF TakenOnce
<1>11. {running'[v] : v \in Workers} \ {0} = ({running[v] : v \in Workers} \ {0}) \union {Taken + 1}
  <2>1. ASSUME NEW v \in Workers, running[v] # 0 PROVE running[v] \in {running'[u] : u \in Workers}
    BY <1>2, <1>6, <2>1
  <2>2. ASSUME NEW v \in Workers
        PROVE  running'[v] \in {running[u] : u \in Workers} \union {Taken + 1}
    BY <1>6
  <2>3. Taken + 1 \in {running'[u] : u \in Workers} /\ Taken + 1 # 0
    BY <1>3, <1>6
  <2> DEFINE B == {running[v] : v \in Workers}
             A == {running'[v] : v \in Workers}
  <2>4. /\ \A x \in B : x # 0 => x \in A
        /\ \A x \in A : x \in B \/ x = Taken + 1
    BY <2>1, <2>2
  <2>5. Taken + 1 \in A /\ Taken + 1 # 0
    BY <2>3
  <2> HIDE DEF A, B
  <2>6. A \ {0} = (B \ {0}) \union {Taken + 1}
    BY <2>4, <2>5
  <2>7. QED
    BY <2>6 DEF A, B
<1>12. 1..(Taken + 1) = (1..Taken) \union {Taken + 1}
  BY <1>3
<1>13. ({running'[v] : v \in Workers} \ {0}) \union executed' = 1..Taken'
  <2>1. ({running[v] : v \in Workers} \ {0}) \union executed = 1..Taken
    BY DEF TakenOnce
  <2>2. executed' = executed
    BY <1>1
  <2>3. QED
    BY <1>4, <1>11, <1>12, <2>1, <2>2
<1>14. \A v \in Busy' : running'[v] \notin executed'
  <2>1. running'[w] \notin executed
    BY <1>3, <1>6, <1>10
  <2>2. \A v \in Busy : running'[v] = running[v] /\ running[v] \notin executed
    BY <1>6, <1>7 DEF TakenOnce, Busy
  <2>3. QED
    BY <1>1, <1>7, <2>1, <2>2
<1>15. \A u, v \in Busy' : u # v => running'[u] # running'[v]
  <2>1. \A v \in Busy : running'[v] = running[v] /\ running'[v] # running'[w]
    BY <1>3, <1>6, <1>7, <1>9 DEF Busy
  <2>2. \A u, v \in Busy : u # v => running'[u] # running'[v]
    BY <2>1 DEF TakenOnce
  <2>3. QED
    BY <1>7, <2>1, <2>2
<1>16. IsFiniteSet(executed') /\ Cardinality(Busy') + Cardinality(executed') = Taken'
  BY <1>1, <1>4, <1>8, FiniteCounts, FS_CardinalityType DEF TakenOnce
<1>17. QED
  BY <1>5, <1>13, <1>14, <1>15, <1>16 DEF TakenOnce

LEMMA RunKeepsTasks ==
  ASSUME TypeOK, Tasks, NEW w \in Workers, RunTask(w)
  PROVE  Tasks'
<1> USE DEF TypeOK, Tasks
<1>1. /\ executed' = executed \union {running[w]}
      /\ running' = [running EXCEPT ![w] = 0]
      /\ UNCHANGED <<pushed, tasks_>>
      /\ w \in Busy
  BY DEF RunTask, Busy
<1>2. Taken' = Taken /\ Taken \in Nat
  BY <1>1 DEF Taken, QueueIsSuffix
<1>3. QueueIsSuffix'
  BY <1>1, <1>2 DEF QueueIsSuffix
<1>4. running'[w] = 0 /\ \A v \in Workers \ {w} : running'[v] = running[v]
  BY <1>1
<1>5. Busy' = Busy \ {w}
  BY <1>4 DEF Busy
<1>6. Cardinality(Busy') = Cardinality(Busy) - 1
  BY <1>1, <1>5, FiniteCounts, CountRemoved
<1>7. running[w] \notin executed /\ running[w] # 0
  BY <1>1 DEF TakenOnce, Busy
<1>8. IsFiniteSet(executed') /\ Cardinality(executed') = Cardinality(executed) + 1
  BY <1>1, <1>7, FS_AddElement DEF TakenOnce
<1>9. ({running'[v] : v \in Workers} \ {0}) \union executed'
        = ({running[v] : v \in Workers} \ {0}) \union executed
  BY <1>1, <1>4, <1>7
<1>10. \A v \in Busy' : running'[v] \notin executed'
  BY <1>1, <1>4, <1>5 DEF TakenOnce
<1>11. \A u, v \in Busy' : u # v => running'[u] # running'[v]
  <2>1. \A v \in Busy' : v \in Busy /\ running'[v] = running[v]
    BY <1>4, <1>5 DEF Busy
  <2>2. QED
    BY <2>1 DEF TakenOnce
<1>12. Cardinality(Busy') + Cardinality(executed') = Taken'
  BY <1>2, <1>6, <1>8, FiniteCounts, FS_CardinalityType DEF TakenOnce
<1>13. QED
  BY <1>2, <1>3, <1>8, <1>9, <1>10, <1>11, <1>12 DEF TakenOnce

LEMMA TasksKept ==
  ASSUME TypeOK, Tasks, [Next]_vars
  PROVE  Tasks'
<1>1. ASSUME UNCHANGED <<tasks_, pushed, running, executed>>
      PROVE  Tasks'
  BY <1>1 DEF Tasks, QueueIsSuffix, TakenOnce, Taken, Busy
<1>2. \/ UNCHANGED <<tasks_, pushed, running, executed>>
      \/ \E c \in Callers : Push(c)
      \/ \E w \in Workers : TakeTask(w) \/ RunTask(w)
  BY DEF Next, Finish, Step, Commit, NotifyOne, LoopTest, StopOrDecide, Block, SpuriousWakeup,
         SetStop, Stop, NotifyAll, Join, Terminated, vars
<1>3. QED
  BY <1>1, <1>2, PushKeepsTasks, TakeKeepsTasks, RunKeepsTasks

-----------------------------------------------------------------------------
(* Wake-ups on their way and workers about to look are enough for the queue.*)
LEMMA AwakeKept ==
  ASSUME Control, EnoughAwake, [Next]_vars
  PROVE  EnoughAwake'
<1> USE DEF Control, TypeOK
<1> DEFINE Enough == Len(tasks_) <= Cardinality(Notifying) + Cardinality(Awake)
           SomeBlocked == \E w \in Workers : worker[w] = "blocked"
<1>0. /\ EnoughAwake <=> (~stop_ /\ SomeBlocked => Enough)
      /\ EnoughAwake' <=> (~stop_' /\ SomeBlocked' => Enough')
  BY DEF EnoughAwake, Notifying, Awake
<1>1. SUFFICES ASSUME ~stop_', SomeBlocked'
               PROVE  Enough'
  BY <1>0
<1>2. ~stop_ /\ (SomeBlocked => Enough)
  BY <1>0, <1>1 DEF Next, Finish, Step, Commit, Push, NotifyOne, LoopTest, TakeTask,
       StopOrDecide, Block, RunTask, SpuriousWakeup, SetStop, Stop, NotifyAll, Join, Terminated, vars
<1>3. /\ IsFiniteSet(Awake) /\ Cardinality(Awake) \in Nat
      /\ IsFiniteSet(Notifying) /\ Cardinality(Notifying) \in Nat
      /\ Len(tasks_) \in Nat
  BY FiniteCounts
<1>4. ASSUME NEW c \in Callers, Commit(c) PROVE Enough'
  <2>1. Notifying' = Notifying /\ Awake' = Awake /\ UNCHANGED <<tasks_, worker>>
    BY <1>4 DEF Commit, Notifying, Awake
  <2>2. QED
    BY <1>1, <1>2, <2>1
<1>5. ASSUME NEW c \in Callers, Push(c) PROVE Enough'
  <2>1. Notifying' = Notifying \union {c} /\ c \notin Notifying /\ Awake' = Awake
    BY <1>5 DEF Push, Notifying, Awake
  <2>2. Cardinality(Notifying') = Cardinality(Notifying) + 1
    BY <1>3, <2>1, CountAdded
  <2>3. Len(tasks_') = Len(tasks_) + 1 /\ worker' = worker
    BY <1>5 DEF Push
  <2>4. QED
    BY <1>1, <1>2, <1>3, <2>1, <2>2, <2>3
<1>6. ASSUME NEW c \in Callers, NotifyOne(c) PROVE Enough'
  <2>1. c \in Notifying /\ Notifying' = Notifying \ {c} /\ tasks_' = tasks_
    BY <1>6 DEF NotifyOne, Notifying
  <2>2. Cardinality(Notifying') = Cardinality(Notifying) - 1
    BY <1>3, <2>1, CountRemoved
  <2>3. SomeBlocked
    BY <1>1, <1>6 DEF NotifyOne
  <2>4. PICK w \in Workers : worker[w] = "blocked" /\ worker' = [worker EXCEPT ![w] = "woken"]
    BY <1>6, <2>3 DEF NotifyOne
  <2>5. Awake' = Awake \union {w} /\ w \notin Awake
    BY <2>4 DEF Awake
  <2>6. Cardinality(Awake') = Cardinality(Awake) + 1
    BY <1>3, <2>5, CountAdded
  <2>7. QED
    BY <1>2, <1>3, <2>1, <2>2, <2>3, <2>6
<1>7. ASSUME NEW w \in Workers, LoopTest(w) PROVE Enough'
  <2>1. worker' = [worker EXCEPT ![w] = "enter"] /\ worker[w] = "loop"
    BY <1>2, <1>7 DEF LoopTest
  <2>2. Awake' = Awake /\ SomeBlocked
    BY <1>1, <2>1 DEF Awake
  <2>3. Notifying' = Notifying /\ tasks_' = tasks_
    BY <1>7 DEF LoopTest, Notifying
  <2>4. QED
    BY <1>2, <2>2, <2>3
<1>8. ASSUME NEW w \in Workers, TakeTask(w) PROVE Enough'
  <2>1. /\ worker[w] \in {"enter", "woken"} /\ worker' = [worker EXCEPT ![w] = "running"]
        /\ Len(tasks_') = Len(tasks_) - 1
    BY <1>8 DEF TakeTask, AtPredicate
  <2>2. w \in Awake /\ Awake' = Awake \ {w} /\ SomeBlocked
    BY <1>1, <2>1 DEF Awake
  <2>3. Cardinality(Awake') = Cardinality(Awake) - 1
    BY <1>3, <2>2, CountRemoved
  <2>4. Notifying' = Notifying
    BY <1>8 DEF TakeTask, Notifying
  <2>5. QED
    BY <1>2, <1>3, <2>1, <2>2, <2>3, <2>4
<1>9. ASSUME tasks_' = <<>> PROVE Enough'
  <2>1. Awake' \subseteq Workers /\ Notifying' \subseteq Callers
    BY DEF Awake, Notifying
  <2>2. IsFiniteSet(Awake') /\ IsFiniteSet(Notifying')
    BY <2>1, ThreadPoolAssumption, FS_Subset
  <2>3. Cardinality(Awake') \in Nat /\ Cardinality(Notifying') \in Nat
    BY <2>2, FS_CardinalityType
  <2>4. Len(tasks_') = 0
    BY <1>9
  <2>5. QED
    BY <2>3, <2>4
<1>10. ASSUME NEW w \in Workers, StopOrDecide(w) \/ Block(w) PROVE Enough'
  <2>1. tasks_' = <<>>
    BY <1>10 DEF StopOrDecide, Block, DecidedOnEmpty
  <2>2. QED
    BY <1>9, <2>1
<1>11. ASSUME NEW w \in Workers, RunTask(w) \/ SpuriousWakeup(w) PROVE Enough'
  <2>1. /\ worker[w] \in {"running", "blocked"}
        /\ \E label \in {"loop", "woken"} : worker' = [worker EXCEPT ![w] = label]
    BY <1>11 DEF RunTask, SpuriousWakeup
  <2>2. Awake' = Awake \union {w} /\ w \notin Awake
    BY <2>1 DEF Awake
  <2>3. Cardinality(Awake') = Cardinality(Awake) + 1
    BY <1>3, <2>2, CountAdded
  <2>4. SomeBlocked
    BY <1>1, <2>1
  <2>5. Notifying' = Notifying /\ tasks_' = tasks_
    BY <1>11 DEF RunTask, SpuriousWakeup, Notifying
  <2>6. QED
    BY <1>2, <1>3, <2>3, <2>4, <2>5
<1>12. CASE SetStop
  BY <1>1, <1>12 DEF SetStop
<1>13. CASE Stop
  <2>1. stopper # "alive"
    BY <1>13 DEF Stop, NotifyAll, Join
  <2>2. QED
    BY <1>2, <2>1 DEF StopOrder
<1>14. CASE UNCHANGED vars
  <2>1. Notifying' = Notifying /\ Awake' = Awake /\ UNCHANGED <<tasks_, worker>>
    BY <1>14 DEF vars, Notifying, Awake
  <2>2. QED
    BY <1>1, <1>2, <2>1
<1>15. QED
  BY <1>4, <1>5, <1>6, <1>7, <1>8, <1>10, <1>11, <1>12, <1>13, <1>14
  DEF Next, Finish, Step, Terminated

-----------------------------------------------------------------------------
THEOREM Invariance == Spec => []IInv
<1>1. IInv /\ [Next]_vars => IInv'
  BY ControlKept, TasksKept, AwakeKept DEF IInv, Control, Tasks
<1>2. QED
  BY InitIInv, <1>1, PTL DEF Spec

(* threadpool.h:63-72: no task is taken twice and none gets lost between    *)
(* the queue and a worker, whenever the pool is stopped.                    *)
THEOREM TasksOnce == Spec => []EachTaskOnce
<1>1. ASSUME IInv PROVE EachTaskOnce
  <2> USE <1>1 DEF IInv
  <2>1. Taken \in Nat /\ Len(tasks_) \in Nat /\ pushed = Taken + Len(tasks_)
    BY DEF TypeOK, QueueIsSuffix, Taken
  <2>2. {tasks_[i] : i \in 1..Len(tasks_)} = (Taken + 1)..pushed
    <3>1. ASSUME NEW n \in (Taken + 1)..pushed
          PROVE  n \in {tasks_[i] : i \in 1..Len(tasks_)}
      <4>1. n - Taken \in 1..Len(tasks_)
        BY <2>1
      <4>2. tasks_[n - Taken] = n
        BY <2>1, <4>1 DEF QueueIsSuffix
      <4>3. QED
        BY <4>1, <4>2
    <3>2. ASSUME NEW i \in 1..Len(tasks_)
          PROVE  tasks_[i] \in (Taken + 1)..pushed
      <4>1. tasks_[i] = Taken + i
        BY DEF QueueIsSuffix
      <4>2. QED
        BY <2>1, <4>1
    <3>3. QED
      BY <3>1, <3>2
  <2>3. ((Taken + 1)..pushed) \union (1..Taken) = 1..pushed
    BY <2>1
  <2>4. {tasks_[i] : i \in 1..Len(tasks_)} \union ({running[w] : w \in Workers} \ {0})
          \union executed = 1..pushed
    BY <2>2, <2>3 DEF TakenOnce
  <2>5. Cardinality(Busy) \in Nat /\ Cardinality(executed) \in Nat
    BY FiniteCounts, FS_CardinalityType DEF TakenOnce
  <2>6. Len(tasks_) + Cardinality(Busy) + Cardinality(executed) = pushed
    <3>1. Cardinality(Busy) + Cardinality(executed) = Taken
      BY DEF TakenOnce
    <3> HIDE <1>1
    <3>2. QED
      BY <2>1, <2>5, <3>1
  <2>7. {w \in Workers : running[w] # 0} = Busy
    BY DEF Busy
  <2>8. QED
    BY <2>4, <2>6, <2>7 DEF EachTaskOnce
<1>2. QED
  BY Invariance, <1>1, PTL

(* threadpool.h:62-72: a worker takes at most one task after stop_ was set, *)
(* since it tests it before it comes back to the queue.                     *)
THEOREM OneLateTask == Spec => []OneLateTaskAtMost
<1>1. IInv => OneLateTaskAtMost
  <2>1. ASSUME LateOnce, NEW w \in Workers PROVE late[w] <= 1
    BY <2>1 DEF LateOnce
  <2>2. QED
    BY <2>1 DEF IInv, OneLateTaskAtMost
<1>2. QED
  BY Invariance, <1>1, PTL

(* threadpool.h:41-46: with one notification per task, a blocked worker     *)
(* means that others, or wake-ups on their way, suffice for the queue.      *)
THEOREM WakeUpsSuffice == Spec => []EnoughAwake
<1>1. IInv => EnoughAwake
  BY DEF IInv
<1>2. QED
  BY Invariance, <1>1, PTL
=============================================================================
