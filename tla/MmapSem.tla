------------------------------- MODULE MmapSem -------------------------------
(***************************************************************************)
(* The semaphore of my_pxsem_mmap once it is open: a mutex, a condition    *)
(* variable and a count in shared memory. Every access to the count is     *)
(* made with the mutex held, so a critical section is one step; only       *)
(* pthread_cond_wait releases the mutex inside one, and there the step     *)
(* ends.                                                                   *)
(***************************************************************************)
EXTENDS Naturals

CONSTANTS
  Procs,        (* the processes or threads that share the semaphore        *)
  InitialValue, (* the value it was opened with                             *)
  MaxValue      (* bound of the model: nobody posts above it                *)

VARIABLES
  sem_count,    (* sem_count                                                *)
  pc,           (* "idle", or inside mysem_wait: "entering" and "woken"     *)
                (* want the mutex, "blocked" waits for sem_cond             *)
  unsignalled   (* history: a post found the count positive and did not     *)
                (* signal, and somebody has been blocked ever since         *)

vars == <<sem_count, pc, unsignalled>>

Init ==
  /\ sem_count = InitialValue
  /\ pc = [p \in Procs |-> "idle"]
  /\ unsignalled = FALSE

Blocked == {p \in Procs : pc[p] = "blocked"}
Remember(b) == unsignalled' = (b /\ Blocked' # {})

-----------------------------------------------------------------------------
(* Faulty: the count is compared as if it had been incremented already.     *)
SignalDue_After == sem_count = 1

(* mysem_post: signal on the transition from 0 to nonzero, then increment.  *)
SignalDue == sem_count = 0

mysem_post(p) ==
  /\ pc[p] = "idle"
  /\ sem_count < MaxValue
  /\ sem_count' = sem_count + 1
  /\ IF SignalDue /\ Blocked # {}
     THEN \E q \in Blocked : pc' = [pc EXCEPT ![q] = "woken"]
     ELSE UNCHANGED pc
  /\ Remember(unsignalled \/ sem_count # 0)

(* mysem_wait *)
mysem_wait(p) ==
  /\ pc[p] = "idle"
  /\ pc' = [pc EXCEPT ![p] = "entering"]
  /\ UNCHANGED <<sem_count, unsignalled>>

(* Faulty: the count is not tested again after the wait.                    *)
TakeOrBlock_If(p) ==
  \/ /\ pc[p] = "entering" /\ sem_count = 0
     /\ pc' = [pc EXCEPT ![p] = "blocked"]
     /\ Remember(unsignalled)
     /\ UNCHANGED sem_count
  \/ /\ pc[p] = "woken" \/ (pc[p] = "entering" /\ sem_count > 0)
     /\ sem_count' = sem_count - 1
     /\ pc' = [pc EXCEPT ![p] = "idle"]
     /\ Remember(unsignalled)

(* The loop around pthread_cond_wait, with the mutex.                       *)
TakeOrBlock(p) ==
  /\ pc[p] \in {"entering", "woken"}
  /\ \/ /\ sem_count = 0
        /\ pc' = [pc EXCEPT ![p] = "blocked"]
        /\ UNCHANGED sem_count
     \/ /\ sem_count > 0
        /\ sem_count' = sem_count - 1
        /\ pc' = [pc EXCEPT ![p] = "idle"]
  /\ Remember(unsignalled)

SpuriousWakeup(p) ==
  /\ pc[p] = "blocked"
  /\ pc' = [pc EXCEPT ![p] = "woken"]
  /\ Remember(unsignalled)
  /\ UNCHANGED sem_count

(* mysem_trywait, when it finds the count positive; otherwise it fails with *)
(* EAGAIN and changes nothing, and mysem_getvalue only reads.               *)
mysem_trywait(p) ==
  /\ pc[p] = "idle"
  /\ sem_count > 0
  /\ sem_count' = sem_count - 1
  /\ UNCHANGED <<pc, unsignalled>>

Next ==
  \E p \in Procs :
    \/ mysem_post(p) \/ mysem_wait(p) \/ TakeOrBlock(p)
    \/ SpuriousWakeup(p) \/ mysem_trywait(p)

(* A caller that wants the mutex gets it: it is free between two steps.     *)
Fairness == \A p \in Procs : WF_vars(TakeOrBlock(p))

Spec == Init /\ [][Next]_vars /\ Fairness

-----------------------------------------------------------------------------
(* Each variable has its type.                                              *)
TypeOK ==
  /\ sem_count \in Nat
  /\ pc \in [Procs -> {"idle", "entering", "blocked", "woken"}]
  /\ unsignalled \in BOOLEAN

(* mysem_post signals only on the transition from 0 to nonzero. Callers are *)
(* blocked beside a positive count only while another one is on its way to  *)
(* it, unless a post that did not signal has come in between.               *)
WakeupUnderWay ==
  sem_count > 0 /\ Blocked # {} =>
    (\E p \in Procs : pc[p] \in {"entering", "woken"}) \/ unsignalled

(* Two posts before the first woken caller runs wake only one of two        *)
(* blocked callers. Short of that nobody stays blocked beside a count that  *)
(* stays positive.                                                          *)
NobodyStranded ==
  \A p \in Procs :
    pc[p] = "blocked" /\ sem_count > 0 ~> (pc[p] # "blocked" \/ sem_count = 0 \/ unsignalled)

(* The count in shared memory is the value of a semaphore: mysem_wait and   *)
(* mysem_trywait take one each and never below zero, mysem_post adds one.   *)
Abstract == INSTANCE Semaphore WITH
  value <- sem_count, waiters <- {p \in Procs : pc[p] # "idle"}
RefinesSemaphore == Abstract!Spec
=============================================================================
