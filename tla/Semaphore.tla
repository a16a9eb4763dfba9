------------------------------ MODULE Semaphore ------------------------------
(***************************************************************************)
(* A counting semaphore with no mutex and no condition variable: a caller  *)
(* of mysem_wait is in waiters until it has taken one from the value, the  *)
(* value never goes below zero, and every post adds exactly one.           *)
(***************************************************************************)
EXTENDS Naturals

CONSTANTS
  Procs,        (* the processes or threads that share the semaphore        *)
  InitialValue, (* the value it was opened with                             *)
  MaxValue      (* bound of the model: nobody posts above it                *)

VARIABLES
  value,        (* the semaphore value                                      *)
  waiters       (* the callers of mysem_wait                                *)

vars == <<value, waiters>>

Init == value = InitialValue /\ waiters = {}

Arrive(p) ==
  /\ p \notin waiters
  /\ waiters' = waiters \union {p}
  /\ UNCHANGED value

Take(p) ==
  /\ p \in waiters
  /\ value > 0
  /\ value' = value - 1
  /\ waiters' = waiters \ {p}

TryTake(p) ==
  /\ p \notin waiters
  /\ value > 0
  /\ value' = value - 1
  /\ UNCHANGED waiters

Post(p) ==
  /\ p \notin waiters
  /\ value < MaxValue
  /\ value' = value + 1
  /\ UNCHANGED waiters

Next == \E p \in Procs : Arrive(p) \/ Take(p) \/ TryTake(p) \/ Post(p)

Spec == Init /\ [][Next]_vars
=============================================================================
