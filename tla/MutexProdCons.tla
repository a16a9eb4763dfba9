--------------------------- MODULE MutexProdCons ----------------------------
(***************************************************************************)
(* The producers and the consumer of mutex/: several producers fill an     *)
(* array in order under a mutex and one consumer checks that buff[i] = i.  *)
(* In prodcons2 the consumer starts when the producers have ended; in      *)
(* prodcons3 it starts with them and spins until its item is there; in     *)
(* prodcons6 it waits on a condition variable for nready, which a producer *)
(* increments under a second mutex after it has released the first one.    *)
(*                                                                         *)
(* Each critical section is one step. The consumer reads buff without one. *)
(***************************************************************************)
EXTENDS Integers

CONSTANTS
  Producers,
  nitems

Programs == {"prodcons2", "prodcons3", "prodcons6"}
Unset == -1     (* the content of an element nobody has stored              *)

VARIABLES
  program,
  buff,
  nput,         (* put.nput                                                 *)
  nval,         (* put.nval                                                 *)
  nready,       (* nready.nready                                            *)
  pc,           (* pc[p]: "put", "announce" (prodcons6) or "returned"       *)
  consumer,     (* "none", "wait", "blocked", "check" or "returned"         *)
  i,            (* the consumer's loop counter                              *)
  mismatches    (* history: elements the consumer has complained about      *)

array == <<buff, nput, nval>>
vars == <<program, array, nready, pc, consumer, i, mismatches>>

Init ==
  /\ program \in Programs
  /\ buff = [k \in 0..nitems - 1 |-> Unset]
  /\ nput = 0 /\ nval = 0 /\ nready = 0
  /\ pc = [p \in Producers |-> "put"]
  /\ consumer = IF program = "prodcons2" THEN "none" ELSE "wait"
  /\ i = 0 /\ mismatches = 0

-----------------------------------------------------------------------------
(* produce *)

Put(p) ==
  /\ pc[p] = "put" /\ nput < nitems
  /\ buff' = [buff EXCEPT ![nput] = nval]
  /\ nput' = nput + 1
  /\ nval' = nval + 1
  /\ pc' = [pc EXCEPT ![p] = IF program = "prodcons6" THEN "announce" ELSE "put"]
  /\ UNCHANGED <<program, nready, consumer, i, mismatches>>

ArrayFull(p) ==
  /\ pc[p] = "put" /\ nput >= nitems
  /\ pc' = [pc EXCEPT ![p] = "returned"]
  /\ UNCHANGED <<program, array, nready, consumer, i, mismatches>>

(* Faulty: the test comes after the increment.                              *)
Announce_Late(p) ==
  /\ pc[p] = "announce"
  /\ nready' = nready + 1
  /\ consumer' = IF nready' = 0 /\ consumer = "blocked" THEN "wait" ELSE consumer
  /\ pc' = [pc EXCEPT ![p] = "put"]
  /\ UNCHANGED <<program, array, i, mismatches>>

(* The consumer is signalled when the count is still zero.                  *)
Announce(p) ==
  /\ pc[p] = "announce"
  /\ consumer' = IF nready = 0 /\ consumer = "blocked" THEN "wait" ELSE consumer
  /\ nready' = nready + 1
  /\ pc' = [pc EXCEPT ![p] = "put"]
  /\ UNCHANGED <<program, array, i, mismatches>>

-----------------------------------------------------------------------------
(* consume *)

(* main of prodcons2 has joined the producers.                              *)
CreateConsumer ==
  /\ consumer = "none"
  /\ \A p \in Producers : pc[p] = "returned"
  /\ consumer' = "check"
  /\ UNCHANGED <<program, array, nready, pc, i, mismatches>>

(* consume_wait of prodcons3. A look that comes too early changes nothing.  *)
SpinUntilPut ==
  /\ program = "prodcons3" /\ consumer = "wait"
  /\ i < nput
  /\ consumer' = "check"
  /\ UNCHANGED <<program, array, nready, pc, i, mismatches>>

WaitReady ==
  /\ program = "prodcons6" /\ consumer = "wait"
  /\ \/ nready = 0 /\ consumer' = "blocked" /\ UNCHANGED nready
     \/ nready > 0 /\ consumer' = "check" /\ nready' = nready - 1
  /\ UNCHANGED <<program, array, pc, i, mismatches>>

SpuriousWakeup ==
  /\ consumer = "blocked"
  /\ consumer' = "wait"
  /\ UNCHANGED <<program, array, nready, pc, i, mismatches>>

(* buff[i] is compared with i, and the loop goes on or ends.                *)
Check ==
  /\ consumer = "check"
  /\ mismatches' = IF buff[i] = i THEN mismatches ELSE mismatches + 1
  /\ i' = i + 1
  /\ consumer' = IF i' = nitems THEN "returned" ELSE IF program = "prodcons2" THEN "check" ELSE "wait"
  /\ UNCHANGED <<program, array, nready, pc>>

produce(p) == Put(p) \/ ArrayFull(p) \/ Announce(p)
consume == SpinUntilPut \/ WaitReady \/ Check

Joined ==
  /\ consumer = "returned" /\ \A p \in Producers : pc[p] = "returned"
  /\ UNCHANGED vars

Next ==
  \/ CreateConsumer \/ consume \/ SpuriousWakeup \/ Joined
  \/ \E p \in Producers : produce(p)

(* Threads run. The mutexes are held for a moment and are fair.             *)
Fairness ==
  /\ WF_vars(CreateConsumer) /\ WF_vars(consume)
  /\ \A p \in Producers : WF_vars(produce(p))

Spec == Init /\ [][Next]_vars /\ Fairness

-----------------------------------------------------------------------------
(* The consumer returns having found every item in its place. In prodcons6  *)
(* nready only counts: the increment it waited for may be that of a later   *)
(* item, whose producer overtook the one of item i.                         *)
EveryItemFound == <>(consumer = "returned" /\ mismatches = 0)
=============================================================================
