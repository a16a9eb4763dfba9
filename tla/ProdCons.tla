------------------------------ MODULE ProdCons ------------------------------
(***************************************************************************)
(* pxsem/prodcons4: several producers and several consumers share a ring   *)
(* of NBUFF items guarded by the semaphores mutex, nempty and nstored, and *)
(* every thread stops by itself after nitems items.                        *)
(*                                                                         *)
(* What happens between Sem_wait and Sem_post of mutex is one step: the    *)
(* other threads only ever wait on or post to the other two semaphores     *)
(* meanwhile. nputval moves with nput and ngetval with nget, from zero, so *)
(* an item is named by its number.                                         *)
(***************************************************************************)
EXTENDS Integers, FiniteSets

CONSTANTS
  Producers,
  Consumers,
  NBUFF,        (* slots in the ring                                        *)
  nitems        (* items to produce in all                                  *)

ASSUME ProdConsAssumption ==
  /\ IsFiniteSet(Producers) /\ Producers # {}
  /\ IsFiniteSet(Consumers) /\ Producers \intersect Consumers = {}
  /\ NBUFF \in Nat \ {0}
  /\ nitems \in Nat

VARIABLES
  buff,         (* the ring; -1 where nothing has been stored yet           *)
  nput,         (* number of the next item to store                         *)
  nget,         (* number of the next item to fetch                         *)
  nempty,       (* semaphore: slots a producer may claim                    *)
  nstored,      (* semaphore: items a consumer may claim                    *)
  pc            (* "wait" for nempty or nstored, "lock" the mutex, "post"   *)
                (* to the other side, or "done"                             *)

vars == <<buff, nput, nget, nempty, nstored, pc>>

Threads == Producers \union Consumers
Slots == 0..(NBUFF - 1)
Slot(n) == n % NBUFF
Goto(t, label) == pc' = [pc EXCEPT ![t] = label]

Init ==
  /\ buff = [i \in Slots |-> -1]
  /\ nput = 0
  /\ nget = 0
  /\ nempty = NBUFF
  /\ nstored = 0
  /\ pc = [t \in Threads |-> "wait"]

-----------------------------------------------------------------------------
(* produce *)

(* Faulty: a producer does not wait for an empty slot.                      *)
ClaimEmpty_NoWait(p) ==
  /\ pc[p] = "wait"
  /\ Goto(p, "lock")
  /\ UNCHANGED <<buff, nput, nget, nempty, nstored>>

ClaimEmpty(p) ==
  /\ pc[p] = "wait"
  /\ nempty > 0
  /\ nempty' = nempty - 1
  /\ Goto(p, "lock")
  /\ UNCHANGED <<buff, nput, nget, nstored>>

Put(p) ==
  /\ pc[p] = "lock"
  /\ nput < nitems
  /\ buff' = [buff EXCEPT ![Slot(nput)] = nput]
  /\ nput' = nput + 1
  /\ Goto(p, "post")
  /\ UNCHANGED <<nget, nempty, nstored>>

PostStored(p) ==
  /\ pc[p] = "post"
  /\ nstored' = nstored + 1
  /\ Goto(p, "wait")
  /\ UNCHANGED <<buff, nput, nget, nempty>>

(* Faulty: a producer stops one item early.                                 *)
ProducerDone_Early(p) ==
  /\ pc[p] = "lock"
  /\ nput >= nitems - 1
  /\ nstored' = nstored + 1
  /\ nempty' = nempty + 1
  /\ Goto(p, "done")
  /\ UNCHANGED <<buff, nput, nget>>

(* All items are stored: give the slot back and let consumers terminate.    *)
ProducerDone(p) ==
  /\ pc[p] = "lock"
  /\ nput >= nitems
  /\ nstored' = nstored + 1
  /\ nempty' = nempty + 1
  /\ Goto(p, "done")
  /\ UNCHANGED <<buff, nput, nget>>

-----------------------------------------------------------------------------
(* consume *)
ClaimStored(c) ==
  /\ pc[c] = "wait"
  /\ nstored > 0
  /\ nstored' = nstored - 1
  /\ Goto(c, "lock")
  /\ UNCHANGED <<buff, nput, nget, nempty>>

(* The comparison of the item with ngetval only prints.                     *)
Get(c) ==
  /\ pc[c] = "lock"
  /\ nget < nitems
  /\ nget' = nget + 1
  /\ Goto(c, "post")
  /\ UNCHANGED <<buff, nput, nempty, nstored>>

PostEmpty(c) ==
  /\ pc[c] = "post"
  /\ nempty' = nempty + 1
  /\ Goto(c, "wait")
  /\ UNCHANGED <<buff, nput, nget, nstored>>

(* Faulty: the consumer that stops keeps the token it stopped with.         *)
ConsumerDone_KeepsToken(c) ==
  /\ pc[c] = "lock"
  /\ nget >= nitems
  /\ Goto(c, "done")
  /\ UNCHANGED <<buff, nput, nget, nempty, nstored>>

(* All items are fetched: pass the token on to the next consumer.           *)
ConsumerDone(c) ==
  /\ pc[c] = "lock"
  /\ nget >= nitems
  /\ nstored' = nstored + 1
  /\ Goto(c, "done")
  /\ UNCHANGED <<buff, nput, nget, nempty>>

-----------------------------------------------------------------------------
produce(p) == ClaimEmpty(p) \/ Put(p) \/ PostStored(p) \/ ProducerDone(p)
consume(c) == ClaimStored(c) \/ Get(c) \/ PostEmpty(c) \/ ConsumerDone(c)

(* main has joined every thread.                                            *)
Joined == (\A t \in Threads : pc[t] = "done") /\ UNCHANGED vars

Next ==
  \/ \E p \in Producers : produce(p)
  \/ \E c \in Consumers : consume(c)
  \/ Joined

(* The scheduler runs every thread that can go on.                          *)
Fairness == /\ \A p \in Producers : WF_vars(produce(p))
            /\ \A c \in Consumers : WF_vars(consume(c))

Spec == Init /\ [][Next]_vars /\ Fairness

-----------------------------------------------------------------------------
(* Each variable has its type.                                              *)
TypeOK ==
  /\ buff \in [Slots -> Int]
  /\ nput \in 0..nitems
  /\ nget \in 0..nitems
  /\ nempty \in Nat
  /\ nstored \in Nat
  /\ pc \in [Threads -> {"wait", "lock", "post", "done"}]

(* A stopping producer posts nstored without having stored anything: still  *)
(* a consumer that goes on to fetch finds an item, and the one it expects   *)
(* ("error: buff[%d]" is never printed).                                    *)
FetchesExpectedItem ==
  \A c \in Consumers :
    pc[c] = "lock" /\ nget < nitems => nget < nput /\ buff[Slot(nget)] = nget

(* The ring never holds more than NBUFF items, and no item is overwritten   *)
(* before it has been fetched.                                              *)
NothingOverwritten ==
  /\ nput - nget <= NBUFF
  /\ \A n \in nget..(nput - 1) : buff[Slot(n)] = n

(* Every thread stops, whoever stores or fetches the last item: the token   *)
(* of the first producer to stop is passed on from consumer to consumer.    *)
EveryThreadStops == <>(\A t \in Threads : pc[t] = "done")
=============================================================================
