------------------------------- MODULE ShmRing -------------------------------
(***************************************************************************)
(* The message ring in shared memory of pxshm: clients (client2) put       *)
(* messages into NMESG slots and the server (server2) prints them. nempty  *)
(* and nstored count slots, a mutex guards the indexes. A client that      *)
(* finds no empty slot drops its message and counts an overflow. It claims *)
(* its slot under the mutex and copies the message after releasing it, so  *)
(* a message claimed later can be announced first.                         *)
(*                                                                         *)
(* Each critical section is one step; filling a slot is the interval from  *)
(* "fill" to "post". The server's look at noverflow only prints it.        *)
(***************************************************************************)
EXTENDS Naturals, Sequences, FiniteSets

CONSTANTS
  Clients,
  NMESG,        (* slots                                                    *)
  NLOOP         (* messages each client tries to send                       *)

Slots == 0..NMESG - 1
Free == <<>>    (* the content of a slot nobody has filled                  *)

VARIABLES
  nempty,       (* value of the semaphore nempty                            *)
  nstored,      (* value of the semaphore nstored                           *)
  nput,         (* index of the next slot to claim                          *)
  msgdata,      (* the slots                                                *)
  pc,           (* pc[c]: "try", "claim", "fill" or "post"                  *)
  i,            (* i[c]: loop counter; the message is <<c, i[c]>>           *)
  offset,       (* offset[c]: the slot it has claimed                       *)
  noverflow,    (* messages dropped                                         *)
  server,       (* "wait", "print" or "release"                             *)
  index,        (* the server's slot                                        *)
  claimed,      (* history: the messages in the order of their claims       *)
  printed,      (* history: what the server has printed                     *)
  early         (* history: it printed a slot that was still being filled   *)

ring == <<nput, msgdata, claimed>>
client == <<pc, i, offset, noverflow>>
serv == <<server, index, printed, early>>
vars == <<nempty, nstored, ring, client, serv>>

Init ==
  /\ nempty = NMESG
  /\ nstored = 0
  /\ nput = 0
  /\ msgdata = [s \in Slots |-> Free]
  /\ pc = [c \in Clients |-> "try"]
  /\ i = [c \in Clients |-> 0]
  /\ offset = [c \in Clients |-> 0]
  /\ noverflow = 0
  /\ server = "wait"
  /\ index = 0
  /\ claimed = <<>>
  /\ printed = <<>>
  /\ early = FALSE

Following(slot) == IF slot + 1 >= NMESG THEN 0 ELSE slot + 1

-----------------------------------------------------------------------------
(* A client.                                                                *)

(* Faulty: the result of sem_trywait is not looked at.                      *)
TryEmpty_Ignored(c) ==
  /\ pc[c] = "try" /\ i[c] < NLOOP
  /\ nempty' = IF nempty > 0 THEN nempty - 1 ELSE 0
  /\ pc' = [pc EXCEPT ![c] = "claim"]
  /\ UNCHANGED <<nstored, ring, i, offset, noverflow, serv>>

(* sem_trywait(nempty) succeeds, or fails with EAGAIN: count the overflow   *)
(* and continue with the next message.                                      *)
TryEmpty(c) ==
  /\ pc[c] = "try" /\ i[c] < NLOOP
  /\ \/ /\ nempty > 0
        /\ nempty' = nempty - 1
        /\ pc' = [pc EXCEPT ![c] = "claim"]
        /\ UNCHANGED <<i, noverflow>>
     \/ /\ nempty = 0
        /\ noverflow' = noverflow + 1
        /\ i' = [i EXCEPT ![c] = @ + 1]
        /\ UNCHANGED <<nempty, pc>>
  /\ UNCHANGED <<nstored, ring, offset, serv>>

(* Under the mutex: take the slot nput and advance it.                      *)
Claim(c) ==
  /\ pc[c] = "claim"
  /\ offset' = [offset EXCEPT ![c] = nput]
  /\ nput' = Following(nput)
  /\ claimed' = Append(claimed, <<c, i[c]>>)
  /\ pc' = [pc EXCEPT ![c] = "fill"]
  /\ UNCHANGED <<nempty, nstored, msgdata, i, noverflow, serv>>

(* strcpy has finished.                                                     *)
Fill(c) ==
  /\ pc[c] = "fill"
  /\ msgdata' = [msgdata EXCEPT ![offset[c]] = <<c, i[c]>>]
  /\ pc' = [pc EXCEPT ![c] = "post"]
  /\ UNCHANGED <<nempty, nstored, nput, claimed, i, offset, noverflow, serv>>

(* Faulty: the message is not announced.                                    *)
PostStored_Forgotten(c) ==
  /\ pc[c] = "post"
  /\ i' = [i EXCEPT ![c] = @ + 1]
  /\ pc' = [pc EXCEPT ![c] = "try"]
  /\ UNCHANGED <<nempty, nstored, ring, offset, noverflow, serv>>

PostStored(c) ==
  /\ pc[c] = "post"
  /\ nstored' = nstored + 1
  /\ i' = [i EXCEPT ![c] = @ + 1]
  /\ pc' = [pc EXCEPT ![c] = "try"]
  /\ UNCHANGED <<nempty, ring, offset, noverflow, serv>>

-----------------------------------------------------------------------------
(* The server.                                                              *)

WaitStored ==
  /\ server = "wait" /\ nstored > 0
  /\ nstored' = nstored - 1
  /\ server' = "print"
  /\ UNCHANGED <<nempty, ring, client, index, printed, early>>

(* Under the mutex: print the slot and advance the index.                   *)
PrintSlot ==
  /\ server = "print"
  /\ printed' = Append(printed, msgdata[index])
  /\ early' = (early \/ \E c \in Clients : pc[c] = "fill" /\ offset[c] = index)
  /\ index' = Following(index)
  /\ server' = "release"
  /\ UNCHANGED <<nempty, nstored, ring, client>>

PostEmpty ==
  /\ server = "release"
  /\ nempty' = nempty + 1
  /\ server' = "wait"
  /\ UNCHANGED <<nstored, ring, client, index, printed, early>>

Client(c) == TryEmpty(c) \/ Claim(c) \/ Fill(c) \/ PostStored(c)
Server == WaitStored \/ PrintSlot \/ PostEmpty

(* The clients have exited; the server waits for more.                      *)
AllSent == \A c \in Clients : pc[c] = "try" /\ i[c] = NLOOP
Idle == AllSent /\ server = "wait" /\ nstored = 0 /\ UNCHANGED vars

Next == Server \/ Idle \/ \E c \in Clients : Client(c)

Fairness == WF_vars(Server) /\ \A c \in Clients : WF_vars(Client(c))

Spec == Init /\ [][Next]_vars /\ Fairness

-----------------------------------------------------------------------------
(* The server prints the messages in the order of their claims and no slot  *)
(* has two writers, until it has printed a slot that was still being        *)
(* filled. The server never gets ahead of the claims, even then, and they   *)
(* are never more than the slots ahead of it.                               *)
RingInOrder ==
  /\ Len(printed) <= Len(claimed) /\ Len(claimed) <= Len(printed) + NMESG
  /\ \/ early
     \/ /\ printed = SubSeq(claimed, 1, Len(printed))
        /\ \A c, d \in Clients :
             pc[c] = "fill" /\ pc[d] = "fill" /\ c # d => offset[c] # offset[d]

(* Every message is printed or counted as an overflow in the end.           *)
EverySendAccounted ==
  <>(AllSent /\ Len(printed) + noverflow = Cardinality(Clients) * NLOOP)
=============================================================================
