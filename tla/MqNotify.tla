------------------------------ MODULE MqNotify ------------------------------
(***************************************************************************)
(* The readers of a POSIX message queue that are told of messages by       *)
(* mq_notify: the programs mqnotifysig1..5 and mqnotifythread1. The kernel *)
(* notifies only when a message arrives on an empty queue while a process  *)
(* is registered, and the notification uses the registration up. Each      *)
(* program registers again and then reads, one message (sig1, sig2) or     *)
(* until the queue is empty.                                               *)
(*                                                                         *)
(* The programs differ in what becomes of the signal: a handler that does  *)
(* everything (sig1), sigwait (sig4), a handler that sets mqflag (sig2,    *)
(* sig3) or writes a byte to a pipe (sig5), or, without a signal, a new    *)
(* thread for each notification (thread1). A message is only counted.      *)
(***************************************************************************)
EXTENDS Naturals, FiniteSets

CONSTANTS
  Main,         (* the thread that runs main                                *)
  Threads,      (* the threads that notifications may start (thread1)       *)
  Capacity,     (* mq_maxmsg of the queue                                   *)
  MaxSends      (* bound: messages sent while the program runs              *)

Programs == {"sig1", "sig2", "sig3", "sig4", "sig5", "thread1"}
Readers == {Main} \cup Threads

VARIABLES
  program,      (* the one that runs                                        *)
  nmsg,         (* messages in the queue                                    *)
  sends,        (* messages sent                                            *)
  registered,   (* the queue has a registration                             *)
  pending,      (* SIGUSR1 is pending                                       *)
  mark,         (* mqflag, or the bytes in the pipe                         *)
  pc,           (* pc[r]: "absent", "notify" (before Mq_notify), "read",    *)
                (* "wait" (main, for a notification), or "gone"             *)
  preloaded,    (* history: the queue was not empty at the registration     *)
  overtaken     (* history: a message arrived while the queue was not empty *)

queue == <<nmsg, sends, overtaken>>
vars == <<program, queue, registered, pending, mark, pc, preloaded>>

SingleRead == program \in {"sig1", "sig2"}
InHandler == program \in {"sig2", "sig3", "sig5"}

Init ==
  /\ program \in Programs
  /\ nmsg \in 0..Capacity
  /\ sends = 0
  /\ registered = FALSE
  /\ pending = FALSE
  /\ mark = 0
  /\ pc = [r \in Readers |-> IF r = Main THEN "start" ELSE "absent"]
  /\ preloaded = FALSE
  /\ overtaken = FALSE

-----------------------------------------------------------------------------
(* The kernel and the senders.                                              *)

(* The notification: a signal, which does not queue, or a new thread.       *)
Notify ==
  /\ registered' = FALSE
  /\ IF program = "thread1"
     THEN /\ \E t \in Threads : pc[t] = "absent" /\ pc' = [pc EXCEPT ![t] = "notify"]
          /\ UNCHANGED pending
     ELSE pending' = TRUE /\ UNCHANGED pc

(* A message arrives. The kernel would hand it to a reader blocked in       *)
(* mq_receive and notify nobody, but no reader ever is: the queues of       *)
(* sig3..5 and thread1 do not block, and sig1 and sig2 read when a message  *)
(* has notified them, which they find there (theorem ReaderFindsMessage in  *)
(* ProgramsProofs).                                                         *)
Arrive ==
  /\ nmsg < Capacity
  /\ sends < MaxSends
  /\ sends' = sends + 1
  /\ nmsg' = nmsg + 1
  /\ overtaken' = (overtaken \/ nmsg > 0)
  /\ IF nmsg = 0 /\ registered
     THEN Notify
     ELSE UNCHANGED <<registered, pending, pc>>
  /\ UNCHANGED <<program, mark, preloaded>>

-----------------------------------------------------------------------------
(* The programs.                                                            *)

(* main: Mq_notify; messages that are in the queue by now notify nobody.    *)
Register ==
  /\ pc[Main] = "start"
  /\ registered' = TRUE
  /\ preloaded' = (nmsg > 0)
  /\ pc' = [pc EXCEPT ![Main] = "wait"]
  /\ UNCHANGED <<program, queue, pending, mark>>

(* sig_usr1 sets mqflag, or writes a byte. In sig2 and sig3 the signal is   *)
(* blocked from the test of mqflag to the end of the reading, except in     *)
(* sigsuspend; in sig5 it is never blocked.                                 *)
Handler ==
  /\ InHandler /\ pending
  /\ program = "sig5" \/ pc[Main] = "wait"
  /\ pending' = FALSE
  /\ mark' = IF program = "sig5" THEN mark + 1 ELSE 1
  /\ UNCHANGED <<program, queue, registered, pc, preloaded>>

(* Faulty: mqflag is not reset.                                             *)
TakeMark_Keeps ==
  /\ mark > 0
  /\ pc[Main] = "wait"
  /\ pc' = [pc EXCEPT ![Main] = "notify"]
  /\ UNCHANGED <<program, queue, registered, pending, mark, preloaded>>

(* mqflag is found set and reset, or select returns and a byte is read.     *)
TakeMark ==
  /\ mark > 0
  /\ pc[Main] = "wait"
  /\ mark' = IF program = "sig5" THEN mark - 1 ELSE 0
  /\ pc' = [pc EXCEPT ![Main] = "notify"]
  /\ UNCHANGED <<program, queue, registered, pending, preloaded>>

(* The handler of sig1 starts, or sigwait returns.                          *)
TakeSignal ==
  /\ program \in {"sig1", "sig4"} /\ pending
  /\ pc[Main] = "wait"
  /\ pending' = FALSE
  /\ pc' = [pc EXCEPT ![Main] = "notify"]
  /\ UNCHANGED <<program, queue, registered, mark, preloaded>>

(* Mq_notify again. With a registration in place it fails with EBUSY, and   *)
(* the wrapper ends the process.                                            *)
NotifyAgain(r) ==
  /\ pc[r] = "notify"
  /\ registered' = TRUE
  /\ pc' = [pc EXCEPT ![r] = IF registered THEN "gone" ELSE "read"]
  /\ UNCHANGED <<program, queue, pending, mark, preloaded>>

(* Faulty: one message is read per notification although the queue is       *)
(* opened for draining.                                                     *)
Receive_One(r) ==
  /\ pc[r] = "read" /\ nmsg > 0
  /\ nmsg' = nmsg - 1
  /\ pc' = [pc EXCEPT ![r] = IF r = Main THEN "wait" ELSE "gone"]
  /\ UNCHANGED <<program, sends, overtaken, registered, pending, mark, preloaded>>

(* mq_receive returns a message. sig1 and sig2 then wait again.             *)
Receive(r) ==
  /\ pc[r] = "read" /\ nmsg > 0
  /\ nmsg' = nmsg - 1
  /\ pc' = IF SingleRead THEN [pc EXCEPT ![r] = "wait"] ELSE pc
  /\ UNCHANGED <<program, sends, overtaken, registered, pending, mark, preloaded>>

(* EAGAIN: the queue is empty and the pass is over.                         *)
Drained(r) ==
  /\ pc[r] = "read" /\ nmsg = 0 /\ ~SingleRead
  /\ pc' = [pc EXCEPT ![r] = IF r = Main THEN "wait" ELSE "gone"]
  /\ UNCHANGED <<program, queue, registered, pending, mark, preloaded>>

Signal == Handler \/ TakeMark \/ TakeSignal
Read(r) == NotifyAgain(r) \/ Receive(r) \/ Drained(r)

(* The senders have sent what they will and nothing is left to do.          *)
Quiescent ==
  /\ sends = MaxSends \/ nmsg = Capacity
  /\ pc[Main] = "wait" /\ ~pending /\ mark = 0
  /\ \A t \in Threads : pc[t] \in {"absent", "gone"}
  /\ UNCHANGED vars

Next ==
  \/ Arrive \/ Register \/ Signal \/ Quiescent
  \/ \E r \in Readers : Read(r)

(* The program runs when it can; nobody has to send.                        *)
Fairness ==
  /\ WF_vars(Register)
  /\ WF_vars(Handler)
  /\ WF_vars(TakeMark \/ TakeSignal)
  /\ \A r \in Readers : WF_vars(Read(r))

Spec == Init /\ [][Next]_vars /\ Fairness

-----------------------------------------------------------------------------
One(b) == IF b THEN 1 ELSE 0

(* The registration is in exactly one place: at the queue, in a signal or   *)
(* mark on its way, or with a reader that is about to give it back. So      *)
(* Mq_notify never finds the queue registered and no two signals merge.     *)
OneRegistration ==
  One(registered) + One(pending) + mark + Cardinality({r \in Readers : pc[r] = "notify"})
    = One(pc[Main] # "start")

(* What arrives is read: no message stays in the queue that waits for an    *)
(* empty queue to notify. The exceptions are those of the programs:         *)
(* messages from before the registration, and sig1 and sig2 when messages   *)
(* arrive faster than one per notification.                                 *)
QueueIsEmptied ==
  (nmsg > 0) ~> (nmsg = 0 \/ preloaded \/ (SingleRead /\ overtaken))
=============================================================================
