------------------------------ MODULE MsgServer ------------------------------
(***************************************************************************)
(* The file servers over System V message queues: svmsgcliserv (one queue  *)
(* in each direction, one request), svmsgmpx1q (replies are told apart by  *)
(* type) and svmsgmpxnq (a queue for each client, a child for each         *)
(* request). A reply is the lines of the file, or one line that says it    *)
(* could not be opened, and a message of length zero as the end mark.      *)
(*                                                                         *)
(* Who listens where follows the mains. Those of svmsgcliserv and          *)
(* svmsgmpx1q do not fit their servers: the first client reads the queue   *)
(* of the requests, the second one a queue nobody writes to. A client may  *)
(* be killed at any time; its queue remains.                               *)
(***************************************************************************)
EXTENDS Naturals, Sequences, SequencesExt

CONSTANTS
  Clients,
  Capacity,     (* messages a queue holds                                   *)
  MaxLines      (* bound: lines of a file                                   *)

Programs == {"svmsgcliserv", "svmsgmpx1q", "svmsgmpxnq"}

VARIABLES
  program,
  lines,        (* lines[c]: lines of the reply to c                        *)
  key2,         (* the queue MQ_KEY2 exists                                 *)
  queue,        (* the queues "MQ_KEY1" and "MQ_KEY2", and one per client   *)
  server,       (* "ready" (in Mesg_recv), "busy" or "gone"                 *)
  job,          (* job[c]: messages the server, or its child, still owes c  *)
  client,       (* client[c]: "start", "read", "done", "failed" or "killed" *)
  got           (* got[c]: lines c has printed                              *)

vars == <<program, lines, key2, queue, server, job, client, got>>

Queues == {"MQ_KEY1", "MQ_KEY2"} \cup Clients

(* Without a server of svmsgcliserv MQ_KEY2 may or may not be there. The    *)
(* pathname is empty only in svmsgcliserv: elsewhere a pid or a queue id    *)
(* precedes it, and a message is never empty.                               *)
Init ==
  /\ program \in Programs
  /\ lines \in [Clients -> 0..MaxLines]
  /\ key2 \in IF program = "svmsgcliserv" THEN {TRUE} ELSE BOOLEAN
  /\ queue = [q \in Queues |-> <<>>]
  /\ server = "ready"
  /\ job = [c \in Clients |-> 0]
  /\ client = [c \in Clients |-> "start"]
  /\ got = [c \in Clients |-> 0]

(* The queues that the client reads, and that the server writes for it.     *)
ReadId(c) == CASE program = "svmsgcliserv" -> "MQ_KEY1"
               [] program = "svmsgmpx1q" -> "MQ_KEY2"
               [] program = "svmsgmpxnq" -> c
WriteId(c) == CASE program = "svmsgcliserv" -> "MQ_KEY2"
                [] program = "svmsgmpx1q" -> "MQ_KEY1"
                [] program = "svmsgmpxnq" -> c

(* The type is 1 except in the replies of svmsgmpx1q, which carry the pid.  *)
Type(m) == IF program = "svmsgmpx1q" /\ m.kind # "request" THEN m.for ELSE "1"

(* msgrcv waits for a message of the type, and takes the first.             *)
Matching(q, type) == {k \in 1..Len(queue[q]) : Type(queue[q][k]) = type}
Received(q, type, m) ==
  /\ Matching(q, type) # {}
  /\ m = queue[q][Min(Matching(q, type))]
  /\ queue' = [queue EXCEPT ![q] = RemoveAt(@, Min(Matching(q, type)))]

(* msgsnd waits while the queue is full.                                    *)
Room(q) == Len(queue[q]) < Capacity
Sent(q, m) == Room(q) /\ queue' = [queue EXCEPT ![q] = Append(@, m)]

Message(kind, c) == [kind |-> kind, for |-> c]
Messages == [kind : {"request", "empty", "line", "end"}, for : Clients]

-----------------------------------------------------------------------------
(* The client.                                                              *)

(* Msgget(MQ_KEY2, NULL) does not create the queue.                         *)
OpenFails(c) ==
  /\ client[c] = "start"
  /\ program = "svmsgmpx1q" /\ ~key2
  /\ client' = [client EXCEPT ![c] = "failed"]
  /\ UNCHANGED <<program, lines, key2, queue, server, job, got>>

SendRequest(c) ==
  /\ client[c] = "start"
  /\ program = "svmsgmpx1q" => key2
  /\ \/ Sent("MQ_KEY1", Message("request", c))
     \/ program = "svmsgcliserv" /\ Sent("MQ_KEY1", Message("empty", c))
  /\ client' = [client EXCEPT ![c] = "read"]
  /\ UNCHANGED <<program, lines, key2, server, job, got>>

(* Mesg_recv and Write, until a message of length zero. svmsgmpxnq then     *)
(* removes the client's queue. In svmsgmpx1q no message ever comes.         *)
ReadReply(c) ==
  /\ client[c] = "read"
  /\ program # "svmsgmpx1q"
  /\ \E m \in Messages :
       /\ Received(ReadId(c), "1", m)
       /\ IF m.kind \in {"empty", "end"}
          THEN client' = [client EXCEPT ![c] = "done"] /\ UNCHANGED got
          ELSE got' = [got EXCEPT ![c] = @ + 1] /\ UNCHANGED client
  /\ UNCHANGED <<program, lines, key2, server, job>>

Kill(c) ==
  /\ client[c] = "read"
  /\ client' = [client EXCEPT ![c] = "killed"]
  /\ UNCHANGED <<program, lines, key2, queue, server, job, got>>

-----------------------------------------------------------------------------
(* The server.                                                              *)


(* svmsgmpxnq forks and loops around; the others answer by themselves.      *)
Fork == IF program = "svmsgmpxnq" THEN "ready" ELSE "busy"

(* err_quit without a pathname; otherwise the file's lines and the end mark *)
(* are to be sent. A fork that fails ends the server (err_sys), and the     *)
(* request it has received is lost.                                         *)
ReceiveRequest ==
  /\ server = "ready"
  /\ \E m \in Messages :
       /\ Received("MQ_KEY1", "1", m)
       /\ IF m.kind = "empty"
          THEN server' = "gone" /\ UNCHANGED job
          ELSE \/ server' = Fork /\ job' = [job EXCEPT ![m.for] = lines[m.for] + 1]
               \/ program = "svmsgmpxnq" /\ server' = "gone" /\ UNCHANGED job
  /\ UNCHANGED <<program, lines, key2, client, got>>

SendReply(c) ==
  /\ job[c] > 0
  /\ Sent(WriteId(c), Message(IF job[c] = 1 THEN "end" ELSE "line", c))
  /\ job' = [job EXCEPT ![c] = @ - 1]
  /\ server' = CASE job[c] > 1 \/ server # "busy" -> server
                 [] program = "svmsgcliserv" -> "gone"
                 [] OTHER -> "ready"
  /\ UNCHANGED <<program, lines, key2, client, got>>

Client(c) == OpenFails(c) \/ SendRequest(c) \/ ReadReply(c)
Server == ReceiveRequest \/ \E c \in Clients : SendReply(c)

(* Nobody can go on: everything has been answered, or everybody waits for   *)
(* a message, or for room in a queue, that will not come.                   *)
Stuck ==
  /\ server = "ready" => Matching("MQ_KEY1", "1") = {}
  /\ \A c \in Clients :
       /\ job[c] > 0 => ~Room(WriteId(c))
       /\ client[c] = "start" => ~Room("MQ_KEY1") /\ (program = "svmsgmpx1q" => key2)
       /\ client[c] = "read" => program = "svmsgmpx1q" \/ Matching(ReadId(c), "1") = {}
  /\ UNCHANGED vars

Next == Server \/ Stuck \/ \E c \in Clients : Client(c) \/ Kill(c)

(* Every process runs when it can; nobody has to be killed.                 *)
Fairness ==
  /\ \A c \in Clients : WF_vars(SendRequest(c)) /\ WF_vars(ReadReply(c)) /\ WF_vars(SendReply(c))
  /\ WF_vars(ReceiveRequest)

Spec == Init /\ [][Next]_vars /\ Fairness

-----------------------------------------------------------------------------
=============================================================================
