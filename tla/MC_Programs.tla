----------------------------- MODULE MC_Programs -----------------------------
(***************************************************************************)
(* Model-checks the smaller programs in one run: MmapSem, MqNotify,        *)
(* ShmRing, MsgServer, MutexProdCons and Shutdown. They share nothing. A   *)
(* behaviour runs one of them, chosen initially, while the variables of    *)
(* the others keep one initial value, so the states of the run are the sum *)
(* of theirs and not the product.                                          *)
(*                                                                         *)
(* sem: four callers; stranding needs two blocked ones and a poster, and   *)
(* the fourth can steal the count. mq: a queue of up to three messages,    *)
(* empty or not when the program registers, and five sends, which is       *)
(* enough for messages to arrive in every phase of two passes of reading.  *)
(* ring: three clients of two messages on two slots, so that the ring      *)
(* overflows, wraps, and is claimed by two clients at once. msg: two       *)
(* clients, and replies of one to three messages on queues of two, so that *)
(* a killed client blocks its child. mutex: three producers, two of which  *)
(* can overtake the third, and six items. shut: the five mains, two        *)
(* network threads and two signals.                                        *)
(***************************************************************************)
EXTENDS Integers, Sequences, FiniteSets

CONSTANTS
  Procs, InitialValue, MaxValue,                                (* sem      *)
  Main, Threads, Capacity, MaxSends,                            (* mq       *)
  Clients, NMESG, NLOOP,                                        (* ring     *)
  FileClients, QueueSize, MaxLines,                             (* msg      *)
  Producers, nitems,                                            (* mutex    *)
  NetThreads, MaxSignals, MaxNodes                              (* shut     *)

(* mutex: main starts a producer and counts an item at least. msg: a key is *)
(* not the identifier of a client's queue.                                  *)
ASSUME ProgramsAssumption ==
  /\ InitialValue \in Nat /\ MaxValue \in Nat
  /\ Capacity \in Nat /\ MaxLines \in Nat
  /\ "MQ_KEY1" \notin FileClients
  /\ NMESG \in Nat \ {0} /\ nitems \in Nat \ {0}
  /\ IsFiniteSet(Producers) /\ Producers # {}
  /\ IsFiniteSet(Threads) /\ IsFiniteSet(Clients) /\ IsFiniteSet(NetThreads)

VARIABLES
  system,                                              (* the one that runs *)
  sem_count, caller, unsignalled,
  mqprogram, nmsg, sends, registered, pending, mark, mqpc, preloaded, overtaken,
  nempty, nstored, nput, msgdata, pc, i, offset, noverflow, server, index,
  claimed, printed, early,
  msgprogram, lines, key2, queue, msgserver, job, client, got,
  arrayprogram, buff, stored, nval, nready, producer, consumer, k, mismatches,
  socketserver, signals, mpc, hpc, onMain, mutex, bstop, missed, stopped,
  guard, net, open, nodes, worker, _b_stop, cserver, context

semVars == <<sem_count, caller, unsignalled>>
mqVars ==
  <<mqprogram, nmsg, sends, registered, pending, mark, mqpc, preloaded, overtaken>>
ringVars ==
  <<nempty, nstored, nput, msgdata, pc, i, offset, noverflow, server, index,
    claimed, printed, early>>
msgVars == <<msgprogram, lines, key2, queue, msgserver, job, client, got>>
mutexVars ==
  <<arrayprogram, buff, stored, nval, nready, producer, consumer, k, mismatches>>
shutVars ==
  <<socketserver, signals, mpc, hpc, onMain, mutex, bstop, missed, stopped,
    guard, net, open, nodes, worker, _b_stop, cserver, context>>

Sem == INSTANCE MmapSem WITH pc <- caller
Mq == INSTANCE MqNotify WITH program <- mqprogram, pc <- mqpc
Ring == INSTANCE ShmRing
Msg == INSTANCE MsgServer WITH
  Clients <- FileClients, Capacity <- QueueSize, program <- msgprogram, server <- msgserver
Mutex == INSTANCE MutexProdCons WITH
  program <- arrayprogram, nput <- stored, pc <- producer, i <- k
Shut == INSTANCE Shutdown WITH program <- socketserver, server <- cserver

vars == <<system, semVars, mqVars, ringVars, msgVars, mutexVars, shutVars>>

Init ==
  /\ system \in {"sem", "mq", "ring", "msg", "mutex", "shut"}
  /\ Sem!Init
  /\ Mq!Init /\ (system # "mq" => mqprogram = "sig1" /\ nmsg = 0)
  /\ Ring!Init
  /\ Msg!Init /\ (system # "msg" => /\ msgprogram = "svmsgcliserv"
                                   /\ \A c \in FileClients : lines[c] = 0)
  /\ Mutex!Init /\ (system # "mutex" => arrayprogram = "prodcons2")
  /\ Shut!Init /\ (system # "shut" => socketserver = "LogicServer02")

Next ==
  /\ \/ /\ system = "sem" /\ Sem!Next
        /\ UNCHANGED <<mqVars, ringVars, msgVars, mutexVars, shutVars>>
     \/ /\ system = "mq" /\ Mq!Next
        /\ UNCHANGED <<semVars, ringVars, msgVars, mutexVars, shutVars>>
     \/ /\ system = "ring" /\ Ring!Next
        /\ UNCHANGED <<semVars, mqVars, msgVars, mutexVars, shutVars>>
     \/ /\ system = "msg" /\ Msg!Next
        /\ UNCHANGED <<semVars, mqVars, ringVars, mutexVars, shutVars>>
     \/ /\ system = "mutex" /\ Mutex!Next
        /\ UNCHANGED <<semVars, mqVars, ringVars, msgVars, shutVars>>
     \/ /\ system = "shut" /\ Shut!Next
        /\ UNCHANGED <<semVars, mqVars, ringVars, msgVars, mutexVars>>
  /\ UNCHANGED system

Fairness ==
  \/ system = "sem" /\ Sem!Fairness
  \/ system = "mq" /\ Mq!Fairness
  \/ system = "ring" /\ Ring!Fairness
  \/ system = "msg" /\ Msg!Fairness
  \/ system = "mutex" /\ Mutex!Fairness
  \/ system = "shut" /\ Shut!Fairness

Spec == Init /\ [][Next]_vars /\ Fairness

(* The properties of the modules, each for the program that runs.           *)
WakeupUnderWay == Sem!WakeupUnderWay
NobodyStranded == system = "sem" => Sem!NobodyStranded
RefinesSemaphore == Sem!RefinesSemaphore
OneRegistration == Mq!OneRegistration
QueueIsEmptied == system = "mq" => Mq!QueueIsEmptied
RingInOrder == Ring!RingInOrder
EverySendAccounted == system = "ring" => Ring!EverySendAccounted
EveryItemFound == system = "mutex" => Mutex!EveryItemFound
ContextOutlivesThreads == Shut!ContextOutlivesThreads
SignalEndsProcess == system = "shut" => Shut!SignalEndsProcess
=============================================================================
