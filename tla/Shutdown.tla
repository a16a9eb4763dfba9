------------------------------ MODULE Shutdown ------------------------------
(***************************************************************************)
(* How the socket servers end: the main programs, their signal handling,   *)
(* the Stop of their pools, and what is destroyed in which order while     *)
(* network threads and the LogicSystem worker still run.                   *)
(*                                                                         *)
(* LogicServer01 catches SIGINT with a handler that sets bstop under a     *)
(* mutex and notifies main. The others take the signal in an io_context    *)
(* that main runs. A pool's Stop stops its io_contexts (IoContextPool,     *)
(* StrandPool, whose main ThreadPoolServer has too) or only releases their *)
(* work guards (Coroutine), and joins its threads.                         *)
(*                                                                         *)
(* "The context" is the io_context of the sessions: main's in the two      *)
(* LogicServers, the pool's elsewhere. In IoContextPool there is one per   *)
(* thread, but they are stopped and destroyed together.                    *)
(***************************************************************************)
EXTENDS Naturals, FiniteSets

CONSTANTS
  NetThreads,   (* network threads of a pool                                *)
  MaxSignals,   (* bound: signals sent to the process                       *)
  MaxNodes      (* bound: messages queued in the LogicSystem                *)

Programs == {"LogicServer01", "LogicServer02", "IoContextPool", "StrandPool", "Coroutine"}

VARIABLES
  program,
  signals,      (* signals sent so far                                      *)
  mpc,          (* where main is                                            *)
  hpc,          (* sig_handler of LogicServer01: "none", "lock" or "notify" *)
  onMain,       (* the handler interrupts main and not another thread       *)
  mutex,        (* main holds mutex_quit                                    *)
  bstop,
  missed,       (* main waits, or is about to, and the notification is gone *)
  stopped,      (* the context has been stopped                             *)
  guard,        (* the context's work guard is held                         *)
  net,          (* net[t]: "run" (inside run()) or "left"                   *)
  open,         (* a client is connected                                    *)
  nodes,        (* messages queued or being dealt with in the LogicSystem   *)
  worker,       (* the LogicSystem's worker: "none" (no LogicSystem yet),   *)
                (* "awake", "deciding" (holds _mutex, has found no message  *)
                (* and no _b_stop), "waiting", "ended" or "joined"          *)
  _b_stop,      (* LogicSystem::_b_stop; bstop is LogicServer01's own       *)
  server,       (* the CServer has not been destroyed                       *)
  context       (* the context has not been destroyed                       *)

handler == <<hpc, onMain, bstop, missed>>
traffic == <<open, nodes, worker>>
objects == <<_b_stop, server, context>>
vars == <<program, signals, mpc, handler, mutex, stopped, guard, net, traffic, objects>>

(* One network thread in LogicServer01 and in the coroutine server's pool   *)
(* of size one; in LogicServer02 main itself.                               *)
Init ==
  /\ program \in Programs
  /\ signals = 0
  /\ mpc = IF program = "LogicServer01" THEN "test" ELSE "run"
  /\ hpc = "none" /\ onMain = FALSE
  /\ mutex = FALSE /\ bstop = FALSE /\ missed = FALSE
  /\ stopped = FALSE
  /\ guard = (program \notin {"LogicServer01", "LogicServer02"})
  /\ \E running \in SUBSET NetThreads :
       /\ Cardinality(running) =
            CASE program = "LogicServer02" -> 0
              [] program \in {"LogicServer01", "Coroutine"} -> 1
              [] OTHER -> Cardinality(NetThreads)
       /\ net = [t \in NetThreads |-> IF t \in running THEN "run" ELSE "left"]
  /\ open = FALSE /\ nodes = 0 /\ worker = "none"
  /\ _b_stop = FALSE /\ server = TRUE /\ context = TRUE

(* Some thread can run handlers of the sessions.                            *)
Serving ==
  /\ ~stopped
  /\ IF program = "LogicServer02" THEN mpc = "run" ELSE \E t \in NetThreads : net[t] = "run"

-----------------------------------------------------------------------------
(* Clients, the sessions' handlers, and the LogicSystem worker.             *)

(* The acceptor of IoContextPool and of Coroutine runs on main's io_context.*)
Connect ==
  /\ Serving /\ ~open
  /\ program \in {"IoContextPool", "Coroutine"} => mpc = "run"
  /\ open' = TRUE
  /\ UNCHANGED <<program, signals, mpc, handler, mutex, stopped, guard, net, nodes, worker, objects>>

Disconnect ==
  /\ Serving /\ open
  /\ open' = FALSE
  /\ UNCHANGED <<program, signals, mpc, handler, mutex, stopped, guard, net, nodes, worker, objects>>

(* The first message constructs the LogicSystem. Module LogicSystem has     *)
(* pushing and notifying as the two steps they are.                         *)
PostMsgToQue ==
  /\ Serving /\ open /\ nodes < MaxNodes
  /\ worker # "deciding"
  /\ nodes' = nodes + 1
  /\ worker' = IF worker = "none" \/ (worker = "waiting" /\ nodes = 0) THEN "awake" ELSE worker
  /\ UNCHANGED <<program, signals, mpc, handler, mutex, stopped, guard, net, open, objects>>

DealMsg ==
  /\ worker = "awake" /\ nodes > 0
  /\ nodes' = nodes - 1
  /\ UNCHANGED <<program, signals, mpc, handler, mutex, stopped, guard, net, open, worker, objects>>

(* The worker finds the queue empty: the stop drain has ended, or it is     *)
(* going to wait.                                                           *)
TestQueue ==
  /\ worker = "awake" /\ nodes = 0
  /\ worker' = IF _b_stop THEN "ended" ELSE "deciding"
  /\ UNCHANGED <<program, signals, mpc, handler, mutex, stopped, guard, net, open, nodes, objects>>

WaitConsume ==
  /\ worker = "deciding"
  /\ worker' = "waiting"
  /\ UNCHANGED <<program, signals, mpc, handler, mutex, stopped, guard, net, open, nodes, objects>>

SpuriousConsume ==
  /\ worker = "waiting"
  /\ worker' = "awake"
  /\ UNCHANGED <<program, signals, mpc, handler, mutex, stopped, guard, net, open, nodes, objects>>

(* run() returns: the context is stopped, or nothing keeps it running: no   *)
(* work guard and no outstanding operation. In LogicServer01 the CServer is *)
(* a local of the network thread.                                           *)
LeaveRun(t) ==
  /\ net[t] = "run"
  /\ \/ stopped
     \/ program = "Coroutine" /\ ~guard /\ ~open
  /\ net' = [net EXCEPT ![t] = "left"]
  /\ server' = (server /\ program # "LogicServer01")
  /\ UNCHANGED <<program, signals, mpc, handler, mutex, stopped, guard, traffic, _b_stop, context>>

-----------------------------------------------------------------------------
(* LogicServer01: sig_handler, on main or on another thread, and main.      *)

SignalArrives ==
  /\ signals < MaxSignals
  /\ signals' = signals + 1
  /\ IF program = "LogicServer01" /\ mpc \notin {"locals", "exited"}
     THEN /\ hpc = "none"
          /\ hpc' = "lock"
          /\ onMain' \in BOOLEAN
     ELSE UNCHANGED <<hpc, onMain>>
  /\ UNCHANGED <<program, mpc, mutex, bstop, missed, stopped, guard, net, traffic, objects>>

(* Lock mutex_quit, set bstop, unlock. On main, while main holds the mutex, *)
(* the lock is never granted.                                               *)
SetStop ==
  /\ hpc = "lock" /\ ~mutex
  /\ bstop' = TRUE
  /\ hpc' = "notify"
  /\ UNCHANGED <<program, signals, mpc, onMain, missed, mutex, stopped, guard, net, traffic, objects>>

(* Faulty: the handler only sets the flag.                                  *)
NotifyQuit_Forgotten ==
  /\ hpc = "notify"
  /\ hpc' = "none"
  /\ UNCHANGED <<program, signals, mpc, onMain, bstop, missed, mutex, stopped, guard, net,
                 traffic, objects>>

NotifyQuit ==
  /\ hpc = "notify"
  /\ hpc' = "none"
  /\ mpc' = IF mpc = "waiting" THEN "woken" ELSE mpc
  /\ missed' = (missed \/ mpc \in {"lock", "held"})
  /\ UNCHANGED <<program, signals, onMain, bstop, mutex, stopped, guard, net, traffic, objects>>

MainRuns == ~(onMain /\ hpc # "none")

(* while (!bstop), tested without the mutex.                                *)
TestStop ==
  /\ mpc = "test" /\ MainRuns
  /\ mpc' = IF bstop THEN "stop" ELSE "lock"
  /\ UNCHANGED <<program, signals, handler, mutex, stopped, guard, net, traffic, objects>>

LockQuit ==
  /\ mpc = "lock" /\ MainRuns /\ ~mutex
  /\ mpc' = "held"
  /\ mutex' = TRUE
  /\ UNCHANGED <<program, signals, handler, stopped, guard, net, traffic, objects>>

(* cond_quit.wait without a predicate releases the mutex and blocks.        *)
WaitQuit ==
  /\ mpc = "held" /\ MainRuns
  /\ mpc' = "waiting"
  /\ mutex' = FALSE
  /\ UNCHANGED <<program, signals, handler, stopped, guard, net, traffic, objects>>

SpuriousWakeup ==
  /\ mpc = "waiting"
  /\ mpc' = "woken"
  /\ UNCHANGED <<program, signals, handler, mutex, stopped, guard, net, traffic, objects>>

(* wait takes the mutex again before it returns, and the end of the loop    *)
(* body releases it.                                                        *)
Relock ==
  /\ mpc = "woken" /\ MainRuns /\ ~mutex
  /\ mpc' = "relocked"
  /\ mutex' = TRUE
  /\ missed' = FALSE
  /\ UNCHANGED <<program, signals, hpc, onMain, bstop, stopped, guard, net, traffic, objects>>

UnlockQuit ==
  /\ mpc = "relocked" /\ MainRuns
  /\ mpc' = "test"
  /\ mutex' = FALSE
  /\ UNCHANGED <<program, signals, handler, stopped, guard, net, traffic, objects>>

StopContext ==
  /\ mpc = "stop" /\ MainRuns
  /\ stopped' = TRUE
  /\ mpc' = "join"
  /\ UNCHANGED <<program, signals, handler, mutex, guard, net, traffic, objects>>

-----------------------------------------------------------------------------
(* The other mains: the signal_set's handler, inside main's run().          *)

(* io_context.stop(), then the pool's Stop up to its joins. The io_context  *)
(* of LogicServer02 is the sessions' own.                                   *)
HandleSignal ==
  /\ mpc = "run" /\ signals > 0
  /\ stopped' = (program # "Coroutine")
  /\ guard' = FALSE
  /\ mpc' = IF program = "LogicServer02" THEN "locals" ELSE "join"
  /\ UNCHANGED <<program, signals, handler, mutex, net, traffic, objects>>

(* Faulty: the threads are not waited for.                                  *)
Join_Detached ==
  /\ mpc = "join" /\ MainRuns
  /\ mpc' = "locals"
  /\ UNCHANGED <<program, signals, handler, mutex, stopped, guard, net, traffic, objects>>

Join ==
  /\ mpc = "join" /\ MainRuns
  /\ \A t \in NetThreads : net[t] = "left"
  /\ mpc' = "locals"
  /\ UNCHANGED <<program, signals, handler, mutex, stopped, guard, net, traffic, objects>>

(* The end of main's block: the CServer (unless it has gone with its        *)
(* thread) and main's own io_context.                                       *)
DestroyLocals ==
  /\ mpc = "locals"
  /\ mpc' = "exited"
  /\ server' = FALSE
  /\ context' = (program \notin {"LogicServer01", "LogicServer02"})
  /\ UNCHANGED <<program, signals, handler, mutex, stopped, guard, net, traffic, _b_stop>>

(* Static destruction: ~LogicSystem sets _b_stop and notifies without       *)
(* _mutex, so a worker between its test and its wait does not hear of it    *)
(* (storing first and notifying later only leaves it more time to wait).    *)
StopLogic ==
  /\ mpc = "exited" /\ ~_b_stop /\ worker # "none"
  /\ _b_stop' = TRUE
  /\ worker' = IF worker = "waiting" THEN "awake" ELSE worker
  /\ UNCHANGED <<program, signals, mpc, handler, mutex, stopped, guard, net, open, nodes, server,
                 context>>

(* The join of ~LogicSystem.                                                *)
DestroyLogic ==
  /\ worker = "ended"
  /\ worker' = "joined"
  /\ UNCHANGED <<program, signals, mpc, handler, mutex, stopped, guard, net, open, nodes, objects>>

LogicGone == worker \in {"none", "joined"}

(* The pool's static instance. In the coroutine server both are statics of  *)
(* functions and the pool, constructed first, goes last; the order of two   *)
(* inline static members of SingleTon<T> is not specified, but one          *)
(* destructor runs at a time.                                               *)
DestroyPool ==
  /\ mpc = "exited" /\ context
  /\ LogicGone \/ (program # "Coroutine" /\ ~_b_stop)
  /\ context' = FALSE
  /\ UNCHANGED <<program, signals, mpc, handler, mutex, stopped, guard, net, traffic, _b_stop, server>>

-----------------------------------------------------------------------------
FromClients == Connect \/ Disconnect \/ PostMsgToQue
SigHandler == SetStop \/ NotifyQuit
MainLoop == TestStop \/ LockQuit \/ WaitQuit \/ Relock \/ UnlockQuit \/ StopContext
MainEnd == HandleSignal \/ Join \/ DestroyLocals
Worker == DealMsg \/ TestQueue \/ WaitConsume
Statics == StopLogic \/ DestroyLogic \/ DestroyPool

Gone == mpc = "exited" /\ LogicGone /\ ~context

(* The process has ended, or it waits for a client or a signal.             *)
Finished == (Gone \/ signals = MaxSignals) /\ UNCHANGED vars

Next ==
  \/ FromClients \/ Worker \/ SpuriousConsume \/ \E t \in NetThreads : LeaveRun(t)
  \/ SignalArrives \/ SigHandler \/ MainLoop \/ SpuriousWakeup
  \/ MainEnd \/ Statics \/ Finished

(* Threads run. Clients come and go, and signals come, as they like. Strong *)
(* fairness of the handler's lock: only spurious wake-ups of main without   *)
(* end could keep it from a mutex that main releases in each wait.          *)
Fairness ==
  /\ WF_vars(Worker)
  /\ \A t \in NetThreads : WF_vars(LeaveRun(t))
  /\ SF_vars(SetStop)
  /\ WF_vars(NotifyQuit)
  /\ WF_vars(MainLoop)
  /\ WF_vars(MainEnd)
  /\ WF_vars(Statics)

Spec == Init /\ [][Next]_vars /\ Fairness

-----------------------------------------------------------------------------
(* sig_handler has interrupted main while it holds mutex_quit.              *)
SelfDeadlock == hpc = "lock" /\ onMain /\ mutex

(* The notification of ~LogicSystem fell between the worker's test and its  *)
(* wait: only a spurious wake-up can end the join.                          *)
StopUnheard == _b_stop /\ worker \in {"deciding", "waiting"}

(* A signal ends the process. It does not when LogicServer01 misses the     *)
(* notification or its handler interrupts main under the mutex, not in the  *)
(* coroutine server, whose pool waits for every client to leave, and not    *)
(* when the LogicSystem's worker misses the notification of the destructor. *)
SignalEndsProcess ==
  (signals > 0) ~> \/ Gone
                   \/ missed \/ SelfDeadlock
                   \/ (program = "Coroutine" /\ open)
                   \/ StopUnheard

(* No thread is inside run() of a destroyed io_context or can call a        *)
(* handler that uses a destroyed CServer, and in the coroutine server no    *)
(* session is left when the pool's io_context goes. In the others a queued  *)
(* message may keep one beyond it.                                          *)
ContextOutlivesThreads ==
  /\ ~context \/ ~server => \A t \in NetThreads : net[t] = "left"
  /\ ~context /\ program = "Coroutine" => nodes = 0
=============================================================================
