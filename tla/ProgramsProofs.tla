--------------------------- MODULE ProgramsProofs ---------------------------
(***************************************************************************)
(* Proofs about the programs that MC_Programs puts side by side: MmapSem   *)
(* for any set of callers and any initial value, MqNotify for any number   *)
(* of threads and messages, MsgServer for any clients and files,           *)
(* MutexProdCons for any producers and items, ShmRing for any number of    *)
(* clients, slots and messages, and Shutdown for any number of network     *)
(* threads and signals. Each has an inductive invariant of its own; a step *)
(* of another program leaves its variables alone.                          *)
(***************************************************************************)
EXTENDS MC_Programs, FiniteSetTheorems, SequenceTheorems, TLAPS

-----------------------------------------------------------------------------
(* A step of the whole is a step of a program or leaves its variables.      *)
LEMMA StepOfEach ==
  ASSUME [Next]_vars
  PROVE  /\ Sem!Next \/ UNCHANGED semVars
         /\ Mq!Next \/ UNCHANGED mqVars
         /\ Ring!Next \/ UNCHANGED ringVars
         /\ Msg!Next \/ UNCHANGED msgVars
         /\ Mutex!Next \/ UNCHANGED mutexVars
         /\ Shut!Next \/ UNCHANGED shutVars
BY DEF Next, vars

(* An element more, an element less.                                        *)
LEMMA OneMore ==
  ASSUME NEW S, IsFiniteSet(S), NEW x, x \notin S
  PROVE  Cardinality(S \cup {x}) = Cardinality(S) + 1
BY FS_AddElement

LEMMA OneLess ==
  ASSUME NEW S, IsFiniteSet(S), NEW x \in S
  PROVE  Cardinality(S \ {x}) = Cardinality(S) - 1 /\ Cardinality(S) \in Nat \ {0}
BY FS_RemoveElement, FS_EmptySet, FS_CardinalityType

-----------------------------------------------------------------------------
(* MmapSem.                                                                 *)


(* A caller blocks only on a count of zero, and a second post while it is   *)
(* blocked is not signalled: until then the count is at most one. Without   *)
(* this the first caller to take would leave a positive count behind.       *)
OnePostAtMost == Sem!Blocked # {} /\ ~unsignalled => sem_count <= 1

SemInv == Sem!TypeOK /\ Sem!WakeupUnderWay /\ OnePostAtMost

LEMMA InitSemInv == Init => SemInv
BY ProgramsAssumption DEF Init, Sem!Init, SemInv, Sem!TypeOK, Sem!WakeupUnderWay, OnePostAtMost, Sem!Blocked

LEMMA PostKeepsSemInv ==
  ASSUME SemInv, NEW p \in Procs, Sem!mysem_post(p)
  PROVE  SemInv'
<1> USE DEF SemInv, Sem!TypeOK
<1>1. /\ sem_count' = sem_count + 1
      /\ unsignalled' = ((unsignalled \/ sem_count # 0) /\ Sem!Blocked' # {})
  BY DEF Sem!mysem_post, Sem!Remember
<1>2. caller' \in [Procs -> {"idle", "entering", "blocked", "woken"}]
  BY DEF Sem!mysem_post
<1>3. Sem!WakeupUnderWay'
  <2>1. CASE sem_count = 0 /\ Sem!Blocked # {}
    <3>1. PICK q \in Sem!Blocked : caller' = [caller EXCEPT ![q] = "woken"]
      BY <2>1 DEF Sem!mysem_post, Sem!SignalDue
    <3>2. q \in Procs /\ caller'[q] = "woken"
      BY <3>1 DEF Sem!Blocked
    <3>3. QED
      BY <3>2 DEF Sem!WakeupUnderWay
  <2>2. CASE sem_count = 0 /\ Sem!Blocked = {}
    <3>1. Sem!Blocked' = {}
      BY <2>2 DEF Sem!mysem_post, Sem!SignalDue, Sem!Blocked
    <3>2. QED
      BY <3>1 DEF Sem!WakeupUnderWay
  <2>3. CASE sem_count # 0
    BY <1>1, <2>3 DEF Sem!WakeupUnderWay
  <2>4. QED
    BY <2>1, <2>2, <2>3
<1>4. OnePostAtMost'
  <2>1. Sem!Blocked' # {} /\ ~unsignalled' => sem_count = 0
    BY <1>1
  <2>2. QED
    BY <1>1, <2>1 DEF OnePostAtMost
<1>5. QED
  BY <1>1, <1>2, <1>3, <1>4

LEMMA WaitKeepsSemInv ==
  ASSUME SemInv, NEW p \in Procs, Sem!mysem_wait(p)
  PROVE  SemInv'
<1>1. Sem!TypeOK' /\ Sem!Blocked' = Sem!Blocked
  BY DEF SemInv, Sem!TypeOK, Sem!mysem_wait, Sem!Blocked
<1>2. caller'[p] = "entering" /\ UNCHANGED <<sem_count, unsignalled>>
  BY DEF SemInv, Sem!TypeOK, Sem!mysem_wait
<1>3. QED
  BY <1>1, <1>2 DEF SemInv, Sem!WakeupUnderWay, OnePostAtMost

LEMMA TakeKeepsSemInv ==
  ASSUME SemInv, NEW p \in Procs, Sem!TakeOrBlock(p)
  PROVE  SemInv'
<1> USE DEF SemInv
<1>1. Sem!TypeOK'
  BY DEF Sem!TakeOrBlock, Sem!Remember, Sem!TypeOK
<1>2. CASE sem_count = 0
  BY <1>1, <1>2 DEF Sem!TakeOrBlock, Sem!TypeOK, Sem!WakeupUnderWay, OnePostAtMost
<1>3. CASE sem_count > 0
  <2>1. /\ sem_count' = sem_count - 1 /\ caller' = [caller EXCEPT ![p] = "idle"]
        /\ unsignalled' = (unsignalled /\ Sem!Blocked' # {})
        /\ caller[p] \in {"entering", "woken"}
    BY <1>3 DEF Sem!TakeOrBlock, Sem!Remember, Sem!TypeOK
  <2>2. Sem!Blocked' = Sem!Blocked
    BY <2>1 DEF Sem!Blocked, Sem!TypeOK
  <2>3. Sem!Blocked' # {} /\ ~unsignalled' => sem_count' = 0
    BY <1>3, <2>1, <2>2 DEF Sem!TypeOK, OnePostAtMost
  <2>4. QED
    BY <1>1, <2>3 DEF Sem!TypeOK, Sem!WakeupUnderWay, OnePostAtMost
<1>4. QED
  BY <1>2, <1>3 DEF Sem!TypeOK

LEMMA SpuriousKeepsSemInv ==
  ASSUME SemInv, NEW p \in Procs, Sem!SpuriousWakeup(p)
  PROVE  SemInv'
<1> USE DEF SemInv
<1>1. Sem!TypeOK'
  BY DEF Sem!SpuriousWakeup, Sem!Remember, Sem!TypeOK
<1>2. caller'[p] = "woken" /\ sem_count' = sem_count
  BY DEF Sem!SpuriousWakeup, Sem!TypeOK
<1>3. Sem!WakeupUnderWay'
  BY <1>2 DEF Sem!WakeupUnderWay
<1>4. Sem!Blocked' \subseteq Sem!Blocked
  BY DEF Sem!SpuriousWakeup, Sem!TypeOK, Sem!Blocked
<1>5. OnePostAtMost'
  BY <1>2, <1>4 DEF Sem!SpuriousWakeup, Sem!Remember, OnePostAtMost
<1>6. QED
  BY <1>1, <1>3, <1>5

LEMMA TryKeepsSemInv ==
  ASSUME SemInv, NEW p \in Procs, Sem!mysem_trywait(p)
  PROVE  SemInv'
<1> USE DEF SemInv
<1>1. sem_count > 0 /\ sem_count' = sem_count - 1 /\ UNCHANGED <<caller, unsignalled>>
  BY DEF Sem!mysem_trywait
<1>2. Sem!Blocked' = Sem!Blocked
  BY <1>1 DEF Sem!Blocked
<1>3. QED
  BY <1>1, <1>2 DEF Sem!TypeOK, Sem!WakeupUnderWay, OnePostAtMost

(* The inductive invariant of the semaphore holds in every reachable state. *)
LEMMA SemInvariance == Spec => []SemInv
<1>1. SemInv /\ [Next]_vars => SemInv'
  <2> SUFFICES ASSUME SemInv, [Next]_vars PROVE SemInv'
    OBVIOUS
  <2>1. CASE UNCHANGED semVars
    BY <2>1 DEF semVars, SemInv, Sem!TypeOK, Sem!WakeupUnderWay, OnePostAtMost, Sem!Blocked
  <2>2. CASE Sem!Next
    BY <2>2, PostKeepsSemInv, WaitKeepsSemInv, TakeKeepsSemInv, SpuriousKeepsSemInv,
       TryKeepsSemInv DEF Sem!Next
  <2>3. QED
    BY <2>1, <2>2, StepOfEach
<1>2. QED
  BY InitSemInv, <1>1, PTL DEF Spec

(* mysem_post signals only on the transition from 0 to nonzero, and short   *)
(* of a second post while somebody is blocked this wakes whom it must.      *)
THEOREM SignalSuffices == Spec => []WakeupUnderWay
BY SemInvariance, PTL DEF SemInv, WakeupUnderWay

(* mysem_wait, mysem_trywait and mysem_post implement a counting semaphore: *)
(* arriving, taking and posting are steps of Semaphore, and blocking and    *)
(* being woken are invisible in it.                                         *)
THEOREM ImplementsSemaphore == Spec => RefinesSemaphore
<1> DEFINE W == {p \in Procs : caller[p] # "idle"}
<1>1. Init => Sem!Abstract!Init
  BY DEF Init, Sem!Init, Sem!Abstract!Init
<1>2. SemInv /\ [Next]_vars => [Sem!Abstract!Next]_(Sem!Abstract!vars)
  <2> SUFFICES ASSUME Sem!TypeOK, [Next]_vars
               PROVE  Sem!Abstract!Next \/ (sem_count' = sem_count /\ W' = W)
    BY DEF SemInv, Sem!Abstract!vars
  <2>1. CASE UNCHANGED semVars
    BY <2>1 DEF semVars
  <2>2. ASSUME NEW p \in Procs, Sem!mysem_post(p) PROVE Sem!Abstract!Post(p)
    BY <2>2 DEF Sem!mysem_post, Sem!Blocked, Sem!TypeOK, Sem!Abstract!Post
  <2>3. ASSUME NEW p \in Procs, Sem!mysem_wait(p) PROVE Sem!Abstract!Arrive(p)
    BY <2>3 DEF Sem!mysem_wait, Sem!TypeOK, Sem!Abstract!Arrive
  <2>4. ASSUME NEW p \in Procs, Sem!TakeOrBlock(p)
        PROVE  Sem!Abstract!Take(p) \/ (sem_count' = sem_count /\ W' = W)
    BY <2>4 DEF Sem!TakeOrBlock, Sem!TypeOK, Sem!Abstract!Take
  <2>5. ASSUME NEW p \in Procs, Sem!SpuriousWakeup(p) PROVE sem_count' = sem_count /\ W' = W
    BY <2>5 DEF Sem!SpuriousWakeup, Sem!TypeOK
  <2>6. ASSUME NEW p \in Procs, Sem!mysem_trywait(p) PROVE Sem!Abstract!TryTake(p)
    BY <2>6 DEF Sem!mysem_trywait, Sem!Abstract!TryTake
  <2>7. CASE Sem!Next
    BY <2>2, <2>3, <2>4, <2>5, <2>6, <2>7 DEF Sem!Next, Sem!Abstract!Next
  <2>8. QED
    BY <2>1, <2>7, StepOfEach
<1>3. QED
  BY <1>1, <1>2, SemInvariance, PTL DEF Spec, RefinesSemaphore, Sem!RefinesSemaphore, Sem!Abstract!Spec

-----------------------------------------------------------------------------
(* MqNotify.                                                                *)

Notifying == {r \in Mq!Readers : mqpc[r] = "notify"}

MqTypeOK ==
  /\ registered \in BOOLEAN /\ pending \in BOOLEAN /\ mark \in Nat
  /\ mqpc \in [Mq!Readers -> {"absent", "start", "notify", "read", "wait", "gone"}]

(* OneRegistration is inductive with the types of what it counts.           *)
MqInv == MqTypeOK /\ Mq!OneRegistration

(* The instance has the library's Cardinality.                              *)
LEMMA SameCardinality == ASSUME NEW S PROVE Mq!Cardinality(S) = Cardinality(S)
BY DEF Mq!Cardinality, Cardinality

LEMMA NotifyingFinite == IsFiniteSet(Notifying)
BY ProgramsAssumption, FS_Singleton, FS_Union, FS_Subset DEF Mq!Readers, Notifying

(* OneRegistration as a sum of numbers, before a step and after it.         *)
Tokens(there, coming, marks, notifying) ==
  (IF there THEN 1 ELSE 0) + (IF coming THEN 1 ELSE 0) + marks + notifying

LEMMA RegistrationTokens ==
  ASSUME MqTypeOK
  PROVE  /\ Cardinality(Notifying) \in Nat
         /\ Mq!OneRegistration <=>
              Tokens(registered, pending, mark, Cardinality(Notifying))
                = IF mqpc[Main] # "start" THEN 1 ELSE 0
<1>1. Cardinality(Notifying) \in Nat
  BY NotifyingFinite, FS_CardinalityType
<1>2. QED
  BY <1>1, SameCardinality DEF Mq!OneRegistration, Mq!One, Notifying, Tokens

LEMMA RegistrationTokensNext ==
  Mq!OneRegistration' <=>
    Tokens(registered', pending', mark', Cardinality(Notifying)')
      = IF mqpc'[Main] # "start" THEN 1 ELSE 0
BY SameCardinality DEF Mq!OneRegistration, Mq!One, Notifying, Tokens

(* A reader comes to Mq_notify, leaves it, or goes elsewhere.               *)
LEMMA ReaderComes ==
  ASSUME MqTypeOK, NEW r \in Mq!Readers, mqpc[r] # "notify",
         mqpc' = [mqpc EXCEPT ![r] = "notify"]
  PROVE  Cardinality(Notifying)' = Cardinality(Notifying) + 1
<1>1. Notifying' = Notifying \cup {r} /\ r \notin Notifying
  BY DEF Notifying, MqTypeOK
<1>2. QED
  BY <1>1, NotifyingFinite, OneMore

LEMMA ReaderLeaves ==
  ASSUME MqTypeOK, NEW r \in Mq!Readers, mqpc[r] = "notify", NEW to, to # "notify",
         mqpc' = [mqpc EXCEPT ![r] = to]
  PROVE  /\ Cardinality(Notifying)' = Cardinality(Notifying) - 1
         /\ Cardinality(Notifying) \in Nat \ {0}
<1>1. Notifying' = Notifying \ {r} /\ r \in Notifying
  BY DEF Notifying, MqTypeOK
<1>2. QED
  BY <1>1, NotifyingFinite, OneLess

LEMMA ReaderElsewhere ==
  ASSUME MqTypeOK, NEW r \in Mq!Readers, mqpc[r] # "notify", NEW to, to # "notify",
         mqpc' = [mqpc EXCEPT ![r] = to]
  PROVE  Cardinality(Notifying)' = Cardinality(Notifying)
<1>1. Notifying' = Notifying
  BY DEF Notifying, MqTypeOK
<1>2. QED
  BY <1>1

LEMMA InitMqInv == Init => MqInv
<1> SUFFICES ASSUME Mq!Init PROVE MqInv
  BY DEF Init
<1>1. MqTypeOK /\ mqpc[Main] = "start"
  BY DEF Mq!Init, MqTypeOK, Mq!Readers
<1>2. Notifying = {}
  BY DEF Mq!Init, Notifying
<1>3. QED
  BY <1>1, <1>2, RegistrationTokens, FS_EmptySet DEF Mq!Init, MqInv, Tokens

LEMMA ArriveKeepsMqInv == ASSUME MqInv, Mq!Arrive PROVE MqInv'
<1>1. MqTypeOK /\ Mq!OneRegistration
  BY DEF MqInv
<1>2. CASE UNCHANGED <<registered, pending, mqpc>>
  BY <1>1, <1>2 DEF Mq!Arrive, MqInv, MqTypeOK, Mq!OneRegistration, Mq!One
<1>3. CASE registered /\ Mq!Notify
  <2>1. registered' = FALSE /\ mark' = mark
    BY <1>3 DEF Mq!Arrive, Mq!Notify
  <2>2. ~pending /\ mark = 0 /\ Cardinality(Notifying) = 0 /\ mqpc[Main] # "start"
    BY <1>1, <1>3, RegistrationTokens DEF MqTypeOK, Tokens
  <2>3. CASE UNCHANGED mqpc /\ pending' = TRUE
    <3>1. MqTypeOK' /\ Notifying' = Notifying
      BY <1>1, <2>1, <2>3 DEF MqTypeOK, Notifying
    <3>2. QED
      BY <2>1, <2>2, <2>3, <3>1, RegistrationTokens, RegistrationTokensNext DEF MqInv, Tokens
  <2>4. ASSUME NEW t \in Threads, mqpc[t] = "absent", mqpc' = [mqpc EXCEPT ![t] = "notify"],
               UNCHANGED pending
        PROVE  MqInv'
    <3>1. t \in Mq!Readers /\ Main \in Mq!Readers
      BY DEF Mq!Readers
    <3>2. MqTypeOK' /\ mqpc'[Main] # "start"
      BY <1>1, <2>1, <2>2, <2>4, <3>1 DEF MqTypeOK
    <3>3. Cardinality(Notifying)' = Cardinality(Notifying) + 1
      BY <1>1, <2>4, <3>1, ReaderComes
    <3>4. QED
      BY <2>1, <2>2, <2>4, <3>2, <3>3, RegistrationTokens, RegistrationTokensNext DEF MqInv, Tokens
  <2>5. QED
    BY <1>3, <2>3, <2>4 DEF Mq!Notify
<1>4. QED
  BY <1>2, <1>3 DEF Mq!Arrive

LEMMA SignalKeepsMqInv == ASSUME MqInv, Mq!Register \/ Mq!Signal PROVE MqInv'
<1>1. MqTypeOK /\ Mq!OneRegistration /\ Main \in Mq!Readers
  BY DEF MqInv, Mq!Readers
<1>2. CASE Mq!Register
  <2>1. /\ mqpc[Main] = "start" /\ mqpc' = [mqpc EXCEPT ![Main] = "wait"]
        /\ registered' = TRUE /\ UNCHANGED <<pending, mark>>
    BY <1>2 DEF Mq!Register
  <2>2. ~registered /\ ~pending /\ mark = 0 /\ Cardinality(Notifying) = 0
    BY <1>1, <2>1, RegistrationTokens DEF MqTypeOK, Tokens
  <2>3. MqTypeOK' /\ mqpc'[Main] # "start"
    BY <1>1, <2>1 DEF MqTypeOK
  <2>4. Cardinality(Notifying)' = 0
    BY <1>1, <2>1, <2>2, ReaderElsewhere
  <2>5. QED
    BY <2>1, <2>2, <2>3, <2>4, RegistrationTokens, RegistrationTokensNext DEF MqInv, Tokens
<1>3. CASE Mq!Handler
  <2>1. /\ pending /\ pending' = FALSE /\ UNCHANGED <<registered, mqpc>>
        /\ mark' = IF mqprogram = "sig5" THEN mark + 1 ELSE 1
    BY <1>3 DEF Mq!Handler
  <2>2. ~registered /\ mark = 0 /\ Cardinality(Notifying) = 0 /\ mqpc[Main] # "start"
    BY <1>1, <2>1, RegistrationTokens DEF MqTypeOK, Tokens
  <2>3. mark' = 1 /\ Notifying' = Notifying
    BY <2>1, <2>2 DEF Notifying
  <2>4. registered' = registered /\ pending' = FALSE /\ mark' \in Nat /\ mqpc' = mqpc
    BY <2>1, <2>3
  <2>5. MqTypeOK'
    BY <1>1, <2>4 DEF MqTypeOK
  <2>6. QED
    BY <2>1, <2>2, <2>3, <2>5, RegistrationTokens, RegistrationTokensNext DEF MqInv, Tokens
<1>4. CASE Mq!TakeMark \/ Mq!TakeSignal
  <2>1. /\ mqpc[Main] = "wait" /\ mqpc' = [mqpc EXCEPT ![Main] = "notify"]
        /\ UNCHANGED registered
        /\ \/ pending /\ pending' = FALSE /\ UNCHANGED mark
           \/ mark > 0 /\ UNCHANGED pending /\ mark' \in {0, mark - 1}
    BY <1>4 DEF Mq!TakeMark, Mq!TakeSignal
  <2>2. Cardinality(Notifying) = 0
    BY <1>1, <2>1, RegistrationTokens DEF MqTypeOK, Tokens
  <2>3. ~registered /\ (pending => mark = 0) /\ mark \in {0, 1}
    BY <1>1, <2>1, <2>2, RegistrationTokens DEF MqTypeOK, Tokens
  <2>4. pending' = FALSE /\ mark' = 0
    BY <1>1, <2>1, <2>3 DEF MqTypeOK
  <2>7. MqTypeOK' /\ mqpc'[Main] # "start"
    BY <1>1, <2>1, <2>4 DEF MqTypeOK
  <2>5. Cardinality(Notifying)' = Cardinality(Notifying) + 1
    BY <1>1, <2>1, ReaderComes
  <2>6. QED
    BY <2>1, <2>2, <2>3, <2>4, <2>7, <2>5, RegistrationTokens, RegistrationTokensNext DEF MqInv, Tokens
<1>5. QED
  BY <1>2, <1>3, <1>4 DEF Mq!Signal

LEMMA ReadKeepsMqInv == ASSUME MqInv, NEW r \in Mq!Readers, Mq!Read(r) PROVE MqInv'
<1>1. MqTypeOK /\ Mq!OneRegistration /\ Main \in Mq!Readers
  BY DEF MqInv, Mq!Readers
<1>2. Cardinality(Notifying) \in Nat
  BY <1>1, RegistrationTokens
<1>3. CASE Mq!NotifyAgain(r)
  <2> DEFINE to == IF registered THEN "gone" ELSE "read"
  <2>1. /\ mqpc[r] = "notify" /\ registered' = TRUE /\ UNCHANGED <<pending, mark>>
        /\ mqpc' = [mqpc EXCEPT ![r] = to] /\ to \in {"gone", "read"}
    BY <1>3 DEF Mq!NotifyAgain
  <2> HIDE DEF to
  <2>2. /\ Cardinality(Notifying)' = Cardinality(Notifying) - 1
        /\ Cardinality(Notifying) \in Nat \ {0}
    BY <1>1, <2>1, ReaderLeaves
  <2>3. MqTypeOK' /\ (mqpc'[Main] = "start" <=> mqpc[Main] = "start")
    BY <1>1, <2>1 DEF MqTypeOK
  <2>5. registered = FALSE
    BY <1>1, <2>2, RegistrationTokens DEF MqTypeOK, Tokens
  <2>6. Tokens(FALSE, pending, mark, Cardinality(Notifying))
          = IF mqpc[Main] # "start" THEN 1 ELSE 0
    BY <1>1, <2>5, RegistrationTokens
  <2>7. Tokens(TRUE, pending, mark, Cardinality(Notifying) - 1)
          = Tokens(FALSE, pending, mark, Cardinality(Notifying))
    BY <1>1, <2>2 DEF Tokens, MqTypeOK
  <2>8. QED
    BY <2>1, <2>2, <2>3, <2>6, <2>7, RegistrationTokensNext DEF MqInv
<1>4. CASE Mq!Receive(r) \/ Mq!Drained(r)
  <2>1. UNCHANGED <<registered, pending, mark>>
    BY <1>4 DEF Mq!Receive, Mq!Drained
  <2>2. CASE UNCHANGED mqpc
    BY <1>1, <2>1, <2>2 DEF MqInv, MqTypeOK, Mq!OneRegistration, Mq!One
  <2>3. ASSUME NEW to \in {"wait", "gone"}, mqpc[r] = "read", mqpc' = [mqpc EXCEPT ![r] = to]
        PROVE  MqInv'
    <3>1. Cardinality(Notifying)' = Cardinality(Notifying)
      BY <1>1, <2>3, ReaderElsewhere
    <3>2. MqTypeOK' /\ (mqpc'[Main] = "start" <=> mqpc[Main] = "start")
      BY <1>1, <2>1, <2>3 DEF MqTypeOK
    <3>3. QED
      BY <1>1, <2>1, <3>1, <3>2, RegistrationTokens, RegistrationTokensNext DEF MqInv, Tokens
  <2>4. mqpc[r] = "read" /\
        (UNCHANGED mqpc \/ \E to \in {"wait", "gone"} : mqpc' = [mqpc EXCEPT ![r] = to])
    BY <1>4 DEF Mq!Receive, Mq!Drained
  <2>5. QED
    BY <2>2, <2>3, <2>4
<1>5. QED
  BY <1>3, <1>4 DEF Mq!Read

LEMMA MqInvariance == Spec => []MqInv
<1>1. MqInv /\ [Next]_vars => MqInv'
  <2> SUFFICES ASSUME MqInv, [Next]_vars PROVE MqInv'
    OBVIOUS
  <2>1. CASE UNCHANGED mqVars
    BY <2>1 DEF mqVars, MqInv, MqTypeOK, Mq!OneRegistration, Mq!One
  <2>2. CASE Mq!Next
    <3>1. CASE Mq!Quiescent
      BY <3>1 DEF Mq!Quiescent, Mq!vars, MqInv, MqTypeOK, Mq!OneRegistration, Mq!One
    <3>2. QED
      BY <2>2, <3>1, ArriveKeepsMqInv, SignalKeepsMqInv, ReadKeepsMqInv DEF Mq!Next
  <2>3. QED
    BY <2>1, <2>2, StepOfEach
<1>2. QED
  BY InitMqInv, <1>1, PTL DEF Spec

(* The registration is in exactly one place, so Mq_notify never finds the   *)
(* queue registered and no two signals merge.                               *)
THEOREM RegistrationNeverTwice == Spec => []OneRegistration
<1>1. MqInv => OneRegistration
  BY DEF MqInv, OneRegistration
<1> QED
  BY MqInvariance, <1>1, PTL

(* A message in the queue of a registered program has somebody to read it:  *)
(* a notification on its way or a reader at work. The exceptions are those  *)
(* of QueueIsEmptied, whose safety half this is.                            *)
Attended ==
  \/ pending \/ mark > 0
  \/ \E r \in Mq!Readers : mqpc[r] \in {"notify", "read"}

NoMessageForgotten ==
  mqpc[Main] # "start" /\ nmsg > 0 =>
    Attended \/ preloaded \/ (Mq!SingleRead /\ overtaken)

(* A second message in the queue has not found it empty.                    *)
SecondOvertook == mqpc[Main] # "start" /\ nmsg > 1 => preloaded \/ overtaken

QueueType == nmsg \in Nat

(* sig1 and sig2 read in one thread, and the message that notified it stays *)
(* in the queue until it has registered again: Mq_receive returns at once,  *)
(* and no message arrives on an empty queue meanwhile.                      *)
FindsMessage ==
  Mq!SingleRead =>
    /\ \A r \in Mq!Readers \ {Main} : mqpc[r] = "absent"
    /\ pending \/ mark > 0 \/ mqpc[Main] \in {"notify", "read"} => nmsg > 0
    /\ mqpc[Main] = "read" => registered

ReadInv == FindsMessage /\ QueueType /\ SecondOvertook /\ NoMessageForgotten

(* With nobody at work the queue has the registration.                      *)
LEMMA RegisteredMeanwhile ==
  ASSUME MqInv, mqpc[Main] # "start", ~Attended
  PROVE  registered
<1>1. MqTypeOK /\ Mq!OneRegistration
  BY DEF MqInv
<1>2. pending = FALSE /\ mark = 0 /\ Notifying = {}
  BY <1>1 DEF Attended, Notifying, MqTypeOK
<1>3. Cardinality(Notifying) = 0
  BY <1>2, FS_EmptySet
<1>4. QED
  BY <1>1, <1>2, <1>3, RegistrationTokens DEF Tokens, MqTypeOK

LEMMA ArriveKeepsReadInv == ASSUME MqInv, ReadInv, Mq!Arrive PROVE ReadInv'
<1>1. MqTypeOK /\ Main \in Mq!Readers /\ nmsg \in Nat
  BY DEF MqInv, ReadInv, QueueType, Mq!Readers
<1>2. /\ nmsg' = nmsg + 1 /\ (overtaken \/ nmsg > 0 => overtaken')
      /\ UNCHANGED <<mqprogram, mark, preloaded>>
  BY DEF Mq!Arrive
<1>3. QueueType' /\ (Mq!SingleRead' <=> Mq!SingleRead)
  BY <1>1, <1>2 DEF QueueType, Mq!SingleRead
<1>4. SecondOvertook'
  BY <1>1, <1>2 DEF SecondOvertook
<1>7. FindsMessage'
  <2> SUFFICES ASSUME Mq!SingleRead PROVE FindsMessage'
    BY <1>3 DEF FindsMessage
  <2>1. nmsg > 0 => registered' = registered
    BY <1>1 DEF Mq!Arrive
  <2>2. mqpc' = mqpc /\ nmsg' > 0
    BY <1>1, <1>2 DEF Mq!Arrive, Mq!Notify, Mq!SingleRead
  <2>3. QED
    BY <1>1, <2>1, <2>2 DEF FindsMessage, ReadInv
<1>5. CASE UNCHANGED <<pending, mqpc>> /\ (nmsg > 0 \/ ~registered)
  <2>1. Attended => Attended'
    BY <1>2, <1>5 DEF Attended
  <2>2. ASSUME nmsg > 0 PROVE NoMessageForgotten'
    BY <1>2, <1>3, <1>5, <2>1, <2>2 DEF ReadInv, NoMessageForgotten
  <2>3. ASSUME ~registered PROVE NoMessageForgotten'
    BY <1>5, <2>1, <2>3, RegisteredMeanwhile DEF NoMessageForgotten
  <2> QED
    BY <1>3, <1>4, <1>5, <1>7, <2>2, <2>3 DEF ReadInv
<1>6. CASE Mq!Notify
  <2>1. Attended'
    BY <1>1, <1>6, Zenon DEF Mq!Notify, Mq!Readers, Attended, MqTypeOK
  <2> QED
    BY <1>3, <1>4, <1>7, <2>1 DEF ReadInv, NoMessageForgotten
<1> QED
  BY <1>1, <1>5, <1>6 DEF Mq!Arrive

LEMMA SignalKeepsReadInv == ASSUME MqInv, ReadInv, Mq!Register \/ Mq!Signal PROVE ReadInv'
<1>1. MqTypeOK /\ Main \in Mq!Readers /\ nmsg \in Nat
  BY DEF MqInv, ReadInv, QueueType, Mq!Readers
<1>2. CASE Mq!Register
  <2>1. nmsg' = nmsg /\ (nmsg > 0 => preloaded')
    BY <1>2 DEF Mq!Register, Mq!queue
  <2> QED
    <3>1. FindsMessage'
      <4>1. /\ UNCHANGED <<mqprogram, pending, mark>>
            /\ mqpc[Main] = "start" /\ mqpc' = [mqpc EXCEPT ![Main] = "wait"]
        BY <1>2 DEF Mq!Register
      <4>2. ~pending /\ mark = 0
        BY <1>1, <4>1, RegistrationTokens DEF MqInv, MqTypeOK, Tokens
      <4>3. Mq!SingleRead' <=> Mq!SingleRead
        BY <4>1 DEF Mq!SingleRead
      <4> QED
        BY <1>1, <2>1, <4>1, <4>2, <4>3 DEF FindsMessage, ReadInv, MqTypeOK
    <3> QED
      BY <1>1, <2>1, <3>1 DEF ReadInv, QueueType, SecondOvertook, NoMessageForgotten
<1>3. CASE Mq!Signal
  <2>1. UNCHANGED <<nmsg, overtaken, preloaded>> /\ mqpc[Main] # "start"
    <3>1. mqpc[Main] = "start" => pending = FALSE /\ mark = 0
      BY <1>1, RegistrationTokens DEF MqInv, MqTypeOK, Tokens
    <3> QED
      BY <1>1, <1>3, <3>1
         DEF Mq!Signal, Mq!Handler, Mq!TakeMark, Mq!TakeSignal, Mq!queue, MqTypeOK
  <2>2. Attended'
    <3>1. CASE Mq!Handler
      BY <1>1, <3>1 DEF Mq!Handler, Attended, MqTypeOK
    <3>2. CASE Mq!TakeMark \/ Mq!TakeSignal
      <4>1. mqpc'[Main] = "notify"
        BY <1>1, <3>2 DEF Mq!TakeMark, Mq!TakeSignal, MqTypeOK
      <4> QED
        BY <1>1, <4>1 DEF Attended
    <3> QED
      BY <1>3, <3>1, <3>2 DEF Mq!Signal
  <2>3. FindsMessage'
    <3>1. pending \/ mark > 0
      BY <1>3 DEF Mq!Signal, Mq!Handler, Mq!TakeMark, Mq!TakeSignal
    <3>2. UNCHANGED <<mqprogram, registered>>
      BY <1>3 DEF Mq!Signal, Mq!Handler, Mq!TakeMark, Mq!TakeSignal
    <3>3. mqpc' = mqpc \/ mqpc' = [mqpc EXCEPT ![Main] = "notify"]
      BY <1>3 DEF Mq!Signal, Mq!Handler, Mq!TakeMark, Mq!TakeSignal
    <3>4. Mq!SingleRead' <=> Mq!SingleRead
      BY <3>2 DEF Mq!SingleRead
    <3> QED
      BY <1>1, <2>1, <3>1, <3>2, <3>3, <3>4 DEF FindsMessage, ReadInv, MqTypeOK
  <2> QED
    BY <1>1, <2>1, <2>2, <2>3 DEF ReadInv, QueueType, SecondOvertook, NoMessageForgotten
<1> QED
  BY <1>2, <1>3

LEMMA ReadKeepsReadInv == ASSUME MqInv, ReadInv, NEW r \in Mq!Readers, Mq!Read(r) PROVE ReadInv'
<1>1. MqTypeOK /\ Main \in Mq!Readers /\ nmsg \in Nat
  BY DEF MqInv, ReadInv, QueueType, Mq!Readers
<1>2. CASE Mq!NotifyAgain(r)
  <2>1. mqpc[r] = "notify" /\ UNCHANGED <<nmsg, overtaken, preloaded>>
    BY <1>2 DEF Mq!NotifyAgain, Mq!queue
  <2>2. Cardinality(Notifying) \in Nat \ {0}
    BY <2>1, NotifyingFinite, OneLess DEF Notifying
  <2>3. registered = FALSE /\ mqpc[Main] # "start"
    BY <1>1, <2>2, RegistrationTokens DEF MqInv, MqTypeOK, Tokens
  <2>4. mqpc'[r] = "read"
    BY <1>1, <1>2, <2>3 DEF Mq!NotifyAgain, MqTypeOK
  <2>5. Attended'
    BY <2>4 DEF Attended, Mq!Readers
  <2> QED
    <3>1. FindsMessage'
      <4>1. /\ UNCHANGED <<mqprogram, pending, mark>> /\ registered' = TRUE
            /\ mqpc' = [mqpc EXCEPT ![r] = "read"]
        BY <1>2, <2>3 DEF Mq!NotifyAgain
      <4>2. Mq!SingleRead' <=> Mq!SingleRead
        BY <4>1 DEF Mq!SingleRead
      <4> QED
        BY <1>1, <2>1, <4>1, <4>2 DEF FindsMessage, ReadInv, MqTypeOK
    <3> QED
      BY <1>1, <2>1, <2>3, <2>5, <3>1 DEF ReadInv, QueueType, SecondOvertook, NoMessageForgotten
<1>3. CASE Mq!Receive(r)
  <2>1. /\ mqpc[r] = "read" /\ nmsg > 0 /\ nmsg' = nmsg - 1
        /\ UNCHANGED <<mqprogram, overtaken, preloaded>>
        /\ mqpc' = IF Mq!SingleRead THEN [mqpc EXCEPT ![r] = "wait"] ELSE mqpc
    BY <1>3 DEF Mq!Receive
  <2>2. (mqpc'[Main] # "start" => mqpc[Main] # "start") /\ (Mq!SingleRead' <=> Mq!SingleRead)
    BY <1>1, <2>1 DEF MqTypeOK, Mq!SingleRead
  <2>3. QueueType' /\ SecondOvertook'
    BY <1>1, <2>1, <2>2 DEF ReadInv, QueueType, SecondOvertook
  <2>6. FindsMessage'
    <3> SUFFICES ASSUME Mq!SingleRead PROVE FindsMessage'
      BY <2>2 DEF FindsMessage
    <3>1. UNCHANGED <<registered, pending, mark>>
      BY <1>3 DEF Mq!Receive
    <3>2. r = Main /\ registered
      BY <2>1 DEF FindsMessage, ReadInv
    <3>3. ~pending /\ mark = 0
      BY <1>1, <2>1, <3>2, RegistrationTokens DEF MqInv, MqTypeOK, Tokens
    <3>4. mqpc' = [mqpc EXCEPT ![Main] = "wait"]
      BY <2>1, <3>2
    <3> QED
      BY <1>1, <3>1, <3>3, <3>4 DEF FindsMessage, ReadInv, MqTypeOK
  <2>4. CASE Mq!SingleRead
    BY <1>1, <2>1, <2>2, <2>3, <2>4, <2>6 DEF ReadInv, SecondOvertook, NoMessageForgotten
  <2>5. CASE ~Mq!SingleRead
    <3>1. Attended'
      BY <2>1, <2>5 DEF Attended, Mq!Readers
    <3> QED
      BY <2>3, <2>6, <3>1 DEF ReadInv, NoMessageForgotten
  <2> QED
    BY <2>4, <2>5
<1>4. CASE Mq!Drained(r)
  <2>1. Mq!SingleRead' <=> Mq!SingleRead
    BY <1>4 DEF Mq!Drained, Mq!SingleRead
  <2> QED
    BY <1>1, <1>4, <2>1 DEF Mq!Drained, Mq!queue, ReadInv, QueueType, SecondOvertook,
                            NoMessageForgotten, FindsMessage
<1> QED
  BY <1>2, <1>3, <1>4 DEF Mq!Read

LEMMA InitReadInv == Init => ReadInv
<1> SUFFICES ASSUME Mq!Init PROVE ReadInv
  BY DEF Init
<1>1. mqpc[Main] = "start"
  BY DEF Mq!Init, Mq!Readers
<1>2. nmsg \in Nat
  BY ProgramsAssumption DEF Mq!Init
<1>3. FindsMessage
  BY <1>1 DEF Mq!Init, Mq!Readers, FindsMessage
<1> QED
  BY <1>1, <1>2, <1>3 DEF ReadInv, QueueType, SecondOvertook, NoMessageForgotten

LEMMA ReadInvariance == Spec => []ReadInv
<1>1. MqInv /\ ReadInv /\ [Next]_vars => ReadInv'
  <2> SUFFICES ASSUME MqInv, ReadInv, [Next]_vars PROVE ReadInv'
    OBVIOUS
  <2>1. CASE UNCHANGED mqVars
    BY <2>1 DEF mqVars, ReadInv, QueueType, SecondOvertook, NoMessageForgotten, Attended,
                FindsMessage, Mq!SingleRead
  <2>2. CASE Mq!Quiescent
    BY <2>2 DEF Mq!Quiescent, Mq!vars, Mq!queue, ReadInv, QueueType, SecondOvertook,
                NoMessageForgotten, Attended, FindsMessage, Mq!SingleRead
  <2> QED
    BY <2>1, <2>2, StepOfEach, ArriveKeepsReadInv, SignalKeepsReadInv, ReadKeepsReadInv
       DEF Mq!Next
<1> QED
  BY InitReadInv, MqInvariance, <1>1, PTL DEF Spec

(* In each of the six programs, an unread message has a notification on its *)
(* way or a reader at work, unless it was there before the registration or  *)
(* overtook one that a program reads singly.                                *)
THEOREM UnreadIsAttended == Spec => []NoMessageForgotten
BY ReadInvariance, PTL DEF ReadInv

(* mqnotifysig1 and mqnotifysig2, whose queues are open for blocking, never *)
(* block in Mq_receive, and have registered again by then.                  *)
THEOREM ReaderFindsMessage ==
  Spec => [](Mq!SingleRead /\ mqpc[Main] = "read" => nmsg > 0 /\ registered)
<1>1. ReadInv => (Mq!SingleRead /\ mqpc[Main] = "read" => nmsg > 0 /\ registered)
  BY DEF ReadInv, FindsMessage
<1> QED
  BY ReadInvariance, <1>1, PTL

-----------------------------------------------------------------------------
(* MsgServer, as svmsgmpxnq.                                                *)

Requests == queue["MQ_KEY1"]
Requested(c) == \E j \in 1..Len(Requests) : Requests[j].for = c

MsgTypeOK ==
  /\ queue \in [Msg!Queues -> Seq(Msg!Messages)]
  /\ lines \in [FileClients -> Nat] /\ job \in [FileClients -> Nat]
  /\ got \in [FileClients -> Nat]
  /\ client \in [FileClients -> {"start", "read", "done", "failed", "killed"}]

(* A client asks once.                                                      *)
AskedOnce ==
  \A j, l \in 1..Len(Requests) :
    /\ Requests[j].kind = "request"
    /\ Requests[j].for = Requests[l].for => j = l

(* The queue of a client holds lines, and the end mark last if at all.      *)
LinesUpTo(c, n) == \A j \in 1..n : queue[c][j].kind = "line"

(* The reply has n lines and the end mark: read, in the queue, or owed.     *)
Whole(read, queued, owed, n) == read + queued + owed = n + 1

Waiting(c) ==
  /\ job[c] = 0 /\ got[c] = 0 /\ queue[c] = <<>>
  /\ client[c] \in {"start", "read", "killed"}
  /\ client[c] = "start" <=> ~Requested(c)

Answering(c) ==
  /\ ~Requested(c) /\ client[c] \in {"read", "killed"}
  /\ job[c] > 0 /\ LinesUpTo(c, Len(queue[c]))
  /\ Whole(got[c], Len(queue[c]), job[c], lines[c])

Answered(c) ==
  /\ ~Requested(c) /\ client[c] \in {"read", "killed"}
  /\ job[c] = 0 /\ Len(queue[c]) > 0
  /\ LinesUpTo(c, Len(queue[c]) - 1) /\ queue[c][Len(queue[c])].kind = "end"
  /\ Whole(got[c], Len(queue[c]), job[c], lines[c])

Served(c) ==
  ~Requested(c) /\ client[c] = "done" /\ job[c] = 0 /\ got[c] = lines[c]

(* A fork that failed has ended the server with the client's request.       *)
Dropped(c) ==
  /\ ~Requested(c) /\ client[c] \in {"read", "killed"}
  /\ job[c] = 0 /\ queue[c] = <<>> /\ msgserver = "gone"

Stage(c) == Waiting(c) \/ Answering(c) \/ Answered(c) \/ Served(c) \/ Dropped(c)

(* The server leaves the answering to its children.                         *)
NeverBusy == msgserver \in {"ready", "gone"}

MsgInv ==
  msgprogram = "svmsgmpxnq" =>
    MsgTypeOK /\ AskedOnce /\ NeverBusy /\ \A c \in FileClients : Stage(c)

(* In svmsgmpxnq the server is always back in Mesg_recv unless a fork has   *)
(* failed; a client is done when it has printed exactly its lines; and one  *)
(* that reads has its request in the server's queue, a child at work for    *)
(* it, or the end mark in its own queue, except that nobody works for it    *)
(* any more when the server is gone.                                        *)
ReplyUnderWay ==
  msgprogram = "svmsgmpxnq" =>
    /\ NeverBusy
    /\ \A c \in FileClients :
         /\ client[c] = "done" => got[c] = lines[c]
         /\ client[c] = "read" =>
              \/ Requested(c) \/ job[c] > 0
              \/ \E j \in 1..Len(queue[c]) : queue[c][j].kind = "end"
              \/ msgserver = "gone" /\ queue[c] = <<>>

LEMMA WholeMoves ==
  ASSUME NEW g \in Nat, NEW l \in Nat, NEW j \in Nat, NEW n \in Nat, Whole(g, l, j, n)
  PROVE  /\ Whole(g, l + 1, j - 1, n)
         /\ Whole(g + 1, l - 1, j, n)
BY DEF Whole

LEMMA FirstReceived ==
  ASSUME msgprogram = "svmsgmpxnq", MsgTypeOK, NEW q \in Msg!Queues, NEW m,
         Msg!Received(q, "1", m)
  PROVE  /\ Len(queue[q]) > 0 /\ m = queue[q][1]
         /\ queue' = [queue EXCEPT ![q] = Tail(queue[q])]
<1> DEFINE s == queue[q]
           n == Len(s)
<1>1. s \in Seq(Msg!Messages) /\ n \in Nat
  BY DEF MsgTypeOK
<1>2. Msg!Matching(q, "1") = 1..n
  BY <1>1 DEF Msg!Matching, Msg!Type
<1>3. /\ 1..n # {} /\ m = s[Msg!Min(1..n)]
      /\ queue' = [queue EXCEPT ![q] = Msg!RemoveAt(s, Msg!Min(1..n))]
  BY <1>2 DEF Msg!Received
<1> HIDE DEF n, s
<1>4. n > 0
  BY <1>1, <1>3
<1>5. Msg!Min(1..n) = 1
  <2>1. 1 \in 1..n /\ \A y \in 1..n : 1 <= y
    BY <1>1, <1>4
  <2>2. \A x \in 1..n : (\A y \in 1..n : x <= y) => x = 1
    BY <1>1, <1>4
  <2> QED
    BY <2>1, <2>2 DEF Msg!Min
<1>6. Msg!RemoveAt(s, 1) = Tail(s)
  <2>1. Msg!RemoveAt(s, 1) = SubSeq(s, 1, 0) \o SubSeq(s, 2, n)
    BY DEF Msg!RemoveAt, n
  <2>2. SubSeq(s, 1, 0) = <<>>
    BY <1>1
  <2>3. SubSeq(s, 2, n) = Tail(s) /\ Tail(s) \in Seq(Msg!Messages)
    BY <1>1, <1>4 DEF n
  <2> QED
    BY <2>1, <2>2, <2>3, ConcatEmptySeq
<1> QED
  BY <1>3, <1>4, <1>5, <1>6 DEF n, s

(* A step that does not touch a client keeps its stage.                     *)
LEMMA StageElsewhere ==
  ASSUME NEW c \in FileClients, Stage(c), Requested(c)' <=> Requested(c),
         queue'[c] = queue[c], job'[c] = job[c], got'[c] = got[c],
         client'[c] = client[c], lines' = lines, msgserver = "gone" => msgserver' = "gone"
  PROVE  Stage(c)'
BY DEF Stage, Waiting, Answering, Answered, Served, Dropped, LinesUpTo

LEMMA SameRequests ==
  ASSUME NEW c, queue'["MQ_KEY1"] = queue["MQ_KEY1"]
  PROVE  (Requested(c)' <=> Requested(c)) /\ (AskedOnce => AskedOnce')
BY DEF Requested, Requests, AskedOnce

LEMMA InitMsgInv == Init => MsgInv
<1> SUFFICES ASSUME Msg!Init PROVE MsgInv
  BY DEF Init
<1>1. MsgTypeOK
  BY ProgramsAssumption DEF Msg!Init, MsgTypeOK
<1>2. Requests = <<>> /\ \A c \in FileClients : queue[c] = <<>>
  BY DEF Msg!Init, Msg!Queues, Requests
<1>3. AskedOnce /\ \A c : ~Requested(c)
  BY <1>2 DEF AskedOnce, Requested
<1>4. \A c \in FileClients : Stage(c)
  BY <1>2, <1>3 DEF Msg!Init, Stage, Waiting
<1> QED
  BY <1>1, <1>3, <1>4 DEF Msg!Init, MsgInv, NeverBusy

LEMMA SendRequestKeepsMsgInv ==
  ASSUME MsgInv, msgprogram = "svmsgmpxnq", NEW c \in FileClients, Msg!SendRequest(c)
  PROVE  MsgInv'
<1>1. MsgTypeOK /\ AskedOnce /\ NeverBusy /\ \A d \in FileClients : Stage(d)
  BY DEF MsgInv
<1> DEFINE m == Msg!Message("request", c)
<1>2. /\ client[c] = "start" /\ client' = [client EXCEPT ![c] = "read"]
      /\ queue' = [queue EXCEPT !["MQ_KEY1"] = Append(queue["MQ_KEY1"], m)]
      /\ UNCHANGED <<msgprogram, lines, msgserver, job, got>>
  BY DEF Msg!SendRequest, Msg!Sent
<1>3. m \in Msg!Messages /\ m.kind = "request" /\ m.for = c
  BY DEF Msg!Message, Msg!Messages
<1> HIDE DEF m
<1>4. MsgTypeOK'
  BY <1>1, <1>2, <1>3 DEF MsgTypeOK, Msg!Queues
<1>5. Requests \in Seq(Msg!Messages) /\ Requests' = Append(Requests, m)
  BY <1>1, <1>2 DEF MsgTypeOK, Msg!Queues, Requests
<1>6. /\ Len(Requests) \in Nat /\ Len(Requests') = Len(Requests) + 1
      /\ \A j \in 1..Len(Requests) : Requests'[j] = Requests[j]
      /\ Requests'[Len(Requests) + 1] = m
  BY <1>3, <1>5
<1>7. ~Requested(c) /\ Waiting(c)
  BY <1>1, <1>2 DEF Stage, Waiting, Answering, Answered, Served, Dropped
<1>8. AskedOnce'
  BY <1>1, <1>3, <1>6, <1>7 DEF AskedOnce, Requested
<1>9. Requested(c)' /\ \A d \in FileClients : d # c => (Requested(d)' <=> Requested(d))
  BY <1>3, <1>6 DEF Requested
<1>10. \A d \in FileClients : queue'[d] = queue[d]
  BY <1>1, <1>2, ProgramsAssumption DEF MsgTypeOK, Msg!Queues
<1>11. Stage(c)'
  BY <1>1, <1>2, <1>7, <1>9, <1>10 DEF Stage, Waiting, MsgTypeOK
<1>12. ASSUME NEW d \in FileClients, d # c PROVE Stage(d)'
  BY <1>1, <1>2, <1>9, <1>10, <1>12, StageElsewhere DEF MsgTypeOK
<1> QED
  BY <1>1, <1>2, <1>4, <1>8, <1>11, <1>12 DEF MsgInv, NeverBusy

LEMMA KillKeepsMsgInv ==
  ASSUME MsgInv, msgprogram = "svmsgmpxnq", NEW c \in FileClients, Msg!Kill(c)
  PROVE  MsgInv'
<1>1. MsgTypeOK /\ AskedOnce /\ NeverBusy /\ \A d \in FileClients : Stage(d)
  BY DEF MsgInv
<1>2. /\ client[c] = "read" /\ client' = [client EXCEPT ![c] = "killed"]
      /\ UNCHANGED <<msgprogram, lines, queue, msgserver, job, got>>
  BY DEF Msg!Kill
<1>3. MsgTypeOK'
  BY <1>1, <1>2 DEF MsgTypeOK
<1>4. AskedOnce' /\ \A d \in FileClients : Requested(d)' <=> Requested(d)
  BY <1>1, <1>2, SameRequests
<1>5. Stage(c)'
  BY <1>1, <1>2, <1>4 DEF MsgTypeOK, Stage, Waiting, Answering, Answered, Served, Dropped, LinesUpTo
<1>6. ASSUME NEW d \in FileClients, d # c PROVE Stage(d)'
  BY <1>1, <1>2, <1>4, <1>6, StageElsewhere DEF MsgTypeOK
<1> QED
  BY <1>1, <1>2, <1>3, <1>4, <1>5, <1>6 DEF MsgInv, NeverBusy

LEMMA ReceiveRequestKeepsMsgInv ==
  ASSUME MsgInv, msgprogram = "svmsgmpxnq", Msg!ReceiveRequest
  PROVE  MsgInv'
<1>1. MsgTypeOK /\ AskedOnce /\ \A d \in FileClients : Stage(d)
  BY DEF MsgInv
<1>2. "MQ_KEY1" \in Msg!Queues /\ Requests \in Seq(Msg!Messages)
  BY <1>1 DEF Msg!Queues, MsgTypeOK, Requests
<1>3. PICK m \in Msg!Messages :
        /\ Msg!Received("MQ_KEY1", "1", m)
        /\ IF m.kind = "empty"
           THEN msgserver' = "gone" /\ UNCHANGED job
           ELSE \/ msgserver' = Msg!Fork /\ job' = [job EXCEPT ![m.for] = lines[m.for] + 1]
                \/ msgprogram = "svmsgmpxnq" /\ msgserver' = "gone" /\ UNCHANGED job
  BY DEF Msg!ReceiveRequest
<1>4. msgserver = "ready" /\ UNCHANGED <<msgprogram, lines, client, got>>
  BY DEF Msg!ReceiveRequest
<1>5. /\ Len(Requests) > 0 /\ m = Requests[1]
      /\ queue' = [queue EXCEPT !["MQ_KEY1"] = Tail(Requests)]
  BY <1>1, <1>2, <1>3, FirstReceived DEF Requests
<1>6. m.kind = "request" /\ m.for \in FileClients
  BY <1>1, <1>2, <1>5 DEF AskedOnce, Msg!Messages
<1>7. \/ msgserver' = "ready" /\ job' = [job EXCEPT ![m.for] = lines[m.for] + 1]
      \/ msgserver' = "gone" /\ job' = job
  BY <1>3, <1>6 DEF Msg!Fork
<1>8. MsgTypeOK'
  <2>1. lines[m.for] + 1 \in Nat
    BY <1>1, <1>6 DEF MsgTypeOK
  <2>3. job \in [FileClients -> Nat]
    BY <1>1 DEF MsgTypeOK
  <2>4. [job EXCEPT ![m.for] = lines[m.for] + 1] \in [FileClients -> Nat]
    BY <2>1, <2>3
  <2>2. job' \in [FileClients -> Nat]
    BY <1>7, <2>3, <2>4
  <2> QED
    BY <1>1, <1>2, <1>4, <1>5, <2>2 DEF MsgTypeOK
<1>9. Requests' = Tail(Requests)
  BY <1>1, <1>2, <1>5 DEF MsgTypeOK, Requests
<1>10. /\ Len(Requests) \in Nat /\ Len(Requests') = Len(Requests) - 1
       /\ \A j \in 1..Len(Requests) - 1 : Requests'[j] = Requests[j + 1]
  BY <1>2, <1>5, <1>9
<1>11. AskedOnce'
  <2> SUFFICES ASSUME NEW j \in 1..Len(Requests'), NEW l \in 1..Len(Requests')
               PROVE  /\ Requests'[j].kind = "request"
                      /\ Requests'[j].for = Requests'[l].for => j = l
    BY DEF AskedOnce
  <2>3. ASSUME NEW x \in 1..Len(Requests')
        PROVE  x \in 1..Len(Requests) - 1 /\ x + 1 \in 1..Len(Requests)
    BY <1>10
  <2>1. /\ j + 1 \in 1..Len(Requests) /\ Requests'[j] = Requests[j + 1]
        /\ l + 1 \in 1..Len(Requests) /\ Requests'[l] = Requests[l + 1]
    BY <1>10, <2>3
  <2>2. Requests[j + 1].kind = "request" /\ (Requests[j + 1].for = Requests[l + 1].for => j + 1 = l + 1)
    BY <1>1, <2>1 DEF AskedOnce
  <2> QED
    BY <1>10, <2>1, <2>2
<1>12. ~Requested(m.for)'
  BY <1>1, <1>5, <1>10 DEF AskedOnce, Requested
<1>13. ASSUME NEW d \in FileClients, d # m.for PROVE Requested(d)' <=> Requested(d)
  <2>1. Requested(d)' => Requested(d)
    BY <1>5, <1>10 DEF Requested
  <2>2. ASSUME NEW j \in 1..Len(Requests), Requests[j].for = d
        PROVE  Requested(d)'
    <3>1. j # 1
      BY <1>5, <1>13, <2>2
    <3>2. j - 1 \in 1..Len(Requests) - 1 /\ (j - 1) + 1 = j
      BY <1>10, <3>1
    <3>3. Requests'[j - 1] = Requests[j]
      BY <1>10, <3>2
    <3> QED
      BY <1>10, <2>2, <3>2, <3>3 DEF Requested
  <2> QED
    BY <2>1, <2>2 DEF Requested
<1>14. \A d \in FileClients : queue'[d] = queue[d]
  BY <1>1, <1>5, ProgramsAssumption DEF MsgTypeOK, Msg!Queues
<1>15. Stage(m.for)'
  <2>1. Requested(m.for)
    BY <1>5, <1>10 DEF Requested
  <2>2. Waiting(m.for) /\ client[m.for] \in {"read", "killed"}
    BY <1>1, <1>6, <2>1 DEF Stage, Waiting, Answering, Answered, Served, Dropped
  <2>3. /\ lines[m.for] \in Nat
        /\ \/ job'[m.for] = lines[m.for] + 1
           \/ job'[m.for] = 0 /\ msgserver' = "gone"
    BY <1>1, <1>6, <1>7, <2>2 DEF MsgTypeOK, Waiting
  <2>4. Len(queue'[m.for]) = 0 /\ got'[m.for] = 0 /\ client'[m.for] \in {"read", "killed"}
    BY <1>4, <1>6, <1>14, <2>2 DEF Waiting
  <2>5. CASE job'[m.for] = lines[m.for] + 1
    <3>1. Answering(m.for)'
      BY <1>4, <1>12, <2>3, <2>4, <2>5 DEF Answering, LinesUpTo, Whole
    <3> QED
      BY <3>1 DEF Stage
  <2>6. CASE job'[m.for] = 0 /\ msgserver' = "gone"
    <3>1. queue'[m.for] = <<>>
      BY <1>6, <1>14, <2>2 DEF Waiting
    <3>2. Dropped(m.for)'
      BY <1>12, <2>4, <2>6, <3>1 DEF Dropped
    <3> QED
      BY <3>2 DEF Stage
  <2> QED
    BY <2>3, <2>5, <2>6
<1>16. ASSUME NEW d \in FileClients, d # m.for PROVE Stage(d)'
  <2>1. job'[d] = job[d]
    BY <1>1, <1>7, <1>16 DEF MsgTypeOK
  <2> QED
    BY <1>1, <1>4, <1>13, <1>14, <1>16, <2>1, StageElsewhere
<1> QED
  BY <1>7, <1>8, <1>11, <1>15, <1>16 DEF MsgInv, NeverBusy

LEMMA ReadReplyKeepsMsgInv ==
  ASSUME MsgInv, msgprogram = "svmsgmpxnq", NEW c \in FileClients, Msg!ReadReply(c)
  PROVE  MsgInv'
<1>1. MsgTypeOK /\ AskedOnce /\ NeverBusy /\ \A d \in FileClients : Stage(d)
  BY DEF MsgInv
<1>2. c \in Msg!Queues /\ queue[c] \in Seq(Msg!Messages) /\ Msg!ReadId(c) = c
  BY <1>1 DEF Msg!Queues, MsgTypeOK, Msg!ReadId
<1>3. PICK m \in Msg!Messages :
        /\ Msg!Received(Msg!ReadId(c), "1", m)
        /\ IF m.kind \in {"empty", "end"}
           THEN client' = [client EXCEPT ![c] = "done"] /\ UNCHANGED got
           ELSE got' = [got EXCEPT ![c] = @ + 1] /\ UNCHANGED client
  BY DEF Msg!ReadReply
<1>4. client[c] = "read" /\ UNCHANGED <<msgprogram, lines, msgserver, job>>
  BY DEF Msg!ReadReply
<1>5. /\ Len(queue[c]) > 0 /\ m = queue[c][1]
      /\ queue' = [queue EXCEPT ![c] = Tail(queue[c])]
  BY <1>1, <1>2, <1>3, FirstReceived
<1>6. /\ Len(queue[c]) \in Nat /\ queue'[c] = Tail(queue[c])
      /\ Len(queue'[c]) = Len(queue[c]) - 1
      /\ \A j \in 1..Len(queue[c]) - 1 : queue'[c][j] = queue[c][j + 1]
  BY <1>1, <1>2, <1>5 DEF MsgTypeOK
<1>7. MsgTypeOK'
  <2>1. Tail(queue[c]) \in Seq(Msg!Messages)
    BY <1>2, <1>5
  <2>2. queue' \in [Msg!Queues -> Seq(Msg!Messages)]
    BY <1>1, <1>5, <2>1 DEF MsgTypeOK
  <2>3. got' \in [FileClients -> Nat]
    <3>1. got \in [FileClients -> Nat] /\ got[c] + 1 \in Nat
      BY <1>1 DEF MsgTypeOK
    <3>2. got' = got \/ got' = [got EXCEPT ![c] = got[c] + 1]
      BY <1>3
    <3> QED
      BY <3>1, <3>2
  <2>4. client' \in [FileClients -> {"start", "read", "done", "failed", "killed"}]
    BY <1>1, <1>3 DEF MsgTypeOK
  <2> QED
    BY <1>1, <1>4, <2>2, <2>3, <2>4 DEF MsgTypeOK
<1>8. AskedOnce' /\ \A d \in FileClients : Requested(d)' <=> Requested(d)
  <2>1. queue'["MQ_KEY1"] = queue["MQ_KEY1"]
    BY <1>1, <1>5, ProgramsAssumption DEF MsgTypeOK, Msg!Queues
  <2> QED
    BY <1>1, <2>1, SameRequests
<1>9. (Answering(c) \/ Answered(c)) /\ ~Requested(c) /\ lines[c] \in Nat /\ got[c] \in Nat /\ job[c] \in Nat
  <2>1. ~Waiting(c) /\ ~Dropped(c)
    BY <1>5 DEF Waiting, Dropped
  <2>2. Answering(c) \/ Answered(c)
    BY <1>1, <1>4, <2>1 DEF Stage, Served
  <2> QED
    BY <1>1, <2>2 DEF Answering, Answered, MsgTypeOK
<1>10. Stage(c)'
  <2>1. CASE Answering(c)
    <3>1. m.kind = "line"
      BY <1>5, <1>6, <2>1 DEF Answering, LinesUpTo
    <3>2. got'[c] = got[c] + 1 /\ client' = client
      BY <1>1, <1>3, <3>1 DEF MsgTypeOK
    <3>3. LinesUpTo(c, Len(queue[c]))'
      BY <1>6, <2>1 DEF Answering, LinesUpTo
    <3>4. Whole(got'[c], Len(queue'[c]), job'[c], lines'[c])
      <4>1. Whole(got[c] + 1, Len(queue[c]) - 1, job[c], lines[c])
        BY <1>6, <1>9, <2>1, WholeMoves DEF Answering
      <4> QED
        BY <1>4, <1>6, <3>2, <4>1, Zenon
    <3>5. Answering(c)'
      BY <1>4, <1>8, <2>1, <3>2, <3>3, <3>4 DEF Answering, LinesUpTo
    <3> QED
      BY <3>5 DEF Stage
  <2>2. CASE Answered(c) /\ Len(queue[c]) = 1
    <3>1. m.kind = "end" /\ got[c] = lines[c] /\ job[c] = 0
      BY <1>5, <1>9, <2>2 DEF Answered, Whole
    <3>2. client'[c] = "done" /\ got' = got
      BY <1>1, <1>3, <3>1 DEF MsgTypeOK
    <3>3. Served(c)'
      BY <1>4, <1>8, <1>9, <3>1, <3>2 DEF Served
    <3> QED
      BY <3>3 DEF Stage
  <2>3. CASE Answered(c) /\ Len(queue[c]) > 1
    <3>1. m.kind = "line"
      BY <1>5, <1>6, <2>3 DEF Answered, LinesUpTo
    <3>2. got'[c] = got[c] + 1 /\ client' = client
      BY <1>1, <1>3, <3>1 DEF MsgTypeOK
    <3>3. LinesUpTo(c, Len(queue[c]) - 1)'
      BY <1>6, <2>3 DEF Answered, LinesUpTo
    <3>4. queue'[c][Len(queue'[c])] = queue[c][Len(queue[c])]
      BY <1>6, <2>3
    <3>5. Len(queue'[c]) > 0 /\ Whole(got'[c], Len(queue'[c]), job'[c], lines'[c])
      <4>1. Whole(got[c] + 1, Len(queue[c]) - 1, job[c], lines[c])
        BY <1>6, <1>9, <2>3, WholeMoves DEF Answered
      <4>2. Len(queue[c]) - 1 > 0
        BY <1>6, <2>3
      <4> QED
        BY <1>4, <1>6, <3>2, <4>1, <4>2, Zenon
    <3>6. /\ ~Requested(c)' /\ client'[c] \in {"read", "killed"} /\ job'[c] = 0
          /\ queue'[c][Len(queue'[c])].kind = "end"
      BY <1>4, <1>8, <1>9, <2>3, <3>2, <3>4 DEF Answered
    <3>7. Answered(c)'
      BY <3>3, <3>5, <3>6 DEF Answered, LinesUpTo
    <3> QED
      BY <3>7 DEF Stage
  <2>4. Len(queue[c]) = 1 \/ Len(queue[c]) > 1
    <3>1. \A n \in Nat : n > 0 => n = 1 \/ n > 1
      OBVIOUS
    <3>2. Len(queue[c]) \in Nat /\ Len(queue[c]) > 0
      BY <1>5, <1>6
    <3> QED
      BY <3>1, <3>2
  <2> QED
    BY <1>9, <2>1, <2>2, <2>3, <2>4
<1>11. ASSUME NEW d \in FileClients, d # c PROVE Stage(d)'
  <2>1. queue'[d] = queue[d] /\ got'[d] = got[d] /\ client'[d] = client[d]
    BY <1>1, <1>3, <1>5, <1>11 DEF MsgTypeOK, Msg!Queues
  <2> QED
    BY <1>1, <1>4, <1>8, <2>1, StageElsewhere
<1> QED
  BY <1>1, <1>4, <1>7, <1>8, <1>10, <1>11 DEF MsgInv, NeverBusy

LEMMA SendReplyKeepsMsgInv ==
  ASSUME MsgInv, msgprogram = "svmsgmpxnq", NEW c \in FileClients, Msg!SendReply(c)
  PROVE  MsgInv'
<1>1. MsgTypeOK /\ AskedOnce /\ NeverBusy /\ \A d \in FileClients : Stage(d)
  BY DEF MsgInv
<1> DEFINE m == Msg!Message(IF job[c] = 1 THEN "end" ELSE "line", c)
<1>2. /\ job[c] > 0 /\ job' = [job EXCEPT ![c] = @ - 1]
      /\ queue' = [queue EXCEPT ![c] = Append(queue[c], m)]
      /\ UNCHANGED <<msgprogram, lines, msgserver, client, got>>
  BY <1>1 DEF Msg!SendReply, Msg!Sent, Msg!WriteId, NeverBusy
<1>3. m \in Msg!Messages /\ m.kind = IF job[c] = 1 THEN "end" ELSE "line"
  BY DEF Msg!Message, Msg!Messages
<1> HIDE DEF m
<1>4. queue[c] \in Seq(Msg!Messages) /\ queue'[c] = Append(queue[c], m)
  BY <1>1, <1>2 DEF MsgTypeOK, Msg!Queues
<1>5. /\ Len(queue[c]) \in Nat /\ Len(queue'[c]) = Len(queue[c]) + 1
      /\ \A j \in 1..Len(queue[c]) : queue'[c][j] = queue[c][j]
      /\ queue'[c][Len(queue[c]) + 1] = m
  BY <1>3, <1>4
<1>6. job[c] \in Nat /\ job'[c] = job[c] - 1 /\ lines[c] \in Nat /\ got[c] \in Nat
  BY <1>1, <1>2 DEF MsgTypeOK
<1>7. MsgTypeOK'
  <2>1. job' \in [FileClients -> Nat]
    BY <1>1, <1>2, <1>6 DEF MsgTypeOK
  <2>2. queue' \in [Msg!Queues -> Seq(Msg!Messages)]
    BY <1>1, <1>2, <1>3, <1>4 DEF MsgTypeOK
  <2> QED
    BY <1>1, <1>2, <2>1, <2>2 DEF MsgTypeOK
<1>8. AskedOnce' /\ \A d \in FileClients : Requested(d)' <=> Requested(d)
  <2>1. queue'["MQ_KEY1"] = queue["MQ_KEY1"]
    BY <1>1, <1>2, ProgramsAssumption DEF MsgTypeOK, Msg!Queues
  <2> QED
    BY <1>1, <2>1, SameRequests
<1>9. Answering(c)
  BY <1>1, <1>2 DEF Stage, Waiting, Answered, Served, Dropped
<1>10. Stage(c)'
  <2>1. CASE job[c] = 1
    <3>1. LinesUpTo(c, Len(queue[c]) - 1)' /\ queue'[c][Len(queue'[c])].kind = "end"
      BY <1>3, <1>5, <1>9, <2>1 DEF Answering, LinesUpTo
    <3>2. Whole(got'[c], Len(queue'[c]), job'[c], lines'[c])
      <4>1. Whole(got[c], Len(queue[c]) + 1, job[c] - 1, lines[c])
        BY <1>5, <1>6, <1>9, WholeMoves DEF Answering
      <4>2. got'[c] = got[c] /\ lines'[c] = lines[c]
        BY <1>2
      <4> QED
        BY <1>5, <1>6, <4>1, <4>2, Zenon
    <3>3. Answered(c)'
      BY <1>2, <1>5, <1>6, <1>8, <1>9, <2>1, <3>1, <3>2 DEF Answering, Answered, LinesUpTo
    <3> QED
      BY <3>3 DEF Stage
  <2>2. CASE job[c] > 1
    <3>1. LinesUpTo(c, Len(queue[c]))'
      BY <1>3, <1>5, <1>9, <2>2 DEF Answering, LinesUpTo
    <3>2. job'[c] > 0 /\ Whole(got'[c], Len(queue'[c]), job'[c], lines'[c])
      <4>1. Whole(got[c], Len(queue[c]) + 1, job[c] - 1, lines[c])
        BY <1>5, <1>6, <1>9, WholeMoves DEF Answering
      <4>2. got'[c] = got[c] /\ lines'[c] = lines[c]
        BY <1>2
      <4>3. job[c] - 1 > 0
        BY <1>6, <2>2
      <4> QED
        BY <1>5, <1>6, <4>1, <4>2, <4>3, Zenon
    <3>3. ~Requested(c)' /\ client'[c] \in {"read", "killed"}
      BY <1>2, <1>8, <1>9 DEF Answering
    <3>4. Answering(c)'
      BY <3>1, <3>2, <3>3 DEF Answering, LinesUpTo
    <3> QED
      BY <3>4 DEF Stage
  <2> QED
    BY <1>2, <1>6, <2>1, <2>2
<1>11. ASSUME NEW d \in FileClients, d # c PROVE Stage(d)'
  <2>1. queue'[d] = queue[d] /\ job'[d] = job[d]
    BY <1>1, <1>2, <1>11 DEF MsgTypeOK, Msg!Queues
  <2> QED
    BY <1>1, <1>2, <1>8, <2>1, StageElsewhere
<1> QED
  BY <1>1, <1>2, <1>7, <1>8, <1>10, <1>11 DEF MsgInv, NeverBusy

LEMMA MsgInvSuffices == ASSUME MsgInv PROVE ReplyUnderWay
<1> SUFFICES ASSUME msgprogram = "svmsgmpxnq", NEW c \in FileClients, Stage(c)
             PROVE  /\ client[c] = "done" => got[c] = lines[c]
                    /\ client[c] = "read" =>
                         \/ Requested(c) \/ job[c] > 0
                         \/ \E j \in 1..Len(queue[c]) : queue[c][j].kind = "end"
                         \/ msgserver = "gone" /\ queue[c] = <<>>
  BY DEF MsgInv, ReplyUnderWay
<1>1. CASE Waiting(c)
  BY <1>1 DEF Waiting
<1>2. CASE Answering(c)
  BY <1>2 DEF Answering
<1>3. CASE Answered(c)
  <2>1. queue[c] \in Seq(Msg!Messages)
    BY DEF MsgInv, MsgTypeOK, Msg!Queues
  <2>2. Len(queue[c]) \in 1..Len(queue[c])
    BY <1>3, <2>1 DEF Answered
  <2> QED
    BY <1>3, <2>2 DEF Answered
<1>4. CASE Served(c) \/ Dropped(c)
  BY <1>4 DEF Served, Dropped
<1> QED
  BY <1>1, <1>2, <1>3, <1>4 DEF Stage

(* Of the file servers, svmsgmpxnq serves each client to the last line:     *)
(* whichever clients are killed, with any sizes of files and queues, its    *)
(* server never stays away from Mesg_recv, and what a living client waits   *)
(* for is under way, unless a fork has failed.                              *)
THEOREM EveryReplyUnderWay == Spec => []ReplyUnderWay
<1>1. MsgInv /\ [Next]_vars => MsgInv'
  <2> SUFFICES ASSUME MsgInv, [Next]_vars PROVE MsgInv'
    OBVIOUS
  <2>1. CASE UNCHANGED msgVars \/ Msg!Stuck
    <3>1. UNCHANGED <<msgprogram, lines, queue, msgserver, job, client, got>>
      BY <2>1 DEF msgVars, Msg!Stuck, Msg!vars
    <3> QED
      BY <3>1 DEF MsgInv, MsgTypeOK, AskedOnce, NeverBusy, Requests, Requested, Stage,
                  Waiting, Answering, Answered, Served, Dropped, LinesUpTo
  <2>2. CASE Msg!Next /\ ~Msg!Stuck
    <3>1. msgprogram' = msgprogram
      BY <2>2 DEF Msg!Next, Msg!Server, Msg!Client, Msg!ReceiveRequest, Msg!SendReply,
                  Msg!OpenFails, Msg!SendRequest, Msg!ReadReply, Msg!Kill
    <3>2. CASE msgprogram # "svmsgmpxnq"
      BY <3>1, <3>2 DEF MsgInv
    <3>3. CASE msgprogram = "svmsgmpxnq"
      <4>1. ASSUME NEW c \in FileClients PROVE ~Msg!OpenFails(c)
        BY <3>3 DEF Msg!OpenFails
      <4> QED
        BY <2>2, <3>3, <4>1, SendRequestKeepsMsgInv, KillKeepsMsgInv,
           ReceiveRequestKeepsMsgInv, ReadReplyKeepsMsgInv, SendReplyKeepsMsgInv
           DEF Msg!Next, Msg!Server, Msg!Client
    <3> QED
      BY <3>2, <3>3
  <2> QED
    BY <2>1, <2>2, StepOfEach
<1> QED
  BY InitMsgInv, <1>1, MsgInvSuffices, PTL DEF Spec

-----------------------------------------------------------------------------
(* MutexProdCons.                                                           *)

Announcing == {p \in Producers : producer[p] = "announce"}
ItemInHand == IF consumer = "check" THEN 1 ELSE 0

ArrayType ==
  /\ buff \in [0..nitems - 1 -> Int]
  /\ stored \in 0..nitems /\ nval = stored
  /\ k \in Nat /\ nready \in Nat
  /\ producer \in [Producers -> {"put", "announce", "returned"}]
  /\ consumer \in {"none", "wait", "blocked", "check", "returned"}

(* The array is filled from the left, each element with its index.          *)
StoredInOrder == \A j \in 0..stored - 1 : buff[j] = j

ReturnedWhenFull == (\E p \in Producers : producer[p] = "returned") => stored = nitems

ReturnedAtEnd == consumer # "returned" => k < nitems

(* prodcons2: the consumer starts on a full array.                          *)
StartedLate ==
  IF arrayprogram = "prodcons2"
  THEN consumer \in {"none", "check", "returned"} /\ (consumer # "none" => stored = nitems)
  ELSE consumer # "none"

(* prodcons6: what is ready or about to be announced, the items checked and *)
(* the one in hand are those stored.                                        *)
ReadyTokens ==
  IF arrayprogram = "prodcons6"
  THEN nready + Cardinality(Announcing) + k + ItemInHand = stored
  ELSE Announcing = {} /\ consumer # "blocked"

BlockedOnNone == consumer = "blocked" => nready = 0

(* prodcons3: the consumer has seen its item.                               *)
ItemIsThere == consumer = "check" => k < stored

ArrayInv ==
  /\ ArrayType /\ StoredInOrder /\ ReturnedWhenFull /\ ReturnedAtEnd
  /\ StartedLate /\ ReadyTokens /\ BlockedOnNone /\ ItemIsThere
  /\ mismatches = 0

(* The consumer finds every item in its place, and is never blocked with    *)
(* nobody left to wake it.                                                  *)
EveryItemInPlace ==
  /\ mismatches = 0
  /\ consumer = "blocked" => \E p \in Producers : producer[p] # "returned"

LEMMA AnnouncingCount == IsFiniteSet(Announcing) /\ Cardinality(Announcing) \in Nat
<1>1. IsFiniteSet(Announcing)
  BY ProgramsAssumption, FS_Subset DEF Announcing
<1> QED
  BY <1>1, FS_CardinalityType

LEMMA InitArrayInv == Init => ArrayInv
<1> SUFFICES ASSUME Mutex!Init PROVE ArrayInv
  BY DEF Init
<1>1. Announcing = {} /\ Cardinality(Announcing) = 0
  BY FS_EmptySet DEF Mutex!Init, Announcing
<1>2. /\ stored = 0 /\ nval = 0 /\ nready = 0 /\ k = 0 /\ mismatches = 0
      /\ buff = [j \in 0..nitems - 1 |-> -1]
      /\ producer = [p \in Producers |-> "put"]
      /\ consumer = IF arrayprogram = "prodcons2" THEN "none" ELSE "wait"
  BY DEF Mutex!Init, Mutex!Unset
<1>3. ArrayType
  BY <1>2, ProgramsAssumption DEF ArrayType
<1>4. StoredInOrder /\ ReturnedAtEnd /\ StartedLate /\ BlockedOnNone /\ ItemIsThere
  BY <1>2, ProgramsAssumption DEF StoredInOrder, ReturnedAtEnd, StartedLate, BlockedOnNone, ItemIsThere
<1>5. ReturnedWhenFull
  BY <1>2 DEF ReturnedWhenFull
<1>6. ReadyTokens
  BY <1>1, <1>2 DEF ReadyTokens, ItemInHand
<1> QED
  BY <1>2, <1>3, <1>4, <1>5, <1>6 DEF ArrayInv

LEMMA PutKeepsArrayInv == ASSUME ArrayInv, NEW p \in Producers, Mutex!Put(p) PROVE ArrayInv'
<1>1. /\ ArrayType /\ StoredInOrder /\ ReturnedWhenFull /\ ReturnedAtEnd
      /\ StartedLate /\ ReadyTokens /\ BlockedOnNone /\ ItemIsThere /\ mismatches = 0
  BY DEF ArrayInv
<1>2. /\ producer[p] = "put" /\ stored < nitems
      /\ buff' = [buff EXCEPT ![stored] = nval]
      /\ stored' = stored + 1 /\ nval' = nval + 1
      /\ producer' = [producer EXCEPT
                        ![p] = IF arrayprogram = "prodcons6" THEN "announce" ELSE "put"]
      /\ UNCHANGED <<arrayprogram, nready, consumer, k, mismatches>>
  BY DEF Mutex!Put
<1>3. ArrayType'
  BY <1>1, <1>2, ProgramsAssumption DEF ArrayType
<1>4. StoredInOrder'
  BY <1>1, <1>2, ProgramsAssumption DEF StoredInOrder, ArrayType
<1>5. ReturnedWhenFull'
  BY <1>1, <1>2 DEF ReturnedWhenFull, ArrayType
<1>6. ReturnedAtEnd' /\ BlockedOnNone' /\ ItemIsThere'
  BY <1>1, <1>2, ProgramsAssumption DEF ArrayType, ReturnedAtEnd, BlockedOnNone, ItemIsThere
<1>7. StartedLate'
  BY <1>1, <1>2, ProgramsAssumption DEF ArrayType, StartedLate
<1>8. ReadyTokens'
  <2>1. CASE arrayprogram = "prodcons6"
    <3>1. Announcing' = Announcing \cup {p} /\ p \notin Announcing
      BY <1>1, <1>2, <2>1 DEF Announcing, ArrayType
    <3>2. Cardinality(Announcing)' = Cardinality(Announcing) + 1
      BY <3>1, AnnouncingCount, OneMore
    <3>3. ItemInHand' = ItemInHand /\ ItemInHand \in Nat
      BY <1>2 DEF ItemInHand
    <3> QED
      BY <1>1, <1>2, <2>1, <3>2, <3>3, AnnouncingCount DEF ReadyTokens, ArrayType
  <2>2. CASE arrayprogram # "prodcons6"
    <3>1. Announcing' = Announcing
      BY <1>1, <1>2, <2>2 DEF Announcing, ArrayType
    <3> QED
      BY <1>1, <1>2, <2>2, <3>1 DEF ReadyTokens
  <2> QED
    BY <2>1, <2>2
<1> QED
  BY <1>1, <1>2, <1>3, <1>4, <1>5, <1>6, <1>7, <1>8 DEF ArrayInv

LEMMA ArrayFullKeepsArrayInv ==
  ASSUME ArrayInv, NEW p \in Producers, Mutex!ArrayFull(p) PROVE ArrayInv'
<1>1. /\ ArrayType /\ StoredInOrder /\ ReturnedWhenFull /\ ReturnedAtEnd
      /\ StartedLate /\ ReadyTokens /\ BlockedOnNone /\ ItemIsThere /\ mismatches = 0
  BY DEF ArrayInv
<1>2. /\ producer[p] = "put" /\ stored >= nitems
      /\ producer' = [producer EXCEPT ![p] = "returned"]
      /\ UNCHANGED <<arrayprogram, buff, stored, nval, nready, consumer, k, mismatches>>
  BY DEF Mutex!ArrayFull, Mutex!array
<1>3. ArrayType'
  BY <1>1, <1>2 DEF ArrayType
<1>4. ReturnedWhenFull'
  BY <1>1, <1>2, ProgramsAssumption DEF ArrayType, ReturnedWhenFull
<1>5. /\ StoredInOrder' /\ ReturnedAtEnd' /\ StartedLate' /\ BlockedOnNone' /\ ItemIsThere'
  BY <1>1, <1>2 DEF StoredInOrder, ReturnedAtEnd, StartedLate, BlockedOnNone, ItemIsThere
<1>6. Announcing' = Announcing
  BY <1>1, <1>2 DEF Announcing, ArrayType
<1>7. ReadyTokens'
  BY <1>1, <1>2, <1>6 DEF ReadyTokens, ItemInHand
<1> QED
  BY <1>1, <1>2, <1>3, <1>4, <1>5, <1>7 DEF ArrayInv

LEMMA AnnounceKeepsArrayInv ==
  ASSUME ArrayInv, NEW p \in Producers, Mutex!Announce(p) PROVE ArrayInv'
<1>1. /\ ArrayType /\ StoredInOrder /\ ReturnedWhenFull /\ ReturnedAtEnd
      /\ StartedLate /\ ReadyTokens /\ BlockedOnNone /\ ItemIsThere /\ mismatches = 0
  BY DEF ArrayInv
<1>2. /\ producer[p] = "announce"
      /\ consumer' = IF nready = 0 /\ consumer = "blocked" THEN "wait" ELSE consumer
      /\ nready' = nready + 1
      /\ producer' = [producer EXCEPT ![p] = "put"]
      /\ UNCHANGED <<arrayprogram, buff, stored, nval, k, mismatches>>
  BY DEF Mutex!Announce, Mutex!array
<1>3. ArrayType'
  BY <1>1, <1>2 DEF ArrayType
<1>4. p \in Announcing /\ Announcing' = Announcing \ {p}
  BY <1>1, <1>2 DEF Announcing, ArrayType
<1>5. arrayprogram = "prodcons6"
  BY <1>1, <1>4 DEF ReadyTokens
<1>6. consumer' # "blocked" /\ (consumer' # consumer => consumer' = "wait" /\ consumer = "blocked")
  BY <1>1, <1>2 DEF BlockedOnNone
<1>7. StoredInOrder' /\ BlockedOnNone'
  BY <1>1, <1>2, <1>6 DEF StoredInOrder, BlockedOnNone
<1>8. ReturnedWhenFull'
  BY <1>1, <1>2 DEF ReturnedWhenFull, ArrayType
<1>9. ReturnedAtEnd' /\ ItemIsThere'
  BY <1>1, <1>2, <1>6 DEF ReturnedAtEnd, ItemIsThere
<1>10. StartedLate'
  BY <1>1, <1>2, <1>5, <1>6 DEF StartedLate
<1>11. ReadyTokens'
  <2>1. /\ Cardinality(Announcing)' = Cardinality(Announcing) - 1
        /\ Cardinality(Announcing) \in Nat \ {0}
    BY <1>4, AnnouncingCount, OneLess
  <2>2. ItemInHand' = ItemInHand /\ ItemInHand \in Nat
    BY <1>6 DEF ItemInHand
  <2> QED
    BY <1>1, <1>2, <1>5, <2>1, <2>2 DEF ReadyTokens, ArrayType
<1> QED
  BY <1>1, <1>2, <1>3, <1>7, <1>8, <1>9, <1>10, <1>11 DEF ArrayInv

(* The consumer's steps leave the array and its producers alone.            *)
LEMMA ConsumerKeepsArray ==
  ASSUME ArrayInv, UNCHANGED <<arrayprogram, buff, stored, nval, producer>>
  PROVE  StoredInOrder' /\ ReturnedWhenFull' /\ Announcing' = Announcing
BY DEF ArrayInv, StoredInOrder, ReturnedWhenFull, Announcing

LEMMA WaitingKeepsArrayInv ==
  ASSUME ArrayInv, \/ Mutex!CreateConsumer \/ Mutex!SpinUntilPut
                   \/ Mutex!WaitReady \/ Mutex!SpuriousWakeup
  PROVE  ArrayInv'
<1>1. /\ ArrayType /\ ReturnedWhenFull /\ ReturnedAtEnd
      /\ StartedLate /\ ReadyTokens /\ BlockedOnNone /\ ItemIsThere /\ mismatches = 0
  BY DEF ArrayInv
<1>2. UNCHANGED <<arrayprogram, buff, stored, nval, producer, k, mismatches>>
  BY DEF Mutex!CreateConsumer, Mutex!SpinUntilPut, Mutex!WaitReady, Mutex!SpuriousWakeup,
         Mutex!array
<1>3. StoredInOrder' /\ ReturnedWhenFull' /\ Announcing' = Announcing
  BY <1>2, ConsumerKeepsArray
<1>4. Cardinality(Announcing) \in Nat /\ Cardinality(Announcing)' = Cardinality(Announcing)
  BY <1>3, AnnouncingCount
<1>5. CASE Mutex!CreateConsumer
  <2>1. /\ consumer = "none" /\ consumer' = "check" /\ nready' = nready
        /\ \A p \in Producers : producer[p] = "returned"
    BY <1>5 DEF Mutex!CreateConsumer
  <2>2. arrayprogram = "prodcons2" /\ stored = nitems /\ k < nitems
    BY <1>1, <2>1, ProgramsAssumption DEF StartedLate, ReturnedWhenFull, ReturnedAtEnd
  <2>3. ArrayType' /\ ReturnedAtEnd' /\ BlockedOnNone' /\ ItemIsThere' /\ StartedLate'
    BY <1>1, <1>2, <2>1, <2>2
       DEF ArrayType, ReturnedAtEnd, BlockedOnNone, ItemIsThere, StartedLate
  <2>4. ReadyTokens'
    BY <1>1, <1>2, <1>3, <2>1, <2>2 DEF ReadyTokens
  <2> QED
    BY <1>1, <1>2, <1>3, <2>3, <2>4 DEF ArrayInv
<1>6. CASE Mutex!SpinUntilPut
  <2>1. /\ arrayprogram = "prodcons3" /\ consumer = "wait" /\ consumer' = "check"
        /\ nready' = nready /\ k < stored
    BY <1>6 DEF Mutex!SpinUntilPut
  <2>2. ArrayType' /\ ReturnedAtEnd' /\ BlockedOnNone' /\ ItemIsThere' /\ StartedLate'
    BY <1>1, <1>2, <2>1
       DEF ArrayType, ReturnedAtEnd, BlockedOnNone, ItemIsThere, StartedLate
  <2>3. ReadyTokens'
    BY <1>1, <1>2, <1>3, <2>1 DEF ReadyTokens
  <2> QED
    BY <1>1, <1>2, <1>3, <2>2, <2>3 DEF ArrayInv
<1>7. CASE Mutex!WaitReady
  <2>1. /\ arrayprogram = "prodcons6" /\ consumer = "wait"
        /\ \/ nready = 0 /\ consumer' = "blocked" /\ nready' = nready
           \/ nready > 0 /\ consumer' = "check" /\ nready' = nready - 1
    BY <1>7 DEF Mutex!WaitReady
  <2>2. nready + Cardinality(Announcing) + k = stored
    BY <1>1, <1>4, <2>1 DEF ReadyTokens, ItemInHand, ArrayType
  <2>3. ReadyTokens'
    BY <1>1, <1>2, <1>4, <2>1, <2>2 DEF ReadyTokens, ItemInHand, ArrayType
  <2>4. ItemIsThere'
    BY <1>1, <1>2, <1>4, <2>1, <2>2 DEF ItemIsThere, ArrayType
  <2>5. ArrayType' /\ ReturnedAtEnd' /\ BlockedOnNone' /\ StartedLate'
    BY <1>1, <1>2, <2>1 DEF ArrayType, ReturnedAtEnd, BlockedOnNone, StartedLate
  <2> QED
    BY <1>1, <1>2, <1>3, <2>3, <2>4, <2>5 DEF ArrayInv
<1>8. CASE Mutex!SpuriousWakeup
  <2>1. consumer = "blocked" /\ consumer' = "wait" /\ nready' = nready
    BY <1>8 DEF Mutex!SpuriousWakeup
  <2>2. arrayprogram = "prodcons6"
    BY <1>1, <2>1 DEF ReadyTokens
  <2>3. ReadyTokens'
    BY <1>1, <1>2, <1>4, <2>1, <2>2 DEF ReadyTokens, ItemInHand
  <2>4. ArrayType' /\ ReturnedAtEnd' /\ BlockedOnNone' /\ ItemIsThere' /\ StartedLate'
    BY <1>1, <1>2, <2>1, <2>2
       DEF ArrayType, ReturnedAtEnd, BlockedOnNone, ItemIsThere, StartedLate
  <2> QED
    BY <1>1, <1>2, <1>3, <2>3, <2>4 DEF ArrayInv
<1> QED
  BY <1>5, <1>6, <1>7, <1>8

LEMMA CheckKeepsArrayInv == ASSUME ArrayInv, Mutex!Check PROVE ArrayInv'
<1>1. /\ ArrayType /\ StoredInOrder /\ ReturnedAtEnd
      /\ StartedLate /\ ReadyTokens /\ ItemIsThere /\ mismatches = 0
  BY DEF ArrayInv
<1>2. /\ consumer = "check" /\ k' = k + 1
      /\ mismatches' = IF buff[k] = k THEN mismatches ELSE mismatches + 1
      /\ consumer' = IF k + 1 = nitems THEN "returned"
                     ELSE IF arrayprogram = "prodcons2" THEN "check" ELSE "wait"
      /\ UNCHANGED <<arrayprogram, buff, stored, nval, nready, producer>>
  BY DEF Mutex!Check, Mutex!array
<1>3. k \in Nat /\ k < stored /\ stored \in 0..nitems
  BY <1>1, <1>2 DEF ItemIsThere, ArrayType
<1>4. buff[k] = k
  BY <1>1, <1>3, ProgramsAssumption DEF StoredInOrder
<1>5. mismatches' = 0
  BY <1>1, <1>2, <1>4
<1>6. StoredInOrder' /\ ReturnedWhenFull' /\ Announcing' = Announcing
  BY <1>2, ConsumerKeepsArray
<1>7. ArrayType'
  BY <1>1, <1>2 DEF ArrayType
<1>8. ReturnedAtEnd' /\ BlockedOnNone' /\ ItemIsThere' /\ StartedLate'
  BY <1>1, <1>2, <1>3, ProgramsAssumption
     DEF ReturnedAtEnd, BlockedOnNone, ItemIsThere, StartedLate
<1>9. ReadyTokens'
  <2>1. CASE arrayprogram = "prodcons6"
    <3>1. Cardinality(Announcing) \in Nat /\ Cardinality(Announcing)' = Cardinality(Announcing)
      BY <1>6, AnnouncingCount
    <3>2. ItemInHand = 1 /\ ItemInHand' = 0
      BY <1>2, <2>1 DEF ItemInHand
    <3> QED
      BY <1>1, <1>2, <2>1, <3>1, <3>2 DEF ReadyTokens, ArrayType
  <2>2. CASE arrayprogram # "prodcons6"
    BY <1>1, <1>2, <1>6, <2>2 DEF ReadyTokens
  <2> QED
    BY <2>1, <2>2
<1> QED
  BY <1>5, <1>6, <1>7, <1>8, <1>9 DEF ArrayInv

(* What the producers have left on the way is announced when they return.   *)
LEMMA ArrayInvSuffices == ASSUME ArrayInv PROVE EveryItemInPlace
<1>1. ArrayType /\ ReturnedWhenFull /\ ReturnedAtEnd /\ ReadyTokens /\ BlockedOnNone
  BY DEF ArrayInv
<1>2. SUFFICES ASSUME consumer = "blocked", \A p \in Producers : producer[p] = "returned"
               PROVE  FALSE
  BY DEF ArrayInv, EveryItemInPlace
<1>3. stored = nitems /\ k < nitems /\ nready = 0
  BY <1>1, <1>2, ProgramsAssumption DEF ReturnedWhenFull, ReturnedAtEnd, BlockedOnNone
<1>4. Announcing = {} /\ Cardinality(Announcing) = 0 /\ ItemInHand = 0
  BY <1>2, FS_EmptySet DEF Announcing, ItemInHand
<1>5. nready + Cardinality(Announcing) + k + ItemInHand = stored
  BY <1>1, <1>2 DEF ReadyTokens
<1> QED
  BY <1>1, <1>3, <1>4, <1>5, ProgramsAssumption DEF ArrayType

(* The consumer of prodcons2, prodcons3 and prodcons6 looks at an element   *)
(* only when it has been stored, with any number of producers and items,    *)
(* and in prodcons6 the signal on nready = 0 reaches it each time.          *)
THEOREM ConsumerFindsItems == Spec => []EveryItemInPlace
<1>1. ArrayInv /\ [Next]_vars => ArrayInv'
  <2> SUFFICES ASSUME ArrayInv, [Next]_vars PROVE ArrayInv'
    OBVIOUS
  <2>1. CASE UNCHANGED mutexVars \/ Mutex!Joined
    <3>1. UNCHANGED <<arrayprogram, buff, stored, nval, nready, producer, consumer, k, mismatches>>
      BY <2>1 DEF mutexVars, Mutex!Joined, Mutex!vars, Mutex!array
    <3> QED
      BY <3>1 DEF ArrayInv, ArrayType, StoredInOrder, ReturnedWhenFull, ReturnedAtEnd,
                  StartedLate, ReadyTokens, BlockedOnNone, ItemIsThere, ItemInHand, Announcing
  <2>2. CASE Mutex!Next /\ ~Mutex!Joined
    BY <2>2, PutKeepsArrayInv, ArrayFullKeepsArrayInv, AnnounceKeepsArrayInv,
       WaitingKeepsArrayInv, CheckKeepsArrayInv DEF Mutex!Next, Mutex!consume, Mutex!produce
  <2> QED
    BY <2>1, <2>2, StepOfEach
<1> QED
  BY InitArrayInv, <1>1, ArrayInvSuffices, PTL DEF Spec

-----------------------------------------------------------------------------
(* Shutdown.                                                                *)

AllLeft == \A t \in NetThreads : net[t] = "left"

(* LogicServer01 runs one network thread, LogicServer02 none.               *)
FewThreads ==
  /\ socketserver = "LogicServer02" => AllLeft
  /\ socketserver = "LogicServer01" =>
       \A t, u \in NetThreads : net[t] = "run" /\ net[u] = "run" => t = u

(* main leaves its block when all network threads have been joined, and     *)
(* only then are the contexts destroyed; the CServer of LogicServer01 goes  *)
(* with its thread.                                                         *)
JoinedFirst ==
  /\ mpc \in {"locals", "exited"} => AllLeft
  /\ ~context => mpc = "exited"
  /\ ~cserver => AllLeft

(* The worker ends when ~LogicSystem has set _b_stop and the queue has been *)
(* drained, and nobody can post any more.                                   *)
DrainedForGood ==
  /\ _b_stop => mpc = "exited"
  /\ worker \in {"ended", "joined"} => _b_stop
  /\ worker \in {"none", "ended", "joined"} => nodes = 0

(* The pool of the coroutine server was constructed before the LogicSystem  *)
(* and outlives it.                                                         *)
PoolLast == ~context /\ socketserver = "Coroutine" => worker \in {"none", "joined"}

ShutInv ==
  /\ net \in [NetThreads -> {"run", "left"}]
  /\ FewThreads /\ JoinedFirst /\ DrainedForGood /\ PoolLast

LEMMA SameCount == ASSUME NEW S PROVE Shut!Cardinality(S) = Cardinality(S)
BY DEF Shut!Cardinality, Cardinality

LEMMA InitShutInv == Init => ShutInv
<1> SUFFICES ASSUME Shut!Init PROVE ShutInv
  BY DEF Init
<1>1. PICK running \in SUBSET NetThreads :
        /\ Cardinality(running) =
             CASE socketserver = "LogicServer02" -> 0
               [] socketserver \in {"LogicServer01", "Coroutine"} -> 1
               [] OTHER -> Cardinality(NetThreads)
        /\ net = [t \in NetThreads |-> IF t \in running THEN "run" ELSE "left"]
  BY SameCount DEF Shut!Init
<1>2. IsFiniteSet(running)
  BY ProgramsAssumption, FS_Subset
<1>3. net \in [NetThreads -> {"run", "left"}]
  BY <1>1
<1>4. socketserver = "LogicServer02" => AllLeft
  <2> SUFFICES ASSUME socketserver = "LogicServer02" PROVE running = {}
    BY <1>1 DEF AllLeft
  <2>1. Cardinality(running) = 0
    BY <1>1
  <2>2. QED
    BY <1>2, <2>1, FS_EmptySet
<1>5. socketserver = "LogicServer01" =>
        \A t, u \in NetThreads : net[t] = "run" /\ net[u] = "run" => t = u
  <2> SUFFICES ASSUME socketserver = "LogicServer01" PROVE \A t, u \in running : t = u
    BY <1>1
  <2>1. Cardinality(running) = 1
    BY <1>1
  <2>2. \E t : running = {t}
    BY <1>2, <2>1, FS_Singleton
  <2>3. QED
    BY <2>2
<1>6. /\ context = TRUE /\ cserver = TRUE /\ _b_stop = FALSE /\ mpc \in {"test", "run"}
      /\ worker = "none" /\ nodes = 0
  BY DEF Shut!Init
<1>7. QED
  BY <1>3, <1>4, <1>5, <1>6 DEF ShutInv, FewThreads, JoinedFirst, DrainedForGood, PoolLast

(* Most steps touch neither the objects nor the queue and keep main inside  *)
(* its block.                                                               *)
LEMMA InsideKeepsShutInv ==
  ASSUME ShutInv, UNCHANGED <<socketserver, net, nodes, worker, _b_stop, cserver, context>>,
         mpc' = mpc \/ (mpc \notin {"locals", "exited"} /\ mpc' \notin {"locals", "exited"})
  PROVE  ShutInv'
<1>1. AllLeft' = AllLeft
  BY DEF AllLeft
<1>2. QED
  BY <1>1 DEF ShutInv, FewThreads, JoinedFirst, DrainedForGood, PoolLast

(* Nobody posts when the threads have been joined, so the queue of a        *)
(* LogicSystem that has been stopped only shrinks.                          *)
LEMMA TrafficKeepsShutInv ==
  ASSUME ShutInv, Shut!FromClients \/ Shut!Worker \/ Shut!SpuriousConsume
  PROVE  ShutInv'
<1>1. CASE Shut!Connect \/ Shut!Disconnect
  BY <1>1, InsideKeepsShutInv DEF Shut!Connect, Shut!Disconnect, Shut!objects
<1>2. CASE Shut!PostMsgToQue
  <2>1. UNCHANGED <<socketserver, mpc, net, _b_stop, cserver, context>>
    BY <1>2 DEF Shut!PostMsgToQue, Shut!objects
  <2>2. Shut!Serving
    BY <1>2 DEF Shut!PostMsgToQue
  <2>3. mpc # "exited"
    BY <2>2 DEF Shut!Serving, ShutInv, JoinedFirst, AllLeft
  <2>4. worker \notin {"ended", "joined"} /\ context = TRUE
    <3>1. worker \notin {"ended", "joined"}
      BY <2>3 DEF ShutInv, DrainedForGood
    <3>2. context = TRUE
      BY <1>2, <2>3 DEF ShutInv, JoinedFirst
    <3>3. QED
      BY <3>1, <3>2
  <2>5. worker' = "awake" \/ (worker # "none" /\ worker' = worker)
    BY <1>2 DEF Shut!PostMsgToQue
  <2>6. AllLeft' = AllLeft
    BY <2>1 DEF AllLeft
  <2>7. QED
    BY <2>1, <2>3, <2>4, <2>5, <2>6 DEF ShutInv, FewThreads, JoinedFirst, DrainedForGood, PoolLast
<1>3. CASE Shut!Worker \/ Shut!SpuriousConsume
  <2>1. UNCHANGED <<socketserver, mpc, net, _b_stop, cserver, context>> /\ AllLeft' = AllLeft
    BY <1>3 DEF Shut!Worker, Shut!DealMsg, Shut!TestQueue, Shut!WaitConsume,
                Shut!SpuriousConsume, Shut!objects, AllLeft
  <2>2. /\ worker \in {"awake", "deciding", "waiting"}
        /\ \/ worker' \in {"awake", "deciding", "waiting"}
           \/ worker' = "ended" /\ _b_stop /\ nodes' = 0
    BY <1>3 DEF Shut!Worker, Shut!DealMsg, Shut!TestQueue, Shut!WaitConsume,
                Shut!SpuriousConsume
  <2>3. QED
    BY <2>1, <2>2 DEF ShutInv, FewThreads, JoinedFirst, DrainedForGood, PoolLast
<1>4. QED
  BY <1>1, <1>2, <1>3 DEF Shut!FromClients

(* In LogicServer01 the thread that leaves run() takes the CServer along,   *)
(* and there is no other thread.                                            *)
LEMMA LeaveRunKeepsShutInv ==
  ASSUME ShutInv, NEW t \in NetThreads, Shut!LeaveRun(t)
  PROVE  ShutInv'
<1>1. /\ net[t] = "run" /\ net' = [net EXCEPT ![t] = "left"]
      /\ cserver' = (cserver /\ socketserver # "LogicServer01")
      /\ UNCHANGED <<socketserver, mpc, nodes, worker, _b_stop, context>>
  BY DEF Shut!LeaveRun, Shut!traffic
<1>2. net \in [NetThreads -> {"run", "left"}] /\ net' \in [NetThreads -> {"run", "left"}]
  BY <1>1 DEF ShutInv
<1>3. AllLeft => AllLeft'
  BY <1>1, <1>2 DEF AllLeft
<1>4. FewThreads'
  BY <1>1, <1>2, <1>3 DEF ShutInv, FewThreads
<1>5. socketserver = "LogicServer01" => AllLeft'
  BY <1>1, <1>2 DEF ShutInv, FewThreads, AllLeft
<1>6. JoinedFirst'
  BY <1>1, <1>3, <1>5 DEF ShutInv, JoinedFirst
<1>7. QED
  BY <1>1, <1>2, <1>4, <1>6 DEF ShutInv, DrainedForGood, PoolLast

LEMMA MainKeepsShutInv ==
  ASSUME ShutInv, Shut!SignalArrives \/ Shut!SigHandler \/ Shut!MainLoop \/ Shut!SpuriousWakeup
  PROVE  ShutInv'
<1>1. UNCHANGED <<socketserver, net, nodes, worker, _b_stop, cserver, context>>
  BY DEF Shut!SignalArrives, Shut!SigHandler, Shut!SetStop, Shut!NotifyQuit, Shut!MainLoop,
         Shut!TestStop, Shut!LockQuit, Shut!WaitQuit, Shut!Relock, Shut!UnlockQuit,
         Shut!StopContext, Shut!SpuriousWakeup, Shut!objects, Shut!traffic
<1>2. mpc' = mpc \/ (mpc \notin {"locals", "exited"} /\ mpc' \notin {"locals", "exited"})
  BY DEF Shut!SignalArrives, Shut!SigHandler, Shut!SetStop, Shut!NotifyQuit, Shut!MainLoop,
         Shut!TestStop, Shut!LockQuit, Shut!WaitQuit, Shut!Relock, Shut!UnlockQuit,
         Shut!StopContext, Shut!SpuriousWakeup
<1>3. QED
  BY <1>1, <1>2, InsideKeepsShutInv

(* main comes to the end of its block: after its joins, or, in              *)
(* LogicServer02, without any, but there it was the only thread.            *)
LEMMA EndKeepsShutInv == ASSUME ShutInv, Shut!MainEnd PROVE ShutInv'
<1>1. UNCHANGED <<socketserver, net, nodes, worker, _b_stop>> /\ AllLeft' = AllLeft
  BY DEF Shut!MainEnd, Shut!HandleSignal, Shut!Join, Shut!DestroyLocals, Shut!objects,
         Shut!traffic, AllLeft
<1>2. FewThreads' /\ net' \in [NetThreads -> {"run", "left"}]
  BY <1>1 DEF ShutInv, FewThreads
<1>3. CASE Shut!HandleSignal
  <2>1. /\ mpc = "run" /\ UNCHANGED <<cserver, context>>
        /\ mpc' = IF socketserver = "LogicServer02" THEN "locals" ELSE "join"
    BY <1>3 DEF Shut!HandleSignal, Shut!objects
  <2>2. QED
    BY <1>1, <1>2, <2>1 DEF ShutInv, FewThreads, JoinedFirst, DrainedForGood, PoolLast
<1>4. CASE Shut!Join
  <2>1. AllLeft /\ mpc = "join" /\ mpc' = "locals" /\ UNCHANGED <<cserver, context>>
    BY <1>4 DEF Shut!Join, Shut!objects, AllLeft
  <2>2. QED
    BY <1>1, <1>2, <2>1 DEF ShutInv, JoinedFirst, DrainedForGood, PoolLast
<1>5. CASE Shut!DestroyLocals
  <2>1. /\ mpc = "locals" /\ mpc' = "exited"
        /\ context' = (socketserver \notin {"LogicServer01", "LogicServer02"})
    BY <1>5 DEF Shut!DestroyLocals
  <2>2. QED
    BY <1>1, <1>2, <2>1 DEF ShutInv, JoinedFirst, DrainedForGood, PoolLast
<1>6. QED
  BY <1>3, <1>4, <1>5 DEF Shut!MainEnd

LEMMA StaticsKeepShutInv == ASSUME ShutInv, Shut!Statics PROVE ShutInv'
<1>1. CASE Shut!StopLogic
  <2>1. /\ UNCHANGED <<socketserver, mpc, net, nodes, cserver, context>> /\ AllLeft' = AllLeft
        /\ mpc = "exited" /\ _b_stop' = TRUE /\ worker # "none" /\ ~_b_stop
        /\ worker' = worker \/ (worker = "waiting" /\ worker' = "awake")
    BY <1>1 DEF Shut!StopLogic, AllLeft
  <2>2. QED
    BY <2>1 DEF ShutInv, FewThreads, JoinedFirst, DrainedForGood, PoolLast
<1>2. CASE Shut!DestroyLogic
  <2>1. /\ UNCHANGED <<socketserver, mpc, net, nodes, _b_stop, cserver, context>>
        /\ AllLeft' = AllLeft /\ worker = "ended" /\ worker' = "joined"
    BY <1>2 DEF Shut!DestroyLogic, Shut!objects, AllLeft
  <2>2. QED
    BY <2>1 DEF ShutInv, FewThreads, JoinedFirst, DrainedForGood, PoolLast
<1>3. CASE Shut!DestroyPool
  <2>1. /\ UNCHANGED <<socketserver, mpc, net, nodes, worker, _b_stop, cserver>>
        /\ AllLeft' = AllLeft /\ mpc = "exited"
        /\ socketserver = "Coroutine" => worker \in {"none", "joined"}
    BY <1>3 DEF Shut!DestroyPool, Shut!LogicGone, Shut!traffic, AllLeft
  <2>2. QED
    BY <2>1 DEF ShutInv, FewThreads, JoinedFirst, DrainedForGood, PoolLast
<1>4. QED
  BY <1>1, <1>2, <1>3 DEF Shut!Statics

(* No thread is inside run() of a destroyed io_context or can use a         *)
(* destroyed CServer, whatever the order of the static destructors, and in  *)
(* the coroutine server no session is left when the pool goes.              *)
THEOREM NothingUsedAfterItsEnd == Spec => []ContextOutlivesThreads
<1>1. ShutInv /\ [Next]_vars => ShutInv'
  <2> SUFFICES ASSUME ShutInv, [Next]_vars PROVE ShutInv'
    OBVIOUS
  <2>1. CASE UNCHANGED shutVars
    BY <2>1, InsideKeepsShutInv DEF shutVars
  <2>2. CASE Shut!Next
    <3>1. CASE Shut!Finished
      BY <3>1, InsideKeepsShutInv DEF Shut!Finished, Shut!vars, Shut!traffic, Shut!objects
    <3>2. QED
      BY <2>2, <3>1, TrafficKeepsShutInv, LeaveRunKeepsShutInv, MainKeepsShutInv,
         EndKeepsShutInv, StaticsKeepShutInv DEF Shut!Next
  <2>3. QED
    BY <2>1, <2>2, StepOfEach
<1>2. ShutInv => ContextOutlivesThreads
  BY DEF ShutInv, JoinedFirst, DrainedForGood, PoolLast, AllLeft, ContextOutlivesThreads,
         Shut!ContextOutlivesThreads
<1>3. QED
  BY InitShutInv, <1>1, <1>2, PTL DEF Spec

-----------------------------------------------------------------------------
(* ShmRing.                                                                 *)

Messages == Clients \X Nat

RingTypeOK ==
  /\ nempty \in Nat /\ nstored \in Nat
  /\ nput \in Ring!Slots /\ index \in Ring!Slots
  /\ pc \in [Clients -> {"try", "claim", "fill", "post"}]
  /\ i \in [Clients -> Nat] /\ offset \in [Clients -> Ring!Slots]
  /\ server \in {"wait", "print", "release"}
  /\ msgdata \in [Ring!Slots -> Messages \cup {Ring!Free}]
  /\ claimed \in Seq(Messages) /\ printed \in Seq(Messages \cup {Ring!Free})
  /\ early \in BOOLEAN

At(label) == {c \in Clients : pc[c] = label}
Serves(label) == IF server = label THEN 1 ELSE 0
Outstanding == Len(claimed) - Len(printed)

(* Every slot is empty, promised to a client, claimed and not yet printed,  *)
(* or printed and not yet given back.                                       *)
EverySlot == nempty + Cardinality(At("claim")) + Outstanding + Serves("release") = NMESG

(* Every claim that has not been printed is on its way to nstored, counted  *)
(* in it, or taken from it by the server.                                   *)
EveryClaim ==
  nstored + Cardinality(At("fill")) + Cardinality(At("post")) + Serves("print") = Outstanding

(* n claims, or prints, after the start the next slot is s.                 *)
Position(n, s) == \E laps \in Nat : n = laps * NMESG + s

Indexes == Position(Len(claimed), nput) /\ Position(Len(printed), index)

(* The claims before which n others were made and that are not printed.     *)
InFlight == {n \in 0..Len(claimed) - 1 : Len(printed) <= n}

(* A client that fills a slot has claimed it for its message, which has not *)
(* been printed.                                                            *)
FillsOwnClaim ==
  \A c \in At("fill") :
    \E n \in InFlight : claimed[n + 1] = <<c, i[c]>> /\ Position(n, offset[c])

(* The slot of a claim in flight has its message, or is being filled.       *)
FilledOrFilling ==
  \A n \in InFlight : \A s \in Ring!Slots :
    Position(n, s) =>
      \/ msgdata[s] = claimed[n + 1]
      \/ \E c \in At("fill") : claimed[n + 1] = <<c, i[c]>> /\ offset[c] = s

PrintedInOrder == \A n \in 1..Len(printed) : printed[n] = claimed[n]

RingOrder == FillsOwnClaim /\ FilledOrFilling /\ PrintedInOrder

RingInv == RingTypeOK /\ EverySlot /\ EveryClaim /\ Indexes /\ (early \/ RingOrder)

-----------------------------------------------------------------------------
(* Positions.                                                               *)

LEMMA MoreLaps ==
  ASSUME NEW few \in Nat, NEW many \in Nat, few < many
  PROVE  /\ few * NMESG \in Nat /\ many * NMESG \in Nat
         /\ many * NMESG >= few * NMESG + NMESG
<1>1. PICK d \in Nat : many = few + 1 + d
  <2>1. many - few - 1 \in Nat
    OBVIOUS
  <2>2. QED
    BY <2>1
<1>2. NMESG \in Nat
  BY ProgramsAssumption
<1>3. many * NMESG = few * NMESG + NMESG + d * NMESG
  BY <1>1, <1>2
<1>4. few * NMESG \in Nat /\ d * NMESG \in Nat
  BY <1>2
<1>5. QED
  BY <1>2, <1>3, <1>4

(* A position has one slot.                                                 *)
LEMMA OneSlot ==
  ASSUME NEW n, NEW s \in Ring!Slots, NEW t \in Ring!Slots, Position(n, s), Position(n, t)
  PROVE  s = t
<1>1. PICK q \in Nat : n = q * NMESG + s
  BY DEF Position
<1>2. PICK r \in Nat : n = r * NMESG + t
  BY DEF Position
<1>3. s \in Int /\ t \in Int /\ 0 <= s /\ s < NMESG /\ 0 <= t /\ t < NMESG /\ NMESG \in Nat
  BY ProgramsAssumption DEF Ring!Slots
<1>4. CASE q = r
  <2>1. q * NMESG \in Nat
    BY <1>3
  <2>2. QED
    BY <1>1, <1>2, <1>3, <1>4, <2>1
<1>5. ASSUME q < r PROVE FALSE
  BY <1>1, <1>2, <1>3, <1>5, MoreLaps
<1>6. ASSUME r < q PROVE FALSE
  BY <1>1, <1>2, <1>3, <1>6, MoreLaps
<1>7. QED
  BY <1>4, <1>5, <1>6

(* Fewer than NMESG positions in a row have different slots.                *)
LEMMA SlotsApart ==
  ASSUME NEW m \in Int, NEW n \in Int, m < n, n < m + NMESG, NEW s \in Ring!Slots,
         Position(m, s), Position(n, s)
  PROVE  FALSE
<1>1. PICK q \in Nat : m = q * NMESG + s
  BY DEF Position
<1>2. PICK r \in Nat : n = r * NMESG + s
  BY DEF Position
<1>3. s \in Int /\ NMESG \in Nat /\ q * NMESG \in Nat /\ r * NMESG \in Nat
  BY ProgramsAssumption DEF Ring!Slots
<1>4. q < r
  <2>1. r * NMESG > q * NMESG
    BY <1>1, <1>2, <1>3
  <2>2. CASE r < q
    BY <2>1, <2>2, <1>3, MoreLaps
  <2>3. CASE r = q
    BY <2>1, <2>3, <1>3
  <2>4. QED
    BY <2>2, <2>3
<1>5. QED
  BY <1>1, <1>2, <1>3, <1>4, MoreLaps

LEMMA NextPosition ==
  ASSUME NEW n \in Nat, NEW s \in Ring!Slots, Position(n, s)
  PROVE  Position(n + 1, Ring!Following(s)) /\ Ring!Following(s) \in Ring!Slots
<1>1. PICK q \in Nat : n = q * NMESG + s
  BY DEF Position
<1>2. s \in Int /\ 0 <= s /\ s < NMESG /\ NMESG \in Nat \ {0} /\ q * NMESG \in Nat
  BY ProgramsAssumption DEF Ring!Slots
<1>3. CASE s + 1 >= NMESG
  <2>1. (q + 1) * NMESG = q * NMESG + NMESG
    BY <1>2
  <2>2. n + 1 = (q + 1) * NMESG + 0
    BY <1>1, <1>2, <1>3, <2>1
  <2>3. Position(n + 1, 0)
    BY <2>2, q + 1 \in Nat DEF Position
  <2>4. Ring!Following(s) = 0 /\ 0 \in Ring!Slots
    BY <1>2, <1>3 DEF Ring!Following, Ring!Slots
  <2>5. QED
    BY <2>3, <2>4
<1>4. CASE ~(s + 1 >= NMESG)
  <2>1. n + 1 = q * NMESG + (s + 1)
    BY <1>1, <1>2
  <2>2. QED
    BY <1>2, <1>4, <2>1 DEF Position, Ring!Following, Ring!Slots
<1>5. QED
  BY <1>3, <1>4

-----------------------------------------------------------------------------
(* Counting clients.                                                        *)

LEMMA ClientCounts ==
  ASSUME NEW label PROVE IsFiniteSet(At(label)) /\ Cardinality(At(label)) \in Nat
BY ProgramsAssumption, FS_Subset, FS_CardinalityType DEF At

(* A client goes on: one more after, one less before, the others stay.      *)
LEMMA ClientComes ==
  ASSUME RingTypeOK, NEW c \in Clients, NEW to, pc[c] # to, pc' = [pc EXCEPT ![c] = to]
  PROVE  Cardinality(At(to))' = Cardinality(At(to)) + 1
<1>1. At(to)' = At(to) \cup {c} /\ c \notin At(to)
  BY DEF At, RingTypeOK
<1>2. QED
  BY <1>1, ClientCounts, OneMore

LEMMA ClientLeaves ==
  ASSUME RingTypeOK, NEW c \in Clients, NEW from, pc[c] = from, NEW to, from # to,
         pc' = [pc EXCEPT ![c] = to]
  PROVE  Cardinality(At(from))' = Cardinality(At(from)) - 1
<1>1. At(from)' = At(from) \ {c} /\ c \in At(from)
  BY DEF At, RingTypeOK
<1>2. QED
  BY <1>1, ClientCounts, OneLess

LEMMA ClientElsewhere ==
  ASSUME RingTypeOK, NEW c \in Clients, NEW label, pc[c] # label, NEW to, label # to,
         pc' = [pc EXCEPT ![c] = to]
  PROVE  At(label)' = At(label)
BY DEF At, RingTypeOK

-----------------------------------------------------------------------------
(* Initially.                                                               *)

LEMMA InitRingInv == Init => RingInv
<1> SUFFICES ASSUME Ring!Init PROVE RingInv
  BY DEF Init
<1>1. RingTypeOK
  <2>1. 0 \in Ring!Slots /\ NMESG \in Nat
    BY ProgramsAssumption DEF Ring!Slots
  <2>2. <<>> \in Seq(Messages) /\ <<>> \in Seq(Messages \cup {Ring!Free})
    OBVIOUS
  <2>3. QED
    BY <2>1, <2>2 DEF Ring!Init, RingTypeOK
<1>2. Len(claimed) = 0 /\ Len(printed) = 0
  BY DEF Ring!Init
<1>3. \A label : label # "try" => At(label) = {}
  BY DEF Ring!Init, At
<1>4. EverySlot /\ EveryClaim
  <2>1. /\ Cardinality(At("claim")) = 0 /\ Cardinality(At("fill")) = 0
        /\ Cardinality(At("post")) = 0
    BY <1>3, FS_EmptySet
  <2>2. nempty = NMESG /\ nstored = 0 /\ server = "wait" /\ NMESG \in Nat
    BY ProgramsAssumption DEF Ring!Init
  <2>3. QED
    BY <1>2, <2>1, <2>2 DEF EverySlot, EveryClaim, Outstanding, Serves
<1>5. Position(0, 0)
  BY ProgramsAssumption, 0 \in Nat, 0 = 0 * NMESG + 0 DEF Position
<1>6. RingOrder
  BY <1>2, <1>3 DEF RingOrder, FillsOwnClaim, FilledOrFilling, PrintedInOrder, InFlight
<1>7. QED
  BY <1>1, <1>2, <1>4, <1>5, <1>6 DEF Ring!Init, RingInv, Indexes

-----------------------------------------------------------------------------
(* The types of what a step assigns.                                        *)

LEMMA ClientKeepsTypes ==
  ASSUME RingTypeOK, NEW c \in Clients, Ring!Client(c)
  PROVE  RingTypeOK'
<1>1. CASE Ring!TryEmpty(c)
  <2>1. UNCHANGED <<nstored, nput, index, offset, server, msgdata, claimed, printed, early>>
    BY <1>1 DEF Ring!TryEmpty, Ring!ring, Ring!serv
  <2>2. nempty' \in Nat /\ i' \in [Clients -> Nat]
    BY <1>1 DEF Ring!TryEmpty, RingTypeOK
  <2>3. pc' \in [Clients -> {"try", "claim", "fill", "post"}]
    BY <1>1 DEF Ring!TryEmpty, RingTypeOK
  <2>4. QED
    BY <2>1, <2>2, <2>3 DEF RingTypeOK
<1>2. CASE Ring!Claim(c)
  <2>1. /\ UNCHANGED <<nempty, nstored, index, i, server, msgdata, printed, early>>
        /\ nput' = Ring!Following(nput) /\ claimed' = Append(claimed, <<c, i[c]>>)
        /\ offset' = [offset EXCEPT ![c] = nput] /\ pc' = [pc EXCEPT ![c] = "fill"]
    BY <1>2 DEF Ring!Claim, Ring!serv
  <2>2. nput' \in Ring!Slots
    BY <2>1, ProgramsAssumption DEF RingTypeOK, Ring!Slots, Ring!Following
  <2>3. claimed' \in Seq(Messages)
    <3>1. <<c, i[c]>> \in Messages
      BY DEF RingTypeOK, Messages
    <3>2. QED
      BY <2>1, <3>1 DEF RingTypeOK
  <2>4. offset' \in [Clients -> Ring!Slots] /\ pc' \in [Clients -> {"try", "claim", "fill", "post"}]
    BY <2>1 DEF RingTypeOK
  <2>5. QED
    BY <2>1, <2>2, <2>3, <2>4 DEF RingTypeOK
<1>3. CASE Ring!Fill(c)
  <2>1. /\ UNCHANGED <<nempty, nstored, nput, index, i, offset, server, claimed, printed, early>>
        /\ msgdata' = [msgdata EXCEPT ![offset[c]] = <<c, i[c]>>]
        /\ pc' = [pc EXCEPT ![c] = "post"]
    BY <1>3 DEF Ring!Fill, Ring!serv
  <2>2. <<c, i[c]>> \in Messages
    BY DEF RingTypeOK, Messages
  <2>3. msgdata' \in [Ring!Slots -> Messages \cup {Ring!Free}]
    BY <2>1, <2>2 DEF RingTypeOK
  <2>4. pc' \in [Clients -> {"try", "claim", "fill", "post"}]
    BY <2>1 DEF RingTypeOK
  <2>5. QED
    BY <2>1, <2>3, <2>4 DEF RingTypeOK
<1>4. CASE Ring!PostStored(c)
  BY <1>4 DEF Ring!PostStored, Ring!ring, Ring!serv, RingTypeOK
<1>5. QED
  BY <1>1, <1>2, <1>3, <1>4 DEF Ring!Client

LEMMA ServerKeepsTypes == ASSUME RingTypeOK, Ring!Server PROVE RingTypeOK'
<1>1. CASE Ring!WaitStored \/ Ring!PostEmpty
  BY <1>1 DEF Ring!WaitStored, Ring!PostEmpty, Ring!ring, Ring!client, RingTypeOK
<1>2. CASE Ring!PrintSlot
  <2>1. /\ UNCHANGED <<nempty, nstored, nput, pc, i, offset, msgdata, claimed>>
        /\ printed' = Append(printed, msgdata[index]) /\ index' = Ring!Following(index)
        /\ server' = "release" /\ early' \in BOOLEAN
    BY <1>2 DEF Ring!PrintSlot, Ring!ring, Ring!client, RingTypeOK
  <2>2. index' \in Ring!Slots
    BY <2>1, ProgramsAssumption DEF RingTypeOK, Ring!Slots, Ring!Following
  <2>3. msgdata[index] \in Messages \cup {Ring!Free}
    BY DEF RingTypeOK
  <2>4. printed' \in Seq(Messages \cup {Ring!Free})
    BY <2>1, <2>3 DEF RingTypeOK
  <2>5. QED
    BY <2>1, <2>2, <2>4 DEF RingTypeOK
<1>3. QED
  BY <1>1, <1>2 DEF Ring!Server

-----------------------------------------------------------------------------
(* The two sums.                                                            *)

LEMMA ClientKeepsTokens ==
  ASSUME RingTypeOK, EverySlot, EveryClaim, NEW c \in Clients, Ring!Client(c)
  PROVE  EverySlot' /\ EveryClaim'
<1>1. /\ Cardinality(At("claim")) \in Nat /\ Cardinality(At("fill")) \in Nat
      /\ Cardinality(At("post")) \in Nat /\ nempty \in Nat /\ nstored \in Nat
      /\ Len(claimed) \in Nat /\ Len(printed) \in Nat
      /\ Serves("print") \in {0, 1} /\ Serves("release") \in {0, 1}
  BY ClientCounts DEF RingTypeOK, Serves
<1>2. UNCHANGED <<server, printed>>
  BY DEF Ring!Client, Ring!TryEmpty, Ring!Claim, Ring!Fill, Ring!PostStored, Ring!serv
<1>3. Len(printed)' = Len(printed) /\ Serves("print")' = Serves("print")
        /\ Serves("release")' = Serves("release")
  BY <1>2 DEF Serves
<1>4. CASE Ring!TryEmpty(c)
  <2>1. Len(claimed)' = Len(claimed) /\ nstored' = nstored
    BY <1>4 DEF Ring!TryEmpty, Ring!ring
  <2>2. CASE UNCHANGED <<nempty, pc>>
    <3>1. \A label : At(label)' = At(label)
      BY <2>2 DEF At
    <3>2. QED
      BY <2>1, <2>2, <3>1, <1>3 DEF EverySlot, EveryClaim, Outstanding
  <2>3. CASE nempty' = nempty - 1 /\ pc[c] = "try" /\ pc' = [pc EXCEPT ![c] = "claim"]
    <3>1. Cardinality(At("claim"))' = Cardinality(At("claim")) + 1
      BY <2>3, ClientComes
    <3>2. At("fill")' = At("fill") /\ At("post")' = At("post")
      BY <2>3, ClientElsewhere
    <3>3. QED
      BY <1>1, <1>3, <2>1, <2>3, <3>1, <3>2 DEF EverySlot, EveryClaim, Outstanding
  <2>4. QED
    BY <1>4, <2>2, <2>3 DEF Ring!TryEmpty
<1>5. CASE Ring!Claim(c)
  <2>1. pc[c] = "claim" /\ pc' = [pc EXCEPT ![c] = "fill"] /\ UNCHANGED <<nempty, nstored>>
    BY <1>5 DEF Ring!Claim
  <2>2. Len(claimed)' = Len(claimed) + 1
    BY <1>5 DEF Ring!Claim, RingTypeOK
  <2>3. Cardinality(At("claim"))' = Cardinality(At("claim")) - 1
    BY <2>1, ClientLeaves
  <2>4. Cardinality(At("fill"))' = Cardinality(At("fill")) + 1
    BY <2>1, ClientComes
  <2>5. At("post")' = At("post")
    BY <2>1, ClientElsewhere
  <2>6. EverySlot'
    BY <1>1, <1>3, <2>1, <2>2, <2>3 DEF EverySlot, Outstanding
  <2>7. Outstanding' = Outstanding + 1 /\ Outstanding \in Int
    BY <1>1, <1>3, <2>2 DEF Outstanding
  <2>8. EveryClaim'
    BY <1>1, <1>3, <2>1, <2>4, <2>5, <2>7 DEF EveryClaim
  <2>9. QED
    BY <2>6, <2>8
<1>6. CASE Ring!Fill(c)
  <2>1. pc[c] = "fill" /\ pc' = [pc EXCEPT ![c] = "post"] /\ UNCHANGED <<nempty, nstored, claimed>>
    BY <1>6 DEF Ring!Fill
  <2>2. Cardinality(At("fill"))' = Cardinality(At("fill")) - 1
    BY <2>1, ClientLeaves
  <2>3. Cardinality(At("post"))' = Cardinality(At("post")) + 1
    BY <2>1, ClientComes
  <2>4. At("claim")' = At("claim")
    BY <2>1, ClientElsewhere
  <2>5. EverySlot'
    BY <1>3, <2>1, <2>4 DEF EverySlot, Outstanding
  <2>6. EveryClaim'
    BY <1>1, <1>3, <2>1, <2>2, <2>3 DEF EveryClaim, Outstanding
  <2>7. QED
    BY <2>5, <2>6
<1>7. CASE Ring!PostStored(c)
  <2>1. /\ pc[c] = "post" /\ pc' = [pc EXCEPT ![c] = "try"]
        /\ nstored' = nstored + 1 /\ UNCHANGED <<nempty, claimed>>
    BY <1>7 DEF Ring!PostStored, Ring!ring
  <2>2. Cardinality(At("post"))' = Cardinality(At("post")) - 1
    BY <2>1, ClientLeaves
  <2>3. At("fill")' = At("fill") /\ At("claim")' = At("claim")
    BY <2>1, ClientElsewhere
  <2>4. EverySlot'
    BY <1>3, <2>1, <2>3 DEF EverySlot, Outstanding
  <2>5. EveryClaim'
    BY <1>1, <1>3, <2>1, <2>2, <2>3 DEF EveryClaim, Outstanding
  <2>6. QED
    BY <2>4, <2>5
<1>8. QED
  BY <1>4, <1>5, <1>6, <1>7 DEF Ring!Client

LEMMA ServerKeepsTokens ==
  ASSUME RingTypeOK, EverySlot, EveryClaim, Ring!Server
  PROVE  EverySlot' /\ EveryClaim'
<1>1. /\ Cardinality(At("claim")) \in Nat /\ Cardinality(At("fill")) \in Nat
      /\ Cardinality(At("post")) \in Nat /\ nempty \in Nat /\ nstored \in Nat
      /\ Len(claimed) \in Nat /\ Len(printed) \in Nat
  BY ClientCounts DEF RingTypeOK
<1>2. UNCHANGED <<pc, claimed>>
  BY DEF Ring!Server, Ring!WaitStored, Ring!PrintSlot, Ring!PostEmpty, Ring!ring, Ring!client
<1>3. \A label : At(label)' = At(label)
  BY <1>2 DEF At
<1>4. CASE Ring!WaitStored
  <2>1. /\ server = "wait" /\ server' = "print" /\ nstored' = nstored - 1
        /\ UNCHANGED <<nempty, printed>>
    BY <1>4 DEF Ring!WaitStored
  <2>2. EverySlot'
    BY <1>1, <1>2, <1>3, <2>1 DEF EverySlot, Outstanding, Serves
  <2>3. EveryClaim'
    BY <1>1, <1>2, <1>3, <2>1 DEF EveryClaim, Outstanding, Serves
  <2>4. QED
    BY <2>2, <2>3
<1>5. CASE Ring!PrintSlot
  <2>1. server = "print" /\ server' = "release" /\ UNCHANGED <<nempty, nstored>>
    BY <1>5 DEF Ring!PrintSlot
  <2>2. Len(printed)' = Len(printed) + 1
    BY <1>5 DEF Ring!PrintSlot, RingTypeOK
  <2>3. EverySlot'
    BY <1>1, <1>2, <1>3, <2>1, <2>2 DEF EverySlot, Outstanding, Serves
  <2>4. EveryClaim'
    BY <1>1, <1>2, <1>3, <2>1, <2>2 DEF EveryClaim, Outstanding, Serves
  <2>5. QED
    BY <2>3, <2>4
<1>6. CASE Ring!PostEmpty
  <2>1. /\ server = "release" /\ server' = "wait" /\ nempty' = nempty + 1
        /\ UNCHANGED <<nstored, printed>>
    BY <1>6 DEF Ring!PostEmpty
  <2>2. EverySlot'
    BY <1>1, <1>2, <1>3, <2>1 DEF EverySlot, Outstanding, Serves
  <2>3. EveryClaim'
    BY <1>1, <1>2, <1>3, <2>1 DEF EveryClaim, Outstanding, Serves
  <2>4. QED
    BY <2>2, <2>3
<1>7. QED
  BY <1>4, <1>5, <1>6 DEF Ring!Server

(* What the sums bound: never more claims ahead of the prints than slots,   *)
(* one less while a client is about to claim, and one at least when the     *)
(* server is about to print.                                                *)
LEMMA Bounds ==
  ASSUME RingTypeOK, EverySlot, EveryClaim
  PROVE  /\ Len(printed) <= Len(claimed) /\ Len(claimed) <= Len(printed) + NMESG
         /\ \A c \in Clients : pc[c] = "claim" => Len(claimed) < Len(printed) + NMESG
         /\ server = "print" => Len(printed) < Len(claimed)
<1>1. /\ Cardinality(At("claim")) \in Nat /\ Cardinality(At("fill")) \in Nat
      /\ Cardinality(At("post")) \in Nat /\ nempty \in Nat /\ nstored \in Nat
      /\ Len(claimed) \in Nat /\ Len(printed) \in Nat /\ NMESG \in Nat
      /\ Serves("print") \in {0, 1} /\ Serves("release") \in {0, 1}
  BY ClientCounts, ProgramsAssumption DEF RingTypeOK, Serves
<1>2. Len(printed) <= Len(claimed) /\ Len(claimed) <= Len(printed) + NMESG
  <2>1. Outstanding >= 0
    BY <1>1 DEF EveryClaim
  <2>2. Outstanding <= NMESG
    BY <1>1 DEF EverySlot, Outstanding
  <2>3. QED
    BY <1>1, <2>1, <2>2 DEF Outstanding
<1>3. ASSUME NEW c \in Clients, pc[c] = "claim" PROVE Len(claimed) < Len(printed) + NMESG
  <2>1. c \in At("claim")
    BY <1>3 DEF At
  <2>2. Cardinality(At("claim")) \in Nat \ {0}
    BY <2>1, ClientCounts, OneLess
  <2>3. QED
    BY <1>1, <2>2 DEF EverySlot, Outstanding
<1>4. ASSUME server = "print" PROVE Len(printed) < Len(claimed)
  <2>1. Serves("print") = 1
    BY <1>4 DEF Serves
  <2>2. QED
    BY <1>1, <2>1 DEF EveryClaim, Outstanding
<1>5. QED
  BY <1>2, <1>3, <1>4

-----------------------------------------------------------------------------
(* The order of claims and prints.                                          *)

LEMMA StepKeepsIndexes ==
  ASSUME RingTypeOK, Indexes, Ring!Next
  PROVE  Indexes'
<1>1. Len(claimed) \in Nat /\ Len(printed) \in Nat /\ nput \in Ring!Slots /\ index \in Ring!Slots
  BY DEF RingTypeOK
<1>2. \/ UNCHANGED <<claimed, nput>>
      \/ Len(claimed)' = Len(claimed) + 1 /\ nput' = Ring!Following(nput)
  <2>1. ASSUME NEW c \in Clients, Ring!Claim(c)
        PROVE  Len(claimed)' = Len(claimed) + 1 /\ nput' = Ring!Following(nput)
    BY <2>1 DEF Ring!Claim, RingTypeOK
  <2>2. QED
    BY <2>1 DEF Ring!Next, Ring!Idle, Ring!vars, Ring!Server, Ring!WaitStored, Ring!PrintSlot,
         Ring!PostEmpty, Ring!Client, Ring!TryEmpty, Ring!Fill, Ring!PostStored, Ring!ring
<1>3. \/ UNCHANGED <<printed, index>>
      \/ Len(printed)' = Len(printed) + 1 /\ index' = Ring!Following(index)
  <2>1. ASSUME Ring!PrintSlot
        PROVE  Len(printed)' = Len(printed) + 1 /\ index' = Ring!Following(index)
    BY <2>1 DEF Ring!PrintSlot, RingTypeOK
  <2>2. QED
    BY <2>1 DEF Ring!Next, Ring!Idle, Ring!vars, Ring!Server, Ring!WaitStored, Ring!Claim,
         Ring!PostEmpty, Ring!Client, Ring!TryEmpty, Ring!Fill, Ring!PostStored, Ring!serv
<1>4. Position(Len(claimed), nput)'
  <2>1. CASE UNCHANGED <<claimed, nput>>
    BY <2>1 DEF Indexes, Position
  <2>2. CASE Len(claimed)' = Len(claimed) + 1 /\ nput' = Ring!Following(nput)
    <3>1. Position(Len(claimed) + 1, Ring!Following(nput))
      BY <1>1, NextPosition DEF Indexes
    <3>2. QED
      BY <2>2, <3>1 DEF Position
  <2>3. QED
    BY <1>2, <2>1, <2>2
<1>5. Position(Len(printed), index)'
  <2>1. CASE UNCHANGED <<printed, index>>
    BY <2>1 DEF Indexes, Position
  <2>2. CASE Len(printed)' = Len(printed) + 1 /\ index' = Ring!Following(index)
    <3>1. Position(Len(printed) + 1, Ring!Following(index))
      BY <1>1, NextPosition DEF Indexes
    <3>2. QED
      BY <2>2, <3>1 DEF Position
  <2>3. QED
    BY <1>3, <2>1, <2>2
<1>6. QED
  BY <1>4, <1>5 DEF Indexes

(* Steps that neither claim, fill nor print disturb nothing.                *)
LEMMA ElsewhereKeepsOrder ==
  ASSUME RingOrder, UNCHANGED <<claimed, printed, msgdata, offset>>, At("fill")' = At("fill"),
         \A c \in At("fill") : i'[c] = i[c]
  PROVE  RingOrder'
<1>1. InFlight' = InFlight
  BY DEF InFlight
<1>2. FillsOwnClaim'
  BY <1>1 DEF RingOrder, FillsOwnClaim, Position
<1>3. FilledOrFilling'
  BY <1>1 DEF RingOrder, FilledOrFilling, Position
<1>4. PrintedInOrder'
  BY DEF RingOrder, PrintedInOrder
<1>5. QED
  BY <1>2, <1>3, <1>4 DEF RingOrder

LEMMA ClaimKeepsOrder ==
  ASSUME RingTypeOK, Indexes, RingOrder, Len(printed) <= Len(claimed),
         NEW c \in Clients, Ring!Claim(c)
  PROVE  RingOrder'
<1>1. /\ pc[c] = "claim" /\ pc' = [pc EXCEPT ![c] = "fill"]
      /\ claimed' = Append(claimed, <<c, i[c]>>)
      /\ offset' = [offset EXCEPT ![c] = nput]
      /\ UNCHANGED <<printed, msgdata, i>>
  BY DEF Ring!Claim, Ring!serv
<1>2. /\ Len(claimed) \in Nat /\ Len(claimed') = Len(claimed) + 1 /\ Len(printed) \in Nat
      /\ claimed'[Len(claimed) + 1] = <<c, i[c]>>
      /\ \A n \in 1..Len(claimed) : claimed'[n] = claimed[n]
  BY <1>1 DEF RingTypeOK
<1>3. At("fill")' = At("fill") \cup {c} /\ c \notin At("fill")
  BY <1>1 DEF At, RingTypeOK
<1>4. offset'[c] = nput /\ \A d \in At("fill") : offset'[d] = offset[d]
  BY <1>1, <1>3 DEF RingTypeOK, At
<1>5. /\ InFlight \subseteq InFlight' /\ InFlight' \subseteq InFlight \cup {Len(claimed)}
      /\ \A n \in InFlight : claimed'[n + 1] = claimed[n + 1]
  BY <1>1, <1>2 DEF InFlight
<1>6. Position(Len(claimed), nput)
  BY DEF Indexes
<1>7. PrintedInOrder'
  <2> SUFFICES ASSUME NEW n \in 1..Len(printed) PROVE printed[n] = claimed'[n]
    BY <1>1 DEF PrintedInOrder
  <2>1. printed[n] = claimed[n]
    BY DEF RingOrder, PrintedInOrder
  <2>2. QED
    BY <1>2, <2>1
<1>8. FillsOwnClaim'
  <2> SUFFICES ASSUME NEW d \in At("fill")'
               PROVE  \E n \in InFlight' : claimed'[n + 1] = <<d, i[d]>> /\ Position(n, offset'[d])
    BY <1>1 DEF FillsOwnClaim, Position
  <2>1. CASE d = c
    <3>1. Len(claimed) \in InFlight'
      BY <1>1, <1>2 DEF InFlight
    <3>2. QED
      BY <1>2, <1>4, <1>6, <2>1, <3>1
  <2>2. CASE d \in At("fill")
    <3>1. PICK n \in InFlight : claimed[n + 1] = <<d, i[d]>> /\ Position(n, offset[d])
      BY <2>2 DEF RingOrder, FillsOwnClaim
    <3>2. QED
      BY <1>4, <1>5, <2>2, <3>1
  <2>3. QED
    BY <1>3, <2>1, <2>2
<1>9. FilledOrFilling'
  <2> SUFFICES ASSUME NEW n \in InFlight', NEW s \in Ring!Slots, Position(n, s)
               PROVE  \/ msgdata[s] = claimed'[n + 1]
                      \/ \E d \in At("fill")' : claimed'[n + 1] = <<d, i[d]>> /\ offset'[d] = s
    <3>1. msgdata' = msgdata /\ i' = i
      BY <1>1
    <3>2. QED
      BY <3>1 DEF FilledOrFilling, Position
  <2>1. CASE n = Len(claimed)
    <3>1. nput = s
      BY <1>6, <2>1, OneSlot DEF RingTypeOK
    <3>2. QED
      BY <1>2, <1>3, <1>4, <2>1, <3>1
  <2>2. CASE n \in InFlight
    <3>1. CASE msgdata[s] = claimed[n + 1]
      BY <1>5, <2>2, <3>1
    <3>2. ASSUME NEW d \in At("fill"), claimed[n + 1] = <<d, i[d]>>, offset[d] = s
          PROVE  \E e \in At("fill")' : claimed'[n + 1] = <<e, i[e]>> /\ offset'[e] = s
      BY <1>3, <1>4, <1>5, <2>2, <3>2
    <3>3. QED
      BY <2>2, <3>1, <3>2 DEF RingOrder, FilledOrFilling
  <2>3. QED
    BY <1>5, <2>1, <2>2
<1>10. QED
  BY <1>7, <1>8, <1>9 DEF RingOrder

(* Two claims in flight have different slots, so filling one leaves the     *)
(* others alone.                                                            *)
LEMMA FlightsApart ==
  ASSUME RingTypeOK, Len(claimed) <= Len(printed) + NMESG, NEW m \in InFlight, NEW n \in InFlight,
         NEW s \in Ring!Slots, Position(m, s), Position(n, s)
  PROVE  m = n
<1>1. /\ m \in Int /\ n \in Int /\ Len(printed) \in Nat /\ Len(claimed) \in Nat /\ NMESG \in Nat
      /\ Len(printed) <= m /\ m < Len(claimed) /\ Len(printed) <= n /\ n < Len(claimed)
  BY ProgramsAssumption DEF InFlight, RingTypeOK
<1>2. ASSUME m < n PROVE FALSE
  <2>1. n < m + NMESG
    BY <1>1
  <2>2. QED
    BY <1>1, <1>2, <2>1, SlotsApart
<1>3. ASSUME n < m PROVE FALSE
  <2>1. m < n + NMESG
    BY <1>1
  <2>2. QED
    BY <1>1, <1>3, <2>1, SlotsApart
<1>4. QED
  BY <1>1, <1>2, <1>3

LEMMA FillKeepsOrder ==
  ASSUME RingTypeOK, RingOrder, Len(claimed) <= Len(printed) + NMESG,
         NEW c \in Clients, Ring!Fill(c)
  PROVE  RingOrder'
<1>1. /\ pc[c] = "fill" /\ pc' = [pc EXCEPT ![c] = "post"]
      /\ msgdata' = [msgdata EXCEPT ![offset[c]] = <<c, i[c]>>]
      /\ UNCHANGED <<claimed, printed, offset, i>>
  BY DEF Ring!Fill, Ring!serv
<1>2. At("fill")' = At("fill") \ {c} /\ c \in At("fill")
  BY <1>1 DEF At, RingTypeOK
<1>3. InFlight' = InFlight
  BY <1>1 DEF InFlight
<1>4. PICK own \in InFlight : claimed[own + 1] = <<c, i[c]>> /\ Position(own, offset[c])
  BY <1>2 DEF RingOrder, FillsOwnClaim
<1>5. FillsOwnClaim'
  BY <1>1, <1>2, <1>3 DEF RingOrder, FillsOwnClaim, Position
<1>6. FilledOrFilling'
  <2> SUFFICES ASSUME NEW n \in InFlight, NEW s \in Ring!Slots, Position(n, s)
               PROVE  \/ msgdata'[s] = claimed[n + 1]
                      \/ \E d \in At("fill")' : claimed[n + 1] = <<d, i[d]>> /\ offset[d] = s
    BY <1>1, <1>3 DEF FilledOrFilling, Position
  <2>1. offset[c] \in Ring!Slots
    BY DEF RingTypeOK
  <2>2. CASE s = offset[c]
    <3>1. n = own
      BY <1>4, <2>1, <2>2, FlightsApart
    <3>2. msgdata'[s] = <<c, i[c]>>
      BY <1>1, <2>1, <2>2 DEF RingTypeOK
    <3>3. QED
      BY <1>4, <3>1, <3>2
  <2>3. CASE s # offset[c]
    <3>1. msgdata'[s] = msgdata[s]
      BY <1>1, <2>3 DEF RingTypeOK
    <3>2. ASSUME NEW d \in At("fill"), claimed[n + 1] = <<d, i[d]>>, offset[d] = s
          PROVE  d \in At("fill")'
      BY <1>2, <2>3, <3>2
    <3>3. QED
      BY <3>1, <3>2 DEF RingOrder, FilledOrFilling
  <2>4. QED
    BY <2>2, <2>3
<1>7. PrintedInOrder'
  BY <1>1 DEF RingOrder, PrintedInOrder
<1>8. QED
  BY <1>5, <1>6, <1>7 DEF RingOrder

(* The server prints the next claim when nobody is filling its slot.        *)
LEMMA PrintKeepsOrder ==
  ASSUME RingTypeOK, Indexes, RingOrder, Len(printed) < Len(claimed), Ring!PrintSlot,
         ~(\E c \in Clients : pc[c] = "fill" /\ offset[c] = index)
  PROVE  RingOrder'
<1>1. printed' = Append(printed, msgdata[index]) /\ UNCHANGED <<pc, i, offset, msgdata, claimed>>
  BY DEF Ring!PrintSlot, Ring!ring, Ring!client
<1>2. /\ Len(printed) \in Nat /\ Len(printed') = Len(printed) + 1 /\ Len(claimed) \in Nat
      /\ printed'[Len(printed) + 1] = msgdata[index]
      /\ \A n \in 1..Len(printed) : printed'[n] = printed[n]
  BY <1>1 DEF RingTypeOK
<1>3. InFlight' = InFlight \ {Len(printed)} /\ Len(printed) \in InFlight
  BY <1>1, <1>2 DEF InFlight
<1>4. Position(Len(printed), index) /\ index \in Ring!Slots /\ At("fill")' = At("fill")
  BY <1>1 DEF Indexes, RingTypeOK, At
<1>5. msgdata[index] = claimed[Len(printed) + 1]
  BY <1>3, <1>4 DEF RingOrder, FilledOrFilling, At
<1>6. PrintedInOrder'
  <2> SUFFICES ASSUME NEW n \in 1..Len(printed) + 1 PROVE printed'[n] = claimed[n]
    BY <1>1, <1>2 DEF PrintedInOrder
  <2>1. CASE n = Len(printed) + 1
    BY <1>2, <1>5, <2>1
  <2>2. CASE n \in 1..Len(printed)
    BY <1>2, <2>2 DEF RingOrder, PrintedInOrder
  <2>3. QED
    BY <1>2, <2>1, <2>2
<1>7. FillsOwnClaim'
  <2> SUFFICES ASSUME NEW c \in At("fill")
               PROVE  \E n \in InFlight' : claimed[n + 1] = <<c, i[c]>> /\ Position(n, offset[c])
    BY <1>1, <1>4 DEF FillsOwnClaim, Position
  <2>1. PICK n \in InFlight : claimed[n + 1] = <<c, i[c]>> /\ Position(n, offset[c])
    BY DEF RingOrder, FillsOwnClaim
  <2>2. offset[c] \in Ring!Slots /\ offset[c] # index
    BY DEF At, RingTypeOK
  <2>3. n # Len(printed)
    BY <1>4, <2>1, <2>2, OneSlot
  <2>4. QED
    BY <1>3, <2>1, <2>3
<1>8. FilledOrFilling'
  <2>1. \A n \in InFlight' : n \in InFlight
    BY <1>3
  <2>2. QED
    BY <1>1, <1>4, <2>1 DEF RingOrder, FilledOrFilling, Position
<1>9. QED
  BY <1>6, <1>7, <1>8 DEF RingOrder

-----------------------------------------------------------------------------

LEMMA StepKeepsOrder ==
  ASSUME RingInv, Ring!Next
  PROVE  early' \/ RingOrder'
<1> SUFFICES ASSUME ~early' PROVE RingOrder'
  OBVIOUS
<1>1. ~early
  BY DEF Ring!Next, Ring!Idle, Ring!vars, Ring!Server, Ring!WaitStored, Ring!PrintSlot,
         Ring!PostEmpty, Ring!Client, Ring!TryEmpty, Ring!Claim, Ring!Fill, Ring!PostStored,
         Ring!serv
<1>2. RingTypeOK /\ Indexes /\ RingOrder
  BY <1>1 DEF RingInv
<1>3. /\ Len(printed) <= Len(claimed) /\ Len(claimed) <= Len(printed) + NMESG
      /\ server = "print" => Len(printed) < Len(claimed)
  BY Bounds DEF RingInv
<1>4. ASSUME NEW c \in Clients, Ring!Client(c) PROVE RingOrder'
  <2>1. CASE Ring!TryEmpty(c) \/ Ring!PostStored(c)
    <3>1. UNCHANGED <<claimed, printed, msgdata, offset>>
      BY <2>1 DEF Ring!TryEmpty, Ring!PostStored, Ring!ring, Ring!serv
    <3>2. At("fill")' = At("fill")
      BY <1>2, <2>1 DEF Ring!TryEmpty, Ring!PostStored, At, RingTypeOK
    <3>3. \A d \in At("fill") : i'[d] = i[d]
      BY <1>2, <2>1 DEF Ring!TryEmpty, Ring!PostStored, At, RingTypeOK
    <3>4. QED
      BY <1>2, <3>1, <3>2, <3>3, ElsewhereKeepsOrder
  <2>2. QED
    BY <1>2, <1>3, <1>4, <2>1, ClaimKeepsOrder, FillKeepsOrder DEF Ring!Client
<1>5. CASE Ring!WaitStored \/ Ring!PostEmpty \/ Ring!Idle
  <2>1. UNCHANGED <<claimed, printed, msgdata, offset, pc, i>>
    BY <1>5 DEF Ring!WaitStored, Ring!PostEmpty, Ring!Idle, Ring!vars, Ring!ring, Ring!client,
         Ring!serv
  <2>2. At("fill")' = At("fill")
    BY <2>1 DEF At
  <2>3. QED
    BY <1>2, <2>1, <2>2, ElsewhereKeepsOrder
<1>6. CASE Ring!PrintSlot
  <2>1. server = "print" /\ ~(\E c \in Clients : pc[c] = "fill" /\ offset[c] = index)
    BY <1>6 DEF Ring!PrintSlot
  <2>2. QED
    BY <1>2, <1>3, <1>6, <2>1, PrintKeepsOrder
<1>7. QED
  BY <1>4, <1>5, <1>6 DEF Ring!Next, Ring!Server

LEMMA RingInvariance == Spec => []RingInv
<1>1. RingInv /\ UNCHANGED ringVars => RingInv'
  <2> SUFFICES ASSUME RingInv, UNCHANGED ringVars PROVE RingInv'
    OBVIOUS
  <2>1. RingTypeOK' /\ Indexes'
    BY DEF ringVars, RingInv, RingTypeOK, Indexes, Position
  <2>2. \A label : At(label)' = At(label)
    BY DEF ringVars, At
  <2>3. EverySlot' /\ EveryClaim'
    BY <2>2 DEF ringVars, RingInv, EverySlot, EveryClaim, Outstanding, Serves
  <2>4. early' \/ RingOrder'
    BY <2>2, ElsewhereKeepsOrder DEF ringVars, RingInv
  <2>5. QED
    BY <2>1, <2>3, <2>4 DEF RingInv
<1>2. RingInv /\ Ring!Next => RingInv'
  <2> SUFFICES ASSUME RingInv, Ring!Next PROVE RingInv'
    OBVIOUS
  <2>1. CASE Ring!Idle
    BY <1>1, <2>1 DEF Ring!Idle, Ring!vars, Ring!ring, Ring!client, Ring!serv, ringVars
  <2>2. CASE Ring!Server \/ \E c \in Clients : Ring!Client(c)
    <3>1. RingTypeOK'
      BY <2>2, ClientKeepsTypes, ServerKeepsTypes DEF RingInv
    <3>2. EverySlot' /\ EveryClaim'
      BY <2>2, ClientKeepsTokens, ServerKeepsTokens DEF RingInv
    <3>3. QED
      BY <3>1, <3>2, StepKeepsIndexes, StepKeepsOrder DEF RingInv
  <2>3. QED
    BY <2>1, <2>2 DEF Ring!Next
<1>3. RingInv /\ [Next]_vars => RingInv'
  BY <1>1, <1>2, StepOfEach
<1>4. QED
  BY InitRingInv, <1>3, PTL DEF Spec

(* The server never gets ahead of the claims, and until it has printed a    *)
(* slot that was still being filled it prints them in their order and no    *)
(* slot has two writers.                                                    *)
THEOREM PrintsInClaimOrder == Spec => []RingInOrder
<1>1. RingInv => RingInOrder
  <2> SUFFICES ASSUME RingInv PROVE RingInOrder
    OBVIOUS
  <2>1. RingTypeOK /\ Len(printed) <= Len(claimed) /\ Len(claimed) <= Len(printed) + NMESG
    BY Bounds DEF RingInv
  <2>2. ASSUME RingOrder PROVE printed = SubSeq(claimed, 1, Len(printed))
    <3>1. \A n \in 1..Len(printed) : printed[n] = claimed[n]
      BY <2>2 DEF RingOrder, PrintedInOrder
    <3>2. QED
      BY <2>1, <3>1 DEF RingTypeOK
  <2>3. ASSUME RingOrder, NEW c \in Clients, NEW d \in Clients, pc[c] = "fill", pc[d] = "fill",
               offset[c] = offset[d]
        PROVE  c = d
    <3>1. PICK m \in InFlight : claimed[m + 1] = <<c, i[c]>> /\ Position(m, offset[c])
      BY <2>3 DEF RingOrder, FillsOwnClaim, At
    <3>2. PICK n \in InFlight : claimed[n + 1] = <<d, i[d]>> /\ Position(n, offset[c])
      BY <2>3 DEF RingOrder, FillsOwnClaim, At
    <3>3. m = n
      BY <2>1, <3>1, <3>2, FlightsApart DEF RingTypeOK
    <3>4. QED
      BY <3>1, <3>2, <3>3
  <2>4. QED
    BY <2>1, <2>2, <2>3 DEF RingInOrder, Ring!RingInOrder, RingInv
<1>2. QED
  BY RingInvariance, <1>1, PTL
=============================================================================
