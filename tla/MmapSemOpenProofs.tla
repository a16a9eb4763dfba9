-------------------------- MODULE MmapSemOpenProofs --------------------------
(***************************************************************************)
(* Proofs about MmapSemOpen for any set of processes, any number of files  *)
(* and any number of polls.                                                *)
(***************************************************************************)
EXTENDS MmapSemOpen, TLAPS

(* A file that exists has its name or has been unlinked, so the path names  *)
(* at most one of those that have not.                                      *)
NamedOrRemoved ==
  /\ path # NoFile => state[path] # "unused" /\ path \notin removed
  /\ \A f \in removed : state[f] # "unused"
  /\ \A f \in Files : state[f] # "unused" => f = path \/ f \in removed

(* What a process has behind its descriptor or its mapping exists.          *)
HeldFilesExist ==
  \A p \in Procs :
    /\ file[p] # NoFile => state[file[p]] # "unused"
    /\ sem[p] # NoFile => state[sem[p]] # "unused"

Creating(p) == pc[p] \in {"init", "chmod"}

(* A file is initialised by its own creator only, once.                     *)
CreatorOwnsFile ==
  /\ \A p \in Procs :
       /\ At(p, "init") => file[p] # NoFile /\ state[file[p]] = "created"
       /\ At(p, "chmod") => file[p] # NoFile /\ state[file[p]] = "built" /\ sem[p] = file[p]
       /\ created[p] => file[p] # NoFile /\ pc[p] \in {"init", "chmod", "err"}
  /\ \A p, q \in Procs : Creating(p) /\ Creating(q) /\ p # q => file[p] # file[q]

(* An opener polls with a file mapped, and less than MAX_TRIES times.       *)
Polling ==
  \A p \in Procs :
    /\ At(p, "map") => file[p] # NoFile
    /\ At(p, "stat") => sem[p] # NoFile /\ tries[p] < MAX_TRIES
    /\ At(p, "opened") => sem[p] # NoFile

IInv == /\ TypeOK /\ NamedOrRemoved /\ HeldFilesExist /\ CreatorOwnsFile /\ Polling
        /\ OpenedIsInitialisedOrRemoved

USE DEF Files, NoFile, Labels, Returned, Goto, At, Creating

LEMMA InitIInv == Init => IInv
BY MmapSemOpenAssumption
DEF Init, IInv, TypeOK, NamedOrRemoved, HeldFilesExist, CreatorOwnsFile, Polling,
    OpenedIsInitialisedOrRemoved, Flags

(* Steps that neither change a file or the path, nor a mapping.             *)
LEMMA CallKeepsIInv ==
  ASSUME IInv, NEW p \in Procs, NEW flags \in Flags, Call(p, flags)
  PROVE  IInv'
<1> USE DEF IInv, TypeOK, Call
<1>1. TypeOK'  OBVIOUS
<1>2. NamedOrRemoved' /\ HeldFilesExist'  BY DEF NamedOrRemoved, HeldFilesExist
<1>3. CreatorOwnsFile'  BY DEF CreatorOwnsFile
<1>4. Polling'  BY DEF Polling
<1>5. OpenedIsInitialisedOrRemoved'  BY DEF OpenedIsInitialisedOrRemoved
<1>6. QED  BY <1>1, <1>2, <1>3, <1>4, <1>5

LEMMA CreateKeepsIInv ==
  ASSUME IInv, NEW p \in Procs, Create(p)
  PROVE  IInv'
<1> DEFINE f == CHOOSE x \in FilesLeft : TRUE
<1>0. f \in FilesLeft
  BY DEF Create
<1>1. /\ f \in Files /\ state[f] = "unused" /\ path = NoFile
      /\ At(p, "again") /\ pc' = [pc EXCEPT ![p] = "init"]
      /\ path' = f
      /\ state' = [state EXCEPT ![f] = "created"]
      /\ file' = [file EXCEPT ![p] = f]
      /\ created' = [created EXCEPT ![p] = TRUE]
      /\ UNCHANGED <<removed, oflag, sem, tries>>
  BY <1>0 DEF Create, FilesLeft
<1> HIDE DEF f
<1> USE DEF IInv, TypeOK
<1>2. TypeOK'  BY <1>1
<1>3. NamedOrRemoved'  BY <1>1 DEF NamedOrRemoved
<1>4. HeldFilesExist'  BY <1>1 DEF HeldFilesExist
<1>5. CreatorOwnsFile'  BY <1>1 DEF CreatorOwnsFile, HeldFilesExist
<1>6. Polling'  BY <1>1 DEF Polling
<1>7. OpenedIsInitialisedOrRemoved'
  BY <1>1 DEF OpenedIsInitialisedOrRemoved, HeldFilesExist, Polling
<1>8. QED  BY <1>2, <1>3, <1>4, <1>5, <1>6, <1>7

(* What Return does to the variables, whatever the label.                   *)
LEMMA ReturnEffect ==
  ASSUME TypeOK, NEW p \in Procs, NEW label \in Returned, Return(p, label)
  PROVE  /\ pc' = [pc EXCEPT ![p] = label]
         /\ pc' \in [Procs -> Labels]
         /\ oflag' \in [Procs -> Flags]
         /\ file' = [file EXCEPT ![p] = NoFile]
         /\ file' \in [Procs -> Files \union {NoFile}]
         /\ created' = [created EXCEPT ![p] = FALSE]
         /\ created' \in [Procs -> BOOLEAN]
         /\ tries' = [tries EXCEPT ![p] = 0]
         /\ tries' \in [Procs -> 0..MAX_TRIES]
<1>1. [creat |-> FALSE, excl |-> FALSE] \in Flags
  BY DEF Flags
<1>2. 0 \in 0..MAX_TRIES
  BY MmapSemOpenAssumption
<1>3. QED
  BY <1>1, <1>2 DEF TypeOK, Return

LEMMA CreateFindsFileKeepsIInv ==
  ASSUME IInv, NEW p \in Procs, CreateFindsFile(p)
  PROVE  IInv'
<1> USE DEF IInv, TypeOK, CreateFindsFile, locals
<1>1. TypeOK'  OBVIOUS
<1>2. NamedOrRemoved' /\ HeldFilesExist'  BY DEF NamedOrRemoved, HeldFilesExist
<1>3. CreatorOwnsFile'  BY DEF CreatorOwnsFile
<1>4. Polling'  BY DEF Polling
<1>5. OpenedIsInitialisedOrRemoved'  BY DEF OpenedIsInitialisedOrRemoved
<1>6. QED  BY <1>1, <1>2, <1>3, <1>4, <1>5

(* A process that returns without a mapping, and perhaps takes the path     *)
(* away, as Fail and Kill do.                                               *)
LEMMA LeavingKeepsIInv ==
  ASSUME IInv, NEW p \in Procs, NEW label \in {"failed", "killed"}, Return(p, label),
         UNCHANGED <<path, removed>> \/ UnlinkPath,
         sem' \in {sem, [sem EXCEPT ![p] = NoFile]}, UNCHANGED state
  PROVE  IInv'
<1> USE DEF IInv
<1>1. /\ pc' = [pc EXCEPT ![p] = label]
      /\ pc' \in [Procs -> Labels]
      /\ oflag' \in [Procs -> Flags]
      /\ file' = [file EXCEPT ![p] = NoFile]
      /\ file' \in [Procs -> Files \union {NoFile}]
      /\ created' = [created EXCEPT ![p] = FALSE]
      /\ created' \in [Procs -> BOOLEAN]
      /\ tries' = [tries EXCEPT ![p] = 0]
      /\ tries' \in [Procs -> 0..MAX_TRIES]
  BY ReturnEffect
<1>2. /\ path' \in Files \union {NoFile}
      /\ removed' \subseteq Files
      /\ removed \subseteq removed'
  BY DEF TypeOK, UnlinkPath
<1>3. sem' \in [Procs -> Files \union {NoFile}]
  BY DEF TypeOK
<1>4. TypeOK'
  BY <1>1, <1>2, <1>3 DEF TypeOK
<1>5. NamedOrRemoved'
  BY DEF NamedOrRemoved, TypeOK, UnlinkPath
<1>6. \A q \in Procs : sem'[q] \in {sem[q], NoFile} /\ (q # p => sem'[q] = sem[q])
  BY DEF TypeOK
<1>7. HeldFilesExist'
  BY <1>1, <1>6 DEF HeldFilesExist, TypeOK
<1>8. CreatorOwnsFile'
  BY <1>1, <1>6 DEF CreatorOwnsFile, TypeOK
<1>9. Polling'
  BY <1>1, <1>6 DEF Polling, TypeOK
<1>10. OpenedIsInitialisedOrRemoved'
  BY <1>1, <1>2, <1>6 DEF OpenedIsInitialisedOrRemoved, TypeOK
<1>11. QED
  BY <1>4, <1>5, <1>7, <1>8, <1>9, <1>10

LEMMA InitialiseKeepsIInv ==
  ASSUME IInv, NEW p \in Procs, Initialise(p)
  PROVE  IInv'
<1> USE DEF IInv, TypeOK
<1>0. file[p] \in Files /\ state[file[p]] = "created" /\ At(p, "init")
  BY DEF Initialise, CreatorOwnsFile
<1>1. CASE /\ state' = [state EXCEPT ![file[p]] = "built"]
           /\ sem' = [sem EXCEPT ![p] = file[p]]
           /\ pc' = [pc EXCEPT ![p] = "chmod"]
           /\ UNCHANGED <<path, removed, locals>>
  <2> USE <1>0, <1>1 DEF locals
  <2>1. TypeOK'  OBVIOUS
  <2>2. NamedOrRemoved'  BY DEF NamedOrRemoved
  <2>3. HeldFilesExist'  BY DEF HeldFilesExist
  <2>4. CreatorOwnsFile'  BY DEF CreatorOwnsFile
  <2>5. Polling'  BY DEF Polling
  <2>6. OpenedIsInitialisedOrRemoved'
    BY DEF OpenedIsInitialisedOrRemoved, Polling
  <2>7. QED  BY <2>1, <2>2, <2>3, <2>4, <2>5, <2>6
<1>2. CASE /\ sem' \in {sem, [sem EXCEPT ![p] = file[p]]}
           /\ pc' = [pc EXCEPT ![p] = "err"]
           /\ UNCHANGED <<path, state, removed, locals>>
  <2> USE <1>0, <1>2 DEF locals
  <2>0. /\ sem' \in [Procs -> Files \union {NoFile}]
        /\ sem'[p] \in {sem[p], file[p]}
        /\ \A q \in Procs \ {p} : sem'[q] = sem[q]
    OBVIOUS
  <2>1. TypeOK'  BY <2>0
  <2>2. NamedOrRemoved'  BY DEF NamedOrRemoved
  <2>3. HeldFilesExist'  BY <2>0 DEF HeldFilesExist
  <2>4. CreatorOwnsFile'  BY <2>0 DEF CreatorOwnsFile
  <2>5. Polling'  BY <2>0 DEF Polling
  <2>6. OpenedIsInitialisedOrRemoved'  BY <2>0 DEF OpenedIsInitialisedOrRemoved
  <2>7. QED  BY <2>1, <2>2, <2>3, <2>4, <2>5, <2>6
<1>3. QED
  BY <1>1, <1>2 DEF Initialise

LEMMA PublishKeepsIInv ==
  ASSUME IInv, NEW p \in Procs, Publish(p)
  PROVE  IInv'
<1> USE DEF IInv
<1>0. /\ At(p, "chmod") /\ file[p] \in Files
      /\ state[file[p]] = "built" /\ sem[p] = file[p]
      /\ UNCHANGED <<path, removed, sem>>
  BY DEF Publish, CreatorOwnsFile, TypeOK
<1>1. CASE state' = [state EXCEPT ![file[p]] = "ready"] /\ Return(p, "opened")
  <2>1. /\ pc' = [pc EXCEPT ![p] = "opened"]
        /\ pc' \in [Procs -> Labels]
        /\ oflag' \in [Procs -> Flags]
        /\ file' = [file EXCEPT ![p] = NoFile]
        /\ file' \in [Procs -> Files \union {NoFile}]
        /\ created' = [created EXCEPT ![p] = FALSE]
        /\ created' \in [Procs -> BOOLEAN]
        /\ tries' = [tries EXCEPT ![p] = 0]
        /\ tries' \in [Procs -> 0..MAX_TRIES]
    BY <1>1, ReturnEffect
  <2> USE <1>0, <1>1, <2>1 DEF TypeOK
  <2>2. TypeOK'  OBVIOUS
  <2>3. NamedOrRemoved'  BY DEF NamedOrRemoved
  <2>4. HeldFilesExist'  BY DEF HeldFilesExist
  <2>5. CreatorOwnsFile'  BY DEF CreatorOwnsFile
  <2>6. Polling'  BY DEF Polling
  <2>7. OpenedIsInitialisedOrRemoved'
    BY DEF OpenedIsInitialisedOrRemoved, Polling
  <2>8. QED  BY <2>2, <2>3, <2>4, <2>5, <2>6, <2>7
<1>2. CASE UNCHANGED <<state, locals>> /\ Goto(p, "err")
  <2> USE <1>0, <1>2 DEF TypeOK, locals
  <2>1. TypeOK'  OBVIOUS
  <2>2. NamedOrRemoved' /\ HeldFilesExist'  BY DEF NamedOrRemoved, HeldFilesExist
  <2>3. CreatorOwnsFile'  BY DEF CreatorOwnsFile
  <2>4. Polling'  BY DEF Polling
  <2>5. OpenedIsInitialisedOrRemoved'  BY DEF OpenedIsInitialisedOrRemoved
  <2>6. QED  BY <2>1, <2>2, <2>3, <2>4, <2>5
<1>3. QED
  BY <1>1, <1>2 DEF Publish

LEMMA OpenExistingKeepsIInv ==
  ASSUME IInv, NEW p \in Procs, OpenExisting(p)
  PROVE  IInv'
<1> USE DEF IInv, TypeOK, OpenExisting
<1>1. TypeOK'  OBVIOUS
<1>2. NamedOrRemoved' /\ HeldFilesExist'  BY DEF NamedOrRemoved, HeldFilesExist
<1>3. CreatorOwnsFile'  BY DEF CreatorOwnsFile
<1>4. Polling'  BY DEF Polling
<1>5. OpenedIsInitialisedOrRemoved'  BY DEF OpenedIsInitialisedOrRemoved
<1>6. QED  BY <1>1, <1>2, <1>3, <1>4, <1>5

LEMMA MapKeepsIInv ==
  ASSUME IInv, NEW p \in Procs, Map(p)
  PROVE  IInv'
<1> USE DEF IInv, TypeOK
<1>0. /\ At(p, "map") /\ file[p] \in Files /\ state[file[p]] # "unused"
      /\ tries' = [tries EXCEPT ![p] = 0]
      /\ tries' \in [Procs -> 0..MAX_TRIES]
      /\ tries'[p] < MAX_TRIES
      /\ UNCHANGED <<path, state, removed, oflag, file, created>>
  BY MmapSemOpenAssumption DEF Map, Polling, HeldFilesExist
<1>1. CASE sem' = [sem EXCEPT ![p] = file[p]] /\ pc' = [pc EXCEPT ![p] = "stat"]
  <2> USE <1>0, <1>1
  <2>1. TypeOK'  OBVIOUS
  <2>2. NamedOrRemoved' /\ HeldFilesExist'  BY DEF NamedOrRemoved, HeldFilesExist
  <2>3. CreatorOwnsFile'  BY DEF CreatorOwnsFile
  <2>4. Polling'  BY DEF Polling
  <2>5. OpenedIsInitialisedOrRemoved'  BY DEF OpenedIsInitialisedOrRemoved
  <2>6. QED  BY <2>1, <2>2, <2>3, <2>4, <2>5
<1>2. CASE sem' = [sem EXCEPT ![p] = NoFile] /\ pc' = [pc EXCEPT ![p] = "err"]
  <2> USE <1>0, <1>2
  <2>1. TypeOK'  OBVIOUS
  <2>2. NamedOrRemoved' /\ HeldFilesExist'  BY DEF NamedOrRemoved, HeldFilesExist
  <2>3. CreatorOwnsFile'  BY DEF CreatorOwnsFile
  <2>4. Polling'  BY DEF Polling
  <2>5. OpenedIsInitialisedOrRemoved'  BY DEF OpenedIsInitialisedOrRemoved
  <2>6. QED  BY <2>1, <2>2, <2>3, <2>4, <2>5
<1>3. QED
  BY <1>1, <1>2 DEF Map

LEMMA StatKeepsIInv ==
  ASSUME IInv, NEW p \in Procs, Stat(p)
  PROVE  IInv'
<1> USE DEF IInv
<1>0. At(p, "stat") /\ UNCHANGED <<path, state, removed, sem>>
  BY DEF Stat
<1>1. CASE Return(p, "opened") /\ path # NoFile /\ state[path] = "ready"
  <2>1. /\ pc' = [pc EXCEPT ![p] = "opened"]
        /\ pc' \in [Procs -> Labels]
        /\ oflag' \in [Procs -> Flags]
        /\ file' = [file EXCEPT ![p] = NoFile]
        /\ file' \in [Procs -> Files \union {NoFile}]
        /\ created' = [created EXCEPT ![p] = FALSE]
        /\ created' \in [Procs -> BOOLEAN]
        /\ tries' = [tries EXCEPT ![p] = 0]
        /\ tries' \in [Procs -> 0..MAX_TRIES]
    BY <1>1, ReturnEffect
  <2> USE <1>0, <1>1, <2>1 DEF TypeOK
  <2>2. TypeOK'  OBVIOUS
  <2>3. NamedOrRemoved' /\ HeldFilesExist'  BY DEF NamedOrRemoved, HeldFilesExist
  <2>4. CreatorOwnsFile'  BY DEF CreatorOwnsFile
  <2>5. Polling'  BY DEF Polling
  <2>6. sem[p] = path \/ sem[p] \in removed
    BY DEF Polling, HeldFilesExist, NamedOrRemoved
  <2>7. OpenedIsInitialisedOrRemoved'
    BY <2>6 DEF OpenedIsInitialisedOrRemoved
  <2>8. QED  BY <2>2, <2>3, <2>4, <2>5, <2>7
<1>2. ASSUME NEW label \in {"again", "err", "stat"},
             pc' = [pc EXCEPT ![p] = label], UNCHANGED <<oflag, file, created>>,
             tries' \in [Procs -> 0..MAX_TRIES],
             \A q \in Procs \ {p} : tries'[q] = tries[q],
             label = "stat" => tries'[p] < MAX_TRIES
      PROVE  IInv'
  <2> USE <1>0, <1>2 DEF TypeOK
  <2>3. TypeOK'  OBVIOUS
  <2>4. NamedOrRemoved' /\ HeldFilesExist'  BY DEF NamedOrRemoved, HeldFilesExist
  <2>5. CreatorOwnsFile'  BY DEF CreatorOwnsFile
  <2>6. Polling'  BY DEF Polling
  <2>7. OpenedIsInitialisedOrRemoved'  BY DEF OpenedIsInitialisedOrRemoved
  <2>8. QED  BY <2>3, <2>4, <2>5, <2>6, <2>7
<1>3. CASE /\ Goto(p, IF oflag[p].creat THEN "again" ELSE "err")
           /\ UNCHANGED locals
  <2>1. CASE oflag[p].creat
    BY <1>2, <1>3, <2>1 DEF locals, TypeOK
  <2>2. CASE ~oflag[p].creat
    BY <1>2, <1>3, <2>2 DEF locals, TypeOK
  <2>3. QED
    BY <2>1, <2>2
<1>4. CASE /\ tries' = [tries EXCEPT ![p] = @ + 1]
           /\ Goto(p, IF tries[p] + 1 < MAX_TRIES THEN "stat" ELSE "err")
           /\ UNCHANGED <<oflag, file, created>>
  <2>1. tries[p] \in 0..MAX_TRIES /\ tries[p] < MAX_TRIES
    BY <1>0 DEF Polling, TypeOK
  <2>2. /\ tries' \in [Procs -> 0..MAX_TRIES]
        /\ tries'[p] = tries[p] + 1
        /\ \A q \in Procs \ {p} : tries'[q] = tries[q]
    BY <1>4, <2>1, MmapSemOpenAssumption DEF TypeOK
  <2>3. CASE tries[p] + 1 < MAX_TRIES
    BY <1>2, <1>4, <2>2, <2>3
  <2>4. CASE ~(tries[p] + 1 < MAX_TRIES)
    BY <1>2, <1>4, <2>2, <2>4
  <2>5. QED
    BY <2>3, <2>4
<1>5. QED
  BY <1>1, <1>3, <1>4 DEF Stat

LEMMA FailKeepsIInv ==
  ASSUME IInv, NEW p \in Procs, Fail(p)
  PROVE  IInv'
BY LeavingKeepsIInv DEF Fail

LEMMA KillKeepsIInv ==
  ASSUME IInv, NEW p \in Procs, Kill(p)
  PROVE  IInv'
BY LeavingKeepsIInv DEF Kill

LEMMA CreateFailsKeepsIInv ==
  ASSUME IInv, NEW p \in Procs, CreateFails(p)
  PROVE  IInv'
BY LeavingKeepsIInv DEF CreateFails

LEMMA UnlinkKeepsIInv ==
  ASSUME IInv, mysem_unlink
  PROVE  IInv'
<1> USE DEF IInv, TypeOK, mysem_unlink, UnlinkPath, locals
<1>1. TypeOK'  OBVIOUS
<1>2. NamedOrRemoved'  BY DEF NamedOrRemoved
<1>3. HeldFilesExist'  BY DEF HeldFilesExist
<1>4. CreatorOwnsFile'  BY DEF CreatorOwnsFile
<1>5. Polling'  BY DEF Polling
<1>6. OpenedIsInitialisedOrRemoved'  BY DEF OpenedIsInitialisedOrRemoved
<1>7. QED  BY <1>1, <1>2, <1>3, <1>4, <1>5, <1>6

LEMMA StutterKeepsIInv == ASSUME IInv, UNCHANGED vars PROVE IInv'
BY DEF IInv, TypeOK, NamedOrRemoved, HeldFilesExist, CreatorOwnsFile, Polling,
       OpenedIsInitialisedOrRemoved, vars, locals

THEOREM Invariance == Spec => []IInv
<1>1. ASSUME IInv, [Next]_vars
      PROVE  IInv'
  BY <1>1, CallKeepsIInv, CreateKeepsIInv, CreateFindsFileKeepsIInv, CreateFailsKeepsIInv,
     InitialiseKeepsIInv, PublishKeepsIInv, OpenExistingKeepsIInv, MapKeepsIInv,
     StatKeepsIInv, FailKeepsIInv, KillKeepsIInv, UnlinkKeepsIInv, StutterKeepsIInv
  DEF Next, mysem_open, Done
<1>2. QED
  BY InitIInv, <1>1, PTL DEF Spec

(* sem_open.cpp:98-108: a semaphore is handed out uninitialised only when   *)
(* its file has been unlinked meanwhile, whoever is killed at any point and *)
(* however often an opener starts again.                                    *)
THEOREM OpenedIsReady == Spec => []OpenedIsInitialisedOrRemoved
<1>1. IInv => OpenedIsInitialisedOrRemoved
  BY DEF IInv
<1>2. QED
  BY Invariance, <1>1, PTL

(* A step in which a process gives up and the path changes is its own      *)
(* error path, and it had created a file.                                   *)
LEMMA OnlyFailRemoves ==
  ASSUME TypeOK, Next, NEW p \in Procs,
         At(p, "err"), pc'[p] = "failed", path' # path
  PROVE  created[p] /\ UnlinkPath
<1> USE DEF TypeOK
<1>1. ASSUME NEW q \in Procs, NEW flags \in Flags, Call(q, flags)
      PROVE  FALSE
  BY <1>1 DEF Call
<1>2. ASSUME NEW q \in Procs, Create(q)
      PROVE  FALSE
  BY <1>2 DEF Create
<1>3. ASSUME NEW q \in Procs,
             CreateFindsFile(q) \/ CreateFails(q) \/ Initialise(q) \/ Publish(q)
               \/ OpenExisting(q) \/ Map(q) \/ Stat(q) \/ Kill(q)
      PROVE  FALSE
  BY <1>3 DEF CreateFindsFile, CreateFails, Initialise, Publish, OpenExisting, Map, Stat, Kill
<1>4. ASSUME NEW q \in Procs, Fail(q)
      PROVE  created[p] /\ UnlinkPath
  <2>1. pc' = [pc EXCEPT ![q] = "failed"]
    BY <1>4 DEF Fail, Return
  <2>2. q = p
    BY <2>1
  <2>3. QED
    BY <1>4, <2>2 DEF Fail
<1>5. ASSUME mysem_unlink \/ Done
      PROVE  FALSE
  BY <1>5 DEF mysem_unlink, Done, vars
<1>6. QED
  BY <1>1, <1>2, <1>3, <1>4, <1>5 DEF Next, mysem_open

(* sem_open.cpp:115-127: the error path takes away only the file that this  *)
(* call has created, if that still has its name.                            *)
THEOREM FailuresAreOwn == Spec => FailureRemovesOwnFile
<1> DEFINE Own(p) ==
      At(p, "err") /\ pc'[p] = "failed" /\ path' # path =>
        created[p] /\ (path = file[p] \/ file[p] \in removed)
<1>1. ASSUME IInv, Next, NEW p \in Procs
      PROVE  Own(p)
  <2>1. SUFFICES ASSUME At(p, "err"), pc'[p] = "failed", path' # path
                 PROVE  created[p] /\ (path = file[p] \/ file[p] \in removed)
    OBVIOUS
  <2>2. created[p]
    BY <1>1, <2>1, OnlyFailRemoves DEF IInv
  <2>3. file[p] \in Files /\ state[file[p]] # "unused"
    BY <1>1, <2>2 DEF IInv, TypeOK, CreatorOwnsFile, HeldFilesExist
  <2>4. QED
    BY <1>1, <2>2, <2>3 DEF IInv, NamedOrRemoved
<1>2. IInv /\ [Next]_vars => [\A p \in Procs : Own(p)]_vars
  BY <1>1
<1> HIDE DEF Own
<1>3. Spec => [][\A p \in Procs : Own(p)]_vars
  BY Invariance, <1>2, PTL DEF Spec
<1>4. QED
  BY <1>3 DEF FailureRemovesOwnFile, Own
=============================================================================
