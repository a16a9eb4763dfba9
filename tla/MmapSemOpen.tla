----------------------------- MODULE MmapSemOpen -----------------------------
(***************************************************************************)
(* mysem_open of my_pxsem_mmap: the first process to create the file       *)
(* initialises the semaphore in it and then turns its user-execute bit     *)
(* off; the others map the file and poll the bit through the path, at most *)
(* MAX_TRIES times. Every system call is a step; processes can be killed   *)
(* between two of them and anybody can unlink the path.                    *)
(*                                                                         *)
(* A file is named by its inode, which outlives its name while mapped.     *)
(***************************************************************************)
EXTENDS Naturals

CONSTANTS
  Procs,        (* the processes that call mysem_open                       *)
  MaxFiles,     (* bound of the model: files created over a behaviour       *)
  MAX_TRIES     (* polls before an opener gives up                          *)

ASSUME MmapSemOpenAssumption ==
  /\ MaxFiles \in Nat
  /\ MAX_TRIES \in Nat \ {0}

VARIABLES
  path,         (* the inode the pathname refers to                         *)
  state,        (* "unused", "created" (execute bit on, contents not yet    *)
                (* valid), "built" (valid, bit on) or "ready" (bit off)     *)
  removed,      (* history: inodes whose name has been unlinked             *)
  pc,           (* where each process is in mysem_open                      *)
  oflag,        (* its flags                                                *)
  file,         (* the inode behind its fd, while it is in mysem_open       *)
  sem,          (* the inode behind its sem                                 *)
  created,      (* its local created                                        *)
  tries         (* its loop counter i                                       *)

locals == <<oflag, file, created, tries>>
vars == <<path, state, removed, pc, locals, sem>>

Files == 1..MaxFiles
NoFile == 0     (* the path names no file; MAP_FAILED                       *)
Flags == {[creat |-> FALSE, excl |-> FALSE], [creat |-> TRUE, excl |-> FALSE],
          [creat |-> TRUE, excl |-> TRUE]}
Labels == {"start", "again", "init", "chmod", "exists", "map", "stat", "err",
           "opened", "failed", "killed"}
Returned == {"opened", "failed", "killed"}

Init ==
  /\ path = NoFile
  /\ state = [f \in Files |-> "unused"]
  /\ removed = {}
  /\ pc = [p \in Procs |-> "start"]
  /\ oflag = [p \in Procs |-> [creat |-> FALSE, excl |-> FALSE]]
  /\ file = [p \in Procs |-> NoFile]
  /\ sem = [p \in Procs |-> NoFile]
  /\ created = [p \in Procs |-> FALSE]
  /\ tries = [p \in Procs |-> 0]

-----------------------------------------------------------------------------
Goto(p, label) == pc' = [pc EXCEPT ![p] = label]
At(p, label) == pc[p] = label

(* The locals of a call that has returned are gone.                         *)
Return(p, label) ==
  /\ Goto(p, label)
  /\ oflag' = [oflag EXCEPT ![p] = [creat |-> FALSE, excl |-> FALSE]]
  /\ file' = [file EXCEPT ![p] = NoFile]
  /\ created' = [created EXCEPT ![p] = FALSE]
  /\ tries' = [tries EXCEPT ![p] = 0]

(* unlink(pathname), which may find nothing.                                *)
UnlinkPath ==
  /\ removed' = removed \union ({path} \ {NoFile})
  /\ path' = NoFile

Call(p, flags) ==
  /\ At(p, "start")
  /\ oflag' = [oflag EXCEPT ![p] = flags]
  /\ Goto(p, IF flags.creat THEN "again" ELSE "exists")
  /\ UNCHANGED <<path, state, removed, file, sem, created, tries>>

(* open with O_EXCL: create the file with the execute bit on. An inode is   *)
(* only a name: any one that is left will do.                               *)
FilesLeft == {f \in Files : state[f] = "unused"}

Create(p) ==
  /\ At(p, "again")
  /\ path = NoFile
  /\ FilesLeft # {}
  /\ LET f == CHOOSE x \in FilesLeft : TRUE IN
       /\ path' = f
       /\ state' = [state EXCEPT ![f] = "created"]
       /\ file' = [file EXCEPT ![p] = f]
  /\ created' = [created EXCEPT ![p] = TRUE]
  /\ Goto(p, "init")
  /\ UNCHANGED <<removed, oflag, sem, tries>>

(* The file is there already, or cannot be created for another reason.      *)
CreateFindsFile(p) ==
  /\ At(p, "again")
  /\ path # NoFile
  /\ ~oflag[p].excl
  /\ Goto(p, "exists")
  /\ UNCHANGED <<path, state, removed, locals, sem>>

CreateFails(p) ==
  /\ At(p, "again")
  /\ Return(p, "failed")
  /\ UNCHANGED <<path, state, removed, sem>>

(* write, mmap, initialise the mutex, the condition and the value; any of   *)
(* them may fail, before or after the mapping is made.                      *)
Initialise(p) ==
  /\ At(p, "init")
  /\ \/ /\ state' = [state EXCEPT ![file[p]] = "built"]
        /\ sem' = [sem EXCEPT ![p] = file[p]]
        /\ Goto(p, "chmod")
     \/ /\ UNCHANGED state
        /\ \E m \in {sem[p], file[p]} : sem' = [sem EXCEPT ![p] = m]
        /\ Goto(p, "err")
  /\ UNCHANGED <<path, removed, locals>>

(* fchmod turns the execute bit off; then the creator returns.              *)
Publish(p) ==
  /\ At(p, "chmod")
  /\ \/ state' = [state EXCEPT ![file[p]] = "ready"] /\ Return(p, "opened")
     \/ UNCHANGED <<state, locals>> /\ Goto(p, "err")
  /\ UNCHANGED <<path, removed, sem>>

-----------------------------------------------------------------------------
(* exists: open the file, or start again if it has gone.                    *)
OpenExisting(p) ==
  /\ At(p, "exists")
  /\ file' = [file EXCEPT ![p] = path]
  /\ Goto(p, IF path # NoFile THEN "map" ELSE IF oflag[p].creat THEN "again" ELSE "err")
  /\ UNCHANGED <<path, state, removed, oflag, sem, created, tries>>

(* mmap and the start of the loop, or mmap fails.                           *)
Map(p) ==
  /\ At(p, "map")
  /\ \/ sem' = [sem EXCEPT ![p] = file[p]] /\ Goto(p, "stat")
     \/ sem' = [sem EXCEPT ![p] = NoFile] /\ Goto(p, "err")
  /\ tries' = [tries EXCEPT ![p] = 0]
  /\ UNCHANGED <<path, state, removed, oflag, file, created>>

(* Faulty: the polls are not counted.                                       *)
Stat_Uncounted(p) ==
  /\ At(p, "stat")
  /\ \/ path = NoFile /\ Goto(p, IF oflag[p].creat THEN "again" ELSE "err") /\ UNCHANGED locals
     \/ path # NoFile /\ state[path] = "ready" /\ Return(p, "opened")
     \/ path # NoFile /\ state[path] # "ready" /\ UNCHANGED <<pc, locals>>
  /\ UNCHANGED <<path, state, removed, sem>>

(* Faulty: the file's existence is taken for its initialisation.            *)
Stat_AnyMode(p) ==
  /\ At(p, "stat")
  /\ \/ path = NoFile /\ Goto(p, IF oflag[p].creat THEN "again" ELSE "err") /\ UNCHANGED locals
     \/ path # NoFile /\ Return(p, "opened")
  /\ UNCHANGED <<path, state, removed, sem>>

(* stat(pathname) looks at whatever the path refers to by now.              *)
Stat(p) ==
  /\ At(p, "stat")
  /\ \/ /\ path = NoFile
        /\ Goto(p, IF oflag[p].creat THEN "again" ELSE "err")
        /\ UNCHANGED locals
     \/ /\ path # NoFile
        /\ state[path] = "ready"
        /\ Return(p, "opened")
     \/ /\ path # NoFile
        /\ state[path] # "ready"
        /\ tries' = [tries EXCEPT ![p] = @ + 1]
        /\ Goto(p, IF tries[p] + 1 < MAX_TRIES THEN "stat" ELSE "err")
        /\ UNCHANGED <<oflag, file, created>>
  /\ UNCHANGED <<path, state, removed, sem>>

(* Faulty: whoever fails takes the path away.                               *)
Fail_UnlinkAlways(p) ==
  /\ At(p, "err")
  /\ UnlinkPath
  /\ sem' = [sem EXCEPT ![p] = NoFile]
  /\ Return(p, "failed")
  /\ UNCHANGED state

(* err: a creator takes its file away; the mapping is undone.               *)
Fail(p) ==
  /\ At(p, "err")
  /\ IF created[p] THEN UnlinkPath ELSE UNCHANGED <<path, removed>>
  /\ sem' = [sem EXCEPT ![p] = NoFile]
  /\ Return(p, "failed")
  /\ UNCHANGED state

-----------------------------------------------------------------------------
(* mysem_unlink, by any process at any time.                                *)
mysem_unlink ==
  /\ path # NoFile
  /\ UnlinkPath
  /\ UNCHANGED <<state, pc, locals, sem>>

Kill(p) ==
  /\ pc[p] \notin Returned \union {"start"}
  /\ Return(p, "killed")
  /\ sem' = [sem EXCEPT ![p] = NoFile]
  /\ UNCHANGED <<path, state, removed>>

(* Everybody has returned.                                                  *)
Done ==
  /\ \A p \in Procs : pc[p] \in Returned
  /\ path = NoFile
  /\ UNCHANGED vars

mysem_open(p) ==
  \/ Create(p) \/ CreateFindsFile(p) \/ CreateFails(p) \/ Initialise(p) \/ Publish(p)
  \/ OpenExisting(p) \/ Map(p) \/ Stat(p) \/ Fail(p)

Next ==
  \/ \E p \in Procs : mysem_open(p) \/ Kill(p) \/ \E flags \in Flags : Call(p, flags)
  \/ mysem_unlink
  \/ Done

(* A process that has called mysem_open runs until it returns.              *)
Spec == Init /\ [][Next]_vars /\ \A p \in Procs : WF_vars(mysem_open(p))

-----------------------------------------------------------------------------
(* Each variable has its type.                                              *)
TypeOK ==
  /\ path \in Files \union {NoFile}
  /\ state \in [Files -> {"unused", "created", "built", "ready"}]
  /\ removed \subseteq Files
  /\ pc \in [Procs -> Labels]
  /\ oflag \in [Procs -> Flags]
  /\ file \in [Procs -> Files \union {NoFile}]
  /\ sem \in [Procs -> Files \union {NoFile}]
  /\ created \in [Procs -> BOOLEAN]
  /\ tries \in [Procs -> 0..MAX_TRIES]

(* "make certain initialization is complete" (sem_open.cpp:96): who gets a  *)
(* semaphore from mysem_open gets an initialised one.                       *)
OpenedIsInitialised == \A p \in Procs : At(p, "opened") => state[sem[p]] = "ready"

(* As long as the file an opener has mapped keeps its name, the bit polled  *)
(* through the path is the bit of the file mapped: only a file that was     *)
(* unlinked meanwhile is handed out uninitialised.                          *)
OpenedIsInitialisedOrRemoved ==
  \A p \in Procs : At(p, "opened") => state[sem[p]] = "ready" \/ sem[p] \in removed

(* Only a process that has created a file takes the path away when it       *)
(* fails, and it takes away its own file and nobody else's, unless that had *)
(* been unlinked before it came to it.                                      *)
FailureRemovesOwnFile ==
  [][\A p \in Procs : At(p, "err") /\ pc'[p] = "failed" /\ path' # path =>
        created[p] /\ (path = file[p] \/ file[p] \in removed)]_vars

(* However often the path disappears and whoever is killed, mysem_open      *)
(* returns; a file nobody publishes costs the others MAX_TRIES polls.       *)
OpenReturns ==
  \A p \in Procs :
    pc[p] # "start" ~> (pc[p] \in Returned \/ FilesLeft = {})
=============================================================================
