------------------------------ MODULE FileStore ------------------------------
(***************************************************************************)
(* The JSON stores of GhostAPI (src/storage/fileStore.ts): every store is  *)
(* a file that is replaced atomically under an adjacent lock file.  A lock *)
(* is a file created with O_EXCL that holds the pid of its creator; it is  *)
(* removed by path, both by its holder and by a waiter that takes it for   *)
(* abandoned.  Several asynchronous tasks may run in one process and share *)
(* its pid.                                                                *)
(***************************************************************************)
EXTENDS Naturals

CONSTANTS
    Task,          \* callers of mutateJsonFile
    Process,       \* operating-system processes
    procOf,        \* the process a task runs in
    None,          \* no lock file, or a lock file without a pid
    MaxRetries,    \* bound: attempts that fit in lockTimeoutMs
    MaxWrites,     \* bound: mutations per task
    Mortal,        \* the processes that may die
    StaleAllowed,  \* may a live process hold a lock longer than staleLockMs?
    CleanupFails   \* may the rm() of a lock fail whose stamp has failed before?

ASSUME ProcAssumption == procOf \in [Task -> Process]
ASSUME NoneAssumption == None \notin Task /\ None \notin Process
ASSUME BoundAssumption == MaxRetries \in Nat /\ MaxWrites \in Nat
ASSUME EnvAssumption == Mortal \subseteq Process /\ {StaleAllowed, CleanupFails} \subseteq BOOLEAN

VARIABLES
    lockOwner,  \* task whose open() created the lock file now on disk, or None
    lockPid,    \* pid written in it, None while it is still empty
    lockOld,    \* is its mtime at least staleLockMs ago?
    alive,      \* processes that have not crashed
    pc,         \* where each task is in withFileLock
    retries,    \* attempts a task has made in this call
    seenOld,    \* what a waiter's stat() said of the age of the lock
    seen,       \* the store as the task's readJsonFile returned it
    store,      \* the JSON file: the mutations it contains
    wrote       \* mutations each task has completed

lockVars == <<lockOwner, lockPid, lockOld>>
dataVars == <<seen, store, wrote>>
vars == <<lockOwner, lockPid, lockOld, alive, pc, retries, seenOld,
          seen, store, wrote>>

Mutation == Task \X (1..MaxWrites)

\* The steps of withFileLock between its open() and its rm().
Holding == {"stamp", "read", "write", "release"}
Waiting == {"open", "stat", "inspect", "remove", "retry"}

Init ==
    /\ lockOwner = None
    /\ lockPid = None
    /\ lockOld = FALSE
    /\ alive = Process
    /\ pc = [t \in Task |-> "idle"]
    /\ retries = [t \in Task |-> 0]
    /\ seenOld = [t \in Task |-> FALSE]
    /\ seen = [t \in Task |-> {}]
    /\ store = {}
    /\ wrote = [t \in Task |-> 0]

Goto(t, label) == pc' = [pc EXCEPT ![t] = label]

(***************************************************************************)
(* withFileLock                                                            *)
(***************************************************************************)
Call(t) ==
    /\ pc[t] = "idle"
    /\ wrote[t] < MaxWrites
    /\ Goto(t, "open")
    /\ retries' = [retries EXCEPT ![t] = 0]
    /\ UNCHANGED <<lockVars, alive, seenOld, dataVars>>

\* Faulty variant: open() with "w", which also succeeds on an existing file.
OpenLockShared(t) ==
    /\ pc[t] = "open"
    /\ lockOwner' = t
    /\ lockPid' = None
    /\ lockOld' = FALSE
    /\ Goto(t, "stamp")
    /\ UNCHANGED <<alive, retries, seenOld, dataVars>>

\* open(lockPath, "wx") creates the file, empty.
OpenLock(t) ==
    /\ pc[t] = "open"
    /\ lockOwner = None
    /\ lockOwner' = t
    /\ lockPid' = None
    /\ lockOld' = FALSE
    /\ Goto(t, "stamp")
    /\ UNCHANGED <<alive, retries, seenOld, dataVars>>

\* open() fails: EEXIST, or EPERM/EACCES/EBUSY, which a file system may
\* report whatever is on disk.  Either way the waiter looks at the lock.
OpenBusy(t) ==
    /\ pc[t] = "open"
    /\ Goto(t, "stat")
    /\ UNCHANGED <<lockVars, alive, retries, seenOld, dataVars>>

\* The holder writes its pid through its handle.  If the path was unlinked
\* meanwhile the write lands in a file nobody can open.
StampPid(t) ==
    /\ pc[t] = "stamp"
    /\ lockPid' = IF lockOwner = t THEN procOf[t] ELSE lockPid
    /\ lockOld' = IF lockOwner = t THEN FALSE ELSE lockOld
    /\ Goto(t, "read")
    /\ UNCHANGED <<lockOwner, alive, retries, seenOld, dataVars>>

\* finally: close the handle and rm(lockPath), whoever's file is there now.
ReleaseLock(t) ==
    /\ pc[t] = "release"
    /\ lockOwner' = None
    /\ lockPid' = None
    /\ lockOld' = FALSE
    /\ Goto(t, "idle")
    /\ UNCHANGED <<alive, retries, seenOld, dataVars>>

\* Faulty variant: startedAt is taken again on every attempt.
RetryForever(t) ==
    /\ pc[t] = "retry"
    /\ Goto(t, "open")
    /\ UNCHANGED <<lockVars, alive, retries, seenOld, dataVars>>

\* The deadline has not passed: wait LOCK_RETRY_MS and open again.
RetryOpen(t) ==
    /\ pc[t] = "retry"
    /\ retries[t] < MaxRetries
    /\ retries' = [retries EXCEPT ![t] = @ + 1]
    /\ Goto(t, "open")
    /\ UNCHANGED <<lockVars, alive, seenOld, dataVars>>

\* A system call fails with an error that is not the expected one.  The
\* transient errors of reclaimAbandonedLock only end the look at the lock; any
\* other error leaves withFileLock, through its finally once it has the lock.
\* When closing or removing fails in the finally, the lock file stays: with
\* the pid of a live process, or empty if the stamp had failed as well.
SystemCallFails(t) ==
    /\ \/ pc[t] \in {"open", "stat", "inspect", "remove"} /\ Goto(t, "idle")
       \/ pc[t] \in {"stat", "inspect", "remove"} /\ Goto(t, "retry")
       \/ pc[t] \in {"stamp", "read"} /\ Goto(t, "release")
       \/ /\ pc[t] = "release"
          /\ lockOwner = t /\ lockPid = None => CleanupFails
          /\ Goto(t, "idle")
    /\ UNCHANGED <<lockVars, alive, retries, seenOld, dataVars>>

\* "Timed out waiting for local data lock": after any number of attempts.
GiveUp(t) ==
    /\ pc[t] = "retry"
    /\ Goto(t, "idle")
    /\ UNCHANGED <<lockVars, alive, retries, seenOld, dataVars>>

(***************************************************************************)
(* reclaimAbandonedLock: stat, readFile and rm are three system calls, and *)
(* each one sees whatever file has the lock's path at that moment.         *)
(***************************************************************************)
StatLock(t) ==
    /\ pc[t] = "stat"
    /\ Goto(t, IF lockOwner = None THEN "retry" ELSE "inspect")
    /\ seenOld' = IF lockOwner = None THEN seenOld
                                      ELSE [seenOld EXCEPT ![t] = lockOld]
    /\ UNCHANGED <<lockVars, alive, retries, dataVars>>

\* A stamped lock is abandoned when its process is gone, an empty one when
\* it was old at the time of the stat.
Abandoned(t) ==
    \/ lockPid # None /\ lockPid \notin alive
    \/ lockPid = None /\ seenOld[t]

InspectLock(t) ==
    /\ pc[t] = "inspect"
    /\ Goto(t, IF lockOwner # None /\ Abandoned(t) THEN "remove" ELSE "retry")
    /\ UNCHANGED <<lockVars, alive, retries, seenOld, dataVars>>

RemoveLock(t) ==
    /\ pc[t] = "remove"
    /\ lockOwner' = None
    /\ lockPid' = None
    /\ lockOld' = FALSE
    /\ Goto(t, "retry")
    /\ UNCHANGED <<alive, retries, seenOld, dataVars>>

(***************************************************************************)
(* mutateJsonFile, the operation run under the lock                        *)
(***************************************************************************)
ReadStore(t) ==
    /\ pc[t] = "read"
    /\ seen' = [seen EXCEPT ![t] = store]
    /\ Goto(t, "write")
    /\ UNCHANGED <<lockVars, alive, retries, seenOld, store, wrote>>

\* atomicWriteJson: a synced temporary file renamed over the store.
WriteStore(t) ==
    /\ pc[t] = "write"
    /\ store' = seen[t] \cup {<<t, wrote[t] + 1>>}
    /\ wrote' = [wrote EXCEPT ![t] = @ + 1]
    /\ Goto(t, "release")
    /\ UNCHANGED <<lockVars, alive, retries, seenOld, seen>>

\* The mutation, its validation or the write throws: nothing is replaced.
MutationThrows(t) ==
    /\ pc[t] = "write"
    /\ Goto(t, "release")
    /\ UNCHANGED <<lockVars, alive, retries, seenOld, dataVars>>

(***************************************************************************)
(* The environment                                                         *)
(***************************************************************************)
Crash(p) ==
    /\ p \in Mortal \cap alive
    /\ alive' = alive \ {p}
    /\ pc' = [t \in Task |-> IF procOf[t] = p THEN "dead" ELSE pc[t]]
    /\ UNCHANGED <<lockVars, retries, seenOld, dataVars>>

\* staleLockMs pass over the lock file: over one that nobody holds any more,
\* or over any lock when a live holder may be that slow.
AgeLock ==
    /\ lockOwner # None
    /\ ~lockOld
    /\ StaleAllowed \/ pc[lockOwner] \notin Holding
    /\ lockOld' = TRUE
    /\ UNCHANGED <<lockOwner, lockPid, alive, pc, retries, seenOld, dataVars>>

Step(t) ==
    \/ OpenLock(t) \/ OpenBusy(t) \/ StampPid(t) \/ ReleaseLock(t)
    \/ RetryOpen(t) \/ GiveUp(t) \/ SystemCallFails(t)
    \/ StatLock(t) \/ InspectLock(t) \/ RemoveLock(t)
    \/ ReadStore(t) \/ WriteStore(t) \/ MutationThrows(t)

Next ==
    \/ \E t \in Task : Call(t) \/ Step(t)
    \/ \E p \in Process : Crash(p)
    \/ AgeLock

Spec == Init /\ [][Next]_vars

\* A task that is inside a call keeps running: Node resolves every pending
\* file-system promise.  Nothing makes a task start a call, and a process
\* may or may not crash.
FairSpec == Spec /\ \A t \in Task : WF_vars(Step(t))

(***************************************************************************)
(* Properties                                                              *)
(***************************************************************************)
TypeOK ==
    /\ lockOwner \in Task \cup {None}
    /\ lockPid \in Process \cup {None}
    /\ lockOld \in BOOLEAN
    /\ alive \in SUBSET Process
    /\ pc \in [Task -> {"idle", "dead"} \cup Holding \cup Waiting]
    /\ retries \in [Task -> 0..MaxRetries]
    /\ seenOld \in [Task -> BOOLEAN]
    /\ seen \in [Task -> SUBSET (Task \X Nat)]
    /\ store \in SUBSET (Task \X Nat)
    /\ wrote \in [Task -> Nat]

\* withFileLock runs at most one operation on a file at a time.
LockExclusive ==
    \A t, u \in Task : pc[t] \in Holding /\ pc[u] \in Holding => t = u

\* Every mutation that mutateJsonFile completed is still in the store: no
\* writer replaced the file with a version read before that mutation.
NoLostUpdate ==
    \A t \in Task : \A n \in 1..wrote[t] : <<t, n>> \in store

\* withFileLock always comes back: with the operation done, by the timeout,
\* or because its process died.
CallsReturn ==
    \A t \in Task :
        pc[t] \notin {"idle", "dead"} ~> pc[t] \in {"idle", "dead"}
==============================================================================
