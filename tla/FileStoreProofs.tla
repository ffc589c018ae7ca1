--------------------------- MODULE FileStoreProofs ---------------------------
(***************************************************************************)
(* Proofs about FileStore for any number of tasks and processes.  Typing   *)
(* needs no assumption; mutual exclusion and the absence of lost updates   *)
(* are proved for runs in which no live holder is slow or leaves an empty  *)
(* lock behind and a death leaves at most one task: until then             *)
(* reclaimAbandonedLock removes nothing, and afterwards there is nobody    *)
(* whose lock could be removed.                                            *)
(***************************************************************************)
EXTENDS FileStore, TLAPS

\* Whichever process dies, at most one task runs in another one.
SoleSurvivor ==
    \A p \in Mortal : \A t, u \in Task : procOf[t] # p /\ procOf[u] # p => t = u

\* A lock that a live process could not remove: stamped, and no task is inside.
LeftBehind == lockPid # None /\ \A t \in Task : pc[t] \notin Holding

\* While every process lives, nothing on disk or in a waiter's hands looks abandoned:
\* an empty lock is held, and an old one carries the pid of a live process.
Undisturbed ==
    alive = Process =>
        /\ lockOwner = None => lockPid = None
        /\ lockOwner # None /\ lockPid = None => pc[lockOwner] \in {"stamp", "release"}
        /\ lockOld => LeftBehind
        /\ \A t \in Task : pc[t] # "remove" /\ (pc[t] = "inspect" /\ seenOld[t] => LeftBehind)

\* After a death, one task is left.
AloneAfterDeath ==
    alive # Process => \A t, u \in Task : pc[t] # "dead" /\ pc[u] # "dead" => t = u

\* The lock file on disk is the one that the task inside withFileLock made.
HolderOwnsLock == \A t \in Task : pc[t] \in Holding => lockOwner = t

\* A task about to write still has the current contents in hand.
FreshRead == \A t \in Task : pc[t] = "write" => seen[t] = store

\* The inductive invariant of the store.
IInv ==
    TypeOK /\ Undisturbed /\ AloneAfterDeath /\ HolderOwnsLock /\ FreshRead /\ NoLostUpdate
------------------------------------------------------------------------------
\* The initial state has its types.
LEMMA TypeInit == Init => TypeOK
<1> SUFFICES ASSUME Init PROVE TypeOK
  OBVIOUS
<1>1. seenOld \in [Task -> BOOLEAN] /\ lockOld \in BOOLEAN
  BY Zenon DEF Init
<1>2. seen \in [Task -> SUBSET (Task \X Nat)] /\ store \in SUBSET (Task \X Nat)
  BY DEF Init
<1>3. retries \in [Task -> 0..MaxRetries] /\ wrote \in [Task -> Nat]
  BY BoundAssumption DEF Init
<1>4. pc \in [Task -> {"idle", "dead"} \cup Holding \cup Waiting]
  BY DEF Init
<1>5. QED
  BY <1>1, <1>2, <1>3, <1>4 DEF Init, TypeOK

\* Every step keeps the types.
LEMMA TypeNext == TypeOK /\ [Next]_vars => TypeOK'
<1> SUFFICES ASSUME TypeOK, [Next]_vars PROVE TypeOK'
  OBVIOUS
<1> USE ProcAssumption, BoundAssumption DEF TypeOK, Goto, lockVars, dataVars, Holding, Waiting
<1>1. ASSUME NEW t \in Task, Call(t) PROVE TypeOK'
  BY <1>1 DEF Call
<1>2. ASSUME NEW t \in Task, OpenLock(t) PROVE TypeOK'
  BY <1>2 DEF OpenLock
<1>3. ASSUME NEW t \in Task, OpenBusy(t) PROVE TypeOK'
  BY <1>3 DEF OpenBusy
<1>4. ASSUME NEW t \in Task, StampPid(t) PROVE TypeOK'
  BY <1>4 DEF StampPid
<1>5. ASSUME NEW t \in Task, ReleaseLock(t) PROVE TypeOK'
  BY <1>5 DEF ReleaseLock
<1>6. ASSUME NEW t \in Task, RetryOpen(t) PROVE TypeOK'
  BY <1>6 DEF RetryOpen
<1>7. ASSUME NEW t \in Task, GiveUp(t) PROVE TypeOK'
  BY <1>7 DEF GiveUp
<1>8. ASSUME NEW t \in Task, SystemCallFails(t) PROVE TypeOK'
  BY <1>8 DEF SystemCallFails
<1>9. ASSUME NEW t \in Task, StatLock(t) PROVE TypeOK'
  BY <1>9 DEF StatLock
<1>10. ASSUME NEW t \in Task, InspectLock(t) PROVE TypeOK'
  BY <1>10 DEF InspectLock
<1>11. ASSUME NEW t \in Task, RemoveLock(t) PROVE TypeOK'
  BY <1>11 DEF RemoveLock
<1>12. ASSUME NEW t \in Task, ReadStore(t) PROVE TypeOK'
  BY <1>12 DEF ReadStore
<1>13. ASSUME NEW t \in Task, WriteStore(t) PROVE TypeOK'
  BY <1>13 DEF WriteStore
<1>14. ASSUME NEW t \in Task, MutationThrows(t) PROVE TypeOK'
  BY <1>14 DEF MutationThrows
<1>15. ASSUME NEW p \in Process, Crash(p) PROVE TypeOK'
  BY <1>15 DEF Crash
<1>16. CASE AgeLock
  BY <1>16 DEF AgeLock
<1>17. CASE UNCHANGED vars
  BY <1>17 DEF vars
<1>18. QED
  BY <1>1, <1>2, <1>3, <1>4, <1>5, <1>6, <1>7, <1>8, <1>9, <1>10, <1>11,
     <1>12, <1>13, <1>14, <1>15, <1>16, <1>17 DEF Next, Step

\* Typing of every variable, whatever crashes, ages or fails: in particular a
\* waiter never opens the lock more often than its deadline allows.
THEOREM TypeCorrect == Spec => []TypeOK
<1>1. Init => TypeOK
  BY TypeInit
<1>2. TypeOK /\ [Next]_vars => TypeOK'
  BY TypeNext
<1>3. QED
  BY <1>1, <1>2, PTL DEF Spec
------------------------------------------------------------------------------
\* The initial state satisfies the invariant.
LEMMA IInvInit == Init => IInv
<1> SUFFICES ASSUME Init PROVE IInv
  OBVIOUS
<1>1. TypeOK
  BY TypeInit
<1>2. Undisturbed /\ AloneAfterDeath
  BY Zenon DEF Init, Undisturbed, AloneAfterDeath
<1>3. HolderOwnsLock /\ FreshRead
  BY DEF Init, HolderOwnsLock, FreshRead, Holding
<1>4. NoLostUpdate
  BY DEF Init, NoLostUpdate
<1>5. QED
  BY <1>1, <1>2, <1>3, <1>4 DEF IInv

\* As long as everyone lives no step makes a lock look abandoned.
LEMMA UndisturbedNext ==
  ASSUME SoleSurvivor, ~StaleAllowed, ~CleanupFails, IInv, [Next]_vars
  PROVE  Undisturbed'
<1> USE ProcAssumption, NoneAssumption DEF IInv, TypeOK, Undisturbed, LeftBehind,
        HolderOwnsLock, Holding, Goto, lockVars, dataVars
<1>1. ASSUME NEW t \in Task, Call(t) \/ OpenLock(t) \/ OpenBusy(t) PROVE Undisturbed'
  BY <1>1 DEF Call, OpenLock, OpenBusy
<1>2. ASSUME NEW t \in Task, StampPid(t) \/ ReleaseLock(t) PROVE Undisturbed'
  BY <1>2 DEF StampPid, ReleaseLock
<1>3. ASSUME NEW t \in Task, RetryOpen(t) \/ GiveUp(t) PROVE Undisturbed'
  BY <1>3 DEF RetryOpen, GiveUp
<1>4. ASSUME NEW t \in Task, SystemCallFails(t) PROVE Undisturbed'
  BY <1>4 DEF SystemCallFails
<1>5. ASSUME NEW t \in Task, StatLock(t) PROVE Undisturbed'
  BY <1>5 DEF StatLock
<1>6. ASSUME NEW t \in Task, InspectLock(t) PROVE Undisturbed'
  BY <1>6 DEF InspectLock, Abandoned
<1>7. ASSUME NEW t \in Task, RemoveLock(t) PROVE Undisturbed'
  BY <1>7 DEF RemoveLock
<1>8. ASSUME NEW t \in Task, ReadStore(t) \/ WriteStore(t) \/ MutationThrows(t)
      PROVE  Undisturbed'
  BY <1>8 DEF ReadStore, WriteStore, MutationThrows
<1>9. ASSUME NEW p \in Process, Crash(p) PROVE Undisturbed'
  BY <1>9 DEF Crash
<1>10. CASE AgeLock
  BY <1>10 DEF AgeLock
<1>11. CASE UNCHANGED vars
  BY <1>11 DEF vars
<1>12. QED
  BY <1>1, <1>2, <1>3, <1>4, <1>5, <1>6, <1>7, <1>8, <1>9, <1>10, <1>11 DEF Next, Step

\* A death leaves one task, and the dead do not come back.
LEMMA AloneNext ==
  ASSUME SoleSurvivor, IInv, [Next]_vars
  PROVE  AloneAfterDeath'
<1> USE DEF IInv, TypeOK, AloneAfterDeath, Goto, lockVars, dataVars
<1>1. ASSUME NEW p \in Process, Crash(p) PROVE AloneAfterDeath'
  BY <1>1, ProcAssumption DEF Crash, SoleSurvivor
<1>2. ASSUME alive' = alive, NEW t \in Task, pc[t] # "dead", NEW label, Goto(t, label)
      PROVE  AloneAfterDeath'
  BY <1>2
<1>3. ASSUME NEW t \in Task, Call(t) \/ OpenLock(t) \/ OpenBusy(t) \/ StampPid(t)
      PROVE  AloneAfterDeath'
  BY <1>2, <1>3 DEF Call, OpenLock, OpenBusy, StampPid
<1>4. ASSUME NEW t \in Task, ReleaseLock(t) \/ RetryOpen(t) \/ GiveUp(t)
      PROVE  AloneAfterDeath'
  BY <1>2, <1>4 DEF ReleaseLock, RetryOpen, GiveUp
<1>5. ASSUME NEW t \in Task, SystemCallFails(t) PROVE AloneAfterDeath'
  BY <1>2, <1>5 DEF SystemCallFails
<1>6. ASSUME NEW t \in Task, StatLock(t) \/ InspectLock(t) \/ RemoveLock(t)
      PROVE  AloneAfterDeath'
  BY <1>2, <1>6 DEF StatLock, InspectLock, RemoveLock
<1>7. ASSUME NEW t \in Task, ReadStore(t) \/ WriteStore(t) \/ MutationThrows(t)
      PROVE  AloneAfterDeath'
  BY <1>2, <1>7 DEF ReadStore, WriteStore, MutationThrows
<1>8. CASE AgeLock \/ UNCHANGED vars
  BY <1>8 DEF AgeLock, vars
<1>9. QED
  BY <1>1, <1>3, <1>4, <1>5, <1>6, <1>7, <1>8 DEF Next, Step

\* Only the task that created the lock file removes it, or the one that is left.
LEMMA HolderOwnsLockNext ==
  ASSUME SoleSurvivor, ~StaleAllowed, ~CleanupFails, IInv, [Next]_vars
  PROVE  HolderOwnsLock'
<1> USE NoneAssumption
    DEF IInv, TypeOK, Undisturbed, HolderOwnsLock, Holding, Goto, lockVars, dataVars
<1>1. ASSUME NEW t \in Task, Call(t) \/ OpenLock(t) \/ OpenBusy(t) PROVE HolderOwnsLock'
  BY <1>1 DEF Call, OpenLock, OpenBusy
<1>2. ASSUME NEW t \in Task, StampPid(t) \/ ReleaseLock(t) PROVE HolderOwnsLock'
  BY <1>2 DEF StampPid, ReleaseLock
<1>3. ASSUME NEW t \in Task, RetryOpen(t) \/ GiveUp(t) PROVE HolderOwnsLock'
  BY <1>3 DEF RetryOpen, GiveUp
<1>4. ASSUME NEW t \in Task, SystemCallFails(t) PROVE HolderOwnsLock'
  BY <1>4 DEF SystemCallFails
<1>5. ASSUME NEW t \in Task, StatLock(t) \/ InspectLock(t) PROVE HolderOwnsLock'
  BY <1>5 DEF StatLock, InspectLock
<1>6. ASSUME NEW t \in Task, RemoveLock(t) PROVE HolderOwnsLock'
  BY <1>6 DEF RemoveLock, AloneAfterDeath
<1>7. ASSUME NEW t \in Task, ReadStore(t) \/ WriteStore(t) \/ MutationThrows(t)
      PROVE  HolderOwnsLock'
  BY <1>7 DEF ReadStore, WriteStore, MutationThrows
<1>8. ASSUME NEW p \in Process, Crash(p) PROVE HolderOwnsLock'
  BY <1>8 DEF Crash
<1>9. CASE AgeLock \/ UNCHANGED vars
  BY <1>9 DEF AgeLock, vars
<1>10. QED
  BY <1>1, <1>2, <1>3, <1>4, <1>5, <1>6, <1>7, <1>8, <1>9 DEF Next, Step

\* Because the holder is alone, what it read is what it replaces.
LEMMA StoreNext ==
  ASSUME SoleSurvivor, ~StaleAllowed, ~CleanupFails, IInv, [Next]_vars
  PROVE  FreshRead' /\ NoLostUpdate'
<1> USE DEF IInv, TypeOK, FreshRead, NoLostUpdate, Goto, lockVars, dataVars
<1>1. ASSUME NEW t \in Task, WriteStore(t) PROVE FreshRead' /\ NoLostUpdate'
  <2> USE <1>1 DEF WriteStore
  <2>1. store' = store \cup {<<t, wrote[t] + 1>>}
    OBVIOUS
  <2>2. NoLostUpdate'
    <3> SUFFICES ASSUME NEW u \in Task, NEW n \in 1..wrote'[u]
                 PROVE  <<u, n>> \in store'
      OBVIOUS
    <3>1. CASE u = t
      <4>1. wrote[t] \in Nat /\ wrote'[t] = wrote[t] + 1
        OBVIOUS
      <4>2. n \in 1..wrote[t] \/ n = wrote[t] + 1
        BY <3>1, <4>1
      <4>3. QED
        BY <2>1, <3>1, <4>2
    <3>2. CASE u # t
      BY <2>1, <3>2
    <3>3. QED
      BY <3>1, <3>2
  <2>3. FreshRead'
    BY DEF HolderOwnsLock, Holding
  <2>4. QED
    BY <2>2, <2>3
<1>2. ASSUME NEW t \in Task, ReadStore(t) PROVE FreshRead' /\ NoLostUpdate'
  BY <1>2 DEF ReadStore
<1>3. ASSUME NEW t \in Task, Call(t) \/ OpenLock(t) \/ OpenBusy(t)
      PROVE  FreshRead' /\ NoLostUpdate'
  BY <1>3 DEF Call, OpenLock, OpenBusy
<1>4. ASSUME NEW t \in Task, StampPid(t) \/ ReleaseLock(t) \/ MutationThrows(t)
      PROVE  FreshRead' /\ NoLostUpdate'
  BY <1>4 DEF StampPid, ReleaseLock, MutationThrows
<1>5. ASSUME NEW t \in Task, RetryOpen(t) \/ GiveUp(t) \/ SystemCallFails(t)
      PROVE  FreshRead' /\ NoLostUpdate'
  BY <1>5 DEF RetryOpen, GiveUp, SystemCallFails
<1>6. ASSUME NEW t \in Task, StatLock(t) \/ InspectLock(t) \/ RemoveLock(t)
      PROVE  FreshRead' /\ NoLostUpdate'
  BY <1>6 DEF StatLock, InspectLock, RemoveLock
<1>7. ASSUME NEW p \in Process, Crash(p) PROVE FreshRead' /\ NoLostUpdate'
  BY <1>7 DEF Crash
<1>8. CASE AgeLock \/ UNCHANGED vars
  BY <1>8 DEF AgeLock, vars
<1>9. QED
  BY <1>1, <1>2, <1>3, <1>4, <1>5, <1>6, <1>7, <1>8 DEF Next, Step

\* mutateJsonFile excludes other writers and never loses a completed mutation, for
\* any number of tasks and processes, if no live holder is slower than staleLockMs
\* or fails both to stamp its lock and to remove it, and no process dies, or only such that leave at most one task to reclaim the
\* lock.  FileStoreReclaim shows that two are too many.
THEOREM NoLostUpdates ==
  ASSUME SoleSurvivor, ~StaleAllowed, ~CleanupFails
  PROVE  Spec => [](LockExclusive /\ NoLostUpdate)
<1>1. Init => IInv
  BY IInvInit
<1>2. IInv /\ [Next]_vars => IInv'
  <2> SUFFICES ASSUME IInv, [Next]_vars PROVE IInv'
    OBVIOUS
  <2>1. TypeOK'
    BY TypeNext DEF IInv
  <2>2. QED
    BY <2>1, UndisturbedNext, AloneNext, HolderOwnsLockNext, StoreNext DEF IInv
<1>3. IInv => LockExclusive /\ NoLostUpdate
  BY DEF IInv, HolderOwnsLock, LockExclusive
<1>4. QED
  BY <1>1, <1>2, <1>3, PTL DEF Spec
==============================================================================
