---------------------------- MODULE RuntimeBackup ----------------------------
(***************************************************************************)
(* Backup and restore of the data directory                                *)
(* (src/reliability/runtimeHealth.ts).  A backup reads every file and      *)
(* notes its hash, reads every file again to copy it, verifies the copies  *)
(* and then marks its manifest as verified.  It takes no locks, and the    *)
(* controllers go on writing, also contents that a file had before (a      *)
(* state that is cleared, a setting that is switched back).                *)
(***************************************************************************)
EXTENDS Integers

CONSTANTS DataFile,
    MaxContents         \* bound: contents of a file

ASSUME BackupAssumption == MaxContents \in Nat

VARIABLES
    data,           \* the data directory; 0 stands for no file
    backupPhase,    \* where backupRuntime() is; "dead" when it threw or its process died
    walked,         \* the files whose directories readdir() has read
    listed,         \* the ones it has named
    noted,          \* the contents whose hashes will be in the manifest
    copied,         \* the destination
    manifest,       \* manifest.json at the destination
    restorePhase,
    target,         \* the directory a backup is restored into
    asOfCopy,       \* history: the data directory when the copying began
    recurred        \* history: files that got their noted content back before the copy

history == <<asOfCopy, recurred>>
backupVars ==
    <<data, backupPhase, walked, listed, noted, copied, manifest, restorePhase, target, history>>

Nothing == [f \in DataFile |-> 0]

BackupInit ==
    /\ data \in [DataFile -> {0, 1}] /\ MaxContents > 0
    /\ backupPhase = "idle" /\ restorePhase = "idle"
    /\ walked = {} /\ listed = {} /\ noted = Nothing /\ copied = Nothing /\ target = Nothing
    /\ manifest = "none" /\ asOfCopy = Nothing /\ recurred = {}

\* Some controller writes a store, by renaming a complete file over it, or removes it.
Save(f, content) ==
    /\ content # data[f]
    /\ data' = [data EXCEPT ![f] = content]
    /\ recurred' = IF backupPhase = "copying" /\ copied[f] = 0 /\ content = noted[f]
                   THEN recurred \cup {f} ELSE recurred
    /\ UNCHANGED <<backupPhase, walked, listed, noted, copied, manifest, restorePhase, target, asOfCopy>>

\* The destination must not exist.
BeginBackup ==
    /\ backupPhase = "idle"
    /\ backupPhase' = "collecting"
    /\ UNCHANGED <<data, walked, listed, noted, copied, manifest, restorePhase, target, history>>

\* walk() reads its directories when it comes to them, between the files: each file is
\* backed up if it is there when its own directory is read.
ReadDirectory(f) ==
    /\ backupPhase = "collecting" /\ f \notin walked
    /\ walked' = walked \cup {f}
    /\ listed' = IF data[f] # 0 THEN listed \cup {f} ELSE listed
    /\ UNCHANGED <<data, backupPhase, noted, copied, manifest, restorePhase, target, history>>

\* A file that has gone since makes lstat() throw.
Collect(f) ==
    /\ backupPhase = "collecting" /\ f \in listed /\ noted[f] = 0
    /\ data[f] # 0
    /\ noted' = [noted EXCEPT ![f] = data[f]]
    /\ UNCHANGED <<data, backupPhase, walked, listed, copied, manifest, restorePhase, target, history>>

BeginCopy ==
    /\ backupPhase = "collecting" /\ walked = DataFile /\ \A f \in listed : noted[f] # 0
    /\ backupPhase' = "copying" /\ asOfCopy' = data
    /\ UNCHANGED <<data, walked, listed, noted, copied, manifest, restorePhase, target, recurred>>

\* Faulty variant: the copy is made without a second look at the hash.
CopyAnything(f) ==
    /\ backupPhase = "copying" /\ f \in listed /\ copied[f] = 0
    /\ copied' = [copied EXCEPT ![f] = noted[f]]
    /\ UNCHANGED <<data, backupPhase, walked, listed, noted, manifest, restorePhase, target, history>>

\* copyFileWithHash(): reads the file again, and throws when it has changed.
Copy(f) ==
    /\ backupPhase = "copying" /\ f \in listed /\ copied[f] = 0
    /\ data[f] = noted[f]
    /\ copied' = [copied EXCEPT ![f] = data[f]]
    /\ UNCHANGED <<data, backupPhase, walked, listed, noted, manifest, restorePhase, target, history>>

WriteManifest ==
    /\ backupPhase = "copying" /\ \A f \in listed : copied[f] # 0
    /\ backupPhase' = "verifying" /\ manifest' = "unverified"
    /\ UNCHANGED <<data, walked, listed, noted, copied, restorePhase, target, history>>

\* verifyBackupFiles() reads the copies, which nobody else writes.
MarkVerified ==
    /\ backupPhase = "verifying" /\ \A f \in listed : copied[f] = noted[f]
    /\ backupPhase' = "done" /\ manifest' = "verified"
    /\ UNCHANGED <<data, walked, listed, noted, copied, restorePhase, target, history>>

\* A file has changed or gone, there are too many bytes, or the process dies.  What has
\* been written of the backup stays; its destination cannot be used again.
BackupFails ==
    /\ backupPhase \in {"collecting", "copying", "verifying"}
    /\ backupPhase' = "dead"
    /\ UNCHANGED <<data, walked, listed, noted, copied, manifest, restorePhase, target, history>>
-----------------------------------------------------------------------------
Restorable == manifest = "verified"

\* restoreRuntimeBackup(): into an empty directory only.
BeginRestore ==
    /\ restorePhase = "idle" /\ Restorable /\ target = Nothing
    /\ restorePhase' = "restoring"
    /\ UNCHANGED <<data, backupPhase, walked, listed, noted, copied, manifest, target, history>>

RestoreFile(f) ==
    /\ restorePhase = "restoring" /\ f \in listed /\ target[f] = 0
    /\ copied[f] = noted[f]
    /\ target' = [target EXCEPT ![f] = copied[f]]
    /\ UNCHANGED <<data, backupPhase, walked, listed, noted, copied, manifest, restorePhase, history>>

FinishRestore ==
    /\ restorePhase = "restoring" /\ \A f \in listed : target[f] = noted[f]
    /\ restorePhase' = "restored"
    /\ UNCHANGED <<data, backupPhase, walked, listed, noted, copied, manifest, target, history>>

\* The next attempt finds the target as this one has left it.
RestoreDies ==
    /\ restorePhase = "restoring"
    /\ restorePhase' = "idle"
    /\ UNCHANGED <<data, backupPhase, walked, listed, noted, copied, manifest, target, history>>

BackupNext ==
    \/ BeginBackup \/ BeginCopy \/ WriteManifest \/ MarkVerified \/ BackupFails
    \/ BeginRestore \/ FinishRestore \/ RestoreDies
    \/ \E f \in DataFile : ReadDirectory(f) \/ Collect(f) \/ Copy(f) \/ RestoreFile(f)
    \/ \E f \in DataFile, content \in 0 .. MaxContents : Save(f, content)

BackupSpec == BackupInit /\ [][BackupNext]_backupVars
-----------------------------------------------------------------------------
\* The variables have their types.
BackupTypeOK ==
    /\ {data, noted, copied, target, asOfCopy} \subseteq [DataFile -> 0 .. MaxContents]
    /\ backupPhase \in {"idle", "collecting", "copying", "verifying", "done", "dead"}
    /\ restorePhase \in {"idle", "restoring", "restored"}
    /\ manifest \in {"none", "unverified", "verified"}
    /\ walked \subseteq DataFile /\ listed \subseteq DataFile /\ recurred \subseteq DataFile

\* Although no lock is held and every store is read on its own, the listed files of a
\* verified backup had these contents together, at the moment when the copying began,
\* except a file that was overwritten and got its old content back before its copy: the
\* hash cannot tell.  A restored directory holds what the manifest says and nothing else.
VerifiedBackupIsASnapshot ==
    /\ manifest = "verified" => \A f \in listed \ recurred : copied[f] = asOfCopy[f]
    /\ restorePhase = "restored" => target = copied /\ \A f \in listed : target[f] = noted[f]

=============================================================================
