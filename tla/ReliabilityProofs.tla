-------------------------- MODULE ReliabilityProofs --------------------------
(***************************************************************************)
(* Proofs about the parts of the composed service that stand beside the    *)
(* ledger, and about the whole: a verified backup is a snapshot, whatever  *)
(* the files, unless a content that was overwritten comes back; under      *)
(* one idempotency key the Stripe pack does nothing twice within the life  *)
(* of the key, and its subscriptions, invoices and payments agree, for     *)
(* every set of keys, amounts and operations; every synthetic world stays  *)
(* readable and writable, however workflows, resets and forks interleave;  *)
(* the requests of the hosted service's tenants decide on current roles,   *)
(* keep an owner and stay within their quotas; and since the parts share   *)
(* the clock only, what is proved of each holds of all of them together.   *)
(***************************************************************************)
EXTENDS MCReliability, LedgerProofs

(***************************************************************************)
(* Backups                                                                 *)
(***************************************************************************)
Contents == [DataFile -> 0 .. MaxContents]

\* Before the copying begins there is no copy and no manifest.
NothingCopied ==
    backupPhase \in {"idle", "collecting"} => \A f \in DataFile : copied[f] = 0

\* While files are copied: one that still, or again, has its noted content had it when the
\* copying began, or is known to have got it back.
SnapshotBetween ==
    backupPhase = "copying" =>
        \A f \in DataFile \ recurred :
            copied[f] = 0 /\ data[f] = noted[f] => asOfCopy[f] = noted[f]

\* A copy is of a listed file and of what was noted.
CopiesAgree ==
    \A f \in DataFile : copied[f] # 0 =>
        /\ f \in listed /\ copied[f] = noted[f]
        /\ f \notin recurred => noted[f] = asOfCopy[f]

\* The manifest is written when every listed file has its copy.
ManifestAfterCopies ==
    /\ backupPhase = "verifying" => manifest = "unverified"
    /\ manifest # "none" =>
        /\ backupPhase \in {"verifying", "done", "dead"}
        /\ \A f \in listed : copied[f] # 0

\* Only what has a verified manifest is restored, and only copies are.
RestoresCopies ==
    /\ restorePhase # "idle" =>
        manifest = "verified" /\ \A f \in DataFile : target[f] \in {0, copied[f]}
    /\ restorePhase = "restored" => \A f \in listed : target[f] = noted[f]

\* The inductive invariant of backups.
BackupInv ==
    /\ BackupTypeOK /\ NothingCopied /\ SnapshotBetween
    /\ CopiesAgree /\ ManifestAfterCopies /\ RestoresCopies
-----------------------------------------------------------------------------
\* The type invariant, one variable at a time.
LEMMA BackupTypes ==
    BackupTypeOK <=>
        /\ data \in Contents /\ noted \in Contents /\ copied \in Contents
        /\ target \in Contents /\ asOfCopy \in Contents
        /\ backupPhase \in {"idle", "collecting", "copying", "verifying", "done", "dead"}
        /\ restorePhase \in {"idle", "restoring", "restored"}
        /\ manifest \in {"none", "unverified", "verified"}
        /\ walked \subseteq DataFile /\ listed \subseteq DataFile /\ recurred \subseteq DataFile
BY DEF BackupTypeOK, Contents

\* The same after a step.
LEMMA BackupTypesPrimed ==
    BackupTypeOK' <=>
        /\ data' \in Contents /\ noted' \in Contents /\ copied' \in Contents
        /\ target' \in Contents /\ asOfCopy' \in Contents
        /\ backupPhase' \in {"idle", "collecting", "copying", "verifying", "done", "dead"}
        /\ restorePhase' \in {"idle", "restoring", "restored"}
        /\ manifest' \in {"none", "unverified", "verified"}
        /\ walked' \subseteq DataFile /\ listed' \subseteq DataFile /\ recurred' \subseteq DataFile
BY DEF BackupTypeOK, Contents

\* The invariant holds before the first backup.
LEMMA BackupInvInit == BackupInit => BackupInv
<1> SUFFICES ASSUME BackupInit PROVE BackupInv
    OBVIOUS
<1>1. BackupTypeOK
    BY BackupAssumption, BackupTypes DEF BackupInit, Nothing, Contents
<1>2. NothingCopied /\ SnapshotBetween
    BY DEF BackupInit, Nothing, NothingCopied, SnapshotBetween
<1>3. CopiesAgree /\ ManifestAfterCopies /\ RestoresCopies
    BY DEF BackupInit, Nothing, CopiesAgree, ManifestAfterCopies, RestoresCopies
<1> QED BY <1>1, <1>2, <1>3 DEF BackupInv

\* Every step of the backup, of a restore and of the controllers preserves it.
LEMMA BackupInvStep == BackupInv /\ [BackupNext]_backupVars => BackupInv'
<1> SUFFICES ASSUME BackupInv, [BackupNext]_backupVars PROVE BackupInv'
    OBVIOUS
<1> USE BackupAssumption DEF Contents
<1>0. /\ data \in Contents /\ noted \in Contents /\ copied \in Contents
      /\ target \in Contents /\ asOfCopy \in Contents
      /\ backupPhase \in {"idle", "collecting", "copying", "verifying", "done", "dead"}
      /\ restorePhase \in {"idle", "restoring", "restored"}
      /\ manifest \in {"none", "unverified", "verified"}
      /\ walked \subseteq DataFile /\ listed \subseteq DataFile /\ recurred \subseteq DataFile
    BY BackupTypes DEF BackupInv
<1>p. NothingCopied /\ SnapshotBetween /\ CopiesAgree /\ ManifestAfterCopies
      /\ RestoresCopies
    BY DEF BackupInv
<1>1. ASSUME NEW f \in DataFile, NEW content \in 0 .. MaxContents, Save(f, content) PROVE BackupInv'
  <2>1. BackupTypeOK'
    BY <1>0, <1>1, BackupTypesPrimed DEF Save
  <2>2. NothingCopied' /\ SnapshotBetween'
    BY <1>0, <1>p, <1>1 DEF Save, NothingCopied, SnapshotBetween
  <2>3. CopiesAgree' /\ ManifestAfterCopies' /\ RestoresCopies'
    BY <1>0, <1>p, <1>1 DEF Save, CopiesAgree, ManifestAfterCopies, RestoresCopies
  <2> QED BY <2>1, <2>2, <2>3 DEF BackupInv
<1>2. CASE BeginBackup
  <2>1. BackupTypeOK'
    BY <1>0, <1>2, BackupTypesPrimed DEF BeginBackup, history
  <2>2. NothingCopied' /\ SnapshotBetween'
    BY <1>0, <1>p, <1>2 DEF BeginBackup, history, NothingCopied, SnapshotBetween
  <2>3. manifest = "none"
    BY <1>p, <1>2 DEF BeginBackup, history, ManifestAfterCopies
  <2>4. CopiesAgree' /\ ManifestAfterCopies' /\ RestoresCopies'
    BY <1>p, <1>2, <2>3 DEF BeginBackup, history, CopiesAgree, ManifestAfterCopies, RestoresCopies
  <2> QED BY <2>1, <2>2, <2>4 DEF BackupInv
<1>12. ASSUME NEW f \in DataFile, ReadDirectory(f) PROVE BackupInv'
  <2>1. BackupTypeOK'
    BY <1>0, <1>12, BackupTypesPrimed DEF ReadDirectory, history
  <2>2. NothingCopied' /\ SnapshotBetween'
    BY <1>0, <1>p, <1>12 DEF ReadDirectory, history, NothingCopied, SnapshotBetween
  <2>3. manifest = "none" /\ \A g \in DataFile : copied[g] = 0
    BY <1>p, <1>12 DEF ReadDirectory, ManifestAfterCopies, NothingCopied
  <2>4. CopiesAgree' /\ ManifestAfterCopies' /\ RestoresCopies'
    BY <1>p, <1>12, <2>3 DEF ReadDirectory, history, CopiesAgree, ManifestAfterCopies, RestoresCopies
  <2> QED BY <2>1, <2>2, <2>4 DEF BackupInv
<1>3. ASSUME NEW f \in DataFile, Collect(f) PROVE BackupInv'
  <2>1. BackupTypeOK'
    BY <1>0, <1>3, BackupTypesPrimed DEF Collect, history
  <2>2. NothingCopied' /\ SnapshotBetween'
    BY <1>0, <1>p, <1>3 DEF Collect, history, NothingCopied, SnapshotBetween
  <2>3. manifest = "none" /\ \A g \in DataFile : copied[g] = 0
    BY <1>p, <1>3 DEF Collect, history, ManifestAfterCopies, NothingCopied
  <2>4. CopiesAgree' /\ ManifestAfterCopies' /\ RestoresCopies'
    BY <1>p, <1>3, <2>3 DEF Collect, history, CopiesAgree, ManifestAfterCopies, RestoresCopies
  <2> QED BY <2>1, <2>2, <2>4 DEF BackupInv
<1>4. CASE BeginCopy
  <2>1. BackupTypeOK'
    BY <1>0, <1>4, BackupTypesPrimed DEF BeginCopy, history
  <2>2. NothingCopied' /\ SnapshotBetween'
    BY <1>0, <1>p, <1>4 DEF BeginCopy, history, NothingCopied, SnapshotBetween
  <2>3. manifest = "none" /\ \A g \in DataFile : copied[g] = 0
    BY <1>p, <1>4 DEF BeginCopy, history, ManifestAfterCopies, NothingCopied
  <2>4. CopiesAgree' /\ ManifestAfterCopies' /\ RestoresCopies'
    BY <1>p, <1>4, <2>3 DEF BeginCopy, history, CopiesAgree, ManifestAfterCopies, RestoresCopies
  <2> QED BY <2>1, <2>2, <2>4 DEF BackupInv
<1>5. ASSUME NEW f \in DataFile, Copy(f) PROVE BackupInv'
  <2>1. BackupTypeOK'
    BY <1>0, <1>5, BackupTypesPrimed DEF Copy, history
  <2>2. NothingCopied' /\ SnapshotBetween'
    BY <1>0, <1>p, <1>5 DEF Copy, history, NothingCopied, SnapshotBetween
  <2>3. f \notin recurred => noted[f] = asOfCopy[f]
    BY <1>0, <1>p, <1>5 DEF Copy, history, SnapshotBetween
  <2>4. CopiesAgree'
    BY <1>0, <1>p, <1>5, <2>3 DEF Copy, history, CopiesAgree
  <2>5. ManifestAfterCopies' /\ RestoresCopies'
    BY <1>p, <1>5 DEF Copy, history, ManifestAfterCopies, RestoresCopies
  <2> QED BY <2>1, <2>2, <2>4, <2>5 DEF BackupInv
<1>6. CASE WriteManifest
  <2>1. BackupTypeOK'
    BY <1>0, <1>6, BackupTypesPrimed DEF WriteManifest, history
  <2>2. NothingCopied' /\ SnapshotBetween'
    BY <1>p, <1>6 DEF WriteManifest, history, NothingCopied, SnapshotBetween
  <2>3. CopiesAgree' /\ ManifestAfterCopies'
    BY <1>p, <1>6 DEF WriteManifest, history, CopiesAgree, ManifestAfterCopies
  <2>4. restorePhase = "idle"
    BY <1>p, <1>6 DEF WriteManifest, history, ManifestAfterCopies, RestoresCopies
  <2>5. RestoresCopies'
    BY <1>6, <2>4 DEF WriteManifest, history, RestoresCopies
  <2> QED BY <2>1, <2>2, <2>3, <2>5 DEF BackupInv
<1>7. CASE MarkVerified
  <2>1. BackupTypeOK'
    BY <1>0, <1>7, BackupTypesPrimed DEF MarkVerified, history
  <2>2. NothingCopied' /\ SnapshotBetween' /\ CopiesAgree'
    BY <1>p, <1>7 DEF MarkVerified, history, NothingCopied, SnapshotBetween, CopiesAgree
  <2>3. (\A f \in listed : copied[f] # 0) /\ restorePhase = "idle"
    BY <1>p, <1>7 DEF MarkVerified, history, ManifestAfterCopies, RestoresCopies
  <2>4. ManifestAfterCopies' /\ RestoresCopies'
    BY <1>7, <2>3 DEF MarkVerified, history, ManifestAfterCopies, RestoresCopies
  <2> QED BY <2>1, <2>2, <2>4 DEF BackupInv
<1>8. CASE BackupFails
  <2>1. BackupTypeOK'
    BY <1>0, <1>8, BackupTypesPrimed DEF BackupFails, history
  <2>2. NothingCopied' /\ SnapshotBetween' /\ CopiesAgree'
    BY <1>p, <1>8 DEF BackupFails, history, NothingCopied, SnapshotBetween, CopiesAgree
  <2>3. ManifestAfterCopies' /\ RestoresCopies'
    BY <1>p, <1>8 DEF BackupFails, history, ManifestAfterCopies, RestoresCopies
  <2> QED BY <2>1, <2>2, <2>3 DEF BackupInv
<1>9. CASE BeginRestore \/ FinishRestore \/ RestoreDies
  <2>1. BackupTypeOK'
    BY <1>0, <1>9, BackupTypesPrimed DEF BeginRestore, FinishRestore, RestoreDies, history
  <2>2. NothingCopied' /\ SnapshotBetween' /\ CopiesAgree'
    BY <1>p, <1>9 DEF BeginRestore, FinishRestore, RestoreDies, history, NothingCopied,
                      SnapshotBetween, CopiesAgree
  <2>3. ManifestAfterCopies' /\ RestoresCopies'
    BY <1>0, <1>p, <1>9 DEF Nothing, BeginRestore, FinishRestore, RestoreDies, history, Restorable,
                      ManifestAfterCopies, RestoresCopies
  <2> QED BY <2>1, <2>2, <2>3 DEF BackupInv
<1>10. ASSUME NEW f \in DataFile, RestoreFile(f) PROVE BackupInv'
  <2>1. BackupTypeOK'
    BY <1>0, <1>10, BackupTypesPrimed DEF RestoreFile, history
  <2>2. NothingCopied' /\ SnapshotBetween' /\ CopiesAgree'
    BY <1>p, <1>10 DEF RestoreFile, history, NothingCopied, SnapshotBetween, CopiesAgree
  <2>3. ManifestAfterCopies' /\ RestoresCopies'
    BY <1>p, <1>10 DEF RestoreFile, history, ManifestAfterCopies, RestoresCopies
  <2> QED BY <2>1, <2>2, <2>3 DEF BackupInv
<1>11. CASE UNCHANGED backupVars
  <2>1. BackupTypeOK'
    BY <1>0, <1>11, BackupTypesPrimed DEF backupVars, history
  <2>2. NothingCopied' /\ SnapshotBetween' /\ CopiesAgree'
    BY <1>p, <1>11 DEF backupVars, history, NothingCopied, SnapshotBetween, CopiesAgree
  <2>3. ManifestAfterCopies' /\ RestoresCopies'
    BY <1>p, <1>11 DEF backupVars, history, ManifestAfterCopies, RestoresCopies
  <2> QED BY <2>1, <2>2, <2>3 DEF BackupInv
<1> QED
    BY <1>1, <1>2, <1>3, <1>4, <1>5, <1>6, <1>7, <1>8, <1>9, <1>10, <1>11, <1>12 DEF BackupNext

\* Manifest and copies give the snapshot.
LEMMA BackupInvImplies == BackupInv => VerifiedBackupIsASnapshot
<1> SUFFICES ASSUME BackupInv PROVE VerifiedBackupIsASnapshot
    OBVIOUS
<1>1. listed \subseteq DataFile /\ copied \in Contents /\ target \in Contents
    BY BackupTypes DEF BackupInv
<1>2. manifest = "verified" =>
        \A f \in listed : copied[f] = noted[f] /\ (f \notin recurred => copied[f] = asOfCopy[f])
    BY <1>1 DEF BackupInv, ManifestAfterCopies, CopiesAgree
<1>3. restorePhase = "restored" => \A f \in DataFile : target[f] = copied[f]
    BY <1>1, <1>2 DEF BackupInv, RestoresCopies, CopiesAgree
<1>4. restorePhase = "restored" => target = copied
    BY <1>1, <1>3 DEF Contents
<1> QED BY <1>2, <1>4 DEF BackupInv, RestoresCopies, VerifiedBackupIsASnapshot

\* The variables of the backup and of the restore always have their types.
THEOREM BackupTypeCorrect == BackupSpec => []BackupTypeOK
<1>1. BackupInv => BackupTypeOK
    BY DEF BackupInv
<1> QED BY <1>1, BackupInvInit, BackupInvStep, PTL DEF BackupSpec

\* The files of a backup that is marked as verified had their contents together when the
\* copying began, though backupRuntime() takes no lock, unless an overwritten content came
\* back meanwhile; and a restored directory is exactly the backup.
THEOREM VerifiedBackup == BackupSpec => []VerifiedBackupIsASnapshot
BY BackupInvInit, BackupInvStep, BackupInvImplies, PTL DEF BackupSpec
-----------------------------------------------------------------------------
(***************************************************************************)
(* The Stripe pack                                                         *)
(***************************************************************************)
\* After an effect its key has a receipt that is no older than the effect.
ReceiptAfterEffect(k) ==
    effects[k].count > 0 =>
        /\ k \in DOMAIN receipts
        /\ receipts[k].created \in Nat
        /\ effects[k].at <= receipts[k].created
        /\ receipts[k].created <= now

\* The inductive invariant of the keys.
KeyInv ==
    /\ now \in Nat
    /\ effects \in [IdempotencyKey -> [at : Nat, count : Nat]]
    /\ \A k \in IdempotencyKey : effects[k].count <= 1 /\ ReceiptAfterEffect(k)
-----------------------------------------------------------------------------
\* What a request finds under a key that lives is refused, and writes nothing.
LEMMA LiveKeyWritesNothing ==
    ASSUME NEW r, NEW k, Live(k)
    PROVE  ~HasEffect(r, k, handleDeterministic(r, k))
BY DEF HasEffect, handleDeterministic, stripeFailure, Answer

\* What is remembered for a key is as old as the request.
LEMMA RememberedNow ==
    ASSUME NEW r, NEW k, NEW answer, k # Absent, r.method = "POST"
    PROVE  k \in DOMAIN Remembered(r, k, answer) /\ Remembered(r, k, answer)[k].created = now
BY DEF Remembered, Receipt

\* Other keys keep their receipts.
LEMMA OthersRemembered ==
    ASSUME NEW r, NEW k, NEW answer, NEW other, other # k, other \in DOMAIN receipts
    PROVE  /\ other \in DOMAIN Remembered(r, k, answer)
           /\ Remembered(r, k, answer)[other] = receipts[other]
BY DEF Remembered

\* No key has an effect at first.
LEMMA KeyInvInit == StripeInit => KeyInv
BY DEF StripeInit, KeyInv, ReceiptAfterEffect

\* A request, the clock and clearState() preserve the invariant.
LEMMA KeyInvStep ==
    ASSUME NEW asked
    PROVE  KeyInv /\ [StripeNext(asked)]_stripeVars => KeyInv'
<1> SUFFICES ASSUME KeyInv, [StripeNext(asked)]_stripeVars PROVE KeyInv'
    OBVIOUS
<1>1. ASSUME NEW r, NEW k, Serve(r, k) PROVE KeyInv'
  <2> DEFINE answer == handleDeterministic(r, k)
  <2>1. /\ receipts' = Remembered(r, k, answer) /\ now' = now
        /\ effects' = IF HasEffect(r, k, answer) THEN [effects EXCEPT ![k] = Counted(k)] ELSE effects
    BY <1>1 DEF Serve
  <2> HIDE DEF answer
  <2>2. CASE HasEffect(r, k, answer) /\ k \in IdempotencyKey
    <3>0. ~Live(k) /\ k # Absent
      BY <2>2, LiveKeyWritesNothing DEF HasEffect, answer
    <3>2. ~InWindow(k)
      <4>1. effects[k].count > 0 => effects[k].at + IdempotencyTTL <= now
        BY <2>2, <3>0, StripeAssumption DEF KeyInv, ReceiptAfterEffect, Live
      <4>2. effects[k].at \in Nat /\ now \in Nat /\ IdempotencyTTL \in Nat
        BY <2>2, StripeAssumption DEF KeyInv
      <4> QED BY <4>1, <4>2 DEF InWindow
    <3>1. k # Absent /\ r.method = "POST"
      BY <2>2, <3>2 DEF HasEffect
    <3>3. effects' = [effects EXCEPT ![k] = [at |-> now, count |-> 1]]
      BY <2>1, <2>2, <3>2 DEF Counted
    <3>4. k \in DOMAIN receipts' /\ receipts'[k].created = now
      BY <2>1, <3>1, RememberedNow
    <3>5. now' \in Nat /\ effects' \in [IdempotencyKey -> [at : Nat, count : Nat]]
      <4>1. [at |-> now, count |-> 1] \in [at : Nat, count : Nat]
        BY DEF KeyInv
      <4>2. effects \in [IdempotencyKey -> [at : Nat, count : Nat]] /\ now \in Nat
        BY DEF KeyInv
      <4> QED BY <2>1, <2>2, <3>3, <4>1, <4>2
    <3>6. ASSUME NEW j \in IdempotencyKey PROVE effects'[j].count <= 1 /\ ReceiptAfterEffect(j)'
      <4>1. CASE j = k
        BY <4>1, <2>1, <3>3, <3>4 DEF KeyInv, ReceiptAfterEffect
      <4>2. CASE j # k
        <5>1. effects'[j] = effects[j]
          BY <4>2, <3>3 DEF KeyInv
        <5>2. j \in DOMAIN receipts => j \in DOMAIN receipts' /\ receipts'[j] = receipts[j]
          BY <4>2, <2>1, OthersRemembered
        <5> QED BY <2>1, <5>1, <5>2 DEF KeyInv, ReceiptAfterEffect
      <4> QED BY <4>1, <4>2
    <3> QED BY <3>5, <3>6 DEF KeyInv
  <2>3. CASE ~(HasEffect(r, k, answer) /\ k \in IdempotencyKey)
    <3>1. effects' = effects
      <4>1. CASE HasEffect(r, k, answer)
        <5>1. k \notin DOMAIN effects
          BY <2>3, <4>1 DEF KeyInv
        <5>2. [effects EXCEPT ![k] = Counted(k)] = effects
          BY <5>1 DEF KeyInv
        <5> QED BY <4>1, <5>2, <2>1
      <4>2. CASE ~HasEffect(r, k, answer)
        BY <4>2, <2>1
      <4> QED BY <4>1, <4>2
    <3>2. ASSUME NEW j \in IdempotencyKey, effects[j].count > 0
          PROVE  /\ j \in DOMAIN receipts' /\ receipts'[j].created \in Nat
                 /\ effects[j].at <= receipts'[j].created /\ receipts'[j].created <= now
      <4>1. /\ j \in DOMAIN receipts /\ receipts[j].created \in Nat
            /\ effects[j].at <= receipts[j].created /\ receipts[j].created <= now
            /\ now \in Nat /\ effects[j].at \in Nat
        BY <3>2 DEF KeyInv, ReceiptAfterEffect
      <4>2. CASE j # k
        BY <4>1, <4>2, <2>1, OthersRemembered
      <4>3. CASE j = k /\ (k = Absent \/ r.method # "POST")
        BY <4>1, <4>3, <2>1 DEF Remembered
      <4>4. CASE j = k /\ k # Absent /\ r.method = "POST"
        <5>1. j \in DOMAIN receipts' /\ receipts'[j].created = now
          BY <4>4, <2>1, RememberedNow
        <5> QED BY <4>1, <5>1
      <4> QED BY <4>2, <4>3, <4>4
    <3> QED BY <2>1, <3>1, <3>2 DEF KeyInv, ReceiptAfterEffect
  <2> QED BY <2>2, <2>3
<1>2. CASE ClearState
    BY <1>2 DEF ClearState, KeyInv, ReceiptAfterEffect
<1>3. CASE Tick /\ UNCHANGED stripeOnly
    BY <1>3 DEF Tick, stripeOnly, KeyInv, ReceiptAfterEffect
<1>4. CASE UNCHANGED stripeVars
    BY <1>4 DEF stripeVars, stripeOnly, KeyInv, ReceiptAfterEffect
<1> QED BY <1>1, <1>2, <1>3, <1>4 DEF StripeNext

\* Whatever clients ask for and however they retry, the effect of a POST is the last one
\* under its key, a DELETE included, while the key lives: the receipt that
\* transitionState() writes with the effect outlives it, and a request that is refused
\* the key only makes the receipt younger.
THEOREM OneEffect ==
    ASSUME NEW asked
    PROVE  StripeSpec(asked) => []OneEffectPerKey
<1>1. KeyInv => OneEffectPerKey
    BY DEF KeyInv, OneEffectPerKey
<1>2. KeyInv /\ [StripeNext(asked)]_stripeVars => KeyInv'
    BY KeyInvStep
<1> QED BY <1>1, <1>2, KeyInvInit, PTL DEF StripeSpec
-----------------------------------------------------------------------------
(***************************************************************************)
(* Billing.  A state o of the pack is billed when its objects name objects *)
(* that are there and show of each other what is so.  The handlers write   *)
(* up to three objects; each write is taken on its own, in an order in     *)
(* which every state in between is billed too.                             *)
(***************************************************************************)
\* The ids of a kind, and the next one.
KindIds(o, kind) == {id \in DOMAIN o : id[1] = kind}
NextId(o, kind) == <<kind, 1 + Cardinality(KindIds(o, kind))>>

\* The ids of objects.
Id == Kind \X Nat

\* The numbers of a kind do not pass the number of its objects, so the next is new.
Numbered(o) ==
    /\ DOMAIN o \subseteq Id
    /\ \A kind \in Kind :
        /\ IsFiniteSet(KindIds(o, kind))
        /\ \A id \in KindIds(o, kind) : id[2] <= Cardinality(KindIds(o, kind)) /\ id[2] >= 1

\* An id that names an object of the kind.
Refers(o, id, kind) == id \in DOMAIN o /\ id[1] = kind

\* An intent, and what its invoice relies on.
IntentRecord ==
    [amount : Nat, amount_received : Nat, amount_refunded : Nat,
     status : {"succeeded", "requires_payment_method"}]
Settled(intent) == intent.status = "succeeded"

\* A refund names no intent, or one that is there.
RefundOf(o, refund) ==
    /\ refund \in [amount : Nat, payment_intent : Id \cup {Absent}]
    /\ refund.payment_intent # Absent => Refers(o, refund.payment_intent, "payment_intent")

\* The fields of a subscription ...
SubscriptionRecord ==
    [customer : Id, price : Id, card : Cards,
     status : {"trialing", "active", "past_due", "canceled"}, latest_invoice : Id \cup {Absent}]

\* ... and what it shows: an invoice of its own, that is not open while it is active.
SubscriptionOf(o, id, subscription) ==
    /\ subscription \in SubscriptionRecord
    /\ Refers(o, subscription.customer, "customer") /\ Refers(o, subscription.price, "price")
    /\ subscription.status = "trialing" => subscription.latest_invoice = Absent
    /\ subscription.latest_invoice # Absent =>
        /\ Refers(o, subscription.latest_invoice, "invoice")
        /\ o[subscription.latest_invoice].subscription = id
    /\ subscription.status = "active" =>
        /\ subscription.latest_invoice # Absent
        /\ o[subscription.latest_invoice].status # "open"

\* The fields of an invoice ...
InvoiceRecord ==
    [subscription : Id, status : {"open", "paid", "void"}, payment_intent : Id \cup {Absent},
     attempt_count : Nat, amount_due : Nat, amount_paid : Nat, amount_remaining : Nat]

\* ... which is closed once an intent has settled it.
InvoiceOf(o, invoice) ==
    /\ invoice \in InvoiceRecord
    /\ Refers(o, invoice.subscription, "subscription")
    /\ invoice.payment_intent # Absent =>
        /\ invoice.status # "open"
        /\ Refers(o, invoice.payment_intent, "payment_intent")
        /\ Settled(o[invoice.payment_intent])

\* What an entry of a state o may be, and what the state may be.
ObjectOf(o, id, x) ==
    /\ id[1] = "customer" => x \in [deleted : BOOLEAN]
    /\ id[1] = "price" => x \in [unit_amount : UnitAmount, recurring : BOOLEAN]
    /\ id[1] = "payment_intent" => x \in IntentRecord
    /\ id[1] = "refund" => RefundOf(o, x)
    /\ id[1] = "subscription" => SubscriptionOf(o, id, x)
    /\ id[1] = "invoice" => InvoiceOf(o, x)
    /\ id[1] \notin {"customer", "price", "payment_intent", "refund", "subscription", "invoice"} =>
        x = <<>>

Billed(o) == Numbered(o) /\ \A id \in DOMAIN o : ObjectOf(o, id, o[id])

\* A write that spares what other entries rely on: what is settled stays so, and an
\* invoice belongs to one subscription and is not opened again.
Spares(id, old, new) ==
    /\ id[1] = "payment_intent" /\ Settled(old) => Settled(new)
    /\ id[1] = "invoice" => new.subscription = old.subscription
                            /\ (old.status # "open" => new.status # "open")

\* An entry may be written under an id that there is, or under the next of its kind.
MayWrite(o, id, x) ==
    /\ id \in Id
    /\ id \in DOMAIN o \/ id = NextId(o, id[1])
    /\ ObjectOf(o, id, x)
    /\ id \in DOMAIN o => Spares(id, o[id], x)

\* What a write leaves.
IsWrite(n, o, id, x) ==
    /\ DOMAIN n = DOMAIN o \cup {id} /\ n[id] = x
    /\ \A j \in DOMAIN o : j # id => n[j] = o[j]

\* An entry over others is such a write.
LEMMA Written ==
    ASSUME NEW o, NEW id, NEW x
    PROVE  IsWrite(Over(Entry(id, x), o), o, id, x)
<1>1. /\ DOMAIN Over(Entry(id, x), o) = DOMAIN o \cup {id}
      /\ Over(Entry(id, x), o)[id] = x
      /\ \A j \in DOMAIN o : j # id => Over(Entry(id, x), o)[j] = o[j]
    BY DEF Over, Entry
<1> QED BY <1>1, Zenon DEF IsWrite

\* Writes over writes are one write.
LEMMA OverOver ==
    ASSUME NEW f, NEW g, NEW o
    PROVE  Over(Over(f, g), o) = Over(f, Over(g, o))
BY DEF Over

\* Two entries may be written in either order.
LEMMA OverSwap ==
    ASSUME NEW a, NEW x, NEW b, NEW y, NEW o, a # b
    PROVE  Over(Entry(a, x), Over(Entry(b, y), o)) = Over(Entry(b, y), Over(Entry(a, x), o))
BY DEF Over, Entry

\* A write leaves the ids of other kinds alone ...
LEMMA NextSame ==
    ASSUME NEW o, NEW id \in Id, NEW x, NEW kind, id \in DOMAIN o \/ id[1] # kind
    PROVE  KindIds(Over(Entry(id, x), o), kind) = KindIds(o, kind)
<1>1. PICK n : n = Over(Entry(id, x), o)
    OBVIOUS
<1>2. DOMAIN n = DOMAIN o \cup {id}
    BY <1>1, Written DEF IsWrite
<1>3. KindIds(n, kind) = KindIds(o, kind)
    BY <1>2 DEF KindIds
<1> QED BY <1>1, <1>3

\* ... and a new entry takes the next number.
LEMMA NextIsNew ==
    ASSUME NEW o, Numbered(o), NEW kind \in Kind
    PROVE  /\ NextId(o, kind) \in Id /\ NextId(o, kind) \notin DOMAIN o
           /\ NextId(o, kind)[1] = kind
<1>1. IsFiniteSet(KindIds(o, kind))
    BY DEF Numbered
<1>2. Cardinality(KindIds(o, kind)) \in Nat
    BY <1>1, FS_CardinalityType
<1>3. NextId(o, kind) \in Id /\ NextId(o, kind)[1] = kind
      /\ NextId(o, kind)[2] = 1 + Cardinality(KindIds(o, kind))
  <2>1. PICK c \in Nat : c = Cardinality(KindIds(o, kind))
    BY <1>2
  <2>2. NextId(o, kind) = <<kind, 1 + c>>
    BY <2>1, Zenon DEF NextId
  <2>3. PICK m \in Nat : m = 1 + c
    OBVIOUS
  <2>4. <<kind, m>> \in Id /\ <<kind, m>>[1] = kind /\ <<kind, m>>[2] = m
    BY DEF Id
  <2> QED BY <2>1, <2>2, <2>3, <2>4
<1>4. NextId(o, kind) \in DOMAIN o => NextId(o, kind) \in KindIds(o, kind)
    BY <1>3 DEF KindIds
<1>5. \A id \in KindIds(o, kind) : id[2] <= Cardinality(KindIds(o, kind))
    BY DEF Numbered
<1>6. ASSUME NextId(o, kind) \in DOMAIN o PROVE FALSE
  <2>1. NextId(o, kind)[2] <= Cardinality(KindIds(o, kind))
    BY <1>4, <1>5, <1>6
  <2>2. PICK c \in Nat : c = Cardinality(KindIds(o, kind))
    BY <1>2
  <2>3. 1 + c <= c
    BY <2>1, <2>2, <1>3
  <2> QED BY <2>3
<1> QED BY <1>3, <1>6

\* Writes of objects that are there, or next, keep the numbering.
LEMMA NumberedStays ==
    ASSUME NEW o, NEW id, NEW x, Numbered(o), id \in Id, id \in DOMAIN o \/ id = NextId(o, id[1])
    PROVE  Numbered(Over(Entry(id, x), o))
<1> DEFINE n == Over(Entry(id, x), o)
<1>1. DOMAIN n = DOMAIN o \cup {id}
    BY Written DEF IsWrite
<1>2. DOMAIN n \subseteq Id
    BY <1>1 DEF Numbered
<1>3. ASSUME NEW kind \in Kind
      PROVE  /\ IsFiniteSet(KindIds(n, kind))
             /\ \A j \in KindIds(n, kind) : j[2] <= Cardinality(KindIds(n, kind)) /\ j[2] >= 1
  <2>1. CASE id \in DOMAIN o \/ id[1] # kind
    <3>1. KindIds(n, kind) = KindIds(o, kind)
      BY <2>1, NextSame
    <3> QED BY <3>1 DEF Numbered
  <2>2. CASE id \notin DOMAIN o /\ id[1] = kind
    <3> DEFINE S == KindIds(o, kind)
    <3>1. IsFiniteSet(S) /\ \A j \in S : j[2] <= Cardinality(S) /\ j[2] >= 1 /\ j[2] \in Nat
      BY DEF Numbered, KindIds, Id
    <3>2. id \notin S /\ KindIds(n, kind) = S \cup {id}
      BY <1>1, <2>2 DEF KindIds
    <3>3. id[2] = 1 + Cardinality(S)
      BY <2>2 DEF NextId
    <3> HIDE DEF S
    <3>4. IsFiniteSet(S \cup {id}) /\ Cardinality(S \cup {id}) = Cardinality(S) + 1
      BY <3>1, <3>2, FS_AddElement
    <3>5. Cardinality(S) \in Nat
      BY <3>1, FS_CardinalityType
    <3>6. \A j \in S \cup {id} : j[2] <= Cardinality(S) + 1 /\ j[2] >= 1
      BY <3>1, <3>3, <3>5
    <3> QED BY <3>2, <3>4, <3>6
  <2> QED BY <2>1, <2>2
<1> HIDE DEF n
<1> QED BY <1>2, <1>3 DEF Numbered, n

\* A write that spares what there is leaves every object as good as it was ...
LEMMA ObjectStays ==
    ASSUME NEW o, NEW id, NEW x, MayWrite(o, id, x), NEW j, NEW y, ObjectOf(o, j, y)
    PROVE  ObjectOf(Over(Entry(id, x), o), j, y)
<1>1. PICK n : n = Over(Entry(id, x), o)
    OBVIOUS
<1>2. /\ DOMAIN n = DOMAIN o \cup {id} /\ n[id] = x
      /\ \A k \in DOMAIN o : k # id => n[k] = o[k]
  <2>1. IsWrite(n, o, id, x)
    BY <1>1, Written
  <2> QED BY <2>1 DEF IsWrite
<1>3. \A k, kind : Refers(o, k, kind) => Refers(n, k, kind)
    BY <1>2 DEF Refers
<1>4. id \in DOMAIN o => Spares(id, o[id], x)
    BY DEF MayWrite
<1>5. \A k : Refers(o, k, "payment_intent") /\ Settled(o[k]) => Settled(n[k])
    BY <1>2, <1>4, Zenon DEF Refers, Spares
<1>6. \A k : Refers(o, k, "invoice") =>
        n[k].subscription = o[k].subscription /\ (o[k].status # "open" => n[k].status # "open")
    BY <1>2, <1>4, Zenon DEF Refers, Spares
<1>7. RefundOf(o, y) => RefundOf(n, y)
    BY <1>3 DEF RefundOf
<1>8. SubscriptionOf(o, j, y) => SubscriptionOf(n, j, y)
    BY <1>3, <1>6, Zenon DEF SubscriptionOf
<1>9. InvoiceOf(o, y) => InvoiceOf(n, y)
    BY <1>3, <1>5, Zenon DEF InvoiceOf
<1>10. ObjectOf(n, j, y)
    BY <1>7, <1>8, <1>9 DEF ObjectOf
<1> QED BY <1>1, <1>10

\* ... and the state too.
LEMMA WriteKeeps ==
    ASSUME NEW o, NEW id, NEW x, Billed(o), MayWrite(o, id, x)
    PROVE  Billed(Over(Entry(id, x), o))
<1>1. PICK n : n = Over(Entry(id, x), o)
    OBVIOUS
<1>2. /\ DOMAIN n = DOMAIN o \cup {id} /\ n[id] = x
      /\ \A k \in DOMAIN o : k # id => n[k] = o[k]
  <2>1. IsWrite(n, o, id, x)
    BY <1>1, Written
  <2> QED BY <2>1 DEF IsWrite
<1>3. Numbered(n)
    BY <1>1, NumberedStays DEF Billed, MayWrite
<1>4. ASSUME NEW j \in DOMAIN n PROVE ObjectOf(n, j, n[j])
  <2>1. ObjectOf(o, j, n[j])
    BY <1>2, <1>4 DEF Billed, MayWrite
  <2> QED BY <1>1, <2>1, ObjectStays
<1> QED BY <1>1, <1>3, <1>4 DEF Billed

\* What a new object of a kind needs.
LEMMA NewMayWrite ==
    ASSUME NEW o, Billed(o), NEW kind \in Kind, NEW x, ObjectOf(o, NextId(o, kind), x)
    PROVE  MayWrite(o, NextId(o, kind), x)
<1>1. /\ NextId(o, kind) \in Id /\ NextId(o, kind) \notin DOMAIN o
      /\ NextId(o, kind)[1] = kind
    BY NextIsNew DEF Billed
<1> QED BY <1>1 DEF MayWrite

\* What is found is an object of its kind.
LEMMA Found ==
    ASSUME Billed(objects), NEW id, NEW kind, getResource(id, kind)
    PROVE  id \in Id /\ id \in DOMAIN objects /\ id[1] = kind /\ ObjectOf(objects, id, objects[id])
           /\ Refers(objects, id, kind)
BY DEF getResource, Billed, Numbered, Refers

\* An answer that writes nothing leaves the state as it was.
LEMMA NothingWritten ==
    ASSUME NEW o, NEW status
    PROVE  Billed(o) => Billed(Over(stripeFailure(status).writes, o)) /\ Billed(Over(Nil, o))
<1>1. DOMAIN Nil = {}
    BY DEF Nil
<1>2. PICK n : n = Over(Nil, o)
    OBVIOUS
<1>3. DOMAIN n = DOMAIN o /\ \A i \in DOMAIN o : n[i] = o[i]
    BY <1>1, <1>2 DEF Over
<1>4. Numbered(o) => Numbered(n)
    BY <1>3 DEF Numbered, KindIds
<1>5. \A k, kind : Refers(o, k, kind) => Refers(n, k, kind) /\ n[k] = o[k]
    BY <1>3 DEF Refers
<1>6. ASSUME NEW i, NEW x, ObjectOf(o, i, x) PROVE ObjectOf(n, i, x)
  <2>1. RefundOf(o, x) => RefundOf(n, x)
    BY <1>5 DEF RefundOf
  <2>2. SubscriptionOf(o, i, x) => SubscriptionOf(n, i, x)
    BY <1>5, Zenon DEF SubscriptionOf
  <2>3. InvoiceOf(o, x) => InvoiceOf(n, x)
    BY <1>5, Zenon DEF InvoiceOf
  <2> QED BY <1>6, <2>1, <2>2, <2>3 DEF ObjectOf
<1>7. Billed(o) => Billed(n)
    BY <1>3, <1>4, <1>6 DEF Billed
<1>8. stripeFailure(status).writes = Nil
    BY DEF stripeFailure, Answer
<1> QED BY <1>2, <1>7, <1>8

\* What the handlers rely on of a request that has passed the validation.
Validated(r) ==
    /\ r.kind \in Kind
    /\ r.card \in Cards
    /\ r.kind = "price" /\ r.id = Absent => r.amount \in UnitAmount /\ r.flag \in BOOLEAN
    /\ r.kind = "payment_intent" =>
        \/ r.action = "create" /\ r.amount \in UnitAmount /\ r.flag \in BOOLEAN
        \/ /\ r.action \in {"confirm", "update"} /\ r.id # Absent
           /\ r.amount \in UnitAmount \cup {0, Absent}
    /\ r.kind = "refund" => r.amount \in UnitAmount \cup {Absent}

\* Requests that create objects are validated ...
LEMMA CreationsValidated == ASSUME NEW r \in Creations PROVE Validated(r)
<1>1. \/ \E kind \in {"customer", "product", "payment_method", "checkout.session"} :
            r = Post(kind, "create", Absent, Absent, Absent)
      \/ \E a \in UnitAmount, recurring \in BOOLEAN, p \in IdsOf("product") \cup {Absent} :
            r = PostPrice(a, recurring, p)
      \/ \E a \in UnitAmount, confirm \in BOOLEAN, c \in Cards :
            r = PostIntent(a, confirm, c)
      \/ \E u \in IdsOf("customer"), p \in IdsOf("price"), c \in Cards, trial \in BOOLEAN :
            r = PostSubscription(u, p, c, trial)
      \/ \E i \in IdsOf("payment_intent") \cup {Absent}, a \in UnitAmount \cup {Absent} :
            r = PostRefund(i, a)
    BY SMT DEF Creations
<1>2. Absent \in Cards
    BY DEF Cards
<1>3. ASSUME NEW kind \in {"customer", "product", "payment_method", "checkout.session"},
             r = Post(kind, "create", Absent, Absent, Absent)
      PROVE  Validated(r)
  <2>1. r.kind = kind /\ r.card = Absent
    BY <1>3 DEF Blank, Post, Delete, PostPrice, PostIntent, PostSubscription, PostRefund
  <2> QED BY <1>2, <2>1 DEF Validated, Kind
<1>4. ASSUME NEW a \in UnitAmount, NEW recurring \in BOOLEAN, NEW p,
             r = PostPrice(a, recurring, p)
      PROVE  Validated(r)
  <2>1. r.kind = "price" /\ r.card = Absent /\ r.amount = a /\ r.flag = recurring
    BY <1>4 DEF Blank, Post, Delete, PostPrice, PostIntent, PostSubscription, PostRefund
  <2> QED BY <1>2, <2>1 DEF Validated, Kind
<1>5. ASSUME NEW a \in UnitAmount, NEW confirm \in BOOLEAN, NEW c \in Cards,
             r = PostIntent(a, confirm, c)
      PROVE  Validated(r)
  <2>1. r.kind = "payment_intent" /\ r.card = c /\ r.amount = a /\ r.flag = confirm
        /\ r.action = "create"
    BY <1>5 DEF Blank, Post, Delete, PostPrice, PostIntent, PostSubscription, PostRefund
  <2> QED BY <2>1 DEF Validated, Kind
<1>6. ASSUME NEW u, NEW p, NEW c \in Cards, NEW trial,
             r = PostSubscription(u, p, c, trial)
      PROVE  Validated(r)
  <2>1. r.kind = "subscription" /\ r.card = c
    BY <1>6 DEF Blank, Post, Delete, PostPrice, PostIntent, PostSubscription, PostRefund
  <2> QED BY <2>1 DEF Validated, Kind
<1>7. ASSUME NEW i, NEW a \in UnitAmount \cup {Absent},
             r = PostRefund(i, a)
      PROVE  Validated(r)
  <2>1. r.kind = "refund" /\ r.card = Absent /\ r.amount = a
    BY <1>7 DEF Blank, Post, Delete, PostPrice, PostIntent, PostSubscription, PostRefund
  <2> QED BY <1>2, <2>1 DEF Validated, Kind
<1> QED BY <1>1, <1>3, <1>4, <1>5, <1>6, <1>7, Zenon

\* ... and so are requests that change them.
LEMMA ChangesValidated == ASSUME Billed(objects), NEW r \in Changes PROVE Validated(r)
<1>1. \/ \E id \in IdsOf("customer") \cup IdsOf("product") \cup IdsOf("price") :
            r = Post(id[1], "update", id, Absent, Absent)
      \/ \E id \in IdsOf("customer") :
            r = Delete("customer", "delete", id)
      \/ \E id \in IdsOf("payment_intent"), c \in Cards :
            r = Post("payment_intent", "confirm", id, c, Absent)
      \/ \E id \in IdsOf("payment_intent"), a \in UnitAmount \cup {0, Absent} :
            r = Post("payment_intent", "update", id, Absent, a)
      \/ \E action \in {"renew", "update"}, id \in IdsOf("subscription"), c \in Cards :
            r = Post("subscription", action, id, c, Absent)
      \/ \E id \in IdsOf("subscription") : r = Post("subscription", "cancel", id, Absent, Absent)
      \/ \E id \in IdsOf("subscription") : r = Delete("subscription", "cancel", id)
      \/ \E id \in IdsOf("invoice"), c \in Cards :
            r = Post("invoice", "pay", id, c, Absent)
      \/ \E id \in IdsOf("invoice") :
            r = Post("invoice", "void", id, Absent, Absent)
    BY SMT DEF Changes
<1>2. Absent \in Cards
    BY DEF Cards
<1>3. ASSUME NEW kind \in Kind, NEW id \in IdsOf(kind) PROVE id \in Id /\ id[1] = kind /\ id # Absent
  <2>1. CASE id = <<kind, 0>>
    <3>1. <<kind, 0>> \in Id /\ <<kind, 0>>[1] = kind
      BY DEF Id
    <3> QED BY <2>1, <3>1, StripeAssumption DEF Id
  <2>2. CASE id \in DOMAIN objects /\ id[1] = kind
    BY <2>2, StripeAssumption DEF Billed, Numbered, Id
  <2> QED BY <2>1, <2>2 DEF IdsOf
<1>4. ASSUME NEW id \in IdsOf("customer") \cup IdsOf("product") \cup IdsOf("price"),
             r = Post(id[1], "update", id, Absent, Absent)
      PROVE  Validated(r)
  <2>1. id[1] \in {"customer", "product", "price"} /\ id # Absent
    BY <1>3, <1>4 DEF Kind
  <2>2. r.kind = id[1] /\ r.card = Absent /\ r.id = id
    BY <1>4 DEF Blank, Post, Delete, PostPrice, PostIntent, PostSubscription, PostRefund
  <2> QED BY <1>2, <2>1, <2>2 DEF Validated, Kind
<1>5. ASSUME NEW id, r = Delete("customer", "delete", id)
      PROVE  Validated(r)
  <2>1. r.kind = "customer" /\ r.card = Absent
    BY <1>5 DEF Blank, Post, Delete, PostPrice, PostIntent, PostSubscription, PostRefund
  <2> QED BY <1>2, <2>1 DEF Validated, Kind
<1>6. ASSUME NEW id \in IdsOf("payment_intent"), NEW c \in Cards,
             r = Post("payment_intent", "confirm", id, c, Absent)
      PROVE  Validated(r)
  <2>1. id # Absent
    BY <1>3, <1>6 DEF Kind
  <2>2. /\ r.kind = "payment_intent" /\ r.card = c /\ r.id = id /\ r.action = "confirm"
        /\ r.amount = Absent
    BY <1>6 DEF Blank, Post, Delete, PostPrice, PostIntent, PostSubscription, PostRefund
  <2> QED BY <2>1, <2>2 DEF Validated, Kind
<1>7. ASSUME NEW id \in IdsOf("payment_intent"), NEW a \in UnitAmount \cup {0, Absent},
             r = Post("payment_intent", "update", id, Absent, a)
      PROVE  Validated(r)
  <2>1. id # Absent
    BY <1>3, <1>7 DEF Kind
  <2>2. /\ r.kind = "payment_intent" /\ r.card = Absent /\ r.id = id /\ r.action = "update"
        /\ r.amount = a
    BY <1>7 DEF Blank, Post, Delete, PostPrice, PostIntent, PostSubscription, PostRefund
  <2> QED BY <1>2, <2>1, <2>2 DEF Validated, Kind
<1>8. ASSUME NEW action, NEW id, NEW c \in Cards,
             r = Post("subscription", action, id, c, Absent)
      PROVE  Validated(r)
  <2>1. r.kind = "subscription" /\ r.card = c
    BY <1>8 DEF Blank, Post, Delete, PostPrice, PostIntent, PostSubscription, PostRefund
  <2> QED BY <2>1 DEF Validated, Kind
<1>9. ASSUME NEW id, \/ r = Post("subscription", "cancel", id, Absent, Absent)
                     \/ r = Delete("subscription", "cancel", id)
      PROVE  Validated(r)
  <2>1. r.kind = "subscription" /\ r.card = Absent
    BY <1>9 DEF Blank, Post, Delete, PostPrice, PostIntent, PostSubscription, PostRefund
  <2> QED BY <1>2, <2>1 DEF Validated, Kind
<1>10. ASSUME NEW id, NEW c \in Cards,
              r = Post("invoice", "pay", id, c, Absent)
       PROVE  Validated(r)
  <2>1. r.kind = "invoice" /\ r.card = c
    BY <1>10 DEF Blank, Post, Delete, PostPrice, PostIntent, PostSubscription, PostRefund
  <2> QED BY <2>1 DEF Validated, Kind
<1>11. ASSUME NEW id, r = Post("invoice", "void", id, Absent, Absent)
       PROVE  Validated(r)
  <2>1. r.kind = "invoice" /\ r.card = Absent
    BY <1>11 DEF Blank, Post, Delete, PostPrice, PostIntent, PostSubscription, PostRefund
  <2> QED BY <1>2, <2>1 DEF Validated, Kind
<1> QED BY <1>1, <1>4, <1>5, <1>6, <1>7, <1>8, <1>9, <1>10, <1>11, Zenon

\* An answer that writes one object.
LEMMA OneObject ==
    ASSUME Billed(objects), NEW id, NEW x, MayWrite(objects, id, x), NEW announced
    PROVE  /\ Billed(Over(stripeObject(id, x).writes, objects))
           /\ Billed(Over(responseWithWebhookWrites(id, x, announced).writes, objects))
<1>1. Billed(Over(Entry(id, x), objects))
    BY WriteKeeps
<1> QED BY <1>1 DEF stripeObject, responseWithWebhookWrites, Answer

\* The next id of the pack.
LEMMA FreshIsNext ==
    ASSUME NEW kind
    PROVE  Fresh(kind) = NextId(objects, kind)
BY DEF Fresh, NextId, KindIds

\* Another object of a kind.
LEMMA FreshMayWrite ==
    ASSUME Billed(objects), NEW kind \in Kind, NEW x,
           \A id \in Id : id[1] = kind => ObjectOf(objects, id, x)
    PROVE  MayWrite(objects, Fresh(kind), x)
<1>1. NextId(objects, kind) \in Id /\ NextId(objects, kind)[1] = kind
    BY NextIsNew DEF Billed
<1>2. ObjectOf(objects, NextId(objects, kind), x)
    BY <1>1
<1>3. MayWrite(objects, NextId(objects, kind), x)
    BY <1>2, NewMayWrite
<1> QED BY <1>3, FreshIsNext

\* Customers are created, changed and kept as tombstones.
LEMMA CustomersKeep ==
    ASSUME Billed(objects), NEW r
    PROVE  Billed(Over(handleCustomers(r).writes, objects))
<1>1. ASSUME r.id = Absent
      PROVE  Billed(Over(stripeObject(Fresh("customer"), [deleted |-> FALSE]).writes, objects))
  <2>1. \A id \in Id : id[1] = "customer" => ObjectOf(objects, id, [deleted |-> FALSE])
    BY DEF ObjectOf
  <2>2. "customer" \in Kind
    BY DEF Kind
  <2> QED BY <2>1, <2>2, FreshMayWrite, OneObject
<1>2. ASSUME getResource(r.id, "customer"), NEW gone \in BOOLEAN
      PROVE  Billed(Over(stripeObject(r.id, [deleted |-> gone]).writes, objects))
  <2>1. r.id \in Id /\ r.id \in DOMAIN objects /\ r.id[1] = "customer"
    BY <1>2, Found
  <2>2. ObjectOf(objects, r.id, [deleted |-> gone]) /\ Spares(r.id, objects[r.id], [deleted |-> gone])
    BY <2>1 DEF ObjectOf, Spares
  <2>3. MayWrite(objects, r.id, [deleted |-> gone])
    BY <2>1, <2>2 DEF MayWrite
  <2> QED BY <2>3, OneObject
<1>3. Billed(Over(stripeFailure(404).writes, objects))
    BY NothingWritten
<1>4. CASE r.id = Absent
    BY <1>1, <1>4 DEF handleCustomers
<1>5. CASE r.id # Absent /\ ~getResource(r.id, "customer")
    BY <1>3, <1>5 DEF handleCustomers
<1>6. CASE r.id # Absent /\ getResource(r.id, "customer")
  <2>1. PICK gone \in BOOLEAN : gone = (r.method = "DELETE")
    OBVIOUS
  <2>2. handleCustomers(r) = stripeObject(r.id, [deleted |-> gone])
    BY <1>6, <2>1 DEF handleCustomers
  <2> QED BY <1>2, <1>6, <2>2
<1> QED BY <1>4, <1>5, <1>6

\* What writes an object back as it is.
LEMMA SameMayWrite ==
    ASSUME Billed(objects), NEW id, NEW kind, getResource(id, kind)
    PROVE  MayWrite(objects, id, objects[id])
BY Found DEF MayWrite, Spares

\* Products are created and written back.
LEMMA ProductsKeep ==
    ASSUME Billed(objects), NEW r
    PROVE  Billed(Over(handleProducts(r).writes, objects))
<1>1. Billed(Over(stripeObject(Fresh("product"), <<>>).writes, objects))
  <2>1. \A id \in Id : id[1] = "product" => ObjectOf(objects, id, <<>>)
    BY DEF ObjectOf
  <2>2. "product" \in Kind
    BY DEF Kind
  <2> QED BY <2>1, <2>2, FreshMayWrite, OneObject
<1>2. getResource(r.id, "product") => Billed(Over(stripeObject(r.id, objects[r.id]).writes, objects))
    BY SameMayWrite, OneObject
<1>3. Billed(Over(stripeFailure(404).writes, objects))
    BY NothingWritten
<1> QED BY <1>1, <1>2, <1>3 DEF handleProducts

\* Prices are created with an amount and written back.
LEMMA PricesKeep ==
    ASSUME Billed(objects), NEW r, Validated(r), r.kind = "price"
    PROVE  Billed(Over(handlePrices(r).writes, objects))
<1>1. ASSUME r.id = Absent
      PROVE  Billed(Over(stripeObject(Fresh("price"),
                [unit_amount |-> r.amount, recurring |-> r.flag]).writes, objects))
  <2>1. PICK x : x = [unit_amount |-> r.amount, recurring |-> r.flag]
    OBVIOUS
  <2>2. x \in [unit_amount : UnitAmount, recurring : BOOLEAN]
    BY <1>1, <2>1 DEF Validated
  <2>3. \A id \in Id : id[1] = "price" => ObjectOf(objects, id, x)
    BY <2>2 DEF ObjectOf
  <2>4. "price" \in Kind
    BY DEF Kind
  <2> QED BY <2>1, <2>3, <2>4, FreshMayWrite, OneObject
<1>2. getResource(r.id, "price") => Billed(Over(stripeObject(r.id, objects[r.id]).writes, objects))
    BY SameMayWrite, OneObject
<1>3. Billed(Over(stripeFailure(404).writes, objects))
    BY NothingWritten
<1> QED BY <1>1, <1>2, <1>3 DEF handlePrices

\* Payment methods and checkout sessions carry nothing.
LEMMA PlainKeep ==
    ASSUME Billed(objects), NEW r
    PROVE  /\ Billed(Over(handlePaymentMethods(r).writes, objects))
           /\ Billed(Over(handleCheckoutSessions(r).writes, objects))
<1>1. \A id \in Id : id[1] = "payment_method" => ObjectOf(objects, id, <<>>)
    BY DEF ObjectOf
<1>2. \A id \in Id : id[1] = "checkout.session" => ObjectOf(objects, id, <<>>)
    BY DEF ObjectOf
<1>3. "payment_method" \in Kind /\ "checkout.session" \in Kind
    BY DEF Kind
<1>4. Billed(Over(stripeObject(Fresh("payment_method"), <<>>).writes, objects))
    BY <1>1, <1>3, FreshMayWrite, OneObject
<1>5. Billed(Over(stripeObject(Fresh("checkout.session"), <<>>).writes, objects))
    BY <1>2, <1>3, FreshMayWrite, OneObject
<1> QED BY <1>4, <1>5 DEF handlePaymentMethods, handleCheckoutSessions

\* A confirmed intent is settled.
LEMMA IntentCreated ==
    ASSUME NEW amount \in UnitAmount, NEW confirmed \in BOOLEAN
    PROVE  /\ createPaymentIntent(amount, confirmed) \in IntentRecord
           /\ confirmed => Settled(createPaymentIntent(amount, confirmed))
<1>1. amount \in Nat /\ amount > 0
    BY StripeAssumption
<1> QED BY <1>1 DEF createPaymentIntent, IntentRecord, Settled

\* An intent that is written back with its type, and settled if it was.
LEMMA IntentMayWrite ==
    ASSUME Billed(objects), NEW id, getResource(id, "payment_intent"), NEW x \in IntentRecord,
           Settled(objects[id]) => Settled(x)
    PROVE  MayWrite(objects, id, x)
<1>1. id \in Id /\ id \in DOMAIN objects /\ id[1] = "payment_intent"
    BY Found
<1>2. ObjectOf(objects, id, x)
    BY <1>1 DEF ObjectOf
<1>3. Spares(id, objects[id], x)
    BY <1>1 DEF Spares
<1> QED BY <1>1, <1>2, <1>3 DEF MayWrite

\* What is found is an intent.
LEMMA IntentFound ==
    ASSUME Billed(objects), NEW id, getResource(id, "payment_intent")
    PROVE  objects[id] \in IntentRecord
BY Found DEF ObjectOf

\* Intents are created, confirmed and changed; what is settled stays settled.
LEMMA IntentsKeep ==
    ASSUME Billed(objects), NEW r, Validated(r), r.kind = "payment_intent"
    PROVE  Billed(Over(handlePaymentIntents(r).writes, objects))
<1>1. "payment_intent" \in Kind
    BY DEF Kind
<1>2. ASSUME r.action = "create", NEW announced
      PROVE  Billed(Over(responseWithWebhookWrites(Fresh("payment_intent"),
                createPaymentIntent(r.amount, r.flag), announced).writes, objects))
  <2>1. r.amount \in UnitAmount /\ r.flag \in BOOLEAN
    BY <1>2 DEF Validated
  <2>2. PICK x : x = createPaymentIntent(r.amount, r.flag)
    OBVIOUS
  <2>3. x \in IntentRecord
    BY <2>1, <2>2, IntentCreated
  <2>4. \A id \in Id : id[1] = "payment_intent" => ObjectOf(objects, id, x)
    BY <2>3 DEF ObjectOf
  <2> QED BY <1>1, <2>2, <2>4, FreshMayWrite, OneObject
<1>3. ASSUME getResource(r.id, "payment_intent"), NEW announced
      PROVE  Billed(Over(responseWithWebhookWrites(r.id,
                [objects[r.id] EXCEPT !.status = "succeeded",
                                      !.amount_received = objects[r.id].amount], announced).writes,
                objects))
  <2>1. PICK intent \in IntentRecord : intent = objects[r.id]
    BY <1>3, IntentFound
  <2>2. PICK x : x = [intent EXCEPT !.status = "succeeded", !.amount_received = intent.amount]
    OBVIOUS
  <2>3. x \in IntentRecord /\ Settled(x)
    <3>1. intent.amount \in Nat
      BY DEF IntentRecord
    <3>2. x.status = "succeeded" /\ x.amount_received = intent.amount
      BY <2>2 DEF IntentRecord
    <3>3. x \in IntentRecord
      BY <2>2, <3>1 DEF IntentRecord
    <3> QED BY <3>2, <3>3 DEF Settled
  <2>4. MayWrite(objects, r.id, x)
    BY <1>3, <2>3, IntentMayWrite
  <2> QED BY <2>1, <2>2, <2>4, OneObject
<1>4. ASSUME getResource(r.id, "payment_intent"), r.amount \in UnitAmount \cup {0, Absent}
      PROVE  Billed(Over(stripeObject(r.id,
                [objects[r.id] EXCEPT !.amount = numberOr(@, r.amount)]).writes, objects))
  <2>1. PICK intent \in IntentRecord : intent = objects[r.id]
    BY <1>4, IntentFound
  <2>2. intent.amount \in Nat
    BY DEF IntentRecord
  <2>3. PICK amount \in Nat : amount = numberOr(intent.amount, r.amount)
    BY <1>4, <2>2, StripeAssumption DEF numberOr
  <2>4. PICK x : x = [intent EXCEPT !.amount = amount]
    OBVIOUS
  <2>5. x \in IntentRecord /\ (Settled(intent) => Settled(x))
    BY <2>4 DEF IntentRecord, Settled
  <2>6. MayWrite(objects, r.id, x)
    BY <1>4, <2>1, <2>5, IntentMayWrite
  <2>7. [objects[r.id] EXCEPT !.amount = numberOr(@, r.amount)] = x
    BY <2>1, <2>3, <2>4
  <2> QED BY <2>6, <2>7, OneObject
<1>5. /\ Billed(Over(stripeFailure(404).writes, objects))
      /\ Billed(Over(cardDeclined(Nil, 0).writes, objects))
    BY NothingWritten DEF cardDeclined, Answer
<1>6. CASE r.action = "create"
    BY <1>2, <1>5, <1>6 DEF handlePaymentIntents
<1>7. CASE r.action = "confirm"
  <2>1. r.id # Absent
    BY <1>7 DEF Validated
  <2> QED BY <1>3, <1>5, <1>7, <2>1 DEF handlePaymentIntents
<1>8. CASE r.action = "update"
  <2>1. r.id # Absent /\ r.amount \in UnitAmount \cup {0, Absent}
    BY <1>8 DEF Validated
  <2> QED BY <1>4, <1>5, <1>8, <2>1 DEF handlePaymentIntents
<1> QED BY <1>6, <1>7, <1>8 DEF Validated

\* A refund leaves its intent settled, however much is refunded.
LEMMA RefundsKeep ==
    ASSUME Billed(objects), NEW r, Validated(r), r.kind = "refund"
    PROVE  Billed(Over(handleRefunds(r).writes, objects))
<1>1. "refund" \in Kind /\ "payment_intent" \in Kind
    BY DEF Kind
<1>2. r.amount \in UnitAmount \cup {Absent} /\ Absent \notin Nat
    BY StripeAssumption DEF Validated
<1>3. Billed(Over(stripeFailure(404).writes, objects)) /\ Billed(Over(stripeFailure(400).writes, objects))
    BY NothingWritten
<1>4. CASE r.intent = Absent /\ r.amount # Absent
  <2>1. PICK x : x = [amount |-> r.amount, payment_intent |-> r.intent]
    OBVIOUS
  <2>2. r.amount \in Nat /\ r.amount # 0
    BY <1>2, <1>4, StripeAssumption
  <2>3. x \in [amount : Nat, payment_intent : Id \cup {Absent}] /\ x.payment_intent = Absent
    BY <1>4, <2>1, <2>2
  <2>4. \A id \in Id : id[1] = "refund" => ObjectOf(objects, id, x)
    BY <2>3 DEF ObjectOf, RefundOf
  <2>5. Billed(Over(responseWithWebhookWrites(Fresh("refund"), x, 1).writes, objects))
    BY <1>1, <2>4, FreshMayWrite, OneObject
  <2> QED BY <1>4, <2>1, <2>2, <2>5 DEF handleRefunds
<1>5. CASE r.intent # Absent /\ getResource(r.intent, "payment_intent")
  <2>1. PICK intent \in IntentRecord : intent = objects[r.intent]
    BY <1>5, IntentFound
  <2>2. intent.amount \in Nat
    BY DEF IntentRecord
  <2>3. PICK amount \in Nat : amount = IF r.amount # Absent THEN r.amount ELSE intent.amount
    BY <1>2, <2>2, StripeAssumption
  <2>4. PICK y : y = [intent EXCEPT !.amount_refunded = 0 + amount, !.status = "succeeded"]
    OBVIOUS
  <2>5. y \in IntentRecord /\ (Settled(intent) => Settled(y))
    <3>1. 0 + amount \in Nat
      OBVIOUS
    <3>2. y.status = "succeeded" /\ y.amount_received = intent.amount_received
      BY <2>4 DEF IntentRecord
    <3>3. y \in IntentRecord
      BY <2>4, <3>1 DEF IntentRecord
    <3> QED BY <3>2, <3>3 DEF Settled
  <2>6. MayWrite(objects, r.intent, y)
    BY <1>5, <2>1, <2>5, IntentMayWrite
  <2>7. PICK o : o = Over(Entry(r.intent, y), objects)
    OBVIOUS
  <2>8. Billed(o)
    BY <2>6, <2>7, WriteKeeps
  <2>9. r.intent \in Id /\ r.intent[1] = "payment_intent" /\ Refers(objects, r.intent, "payment_intent")
    BY <1>5, Found
  <2>10. Refers(o, r.intent, "payment_intent")
    BY <2>7, <2>9 DEF Over, Entry, Refers
  <2>11. PICK x : x = [amount |-> amount, payment_intent |-> r.intent]
    OBVIOUS
  <2>12. x \in [amount : Nat, payment_intent : Id \cup {Absent}] /\ x.payment_intent = r.intent
    BY <2>9, <2>11
  <2>13. \A id \in Id : id[1] = "refund" => ObjectOf(o, id, x)
    BY <2>10, <2>12 DEF ObjectOf, RefundOf
  <2>14. KindIds(o, "refund") = KindIds(objects, "refund")
    BY <2>7, <2>9, NextSame
  <2>15. PICK id : id = Fresh("refund")
    OBVIOUS
  <2>16. id = NextId(o, "refund")
    BY <2>14, <2>15, FreshIsNext DEF NextId
  <2>17. ObjectOf(o, id, x)
    BY <1>1, <2>8, <2>13, <2>16, NextIsNew DEF Billed
  <2>18. Billed(Over(Entry(id, x), o))
    BY <1>1, <2>8, <2>16, <2>17, NewMayWrite, WriteKeeps
  <2>19. Billed(Over(Over(Entry(id, x), Entry(r.intent, y)), objects))
    BY <2>7, <2>18, OverOver
  <2>20. ASSUME amount # 0
         PROVE  handleRefunds(r).writes = Over(Entry(id, x), Entry(r.intent, y))
    <3>1. numberOr(intent.amount_refunded, 0) = 0
      BY DEF numberOr
    <3> DEFINE answer == responseWithWebhookWrites(id, x, 1)
    <3>2. y = [intent EXCEPT !.amount_refunded = numberOr(@, 0) + amount, !.status = "succeeded"]
      BY <2>4, <3>1
    <3>3. amount \notin {0, Absent}
      BY <1>2, <2>3, <2>20
    <3>4. amount = IF r.amount # Absent \/ r.intent = Absent THEN r.amount ELSE intent.amount
      BY <1>5, <2>3
    <3>5. handleRefunds(r) =
            [responseWithWebhookWrites(id, [amount |-> amount, payment_intent |-> r.intent], 1)
                EXCEPT !.writes = Over(@, Entry(r.intent, [intent EXCEPT
                    !.amount_refunded = numberOr(@, 0) + amount, !.status = "succeeded"]))]
      BY <1>5, <2>1, <2>15, <3>3, <3>4 DEF handleRefunds
    <3>6. handleRefunds(r) = [answer EXCEPT !.writes = Over(@, Entry(r.intent, y))]
      BY <2>11, <3>2, <3>5
    <3> QED BY <3>6 DEF responseWithWebhookWrites, Answer
  <2>21. ASSUME amount = 0
         PROVE  handleRefunds(r) = stripeFailure(400)
    <3>1. 0 = IF r.amount # Absent \/ r.intent = Absent THEN r.amount ELSE intent.amount
      BY <1>5, <2>3, <2>21
    <3> QED BY <1>5, <2>1, <3>1 DEF handleRefunds
  <2> QED BY <1>3, <2>19, <2>20, <2>21
<1>6. CASE r.intent # Absent /\ ~getResource(r.intent, "payment_intent")
    BY <1>3, <1>6 DEF handleRefunds
<1>7. CASE r.intent = Absent /\ r.amount = Absent
    BY <1>3, <1>7 DEF handleRefunds
<1> QED BY <1>4, <1>5, <1>6, <1>7

\* What is written under an id first is forgotten when it is written again.
LEMMA OverAgain ==
    ASSUME NEW a, NEW x, NEW y, NEW f, NEW g, NEW o
    PROVE  Over(Entry(a, x), Over(f, Over(g, Over(Entry(a, y), o)))) =
           Over(Entry(a, x), Over(f, Over(g, o)))
BY DEF Over, Entry

\* What is referred to before a write still is, and other objects stay as they are.
LEMMA RefersStays ==
    ASSUME NEW o, NEW id, NEW x, NEW j, NEW kind, Refers(o, j, kind)
    PROVE  /\ Refers(Over(Entry(id, x), o), j, kind)
           /\ j # id => Over(Entry(id, x), o)[j] = o[j]
<1>1. PICK n : n = Over(Entry(id, x), o)
    OBVIOUS
<1>2. /\ DOMAIN n = DOMAIN o \cup {id}
      /\ \A k \in DOMAIN o : k # id => n[k] = o[k]
  <2>1. IsWrite(n, o, id, x)
    BY <1>1, Written
  <2> QED BY <2>1 DEF IsWrite
<1>3. Refers(n, j, kind) /\ (j # id => n[j] = o[j])
    BY <1>2 DEF Refers
<1> QED BY <1>1, <1>3

\* A subscription that shows an invoice of its own which is there.
LEMMA ShowsInvoice ==
    ASSUME NEW o, NEW id, NEW s, s \in SubscriptionRecord,
           Refers(o, s.customer, "customer"), Refers(o, s.price, "price"),
           Refers(o, s.latest_invoice, "invoice"), o[s.latest_invoice].subscription = id,
           s.latest_invoice # Absent, s.status # "trialing",
           s.status = "active" => o[s.latest_invoice].status # "open"
    PROVE  SubscriptionOf(o, id, s)
BY DEF SubscriptionOf

\* An id is given.
LEMMA IdIsGiven ==
    ASSUME NEW id \in Id
    PROVE  id # Absent /\ id \in Id \cup {Absent}
BY StripeAssumption DEF Id

\* A subscription is written over the one that is there.
LEMMA SubscriptionMayWrite ==
    ASSUME NEW o, NEW id, id \in Id, Refers(o, id, "subscription"), NEW s, SubscriptionOf(o, id, s)
    PROVE  MayWrite(o, id, s)
<1>1. id \in DOMAIN o /\ id[1] = "subscription"
    BY DEF Refers
<1>2. ObjectOf(o, id, s)
    BY <1>1 DEF ObjectOf
<1>3. Spares(id, o[id], s)
    BY <1>1 DEF Spares
<1> QED BY <1>1, <1>2, <1>3 DEF MayWrite

\* A new invoice of a subscription, and what the subscription then shows.
LEMMA Invoiced ==
    ASSUME NEW o, Billed(o), NEW id, id \in Id, Refers(o, id, "subscription"),
           NEW inv, inv = NextId(o, "invoice"), NEW i, InvoiceOf(o, i), i.subscription = id,
           NEW s, s \in SubscriptionRecord, Refers(o, s.customer, "customer"),
           Refers(o, s.price, "price"), s.latest_invoice = inv, s.status # "trialing",
           s.status = "active" => i.status # "open"
    PROVE  Billed(Over(Entry(id, s), Over(Entry(inv, i), o))) /\ inv \in Id /\ inv # id
<1>1. inv \in Id /\ inv \notin DOMAIN o /\ inv[1] = "invoice"
    BY NextIsNew DEF Billed, Kind
<1>2. ObjectOf(o, inv, i)
    BY <1>1 DEF ObjectOf
<1>3. MayWrite(o, inv, i)
    BY <1>1, <1>2 DEF MayWrite
<1>4. PICK n : n = Over(Entry(inv, i), o)
    OBVIOUS
<1>5. Billed(n)
    BY <1>3, <1>4, WriteKeeps
<1>6. inv \in DOMAIN n /\ n[inv] = i
  <2>1. IsWrite(n, o, inv, i)
    BY <1>4, Written
  <2> QED BY <2>1 DEF IsWrite
<1>7. Refers(n, id, "subscription") /\ Refers(n, s.customer, "customer") /\ Refers(n, s.price, "price")
    BY <1>4, RefersStays
<1>8. Refers(n, inv, "invoice")
    BY <1>1, <1>6 DEF Refers
<1>9. inv # Absent
    BY <1>1, IdIsGiven
<1>10. SubscriptionOf(n, id, s)
    BY <1>6, <1>7, <1>8, <1>9, ShowsInvoice
<1>11. MayWrite(n, id, s)
    BY <1>7, <1>10, SubscriptionMayWrite
<1>12. Billed(Over(Entry(id, s), n))
    BY <1>5, <1>11, WriteKeeps
<1>13. inv # id
    BY <1>1 DEF Refers
<1> QED BY <1>1, <1>4, <1>12, <1>13

\* A period that is paid: its intent, its invoice and its subscription.
LEMMA PeriodPaid ==
    ASSUME NEW o, Billed(o), NEW id, id \in Id, Refers(o, id, "subscription"),
           NEW int, int = NextId(o, "payment_intent"), NEW p \in IntentRecord, Settled(p),
           NEW inv, inv = NextId(o, "invoice"), NEW i \in InvoiceRecord, i.subscription = id,
           i.status = "paid", i.payment_intent = int,
           NEW s, s \in SubscriptionRecord, Refers(o, s.customer, "customer"),
           Refers(o, s.price, "price"), s.latest_invoice = inv, s.status = "active"
    PROVE  Billed(Over(Entry(id, s), Over(Entry(inv, i), Over(Entry(int, p), o))))
<1>1. int \in Id /\ int \notin DOMAIN o /\ int[1] = "payment_intent"
    BY NextIsNew DEF Billed, Kind
<1>2. ObjectOf(o, int, p)
    BY <1>1 DEF ObjectOf
<1>3. MayWrite(o, int, p)
    BY <1>1, <1>2 DEF MayWrite
<1>4. PICK n : n = Over(Entry(int, p), o)
    OBVIOUS
<1>5. Billed(n)
    BY <1>3, <1>4, WriteKeeps
<1>6. int \in DOMAIN n /\ n[int] = p
  <2>1. IsWrite(n, o, int, p)
    BY <1>4, Written
  <2> QED BY <2>1 DEF IsWrite
<1>7. Refers(n, id, "subscription") /\ Refers(n, s.customer, "customer") /\ Refers(n, s.price, "price")
    BY <1>4, RefersStays
<1>8. Refers(n, int, "payment_intent")
    BY <1>1, <1>6 DEF Refers
<1>9. InvoiceOf(n, i)
    BY <1>6, <1>7, <1>8 DEF InvoiceOf
<1>10. KindIds(n, "invoice") = KindIds(o, "invoice")
    BY <1>1, <1>4, NextSame
<1>11. inv = NextId(n, "invoice")
    BY <1>10 DEF NextId
<1>12. Billed(Over(Entry(id, s), Over(Entry(inv, i), n)))
    BY <1>5, <1>7, <1>9, <1>11, Invoiced
<1> QED BY <1>4, <1>12

\* The invoices of the pack: what they show follows from their status.
LEMMA InvoiceCreated ==
    ASSUME NEW id \in Id, NEW price, NEW status \in {"open", "paid"}
    PROVE  LET i == createInvoice(id, price, status) IN
           /\ i \in InvoiceRecord /\ i.subscription = id /\ i.status = status
           /\ i.payment_intent = Absent
<1>1. PICK u : u = objects[price].unit_amount
    OBVIOUS
<1>2. numberOr(u, 0) = 0
    BY DEF numberOr
<1>3. createInvoice(id, price, status) =
        [subscription |-> id, status |-> status, payment_intent |-> Absent, attempt_count |-> 1,
         amount_due |-> 0, amount_paid |-> IF status = "paid" THEN 0 ELSE 0,
         amount_remaining |-> IF status = "paid" THEN 0 ELSE 0]
    BY <1>1, <1>2 DEF createInvoice
<1>4. PICK i : i = createInvoice(id, price, status)
    OBVIOUS
<1>5. /\ i = [subscription |-> id, status |-> status, payment_intent |-> Absent, attempt_count |-> 1,
              amount_due |-> 0, amount_paid |-> 0, amount_remaining |-> 0]
    BY <1>3, <1>4
<1>6. i \in InvoiceRecord /\ i.subscription = id /\ i.status = status /\ i.payment_intent = Absent
    BY <1>5 DEF InvoiceRecord
<1> QED BY <1>4, <1>6

\* The writes of a paid period, for a state that has the pack's ids.
LEMMA PaidWrites ==
    ASSUME NEW o, Billed(o), NEW id, id \in Id, Refers(o, id, "subscription"),
           KindIds(o, "invoice") = KindIds(objects, "invoice"),
           KindIds(o, "payment_intent") = KindIds(objects, "payment_intent"),
           NEW price, objects[price].unit_amount \in UnitAmount,
           NEW s, s \in SubscriptionRecord, Refers(o, s.customer, "customer"),
           Refers(o, s.price, "price"), s.latest_invoice = Fresh("invoice"), s.status = "active"
    PROVE  \E i, p : /\ Paid(id, price) = Over(Entry(Fresh("invoice"), i),
                                               Entry(Fresh("payment_intent"), p))
                     /\ Billed(Over(Entry(id, s), Over(Entry(Fresh("invoice"), i),
                                Over(Entry(Fresh("payment_intent"), p), o))))
<1>1. PICK inv, int : inv = Fresh("invoice") /\ int = Fresh("payment_intent")
    OBVIOUS
<1>2. inv = NextId(o, "invoice") /\ int = NextId(o, "payment_intent")
    BY <1>1, FreshIsNext DEF NextId
<1>3. int \in Id
    BY <1>2, NextIsNew DEF Billed, Kind
<1>4. PICK p : p = createPaymentIntent(objects[price].unit_amount, TRUE)
    OBVIOUS
<1>5. p \in IntentRecord /\ Settled(p)
    BY <1>4, IntentCreated
<1>6. PICK c \in InvoiceRecord : /\ c = createInvoice(id, price, "paid")
                                 /\ c.subscription = id /\ c.status = "paid"
    BY InvoiceCreated
<1>7. PICK i : i = [c EXCEPT !.payment_intent = int]
    OBVIOUS
<1>8. i \in InvoiceRecord /\ i.subscription = id /\ i.status = "paid" /\ i.payment_intent = int
  <2>1. int \in Id \cup {Absent}
    BY <1>3
  <2> QED BY <1>6, <1>7, <2>1 DEF InvoiceRecord
<1>9. Billed(Over(Entry(id, s), Over(Entry(inv, i), Over(Entry(int, p), o))))
    BY <1>1, <1>2, <1>5, <1>8, PeriodPaid
<1>10. Paid(id, price) = Over(Entry(inv, i), Entry(int, p))
    BY <1>1, <1>4, <1>6, <1>7 DEF Paid
<1> QED BY <1>1, <1>9, <1>10

\* What is found of the kinds that billing is about.
LEMMA PriceFound ==
    ASSUME Billed(objects), NEW id, Refers(objects, id, "price")
    PROVE  objects[id].unit_amount \in UnitAmount
BY DEF Billed, Refers, ObjectOf

\* Subscriptions that are referred to are as they should be.
LEMMA SubscriptionFound ==
    ASSUME Billed(objects), NEW id, Refers(objects, id, "subscription")
    PROVE  id \in Id /\ SubscriptionOf(objects, id, objects[id])
BY DEF Billed, Refers, ObjectOf, Numbered

\* A subscription begins on trial, or active with its first period paid.
LEMMA CreateKeeps ==
    ASSUME Billed(objects), NEW r, Validated(r)
    PROVE  Billed(Over(createSubscription(r).writes, objects))
<1>1. Billed(Over(stripeFailure(404).writes, objects)) /\ Billed(Over(stripeFailure(400).writes, objects))
    BY NothingWritten
<1>2. SUFFICES ASSUME getResource(r.customer, "customer"), getResource(r.price, "price")
               PROVE  Billed(Over(createSubscription(r).writes, objects))
    BY <1>1 DEF createSubscription
<1>3. /\ r.customer \in Id /\ Refers(objects, r.customer, "customer")
      /\ r.price \in Id /\ Refers(objects, r.price, "price")
    BY <1>2, Found
<1>4. PICK t : t = [customer |-> r.customer, price |-> r.price, card |-> r.card,
                    status |-> "trialing", latest_invoice |-> Absent]
    OBVIOUS
<1>5. /\ t \in SubscriptionRecord /\ t.customer = r.customer /\ t.price = r.price
      /\ t.status = "trialing" /\ t.latest_invoice = Absent
    BY <1>3, <1>4 DEF SubscriptionRecord, Validated
<1>6. PICK id : id = Fresh("subscription")
    OBVIOUS
<1>7. id = NextId(objects, "subscription") /\ id \in Id /\ id[1] = "subscription"
    BY <1>6, FreshIsNext, NextIsNew DEF Billed, Kind
<1>8. SubscriptionOf(objects, id, t)
    BY <1>3, <1>5 DEF SubscriptionOf
<1>9. MayWrite(objects, id, t)
  <2>1. ObjectOf(objects, id, t)
    BY <1>7, <1>8 DEF ObjectOf
  <2>2. "subscription" \in Kind
    BY DEF Kind
  <2> QED BY <1>7, <2>1, <2>2, NewMayWrite
<1>10. PICK o : o = Over(Entry(id, t), objects)
    OBVIOUS
<1>11. Billed(o)
    BY <1>9, <1>10, WriteKeeps
<1>13. PICK inv : inv = Fresh("invoice")
    OBVIOUS
<1>14. inv \in Id /\ inv \in Id \cup {Absent}
    BY <1>13, FreshIsNext, NextIsNew DEF Billed, Kind
<1>15. PICK s : s = [t EXCEPT !.status = "active", !.latest_invoice = inv]
    OBVIOUS
<1>16. /\ s \in SubscriptionRecord /\ s.customer = r.customer /\ s.price = r.price
       /\ s.status = "active" /\ s.latest_invoice = inv
    BY <1>5, <1>14, <1>15 DEF SubscriptionRecord
<1>17. /\ KindIds(o, "invoice") = KindIds(objects, "invoice")
       /\ KindIds(o, "payment_intent") = KindIds(objects, "payment_intent")
    BY <1>7, <1>10, NextSame
<1>18. Refers(o, id, "subscription")
  <2>1. id \in DOMAIN o
    <3>1. IsWrite(o, objects, id, t)
      BY <1>10, Written
    <3> QED BY <3>1 DEF IsWrite
  <2> QED BY <1>7, <2>1 DEF Refers
<1>19. Refers(o, r.customer, "customer") /\ Refers(o, r.price, "price")
    BY <1>3, <1>10, RefersStays
<1>20. objects[r.price].unit_amount \in UnitAmount
    BY <1>3, PriceFound
<1>21. PICK i, p : /\ Paid(id, r.price) = Over(Entry(inv, i), Entry(Fresh("payment_intent"), p))
                   /\ Billed(Over(Entry(id, s), Over(Entry(inv, i),
                                Over(Entry(Fresh("payment_intent"), p), o))))
    BY <1>7, <1>11, <1>13, <1>16, <1>17, <1>18, <1>19, <1>20, PaidWrites
<1>22. Billed(Over(Over(Entry(id, s), Paid(id, r.price)), objects))
  <2>1. PICK int : int = Fresh("payment_intent")
    OBVIOUS
  <2>2. Billed(Over(Entry(id, s), Over(Entry(inv, i), Over(Entry(int, p), objects))))
    BY <1>10, <1>21, <2>1, OverAgain
  <2>3. Over(Over(Entry(id, s), Over(Entry(inv, i), Entry(int, p))), objects)
          = Over(Entry(id, s), Over(Entry(inv, i), Over(Entry(int, p), objects)))
    BY OverOver
  <2> QED BY <1>21, <2>1, <2>2, <2>3
<1>23. CASE objects[r.price].recurring /\ ~r.flag
  <2>1. createSubscription(r).writes = Over(Entry(id, s), Paid(id, r.price))
    BY <1>2, <1>4, <1>6, <1>13, <1>15, <1>23 DEF createSubscription, Answer
  <2> QED BY <1>22, <2>1
<1>24. CASE objects[r.price].recurring /\ r.flag
  <2>1. createSubscription(r).writes = responseWithWebhookWrites(id, t, 1).writes
    BY <1>2, <1>4, <1>6, <1>24 DEF createSubscription
  <2>2. Billed(Over(responseWithWebhookWrites(id, t, 1).writes, objects))
    BY <1>9, OneObject
  <2> QED BY <2>1, <2>2
<1>25. CASE ~objects[r.price].recurring
    BY <1>1, <1>2, <1>25 DEF createSubscription
<1> QED BY <1>23, <1>24, <1>25

\* A subscription that is written back with its references, and shows no more than before.
LEMMA SubscriptionChanged ==
    ASSUME NEW o, NEW id, NEW s, SubscriptionOf(o, id, s), NEW x \in SubscriptionRecord,
           x.customer = s.customer, x.price = s.price, x.latest_invoice = s.latest_invoice,
           x.status = s.status \/ x.status \in {"past_due", "canceled"}
    PROVE  SubscriptionOf(o, id, x)
<1>1. x.status = "trialing" => s.status = "trialing"
    OBVIOUS
<1>2. x.status = "active" => s.status = "active"
    OBVIOUS
<1> QED BY <1>1, <1>2, Zenon DEF SubscriptionOf

\* A renewal is paid, or leaves an open invoice and the subscription past due.
LEMMA RenewKeeps ==
    ASSUME Billed(objects), NEW r, Validated(r), getResource(r.id, "subscription")
    PROVE  Billed(Over(renewSubscription(r).writes, objects))
<1>1. Billed(Over(stripeFailure(400).writes, objects))
    BY NothingWritten
<1>2. PICK id : id = r.id /\ id \in Id /\ Refers(objects, id, "subscription")
    BY Found
<1>3. PICK s : s = objects[id] /\ SubscriptionOf(objects, id, s)
    BY <1>2, SubscriptionFound
<1>4. /\ s \in SubscriptionRecord
      /\ Refers(objects, s.customer, "customer") /\ Refers(objects, s.price, "price")
    BY <1>3 DEF SubscriptionOf
<1>5. PICK inv : inv = Fresh("invoice")
    OBVIOUS
<1>6. inv = NextId(objects, "invoice") /\ inv \in Id /\ inv \in Id \cup {Absent}
    BY <1>5, FreshIsNext, NextIsNew DEF Billed, Kind
<1>7. PICK b : b = [s EXCEPT !.latest_invoice = inv]
    OBVIOUS
<1>8. /\ b \in SubscriptionRecord /\ b.customer = s.customer /\ b.price = s.price
      /\ b.latest_invoice = inv
    BY <1>4, <1>6, <1>7 DEF SubscriptionRecord
<1>9. PICK d : d = [b EXCEPT !.status = "past_due"]
    OBVIOUS
<1>10. /\ d \in SubscriptionRecord /\ d.customer = s.customer /\ d.price = s.price
       /\ d.latest_invoice = inv /\ d.status = "past_due"
    BY <1>8, <1>9 DEF SubscriptionRecord
<1>11. PICK a : a = [b EXCEPT !.status = "active"]
    OBVIOUS
<1>12. /\ a \in SubscriptionRecord /\ a.customer = s.customer /\ a.price = s.price
       /\ a.latest_invoice = inv /\ a.status = "active"
    BY <1>8, <1>11 DEF SubscriptionRecord
<1>13. Billed(Over(Over(Entry(inv, createInvoice(id, s.price, "open")), Entry(id, d)), objects))
  <2>1. PICK i : i = createInvoice(id, s.price, "open")
    OBVIOUS
  <2>2. i \in InvoiceRecord /\ i.subscription = id /\ i.status = "open" /\ i.payment_intent = Absent
    BY <1>2, <2>1, InvoiceCreated
  <2>3. InvoiceOf(objects, i)
    BY <1>2, <2>2 DEF InvoiceOf
  <2>4. Billed(Over(Entry(id, d), Over(Entry(inv, i), objects))) /\ inv # id
    BY <1>2, <1>4, <1>6, <1>10, <2>2, <2>3, Invoiced
  <2>5. Over(Entry(id, d), Over(Entry(inv, i), objects))
          = Over(Entry(inv, i), Over(Entry(id, d), objects))
    BY <2>4, OverSwap
  <2>6. Over(Over(Entry(inv, i), Entry(id, d)), objects)
          = Over(Entry(inv, i), Over(Entry(id, d), objects))
    BY OverOver
  <2> QED BY <2>1, <2>4, <2>5, <2>6
<1>14. Billed(Over(Over(Entry(id, a), Paid(id, s.price)), objects))
  <2>1. objects[s.price].unit_amount \in UnitAmount
    BY <1>4, PriceFound
  <2>2. PICK price : price = s.price
    OBVIOUS
  <2>3. PICK i, p : /\ Paid(id, price) = Over(Entry(inv, i), Entry(Fresh("payment_intent"), p))
                    /\ Billed(Over(Entry(id, a), Over(Entry(inv, i),
                                Over(Entry(Fresh("payment_intent"), p), objects))))
    BY <1>2, <1>4, <1>5, <1>12, <2>1, <2>2, PaidWrites
  <2>4. PICK int : int = Fresh("payment_intent")
    OBVIOUS
  <2>5. Over(Over(Entry(id, a), Over(Entry(inv, i), Entry(int, p))), objects)
          = Over(Entry(id, a), Over(Entry(inv, i), Over(Entry(int, p), objects)))
    BY OverOver
  <2> QED BY <2>2, <2>3, <2>4, <2>5
<1>15. CASE s.status = "canceled"
    BY <1>1, <1>2, <1>3, <1>15 DEF renewSubscription
<1>16. CASE s.status # "canceled" /\ isDeclined(CardFor(r, id))
  <2>1. renewSubscription(r).writes = Over(Entry(inv, createInvoice(id, s.price, "open")), Entry(id, d))
    BY <1>2, <1>3, <1>5, <1>7, <1>9, <1>16 DEF renewSubscription, cardDeclined, Answer
  <2> QED BY <1>13, <2>1
<1>17. CASE s.status # "canceled" /\ ~isDeclined(CardFor(r, id))
  <2>1. renewSubscription(r).writes = Over(Entry(id, a), Paid(id, s.price))
    BY <1>2, <1>3, <1>5, <1>7, <1>11, <1>17 DEF renewSubscription, Answer
  <2> QED BY <1>14, <2>1
<1> QED BY <1>15, <1>16, <1>17

\* Subscriptions are created, renewed, cancelled and changed.
LEMMA SubscriptionsKeep ==
    ASSUME Billed(objects), NEW r, Validated(r)
    PROVE  Billed(Over(handleSubscriptions(r).writes, objects))
<1>1. Billed(Over(createSubscription(r).writes, objects))
    BY CreateKeeps
<1>2. Billed(Over(stripeFailure(404).writes, objects))
    BY NothingWritten
<1>3. ASSUME getResource(r.id, "subscription")
      PROVE  /\ Billed(Over(updateSubscriptionStatus(r.id, "canceled").writes, objects))
             /\ Billed(Over(responseWithWebhookWrites(r.id,
                    [objects[r.id] EXCEPT !.card = IF r.card = Absent THEN @ ELSE r.card], 1).writes,
                    objects))
  <2>1. PICK id : id = r.id /\ id \in Id /\ Refers(objects, id, "subscription")
    BY <1>3, Found
  <2>2. PICK s : s = objects[id] /\ SubscriptionOf(objects, id, s)
    BY <2>1, SubscriptionFound
  <2>3. s \in SubscriptionRecord
    BY <2>2 DEF SubscriptionOf
  <2>4. PICK x : x = [s EXCEPT !.status = "canceled"]
    OBVIOUS
  <2>5. /\ x \in SubscriptionRecord /\ x.customer = s.customer /\ x.price = s.price
        /\ x.latest_invoice = s.latest_invoice /\ x.status = "canceled"
    BY <2>3, <2>4 DEF SubscriptionRecord
  <2>6. MayWrite(objects, id, x)
    BY <2>1, <2>2, <2>5, SubscriptionChanged, SubscriptionMayWrite
  <2>7. PICK card \in Cards : card = IF r.card = Absent THEN s.card ELSE r.card
    BY <2>3 DEF SubscriptionRecord, Validated
  <2>8. PICK y : y = [s EXCEPT !.card = card]
    OBVIOUS
  <2>9. /\ y \in SubscriptionRecord /\ y.customer = s.customer /\ y.price = s.price
        /\ y.latest_invoice = s.latest_invoice /\ y.status = s.status
    BY <2>3, <2>8 DEF SubscriptionRecord
  <2>10. MayWrite(objects, id, y)
    BY <2>1, <2>2, <2>9, SubscriptionChanged, SubscriptionMayWrite
  <2>11. Billed(Over(updateSubscriptionStatus(r.id, "canceled").writes, objects))
    BY <2>1, <2>2, <2>4, <2>6, OneObject DEF updateSubscriptionStatus
  <2>12. y = [objects[r.id] EXCEPT !.card = IF r.card = Absent THEN @ ELSE r.card]
    BY <2>1, <2>2, <2>7, <2>8
  <2> QED BY <2>1, <2>10, <2>11, <2>12, OneObject
<1>4. getResource(r.id, "subscription") => Billed(Over(renewSubscription(r).writes, objects))
    BY RenewKeeps
<1> QED BY <1>1, <1>2, <1>3, <1>4 DEF handleSubscriptions

\* An invoice that is written back with its references, and is not opened again.
LEMMA InvoiceMayWrite ==
    ASSUME NEW o, NEW id, id \in Id, Refers(o, id, "invoice"), NEW i, i = o[id], InvoiceOf(o, i),
           NEW x \in InvoiceRecord, x.subscription = i.subscription,
           x.payment_intent = i.payment_intent, i.status # "open" => x.status # "open"
    PROVE  MayWrite(o, id, x)
<1>1. id \in DOMAIN o /\ id[1] = "invoice"
    BY DEF Refers
<1>2. InvoiceOf(o, x)
    BY DEF InvoiceOf
<1>3. ObjectOf(o, id, x)
    BY <1>1, <1>2 DEF ObjectOf
<1>4. Spares(id, o[id], x)
    BY <1>1 DEF Spares
<1> QED BY <1>1, <1>3, <1>4 DEF MayWrite

\* Invoices that are referred to are as they should be.
LEMMA InvoiceFound ==
    ASSUME NEW o, Billed(o), NEW id, Refers(o, id, "invoice")
    PROVE  id \in Id /\ InvoiceOf(o, o[id])
BY DEF Billed, Refers, ObjectOf, Numbered

\* A payment closes the invoice and activates its subscription, or is declined and
\* leaves one open and the other past due.
LEMMA PayKeeps ==
    ASSUME Billed(objects), NEW r, getResource(r.id, "invoice")
    PROVE  Billed(Over(payInvoice(r).writes, objects))
<1>1. Billed(Over(stripeFailure(400).writes, objects))
    BY NothingWritten
<1>2. PICK id : id = r.id /\ id \in Id /\ Refers(objects, id, "invoice")
    BY Found
<1>3. PICK i : i = objects[id] /\ InvoiceOf(objects, i)
    BY <1>2, InvoiceFound
<1>4. i \in InvoiceRecord /\ Refers(objects, i.subscription, "subscription")
      /\ (i.payment_intent # Absent => i.status # "open")
    BY <1>3 DEF InvoiceOf
<1>5. PICK sub : sub = i.subscription
    OBVIOUS
<1>6. PICK s : s = objects[sub] /\ SubscriptionOf(objects, sub, s) /\ sub \in Id
    BY <1>4, <1>5, SubscriptionFound
<1>7. /\ s \in SubscriptionRecord
      /\ Refers(objects, s.customer, "customer") /\ Refers(objects, s.price, "price")
    BY <1>6 DEF SubscriptionOf
<1>8. id # sub /\ id # Absent /\ id \in Id \cup {Absent}
    BY <1>2, <1>4, <1>5, IdIsGiven DEF Refers
<1>9. PICK n \in Nat : n = numberOr(i.attempt_count, 0) + 1
    BY DEF numberOr
<1>10. PICK t : t = [i EXCEPT !.attempt_count = n]
    OBVIOUS
<1>11. /\ t \in InvoiceRecord /\ t.subscription = sub /\ t.payment_intent = i.payment_intent
       /\ t.status = i.status
    BY <1>4, <1>5, <1>10 DEF InvoiceRecord
<1>12. PICK due \in Nat : due = i.amount_due
    BY <1>4 DEF InvoiceRecord
<1>13. PICK x : x = [t EXCEPT !.status = "paid", !.amount_paid = due, !.amount_remaining = 0]
    OBVIOUS
<1>14. /\ x \in InvoiceRecord /\ x.subscription = sub /\ x.payment_intent = i.payment_intent
       /\ x.status = "paid"
    BY <1>11, <1>13 DEF InvoiceRecord
<1>15. PICK u : u = [t EXCEPT !.status = "open"]
    OBVIOUS
<1>16. /\ u \in InvoiceRecord /\ u.subscription = sub /\ u.payment_intent = i.payment_intent
       /\ u.status = "open"
    BY <1>11, <1>15 DEF InvoiceRecord
<1>17. PICK d : d = [s EXCEPT !.status = "past_due"]
    OBVIOUS
<1>18. /\ d \in SubscriptionRecord /\ d.customer = s.customer /\ d.price = s.price
       /\ d.latest_invoice = s.latest_invoice /\ d.status = "past_due"
    BY <1>7, <1>17 DEF SubscriptionRecord
<1>19. PICK a : a = [s EXCEPT !.status = "active", !.latest_invoice = id]
    OBVIOUS
<1>20. /\ a \in SubscriptionRecord /\ a.customer = s.customer /\ a.price = s.price
       /\ a.latest_invoice = id /\ a.status = "active"
    BY <1>7, <1>8, <1>19 DEF SubscriptionRecord
<1>21. ASSUME i.status = "open"
       PROVE  Billed(Over(Over(Entry(id, u), Entry(sub, d)), objects))
  <2>1. MayWrite(objects, sub, d)
    BY <1>4, <1>5, <1>6, <1>18, SubscriptionChanged, SubscriptionMayWrite
  <2>2. PICK o : o = Over(Entry(sub, d), objects)
    OBVIOUS
  <2>3. Billed(o)
    BY <2>1, <2>2, WriteKeeps
  <2>4. Refers(o, id, "invoice") /\ o[id] = i
    BY <1>2, <1>3, <1>8, <2>2, RefersStays
  <2>5. InvoiceOf(o, i)
    BY <2>3, <2>4, InvoiceFound
  <2>6. MayWrite(o, id, u)
    BY <1>2, <1>5, <1>16, <1>21, <2>4, <2>5, InvoiceMayWrite
  <2>7. Billed(Over(Entry(id, u), o))
    BY <2>3, <2>6, WriteKeeps
  <2> QED BY <2>2, <2>7, OverOver
<1>22. Billed(Over(Over(Entry(id, x), Entry(sub, a)), objects))
  <2>1. MayWrite(objects, id, x)
    BY <1>2, <1>3, <1>5, <1>14, InvoiceMayWrite
  <2>2. PICK o : o = Over(Entry(id, x), objects)
    OBVIOUS
  <2>3. Billed(o)
    BY <2>1, <2>2, WriteKeeps
  <2>4. o[id] = x
    <3>1. IsWrite(o, objects, id, x)
      BY <2>2, Written
    <3> QED BY <3>1 DEF IsWrite
  <2>5. /\ Refers(o, id, "invoice") /\ Refers(o, sub, "subscription")
        /\ Refers(o, s.customer, "customer") /\ Refers(o, s.price, "price")
    BY <1>2, <1>4, <1>5, <1>7, <2>2, RefersStays
  <2>6. SubscriptionOf(o, sub, a)
    BY <1>8, <1>14, <1>20, <2>4, <2>5, ShowsInvoice
  <2>7. MayWrite(o, sub, a)
    BY <1>6, <2>5, <2>6, SubscriptionMayWrite
  <2>8. Billed(Over(Entry(sub, a), Over(Entry(id, x), objects)))
    BY <2>2, <2>3, <2>7, WriteKeeps
  <2>9. Over(Entry(sub, a), Over(Entry(id, x), objects))
          = Over(Entry(id, x), Over(Entry(sub, a), objects))
    BY <1>8, OverSwap
  <2> QED BY <2>8, <2>9, OverOver
<1>23. CASE i.status = "paid"
  <2>1. Billed(Over(stripeObject(r.id, objects[r.id]).writes, objects))
    BY SameMayWrite, OneObject
  <2> QED BY <1>2, <1>3, <1>23, <2>1 DEF payInvoice
<1>24. CASE i.status = "void"
    BY <1>1, <1>2, <1>3, <1>24 DEF payInvoice
<1>25. CASE i.status = "open"
  <2>1. CASE isDeclined(CardFor(r, sub))
    <3>1. payInvoice(r).writes = Over(Entry(id, u), Entry(sub, d))
      BY <1>2, <1>3, <1>5, <1>6, <1>9, <1>10, <1>15, <1>17, <1>25, <2>1
         DEF payInvoice, cardDeclined, Answer
    <3> QED BY <1>21, <1>25, <3>1
  <2>2. CASE ~isDeclined(CardFor(r, sub))
    <3>1. payInvoice(r).writes = Over(Entry(id, x), Entry(sub, a))
      BY <1>2, <1>3, <1>5, <1>6, <1>9, <1>10, <1>12, <1>13, <1>19, <1>25, <2>2
         DEF payInvoice, Answer
    <3> QED BY <1>22, <3>1
  <2> QED BY <2>1, <2>2
<1>26. i.status \in {"open", "paid", "void"}
    BY <1>4 DEF InvoiceRecord
<1> QED BY <1>23, <1>24, <1>25, <1>26

\* Invoices are paid and voided.
LEMMA InvoicesKeep ==
    ASSUME Billed(objects), NEW r
    PROVE  Billed(Over(handleInvoices(r).writes, objects))
<1>1. Billed(Over(stripeFailure(404).writes, objects))
    BY NothingWritten
<1>2. ASSUME getResource(r.id, "invoice")
      PROVE  Billed(Over(responseWithWebhookWrites(r.id, [objects[r.id] EXCEPT !.status = "void"], 1).writes,
                         objects))
  <2>1. PICK id : id = r.id /\ id \in Id /\ Refers(objects, id, "invoice")
    BY <1>2, Found
  <2>2. PICK i : i = objects[id] /\ InvoiceOf(objects, i)
    BY <2>1, InvoiceFound
  <2>3. i \in InvoiceRecord
    BY <2>2 DEF InvoiceOf
  <2>4. PICK x : x = [i EXCEPT !.status = "void"]
    OBVIOUS
  <2>5. /\ x \in InvoiceRecord /\ x.subscription = i.subscription
        /\ x.payment_intent = i.payment_intent /\ x.status = "void"
    BY <2>3, <2>4 DEF InvoiceRecord
  <2>6. MayWrite(objects, id, x)
    BY <2>1, <2>2, <2>5, InvoiceMayWrite
  <2> QED BY <2>1, <2>2, <2>4, <2>6, OneObject
<1>3. getResource(r.id, "invoice") => Billed(Over(payInvoice(r).writes, objects))
    BY PayKeeps
<1> QED BY <1>1, <1>2, <1>3 DEF handleInvoices

\* Every request is one transaction that leaves the state billed.
LEMMA DispatchKeeps ==
    ASSUME Billed(objects), NEW r, Validated(r)
    PROVE  Billed(Over(dispatchStripeRequest(r).writes, objects))
<1>1. CASE r.kind = "customer"
    BY <1>1, CustomersKeep DEF dispatchStripeRequest
<1>2. CASE r.kind = "product"
    BY <1>2, ProductsKeep DEF dispatchStripeRequest
<1>3. CASE r.kind = "price"
    BY <1>3, PricesKeep DEF dispatchStripeRequest
<1>4. CASE r.kind = "payment_method"
    BY <1>4, PlainKeep DEF dispatchStripeRequest
<1>5. CASE r.kind = "checkout.session"
    BY <1>5, PlainKeep DEF dispatchStripeRequest
<1>6. CASE r.kind = "payment_intent"
    BY <1>6, IntentsKeep DEF dispatchStripeRequest
<1>7. CASE r.kind = "refund"
    BY <1>7, RefundsKeep DEF dispatchStripeRequest
<1>8. CASE r.kind = "subscription"
    BY <1>8, SubscriptionsKeep DEF dispatchStripeRequest
<1>9. CASE r.kind = "invoice"
    BY <1>9, InvoicesKeep DEF dispatchStripeRequest
<1> QED BY <1>1, <1>2, <1>3, <1>4, <1>5, <1>6, <1>7, <1>8, <1>9 DEF Validated, Kind

\* A state without objects.
LEMMA EmptyBilled == Billed(Nil)
<1>1. DOMAIN Nil = {}
    BY DEF Nil
<1>2. \A kind : KindIds(Nil, kind) = {}
    BY <1>1 DEF KindIds
<1>3. Numbered(Nil)
    BY <1>1, <1>2, FS_EmptySet DEF Numbered
<1> QED BY <1>1, <1>3 DEF Billed

\* A billed state is what the runs check.
LEMMA BilledAgrees ==
    ASSUME Billed(objects)
    PROVE  BillingAgrees
<1> SUFFICES ASSUME NEW id \in DOMAIN objects
             PROVE  /\ id[1] = "subscription" =>
                        /\ objects[id].status = "trialing" => objects[id].latest_invoice = Absent
                        /\ objects[id].latest_invoice # Absent =>
                            objects[objects[id].latest_invoice].subscription = id
                        /\ objects[id].status = "active" =>
                            /\ objects[id].latest_invoice # Absent
                            /\ objects[objects[id].latest_invoice].status # "open"
                    /\ id[1] = "invoice" /\ objects[id].payment_intent # Absent =>
                        /\ objects[id].status # "open"
                        /\ objects[objects[id].payment_intent].status = "succeeded"
    BY DEF BillingAgrees
<1>1. ObjectOf(objects, id, objects[id])
    BY DEF Billed
<1>2. CASE id[1] = "subscription"
  <2>1. SubscriptionOf(objects, id, objects[id])
    BY <1>1, <1>2 DEF ObjectOf
  <2>2. id[1] # "invoice"
    BY <1>2
  <2> QED BY <2>1, <2>2, Zenon DEF SubscriptionOf
<1>3. CASE id[1] = "invoice"
  <2>1. InvoiceOf(objects, objects[id])
    BY <1>1, <1>3 DEF ObjectOf
  <2>2. id[1] # "subscription"
    BY <1>3
  <2> QED BY <2>1, <2>2, Zenon DEF InvoiceOf, Settled
<1> QED BY <1>2, <1>3

\* Answers announce a number of events.
LEMMA EventsAnnounced ==
    ASSUME NEW r, Validated(r)
    PROVE  dispatchStripeRequest(r).events \in Nat
<1>1. /\ \A status : stripeFailure(status).events = 0
      /\ \A id, x : stripeObject(id, x).events = 0
      /\ \A id, x, n : responseWithWebhookWrites(id, x, n).events = n
      /\ \A writes, n : cardDeclined(writes, n).events = n
      /\ \A status, id, writes, n : Answer(status, id, writes, n).events = n
    BY DEF stripeFailure, stripeObject, responseWithWebhookWrites, cardDeclined, Answer
<1>2. /\ handleCustomers(r).events \in Nat /\ handleProducts(r).events \in Nat
      /\ handlePrices(r).events \in Nat /\ handlePaymentMethods(r).events \in Nat
      /\ handleCheckoutSessions(r).events \in Nat
    BY <1>1 DEF handleCustomers, handleProducts, handlePrices, handlePaymentMethods,
                handleCheckoutSessions
<1>3. handlePaymentIntents(r).events \in Nat
  <2>1. PICK n \in Nat : n = IF r.flag THEN 1 ELSE 0
    OBVIOUS
  <2> QED BY <1>1, <2>1 DEF handlePaymentIntents
<1>4. handleRefunds(r).events \in Nat
  <2>1. ASSUME NEW id, NEW x, NEW writes
        PROVE  [responseWithWebhookWrites(id, x, 1) EXCEPT !.writes = writes].events = 1
    BY DEF responseWithWebhookWrites, Answer
  <2> QED BY <1>1, <2>1 DEF handleRefunds
<1>5. createSubscription(r).events \in Nat /\ renewSubscription(r).events \in Nat
    BY <1>1 DEF createSubscription, renewSubscription
<1>6. handleSubscriptions(r).events \in Nat
    BY <1>1, <1>5 DEF handleSubscriptions, updateSubscriptionStatus
<1>7. payInvoice(r).events \in Nat
    BY <1>1 DEF payInvoice
<1>8. handleInvoices(r).events \in Nat
    BY <1>1, <1>7 DEF handleInvoices
<1> QED BY <1>2, <1>3, <1>4, <1>6, <1>8 DEF dispatchStripeRequest, Validated, Kind

\* A billed state has the types that the runs check.
LEMMA BilledTypes ==
    ASSUME Billed(objects), NEW id \in DOMAIN objects
    PROVE  objects[id] \in ObjectType(id[1])
<1>1. PICK x : x = objects[id] /\ ObjectOf(objects, id, x)
    BY DEF Billed
<1>2. \A j, kind : Refers(objects, j, kind) => j \in IdsOf(kind)
    BY DEF Refers, IdsOf
<1>3. CASE id[1] = "refund"
  <2>1. RefundOf(objects, x)
    BY <1>1, <1>3 DEF ObjectOf
  <2>2. x \in [amount : Nat, payment_intent : IdsOf("payment_intent") \cup {Absent}]
    BY <1>2, <2>1 DEF RefundOf
  <2> QED BY <1>1, <1>3, <2>2 DEF ObjectType
<1>4. CASE id[1] = "subscription"
  <2>1. SubscriptionOf(objects, id, x)
    BY <1>1, <1>4 DEF ObjectOf
  <2>2. /\ x.customer \in IdsOf("customer") /\ x.price \in IdsOf("price")
        /\ x.latest_invoice \in IdsOf("invoice") \cup {Absent}
    BY <1>2, <2>1 DEF SubscriptionOf
  <2>3. x \in SubscriptionRecord
    BY <2>1 DEF SubscriptionOf
  <2>4. x \in [customer : IdsOf("customer"), price : IdsOf("price"), card : Cards,
               status : {"trialing", "active", "past_due", "canceled"},
               latest_invoice : IdsOf("invoice") \cup {Absent}]
    BY <2>2, <2>3 DEF SubscriptionRecord
  <2> QED BY <1>1, <1>4, <2>4 DEF ObjectType
<1>5. CASE id[1] = "invoice"
  <2>1. InvoiceOf(objects, x)
    BY <1>1, <1>5 DEF ObjectOf
  <2>2. /\ x.subscription \in IdsOf("subscription")
        /\ x.payment_intent \in IdsOf("payment_intent") \cup {Absent}
    BY <1>2, <2>1 DEF InvoiceOf
  <2>3. x \in InvoiceRecord
    BY <2>1 DEF InvoiceOf
  <2>4. x \in [subscription : IdsOf("subscription"), status : {"open", "paid", "void"},
               payment_intent : IdsOf("payment_intent") \cup {Absent}, attempt_count : Nat,
               amount_due : Nat, amount_paid : Nat, amount_remaining : Nat]
    BY <2>2, <2>3 DEF InvoiceRecord
  <2> QED BY <1>1, <1>5, <2>4 DEF ObjectType
<1>6. CASE id[1] = "payment_intent"
  <2>1. x \in IntentRecord
    BY <1>1, <1>6 DEF ObjectOf
  <2>2. x \in [amount : Nat, amount_received : Nat, amount_refunded : Nat,
               status : {"succeeded", "requires_payment_method"}]
    BY <2>1 DEF IntentRecord
  <2> QED BY <1>1, <1>6, <2>2 DEF ObjectType
<1>7. CASE id[1] = "customer"
    BY <1>1, <1>7 DEF ObjectOf, ObjectType
<1>8. CASE id[1] = "price"
    BY <1>1, <1>8 DEF ObjectOf, ObjectType
<1>9. CASE id[1] \notin {"customer", "price", "payment_intent", "refund", "subscription", "invoice"}
  <2>1. x = <<>>
    BY <1>1, <1>9 DEF ObjectOf
  <2> QED BY <1>1, <1>9, <2>1 DEF ObjectType
<1> QED BY <1>3, <1>4, <1>5, <1>6, <1>7, <1>8, <1>9

\* The inductive invariant of the state file.
StateInv ==
    /\ Billed(objects) /\ events \in Nat /\ DOMAIN receipts \subseteq IdempotencyKey /\ Fits

\* An empty state file is within its bound.
LEMMA EmptyFits ==
    Cardinality(DOMAIN Nil) + 0 + Cardinality(DOMAIN Nil) <= MaxStateEntries
<1>1. DOMAIN Nil = {}
    BY DEF Nil
<1>2. Cardinality(DOMAIN Nil) = 0
    BY <1>1, FS_EmptySet
<1> QED BY <1>2, StripeAssumption

\* Every transaction, clearState() and the clock preserve it.
LEMMA StateInvStep ==
    ASSUME NEW asked, StateInv, [StripeNext(asked)]_stripeVars
    PROVE  StateInv'
<1>1. CASE ClearState
  <2>1. objects' = Nil /\ events' = 0 /\ receipts' = Nil
    BY <1>1 DEF ClearState
  <2>2. DOMAIN Nil = {}
    BY DEF Nil
  <2>3. Fits'
    BY <2>1, EmptyFits DEF Fits
  <2> QED BY <2>1, <2>2, <2>3, EmptyBilled DEF StateInv
<1>2. CASE UNCHANGED <<objects, events, receipts>>
    BY <1>2 DEF StateInv, Fits
<1>3. ASSUME NEW r \in Creations \cup Changes, NEW k \in IdempotencyKey \cup {Absent}, Serve(r, k)
      PROVE  StateInv'
  <2>1. Validated(r)
    BY CreationsValidated, ChangesValidated DEF StateInv
  <2>2. PICK answer : /\ answer = handleDeterministic(r, k)
                      /\ objects' = Over(answer.writes, objects)
                      /\ events' = events + answer.events
                      /\ receipts' = Remembered(r, k, answer)
    BY <1>3 DEF Serve
  <2>3. /\ Billed(Over(dispatchStripeRequest(r).writes, objects))
        /\ Billed(Over(stripeFailure(400).writes, objects))
    BY <2>1, DispatchKeeps, NothingWritten DEF StateInv
  <2>4. Billed(objects')
    BY <2>2, <2>3 DEF handleDeterministic
  <2>5. answer.events \in Nat
    BY <2>1, <2>2, EventsAnnounced DEF handleDeterministic, stripeFailure, Answer
  <2>6. DOMAIN receipts' \subseteq IdempotencyKey
    BY <2>2 DEF Remembered, StateInv
  <2>7. Fits'
    BY <1>3 DEF Serve
  <2> QED BY <2>2, <2>4, <2>5, <2>6, <2>7 DEF StateInv
<1> QED BY <1>1, <1>2, <1>3 DEF StripeNext, stripeOnly, stripeVars

\* The invariant holds of every behaviour, whatever clients ask for.
LEMMA StateInvAlways ==
    ASSUME NEW asked
    PROVE  StripeSpec(asked) => []StateInv
<1>1. StripeInit => StateInv
  <2> SUFFICES ASSUME StripeInit PROVE StateInv
    OBVIOUS
  <2>1. objects = Nil /\ events = 0 /\ receipts = Nil
    BY DEF StripeInit
  <2>2. DOMAIN Nil = {}
    BY DEF Nil
  <2>3. Fits
    BY <2>1, EmptyFits DEF Fits
  <2> QED BY <2>1, <2>2, <2>3, EmptyBilled DEF StateInv
<1>2. StateInv /\ [StripeNext(asked)]_stripeVars => StateInv'
    BY StateInvStep
<1> QED BY <1>1, <1>2, PTL DEF StripeSpec

\* Subscriptions, invoices and payments agree after any sequence of requests, declined
\* cards, retries and resets: what a handler writes in one transaction spares what
\* other objects rely on, so that renewing, paying, voiding and refunding may follow
\* each other in any order.
THEOREM Billing ==
    ASSUME NEW asked
    PROVE  StripeSpec(asked) => []BillingAgrees
<1>1. StateInv => BillingAgrees
    BY BilledAgrees DEF StateInv
<1> QED BY <1>1, StateInvAlways, PTL

\* Every entry of the state file is an object of its kind that names stored objects
\* only, and transactState() leaves no file with more entries than its bound.
THEOREM StripeTypes ==
    ASSUME NEW asked
    PROVE  StripeSpec(asked) => []StripeTypeOK
<1>1. StateInv => StripeTypeOK
    BY BilledTypes DEF StateInv, StripeTypeOK
<1> QED BY <1>1, StateInvAlways, PTL

-----------------------------------------------------------------------------
(***************************************************************************)
(* Synthetic worlds.  A world that only workflows have filled is regular:  *)
(* the n-th entry of every list is what the n-th workflow has added.       *)
(***************************************************************************)
EntityLists == {"customers", "subscriptions", "issues", "messages", "failures"}

\* What the n-th workflow has added to the world with this identity.
Added(s, identity, n) ==
    LET suffix == <<identity, s.receipts[n].actionId>> IN
    /\ s.receipts[n].suffix = suffix /\ s.receipts[n].issueNumber = n
    /\ s.customers[n].id = suffix /\ s.customers[n].owner = identity
    /\ s.subscriptions[n].id = suffix /\ s.subscriptions[n].owner = identity
    /\ s.subscriptions[n].customer = suffix
    /\ s.issues[n].id = n /\ s.issues[n].owner = identity /\ s.issues[n].subscription = suffix
    /\ s.messages[n].id = suffix /\ s.messages[n].owner = identity
    /\ s.messages[n].subscription = suffix
    /\ s.failures[n].id = suffix /\ s.failures[n].owner = identity
    /\ s.failures[n].subscription = suffix

\* A world is regular: the n-th entity of each list belongs to the n-th receipt, and
\* each receipt to an action of its own.
Regular(s, identity) ==
    /\ s \in WorldState /\ identity \in World /\ Len(s.receipts) <= MaxReceipts
    /\ Len(s.customers) = Len(s.receipts) /\ Len(s.subscriptions) = Len(s.receipts)
    /\ Len(s.issues) = Len(s.receipts) /\ Len(s.messages) = Len(s.receipts)
    /\ Len(s.failures) = Len(s.receipts)
    /\ \A n \in 1 .. Len(s.receipts) : Added(s, identity, n)
    /\ \A m, n \in 1 .. Len(s.receipts) : s.receipts[m].actionId = s.receipts[n].actionId => m = n

\* The lists of a world are sequences.
LEMMA WorldLists ==
    ASSUME NEW s \in WorldState
    PROVE  /\ s.clockAt \in Nat
           /\ s.customers \in Seq([id : Suffix, owner : World])
           /\ s.subscriptions \in Seq([id : Suffix, owner : World, customer : Suffix])
           /\ s.issues \in Seq(Related(Nat)) /\ s.messages \in Seq(Related(Suffix))
           /\ s.failures \in Seq(Related(Suffix))
           /\ s.receipts \in Seq([actionId : ActionId, suffix : Suffix, issueNumber : Nat,
                                  completedAt : Nat])
BY DEF WorldState

\* Entities with different ids are as many as their ids.
LEMMA DistinctIds ==
    ASSUME NEW n \in Nat, NEW ids, \A i, j \in 1 .. n : ids[i] = ids[j] => i = j, NEW S,
           \A x : x \in S <=> \E i \in 1 .. n : x = ids[i]
    PROVE  Cardinality(S) = n
<1> DEFINE f == [i \in 1 .. n |-> ids[i]]
<1>1. f \in [1 .. n -> S] /\ \A i, j \in 1 .. n : f[i] = f[j] => i = j
    OBVIOUS
<1>2. \A x \in S : \E i \in 1 .. n : f[i] = x
    OBVIOUS
<1>3. f \in Bijection(1 .. n, S)
    BY <1>1, <1>2 DEF Bijection, Injection, Surjection, IsInjective
<1> QED BY <1>3, FS_CountingElements DEF ExistsBijection

\* The ids of a list whose n-th entity has the n-th of some distinct ids.
LEMMA ListIds ==
    ASSUME NEW T, NEW list \in Seq(T), NEW ids, \A i \in 1 .. Len(list) : list[i].id = ids[i]
    PROVE  /\ \A x : x \in EntityIds(list) <=> \E i \in 1 .. Len(list) : x = ids[i]
           /\ (\A i, j \in 1 .. Len(list) : ids[i] = ids[j] => i = j)
                => Cardinality(EntityIds(list)) = Len(list)
<1>1. DOMAIN list = 1 .. Len(list) /\ Len(list) \in Nat
    OBVIOUS
<1>2. \A x : x \in EntityIds(list) <=> \E i \in 1 .. Len(list) : x = ids[i]
    BY <1>1 DEF EntityIds
<1>3. PICK n, S : n = Len(list) /\ S = EntityIds(list)
    OBVIOUS
<1>4. (\A i, j \in 1 .. n : ids[i] = ids[j] => i = j) => Cardinality(S) = n
    BY <1>1, <1>2, <1>3, DistinctIds
<1> QED BY <1>2, <1>3, <1>4

\* m distinct ids, and the list of the entities that have them.
Distinct(m, ids) == \A i, j \in 1 .. m : ids[i] = ids[j] => i = j
HasIds(list, m, ids) == Len(list) = m /\ \A i \in 1 .. m : list[i].id = ids[i]
TheseIds(list, m, ids) ==
    /\ \A x : x \in EntityIds(list) <=> \E i \in 1 .. m : x = ids[i]
    /\ Cardinality(EntityIds(list)) = m

\* The ids of such a list are these, and as many.
LEMMA IdsOfList ==
    ASSUME NEW T, NEW list \in Seq(T), NEW m, NEW ids, Distinct(m, ids), HasIds(list, m, ids)
    PROVE  TheseIds(list, m, ids)
<1>1. m = Len(list)
    BY DEF HasIds
<1>2. \A i \in 1 .. Len(list) : list[i].id = ids[i]
    BY <1>1 DEF HasIds
<1>3. \A x : x \in EntityIds(list) <=> \E i \in 1 .. Len(list) : x = ids[i]
    BY <1>2, ListIds
<1>4. \A i, j \in 1 .. Len(list) : ids[i] = ids[j] => i = j
    BY <1>1 DEF Distinct
<1>5. Cardinality(EntityIds(list)) = Len(list)
    BY <1>2, <1>4, ListIds
<1> QED BY <1>1, <1>3, <1>5, Zenon DEF TheseIds

\* What an element of a list is.
LEMMA InList ==
    ASSUME NEW T, NEW list \in Seq(T), NEW e
    PROVE  /\ e \in Range(list) <=> \E n \in 1 .. Len(list) : e = list[n]
           /\ \A n \in 1 .. Len(list) : list[n] \in T
BY DEF Range

\* validateSyntheticWorld() accepts what is regular.
LEMMA RegularIsNormal ==
    ASSUME NEW s, NEW identity, Regular(s, identity)
    PROVE  normalizeState(s, identity)
<1> DEFINE N == Len(s.receipts)
           suffix == [n \in 1 .. N |-> <<identity, s.receipts[n].actionId>>]
           number == [n \in 1 .. N |-> n]
<1>1. s \in WorldState /\ N <= MaxReceipts /\ N \in Nat
    BY WorldLists DEF Regular
<1>2. /\ Len(s.customers) = N /\ Len(s.subscriptions) = N /\ Len(s.issues) = N
      /\ Len(s.messages) = N /\ Len(s.failures) = N
    BY DEF Regular
<1>3. \A n \in 1 .. N :
        /\ s.receipts[n].suffix = suffix[n] /\ s.receipts[n].issueNumber = number[n]
        /\ s.customers[n].id = suffix[n] /\ s.customers[n].owner = identity
        /\ s.subscriptions[n].id = suffix[n] /\ s.subscriptions[n].owner = identity
        /\ s.subscriptions[n].customer = suffix[n]
        /\ s.issues[n].id = number[n] /\ s.issues[n].owner = identity
        /\ s.issues[n].subscription = suffix[n]
        /\ s.messages[n].id = suffix[n] /\ s.messages[n].owner = identity
        /\ s.messages[n].subscription = suffix[n]
        /\ s.failures[n].id = suffix[n] /\ s.failures[n].owner = identity
        /\ s.failures[n].subscription = suffix[n]
        /\ number[n] >= 1
  <2> TAKE n \in 1 .. N
  <2>1. suffix[n] = <<identity, s.receipts[n].actionId>> /\ number[n] = n /\ n >= 1
    OBVIOUS
  <2>2. Added(s, identity, n)
    BY DEF Regular
  <2> HIDE DEF suffix, number
  <2> QED BY <2>1, <2>2 DEF Added
<1>4. /\ \A m, n \in 1 .. N : suffix[m] = suffix[n] => m = n
      /\ \A m, n \in 1 .. N : number[m] = number[n] => m = n
    BY DEF Regular
<1>5. \A n \in 1 .. N : s.receipts[n].completedAt \in Nat
  <2>1. PICK T : /\ s.receipts \in Seq(T)
                 /\ T = [actionId : ActionId, suffix : Suffix, issueNumber : Nat, completedAt : Nat]
    BY <1>1, WorldLists
  <2>2. \A n \in 1 .. N : s.receipts[n] \in T
    BY <2>1, InList
  <2> QED BY <2>1, <2>2
<1>6. Cardinality(ActionIds(s)) = N
  <2> DEFINE ids == [n \in 1 .. N |-> s.receipts[n].actionId]
  <2>1. DOMAIN s.receipts = 1 .. N
    BY <1>1, WorldLists
  <2>2. \A x : x \in ActionIds(s) <=> \E i \in 1 .. N : x = ids[i]
    BY <2>1 DEF ActionIds
  <2>3. \A i, j \in 1 .. N : ids[i] = ids[j] => i = j
    BY DEF Regular
  <2> HIDE DEF ids
  <2>4. PICK n \in Nat : n = N
    BY <1>1
  <2>5. PICK S : S = ActionIds(s)
    OBVIOUS
  <2>6. /\ \A i, j \in 1 .. n : ids[i] = ids[j] => i = j
        /\ \A x : x \in S <=> \E i \in 1 .. n : x = ids[i]
    BY <2>2, <2>3, <2>4, <2>5
  <2>7. Cardinality(S) = n
    <3> HIDE DEF N
    <3> QED BY <2>6, DistinctIds
  <2> QED BY <2>4, <2>5, <2>7
<1> HIDE DEF suffix, number, N
<1>7. /\ \A list \in {s.customers, s.subscriptions, s.messages, s.failures} :
            /\ \A x : x \in EntityIds(list) <=> \E i \in 1 .. N : x = suffix[i]
            /\ Cardinality(EntityIds(list)) = N
      /\ \A x : x \in EntityIds(s.issues) <=> \E i \in 1 .. N : x = number[i]
      /\ Cardinality(EntityIds(s.issues)) = N
  <2>1. /\ \A x : x \in EntityIds(s.customers) <=> \E i \in 1 .. N : x = suffix[i]
        /\ Cardinality(EntityIds(s.customers)) = N
    <3>1. PICK T, list : s.customers \in Seq(T) /\ list = s.customers
      BY <1>1, WorldLists
    <3>2. Len(list) = N /\ \A n \in 1 .. N : list[n].id = suffix[n]
      BY <1>2, <1>3, <3>1
    <3>3. list \in Seq(T) /\ HasIds(list, N, suffix) /\ Distinct(N, suffix)
      BY <1>4, <3>1, <3>2, Zenon DEF HasIds, Distinct
    <3>4. TheseIds(list, N, suffix)
      BY <3>3, IdsOfList
    <3> QED BY <3>1, <3>4, Zenon DEF TheseIds
  <2>2. /\ \A x : x \in EntityIds(s.subscriptions) <=> \E i \in 1 .. N : x = suffix[i]
        /\ Cardinality(EntityIds(s.subscriptions)) = N
    <3>1. PICK T, list : s.subscriptions \in Seq(T) /\ list = s.subscriptions
      BY <1>1, WorldLists
    <3>2. Len(list) = N /\ \A n \in 1 .. N : list[n].id = suffix[n]
      BY <1>2, <1>3, <3>1
    <3>3. list \in Seq(T) /\ HasIds(list, N, suffix) /\ Distinct(N, suffix)
      BY <1>4, <3>1, <3>2, Zenon DEF HasIds, Distinct
    <3>4. TheseIds(list, N, suffix)
      BY <3>3, IdsOfList
    <3> QED BY <3>1, <3>4, Zenon DEF TheseIds
  <2>3. /\ \A x : x \in EntityIds(s.messages) <=> \E i \in 1 .. N : x = suffix[i]
        /\ Cardinality(EntityIds(s.messages)) = N
    <3>1. PICK T, list : s.messages \in Seq(T) /\ list = s.messages
      BY <1>1, WorldLists
    <3>2. Len(list) = N /\ \A n \in 1 .. N : list[n].id = suffix[n]
      BY <1>2, <1>3, <3>1
    <3>3. list \in Seq(T) /\ HasIds(list, N, suffix) /\ Distinct(N, suffix)
      BY <1>4, <3>1, <3>2, Zenon DEF HasIds, Distinct
    <3>4. TheseIds(list, N, suffix)
      BY <3>3, IdsOfList
    <3> QED BY <3>1, <3>4, Zenon DEF TheseIds
  <2>4. /\ \A x : x \in EntityIds(s.failures) <=> \E i \in 1 .. N : x = suffix[i]
        /\ Cardinality(EntityIds(s.failures)) = N
    <3>1. PICK T, list : s.failures \in Seq(T) /\ list = s.failures
      BY <1>1, WorldLists
    <3>2. Len(list) = N /\ \A n \in 1 .. N : list[n].id = suffix[n]
      BY <1>2, <1>3, <3>1
    <3>3. list \in Seq(T) /\ HasIds(list, N, suffix) /\ Distinct(N, suffix)
      BY <1>4, <3>1, <3>2, Zenon DEF HasIds, Distinct
    <3>4. TheseIds(list, N, suffix)
      BY <3>3, IdsOfList
    <3> QED BY <3>1, <3>4, Zenon DEF TheseIds
  <2>5. /\ \A x : x \in EntityIds(s.issues) <=> \E i \in 1 .. N : x = number[i]
        /\ Cardinality(EntityIds(s.issues)) = N
    <3>1. PICK T, list : s.issues \in Seq(T) /\ list = s.issues
      BY <1>1, WorldLists
    <3>2. Len(list) = N /\ \A n \in 1 .. N : list[n].id = number[n]
      BY <1>2, <1>3, <3>1
    <3>3. list \in Seq(T) /\ HasIds(list, N, number) /\ Distinct(N, number)
      BY <1>4, <3>1, <3>2, Zenon DEF HasIds, Distinct
    <3>4. TheseIds(list, N, number)
      BY <3>3, IdsOfList
    <3> QED BY <3>1, <3>4, Zenon DEF TheseIds
  <2> QED BY <2>1, <2>2, <2>3, <2>4, <2>5
<1>8. /\ \A e : e \in Range(s.customers) <=> \E n \in 1 .. N : e = s.customers[n]
      /\ \A e : e \in Range(s.subscriptions) <=> \E n \in 1 .. N : e = s.subscriptions[n]
      /\ \A e : e \in Range(s.issues) <=> \E n \in 1 .. N : e = s.issues[n]
      /\ \A e : e \in Range(s.messages) <=> \E n \in 1 .. N : e = s.messages[n]
      /\ \A e : e \in Range(s.failures) <=> \E n \in 1 .. N : e = s.failures[n]
      /\ \A e : e \in Range(s.receipts) <=> \E n \in 1 .. N : e = s.receipts[n]
  <2>1. ASSUME NEW T, NEW list \in Seq(T), Len(list) = N
        PROVE  \A e : e \in Range(list) <=> \E n \in 1 .. N : e = list[n]
    BY <2>1, InList
  <2>2. Len(s.receipts) = N
    BY DEF N
  <2>3. \A e : e \in Range(s.customers) <=> \E n \in 1 .. N : e = s.customers[n]
    <3>1. PICK T, list : list \in Seq(T) /\ list = s.customers /\ Len(list) = N
      BY <1>1, <1>2, <2>2, WorldLists
    <3> QED BY <2>1, <3>1
  <2>4. \A e : e \in Range(s.subscriptions) <=> \E n \in 1 .. N : e = s.subscriptions[n]
    <3>1. PICK T, list : list \in Seq(T) /\ list = s.subscriptions /\ Len(list) = N
      BY <1>1, <1>2, <2>2, WorldLists
    <3> QED BY <2>1, <3>1
  <2>5. \A e : e \in Range(s.issues) <=> \E n \in 1 .. N : e = s.issues[n]
    <3>1. PICK T, list : list \in Seq(T) /\ list = s.issues /\ Len(list) = N
      BY <1>1, <1>2, <2>2, WorldLists
    <3> QED BY <2>1, <3>1
  <2>6. \A e : e \in Range(s.messages) <=> \E n \in 1 .. N : e = s.messages[n]
    <3>1. PICK T, list : list \in Seq(T) /\ list = s.messages /\ Len(list) = N
      BY <1>1, <1>2, <2>2, WorldLists
    <3> QED BY <2>1, <3>1
  <2>7. \A e : e \in Range(s.failures) <=> \E n \in 1 .. N : e = s.failures[n]
    <3>1. PICK T, list : list \in Seq(T) /\ list = s.failures /\ Len(list) = N
      BY <1>1, <1>2, <2>2, WorldLists
    <3> QED BY <2>1, <3>1
  <2>8. \A e : e \in Range(s.receipts) <=> \E n \in 1 .. N : e = s.receipts[n]
    <3>1. PICK T, list : list \in Seq(T) /\ list = s.receipts /\ Len(list) = N
      BY <1>1, <1>2, <2>2, WorldLists
    <3> QED BY <2>1, <3>1
  <2> QED BY <2>3, <2>4, <2>5, <2>6, <2>7, <2>8
<1>9. normalizeCustomers(s, identity) /\ normalizeSubscriptions(s, identity)
    BY <1>3, <1>7, <1>8 DEF normalizeCustomers, normalizeSubscriptions
<1>10. /\ normalizeIssues(s, identity) /\ normalizeMessages(s, identity)
       /\ normalizeFailures(s, identity)
    BY <1>3, <1>7, <1>8 DEF normalizeIssues, normalizeMessages, normalizeFailures
<1>11. normalizeReceipts(s)
  <2>1. \A r \in Range(s.receipts) :
            /\ r.suffix \in EntityIds(s.customers) \cap EntityIds(s.subscriptions)
                                \cap EntityIds(s.messages) \cap EntityIds(s.failures)
            /\ r.issueNumber \in EntityIds(s.issues)
    BY <1>3, <1>7, <1>8
  <2>2. \A r \in Range(s.receipts) : r.completedAt >= initialState.clockAt
    BY <1>5, <1>8 DEF initialState
  <2> QED BY <1>6, <2>1, <2>2 DEF normalizeReceipts, N
<1>12. \A list \in EntityLists : Len(s[list]) = N /\ Cardinality(EntityIds(s[list])) = Len(s[list])
    BY <1>2, <1>7 DEF EntityLists
<1>13. \A r \in Range(s.receipts) :
        /\ \E b \in Range(s.subscriptions) : b.id = r.suffix /\ b.customer = r.suffix
        /\ \E i \in Range(s.issues) : i.id = r.issueNumber /\ i.subscription = r.suffix
        /\ \E e \in Range(s.messages) : e.id = r.suffix /\ e.subscription = r.suffix
        /\ \E e \in Range(s.failures) : e.id = r.suffix /\ e.subscription = r.suffix
    BY <1>3, <1>8
<1>14. s.clockAt >= initialState.clockAt
    BY <1>1, WorldLists DEF initialState
<1> QED BY <1>1, <1>9, <1>10, <1>11, <1>12, <1>13, <1>14 DEF normalizeState, EntityLists, N

\* A list and its new last entry.
LEMMA Appended ==
    ASSUME NEW T, NEW list \in Seq(T), NEW e \in T
    PROVE  /\ Append(list, e) \in Seq(T) /\ Len(Append(list, e)) = Len(list) + 1
           /\ Append(list, e)[Len(list) + 1] = e
           /\ \A n \in 1 .. Len(list) : Append(list, e)[n] = list[n]
OBVIOUS

\* The workflow of an action that the world has not performed keeps it regular.
LEMMA WorkflowIsRegular ==
    ASSUME NEW w, Regular(w.state, w.identity), NEW id \in ActionId, id \notin ActionIds(w.state),
           Len(w.state.receipts) < MaxReceipts
    PROVE  Regular(Workflow(w, id), w.identity)
<1>1. PICK s, identity, N : s = w.state /\ identity = w.identity /\ N = Len(s.receipts)
    OBVIOUS
<1>2. /\ s \in WorldState /\ identity \in World /\ N < MaxReceipts /\ N \in Nat
      /\ Len(s.customers) = N /\ Len(s.subscriptions) = N /\ Len(s.issues) = N
      /\ Len(s.messages) = N /\ Len(s.failures) = N
    BY <1>1, WorldLists DEF Regular
<1>3. PICK suffix, t : suffix = <<identity, id>> /\ t = Workflow(w, id)
    OBVIOUS
<1>4. PICK customer, subscription, issue, message, failure, receipt :
        /\ customer = [id |-> suffix, owner |-> identity]
        /\ subscription = [id |-> suffix, owner |-> identity, customer |-> suffix]
        /\ message = [id |-> suffix, owner |-> identity, subscription |-> suffix]
        /\ failure = message
        /\ issue = [id |-> N + 1, owner |-> identity, subscription |-> suffix]
        /\ receipt = [actionId |-> id, suffix |-> suffix, issueNumber |-> N + 1,
                      completedAt |-> s.clockAt + 1]
    OBVIOUS
<1>5. suffix \in Suffix
    BY <1>2, <1>3 DEF Suffix
<1>6. /\ customer \in [id : Suffix, owner : World]
      /\ subscription \in [id : Suffix, owner : World, customer : Suffix]
      /\ message \in Related(Suffix) /\ failure \in Related(Suffix) /\ issue \in Related(Nat)
      /\ receipt \in [actionId : ActionId, suffix : Suffix, issueNumber : Nat, completedAt : Nat]
    BY <1>2, <1>4, <1>5, WorldLists DEF Related
<1>7. t = [clockAt |-> s.clockAt + 1, customers |-> Append(s.customers, customer),
           subscriptions |-> Append(s.subscriptions, subscription),
           issues |-> Append(s.issues, issue), messages |-> Append(s.messages, message),
           failures |-> Append(s.failures, failure), receipts |-> Append(s.receipts, receipt)]
  <2>1. issue = [message EXCEPT !.id = N + 1] /\ N = Len(w.state.issues)
    BY <1>1, <1>2, <1>4
  <2> QED BY <1>1, <1>3, <1>4, <2>1 DEF Workflow, IssueNumber
<1>8. /\ t.customers = Append(s.customers, customer)
      /\ t.subscriptions = Append(s.subscriptions, subscription)
      /\ t.issues = Append(s.issues, issue) /\ t.messages = Append(s.messages, message)
      /\ t.failures = Append(s.failures, failure) /\ t.receipts = Append(s.receipts, receipt)
    BY <1>7
<1>9. /\ t.customers \in Seq([id : Suffix, owner : World]) /\ Len(t.customers) = N + 1
      /\ t.customers[N + 1] = customer /\ \A n \in 1 .. N : t.customers[n] = s.customers[n]
  <2>1. PICK T, list : list = s.customers /\ list \in Seq(T) /\ customer \in T /\ Len(list) = N
                        /\ T = [id : Suffix, owner : World]
    BY <1>1, <1>2, <1>6, WorldLists
  <2> QED BY <1>8, <2>1, Appended
<1>10. /\ t.subscriptions \in Seq([id : Suffix, owner : World, customer : Suffix])
       /\ Len(t.subscriptions) = N + 1 /\ t.subscriptions[N + 1] = subscription
       /\ \A n \in 1 .. N : t.subscriptions[n] = s.subscriptions[n]
  <2>1. PICK T, list : list = s.subscriptions /\ list \in Seq(T) /\ subscription \in T /\ Len(list) = N
                        /\ T = [id : Suffix, owner : World, customer : Suffix]
    BY <1>1, <1>2, <1>6, WorldLists
  <2> QED BY <1>8, <2>1, Appended
<1>11. /\ t.issues \in Seq(Related(Nat)) /\ Len(t.issues) = N + 1 /\ t.issues[N + 1] = issue
       /\ \A n \in 1 .. N : t.issues[n] = s.issues[n]
  <2>1. PICK T, list : list = s.issues /\ list \in Seq(T) /\ issue \in T /\ Len(list) = N
                        /\ T = Related(Nat)
    BY <1>1, <1>2, <1>6, WorldLists
  <2> QED BY <1>8, <2>1, Appended
<1>12. /\ t.messages \in Seq(Related(Suffix)) /\ Len(t.messages) = N + 1
       /\ t.messages[N + 1] = message /\ \A n \in 1 .. N : t.messages[n] = s.messages[n]
  <2>1. PICK T, list : list = s.messages /\ list \in Seq(T) /\ message \in T /\ Len(list) = N
                        /\ T = Related(Suffix)
    BY <1>1, <1>2, <1>6, WorldLists
  <2> QED BY <1>8, <2>1, Appended
<1>13. /\ t.failures \in Seq(Related(Suffix)) /\ Len(t.failures) = N + 1
       /\ t.failures[N + 1] = failure /\ \A n \in 1 .. N : t.failures[n] = s.failures[n]
  <2>1. PICK T, list : list = s.failures /\ list \in Seq(T) /\ failure \in T /\ Len(list) = N
                        /\ T = Related(Suffix)
    BY <1>1, <1>2, <1>6, WorldLists
  <2> QED BY <1>8, <2>1, Appended
<1>14. /\ t.receipts \in Seq([actionId : ActionId, suffix : Suffix, issueNumber : Nat,
                              completedAt : Nat])
       /\ Len(t.receipts) = N + 1 /\ t.receipts[N + 1] = receipt
       /\ \A n \in 1 .. N : t.receipts[n] = s.receipts[n]
  <2>1. PICK T, list : list = s.receipts /\ list \in Seq(T) /\ receipt \in T /\ Len(list) = N
                        /\ T = [actionId : ActionId, suffix : Suffix, issueNumber : Nat,
                                 completedAt : Nat]
    BY <1>1, <1>2, <1>6, WorldLists
  <2>2. PICK q : q = Append(list, receipt)
    OBVIOUS
  <2>3. q \in Seq(T) /\ Len(q) = N + 1 /\ q[N + 1] = receipt /\ \A n \in 1 .. N : q[n] = list[n]
    BY <2>1, <2>2, Appended
  <2>4. t.receipts = q
    BY <1>8, <2>1, <2>2
  <2> QED BY <2>1, <2>3, <2>4, Zenon
<1>15. t \in WorldState
  <2>1. s.clockAt + 1 \in Nat
    BY <1>2, WorldLists
  <2> QED BY <1>7, <1>8, <1>9, <1>10, <1>11, <1>12, <1>13, <1>14, <2>1 DEF WorldState
<1>16. \A n \in 1 .. N + 1 : Added(t, identity, n)
  <2> TAKE n \in 1 .. N + 1
  <2>1. CASE n \in 1 .. N
    <3>1. Added(s, identity, n)
      BY <1>1, <2>1 DEF Regular
    <3> QED BY <1>9, <1>10, <1>11, <1>12, <1>13, <1>14, <2>1, <3>1 DEF Added
  <2>2. CASE n = N + 1
    <3>1. /\ receipt.actionId = id /\ receipt.suffix = suffix /\ receipt.issueNumber = N + 1
          /\ customer.id = suffix /\ customer.owner = identity
          /\ subscription.id = suffix /\ subscription.owner = identity
          /\ subscription.customer = suffix
          /\ issue.id = N + 1 /\ issue.owner = identity /\ issue.subscription = suffix
          /\ message.id = suffix /\ message.owner = identity /\ message.subscription = suffix
          /\ failure = message
      BY <1>4
    <3> QED BY <1>3, <1>9, <1>10, <1>11, <1>12, <1>13, <1>14, <2>2, <3>1 DEF Added
  <2> QED BY <1>2, <2>1, <2>2
<1>17. \A m, n \in 1 .. N + 1 : t.receipts[m].actionId = t.receipts[n].actionId => m = n
  <2>1. \A n \in 1 .. N : s.receipts[n].actionId # id
    <3>1. DOMAIN s.receipts = 1 .. N
      BY <1>1, <1>2, WorldLists
    <3> QED BY <1>1, <3>1 DEF ActionIds
  <2>2. \A m, n \in 1 .. N : s.receipts[m].actionId = s.receipts[n].actionId => m = n
    BY <1>1 DEF Regular
  <2>3. receipt.actionId = id /\ \A n \in 1 .. N + 1 : n \in 1 .. N \/ n = N + 1
    BY <1>2, <1>4
  <2> QED BY <1>14, <2>1, <2>2, <2>3
<1>18. N + 1 <= MaxReceipts
    BY <1>2, WorldAssumption
<1>19. Regular(t, identity)
    BY <1>2, <1>9, <1>10, <1>11, <1>12, <1>13, <1>14, <1>15, <1>16, <1>17, <1>18 DEF Regular
<1> QED BY <1>1, <1>3, <1>19

\* Every world is regular, and so is what a fork or a workflow is about to write; a
\* caller that holds no state to write holds no lock.
WorldsInv ==
    /\ world \in [World -> WorldRecord \cup {None}]
    /\ worldLock \in [World -> Caller \cup {None}] /\ DOMAIN next = Caller
    /\ fork # None => /\ fork \in [target : World, identity : World, state : WorldState]
                      /\ Regular(fork.state, fork.identity)
    /\ \A v \in World : Exists(v) =>
        Regular(world[v].baseline, world[v].identity) /\ Regular(world[v].state, world[v].identity)
    /\ \A v \in World : worldLock[v] # None =>
        Exists(v) /\ Regular(next[worldLock[v]], world[v].identity)

\* A new world is regular: nothing has been added to it.
LEMMA EmptyIsRegular ==
    ASSUME NEW v \in World
    PROVE  Regular(initialState, v)
<1>1. initialState \in WorldState
    BY DEF initialState, WorldState
<1> QED BY <1>1, WorldAssumption DEF Regular, initialState

\* A step that writes one world, or none, whoever holds its lock.
LEMMA WorldWritten ==
    ASSUME WorldsInv, NEW v \in World, NEW new \in WorldRecord,
           Regular(new.baseline, new.identity), Regular(new.state, new.identity),
           Exists(v) => world[v].identity = new.identity,
           world' = [world EXCEPT ![v] = new], UNCHANGED <<worldLock, next>>,
           fork' = fork \/ fork' = None
    PROVE  WorldsInv'
<1>1. /\ world' \in [World -> WorldRecord \cup {None}] /\ world'[v] = new /\ new # None
      /\ \A u \in World : u # v => world'[u] = world[u]
    BY WorldAssumption DEF WorldsInv
<1>2. fork' # None => /\ fork' \in [target : World, identity : World, state : WorldState]
                      /\ Regular(fork'.state, fork'.identity)
    BY DEF WorldsInv
<1>3. \A u \in World : world'[u] # None =>
        /\ Regular(world'[u].baseline, world'[u].identity)
        /\ Regular(world'[u].state, world'[u].identity)
    BY <1>1 DEF WorldsInv, Exists
<1>4. \A u \in World : worldLock'[u] # None =>
        world'[u] # None /\ Regular(next'[worldLock'[u]], world'[u].identity)
    BY <1>1 DEF WorldsInv, Exists
<1> QED BY <1>1, <1>2, <1>3, <1>4 DEF WorldsInv, Exists

\* No world exists at first.
LEMMA WorldsInit == InitWorld => WorldsInv
BY WorldAssumption DEF InitWorld, WorldsInv, Exists

\* Operators create, reset and fork worlds.
LEMMA OperatorKeepsWorlds ==
    ASSUME WorldsInv, WorldOperatorStep
    PROVE  WorldsInv'
<1>1. ASSUME NEW v \in World, CreateWorld(v) PROVE WorldsInv'
  <2>1. PICK new : new = [identity |-> v, baseline |-> initialState, state |-> initialState]
    OBVIOUS
  <2>2. /\ world' = [world EXCEPT ![v] = new] /\ UNCHANGED <<worldLock, next, fork>> /\ ~Exists(v)
        /\ worldLock[v] = None
    BY <1>1, <2>1 DEF CreateWorld
  <2>3. initialState \in WorldState /\ Regular(initialState, v)
    BY EmptyIsRegular DEF Regular
  <2>4. /\ new \in WorldRecord /\ new.baseline = initialState /\ new.state = initialState
        /\ new.identity = v
    BY <2>1, <2>3 DEF WorldRecord
  <2> QED BY <2>2, <2>3, <2>4, WorldWritten
<1>2. ASSUME NEW v \in World, ResetWorld(v) PROVE WorldsInv'
  <2>1. PICK new : new = [world[v] EXCEPT !.state = world[v].baseline]
    OBVIOUS
  <2>2. /\ world' = [world EXCEPT ![v] = new] /\ UNCHANGED <<worldLock, next, fork>> /\ Exists(v)
        /\ worldLock[v] = None
    BY <1>2, <2>1 DEF ResetWorld, Readable
  <2>3. /\ world[v] \in WorldRecord
        /\ Regular(world[v].baseline, world[v].identity)
    BY <2>2 DEF WorldsInv, Exists
  <2>4. /\ new \in WorldRecord /\ new.baseline = world[v].baseline /\ new.state = world[v].baseline
        /\ new.identity = world[v].identity
    BY <2>1, <2>3 DEF WorldRecord
  <2> QED BY <2>2, <2>3, <2>4, WorldWritten
<1>3. ASSUME NEW v \in World, NEW u \in World, ReadForFork(v, u) PROVE WorldsInv'
  <2>1. PICK new : new = [target |-> u, identity |-> world[v].identity, state |-> world[v].state]
    OBVIOUS
  <2>2. Exists(v) /\ fork' = new /\ UNCHANGED <<world, worldLock, next>>
    BY <1>3, <2>1 DEF ReadForFork, Readable
  <2>3. world[v] \in WorldRecord /\ Regular(world[v].state, world[v].identity)
    BY <2>2 DEF WorldsInv, Exists
  <2>4. /\ new \in [target : World, identity : World, state : WorldState]
        /\ new.state = world[v].state /\ new.identity = world[v].identity
    BY <2>1, <2>3 DEF WorldRecord
  <2> QED BY <2>2, <2>3, <2>4 DEF WorldsInv, Exists
<1>4. ASSUME WriteFork PROVE WorldsInv'
  <2>1. fork # None /\ fork' = None /\ UNCHANGED <<worldLock, next>>
    BY <1>4 DEF WriteFork
  <2>2. CASE world' = world
    BY <2>1, <2>2 DEF WorldsInv, Exists
  <2>3. CASE /\ ~Exists(fork.target) /\ worldLock[fork.target] = None
             /\ world' = [world EXCEPT ![fork.target] =
                    [identity |-> fork.identity, baseline |-> fork.state, state |-> fork.state]]
    <3>1. PICK v, new : /\ v = fork.target
                        /\ new = [identity |-> fork.identity, baseline |-> fork.state,
                                  state |-> fork.state]
      OBVIOUS
    <3>2. /\ v \in World /\ new \in WorldRecord /\ Regular(fork.state, fork.identity)
          /\ new.identity = fork.identity /\ new.baseline = fork.state /\ new.state = fork.state
      BY <2>1, <3>1 DEF WorldsInv, WorldRecord
    <3> QED BY <2>1, <2>3, <3>1, <3>2, WorldWritten
  <2> QED BY <1>4, <2>2, <2>3 DEF WriteFork
<1> QED BY <1>1, <1>2, <1>3, <1>4 DEF WorldOperatorStep

\* A workflow reads its world under the lock, and what it computes is regular.
LEMMA BeginKeepsWorlds ==
    ASSUME WorldsInv, NEW w \in Caller, next[w] = None, NEW v \in World, NEW id \in ActionId,
           BeginWorkflow(w, v, id)
    PROVE  WorldsInv'
<1>1. Exists(v) /\ worldLock' = [worldLock EXCEPT ![v] = w] /\ UNCHANGED <<world, fork>>
    BY DEF BeginWorkflow, Readable
<1>2. world[v] \in WorldRecord /\ Regular(world[v].state, world[v].identity)
    BY <1>1 DEF WorldsInv, Exists
<1>3. PICK s : next' = [next EXCEPT ![w] = s] /\ Regular(s, world[v].identity)
  <2>1. CASE next' = [next EXCEPT ![w] = world[v].state]
    BY <1>2, <2>1
  <2>2. CASE /\ ~Performed(v, id) /\ Len(world[v].state.receipts) < MaxReceipts
             /\ next' = [next EXCEPT ![w] = Workflow(world[v], id)]
    <3>1. PICK old : old = world[v]
      OBVIOUS
    <3>2. id \notin ActionIds(old.state)
      BY <1>1, <2>2, <3>1 DEF Performed
    <3>3. Regular(Workflow(old, id), old.identity)
      BY <1>2, <2>2, <3>1, <3>2, WorkflowIsRegular
    <3> QED BY <2>2, <3>1, <3>3
  <2> QED BY <2>1, <2>2, Zenon DEF BeginWorkflow
<1>4. \A u \in World : worldLock[u] # w
    BY WorldAssumption DEF WorldsInv, Regular
<1>5. /\ worldLock' \in [World -> Caller \cup {None}] /\ worldLock'[v] = w
      /\ \A u \in World : u # v => worldLock'[u] = worldLock[u]
    BY <1>1 DEF WorldsInv
<1>6. DOMAIN next' = Caller /\ next'[w] = s /\ \A x \in Caller : x # w => next'[x] = next[x]
    BY <1>3 DEF WorldsInv
<1>7. \A u \in World : worldLock'[u] # None =>
        world'[u] # None /\ Regular(next'[worldLock'[u]], world'[u].identity)
  <2> TAKE u \in World
  <2>1. CASE u = v
    BY <1>1, <1>3, <1>5, <1>6, <2>1 DEF Exists
  <2>2. CASE u # v
    <3>1. worldLock'[u] = worldLock[u] /\ worldLock[u] # w /\ worldLock[u] \in Caller \cup {None}
      BY <1>4, <1>5, <2>2 DEF WorldsInv
    <3> QED BY <1>1, <1>6, <3>1 DEF WorldsInv, Exists
  <2> QED BY <2>1, <2>2
<1> QED BY <1>1, <1>5, <1>6, <1>7 DEF WorldsInv, Exists

\* It writes that world, whose identity nobody has changed, ...
LEMMA WriteKeepsWorlds ==
    ASSUME WorldsInv, NEW w \in Caller, NEW v \in World, WriteWorld(w, v)
    PROVE  WorldsInv'
<1>1. PICK new : new = [world[v] EXCEPT !.state = next[w]]
    OBVIOUS
<1>2. /\ worldLock[v] = w /\ world' = [world EXCEPT ![v] = new] /\ UNCHANGED <<worldLock, next, fork>>
    BY <1>1 DEF WriteWorld
<1>3. /\ world[v] \in WorldRecord /\ Regular(next[w], world[v].identity)
      /\ Regular(world[v].baseline, world[v].identity)
    BY <1>2, WorldAssumption DEF WorldsInv, Exists
<1>4. /\ new \in WorldRecord /\ new.identity = world[v].identity
      /\ new.baseline = world[v].baseline /\ new.state = next[w]
    BY <1>1, <1>3 DEF WorldRecord, Regular
<1> QED BY <1>2, <1>3, <1>4, WorldWritten

\* ... and gives up its locks with what it held.
LEMMA UnlockKeepsWorlds ==
    ASSUME WorldsInv, NEW w \in Caller, UnlockWorlds(w)
    PROVE  WorldsInv'
<1>1. /\ worldLock' = [v \in World |-> IF worldLock[v] = w THEN None ELSE worldLock[v]]
      /\ next' = [next EXCEPT ![w] = None] /\ UNCHANGED <<world, fork>>
    BY DEF UnlockWorlds
<1>2. /\ worldLock' \in [World -> Caller \cup {None}]
      /\ \A v \in World : worldLock'[v] # None =>
            worldLock'[v] = worldLock[v] /\ worldLock[v] # w /\ worldLock[v] \in Caller
    BY <1>1 DEF WorldsInv
<1>3. DOMAIN next' = Caller /\ \A x \in Caller : x # w => next'[x] = next[x]
    BY <1>1 DEF WorldsInv
<1>4. \A u \in World : worldLock'[u] # None =>
        world'[u] # None /\ Regular(next'[worldLock'[u]], world'[u].identity)
    BY <1>1, <1>2, <1>3 DEF WorldsInv, Exists
<1> QED BY <1>1, <1>2, <1>3, <1>4 DEF WorldsInv, Exists

\* Every step keeps the worlds regular.
LEMMA WorldsStep == WorldsInv /\ [WorldNext]_worldVars => WorldsInv'
<1> SUFFICES ASSUME WorldsInv, [WorldNext]_worldVars PROVE WorldsInv'
    OBVIOUS
<1>1. CASE WorldOperatorStep
    BY <1>1, OperatorKeepsWorlds
<1>2. ASSUME NEW w \in Caller, RunWorkflow(w) PROVE WorldsInv'
    BY <1>2, BeginKeepsWorlds, WriteKeepsWorlds, UnlockKeepsWorlds DEF RunWorkflow
<1>3. CASE UNCHANGED worldVars
    BY <1>3 DEF worldVars, WorldsInv, Exists
<1> QED BY <1>1, <1>2, <1>3 DEF WorldNext

\* A regular world passes its validation and takes every action it has room for.
LEMMA RegularIsUsable == WorldsInv => WorldsStayUsable
<1> SUFFICES ASSUME WorldsInv, NEW v \in World, Exists(v)
             PROVE  /\ validateSyntheticWorld(world[v])
                    /\ \A id \in ActionId :
                        ~Performed(v, id) /\ Len(world[v].state.receipts) < MaxReceipts
                            => normalizeState(Workflow(world[v], id), world[v].identity)
    BY Zenon DEF WorldsStayUsable
<1>1. PICK w : w = world[v]
    OBVIOUS
<1>2. Regular(w.baseline, w.identity) /\ Regular(w.state, w.identity)
    BY <1>1 DEF WorldsInv
<1>3. validateSyntheticWorld(w)
    BY <1>2, RegularIsNormal DEF validateSyntheticWorld
<1>4. ASSUME NEW id \in ActionId, id \notin ActionIds(w.state), Len(w.state.receipts) < MaxReceipts
      PROVE  normalizeState(Workflow(w, id), w.identity)
    BY <1>2, <1>4, WorkflowIsRegular, RegularIsNormal
<1> QED BY <1>1, <1>3, <1>4 DEF Performed

\* However many worlds, actions and callers there are, and however workflows, resets and
\* forks interleave: runSubscriptionFailureWorkflow never writes a world that the next
\* read refuses, and never computes one that its own validation refuses.
THEOREM WorldsAlwaysUsable == WorldSpec => []WorldsStayUsable
BY WorldsInit, WorldsStep, RegularIsUsable, PTL DEF WorldSpec

-----------------------------------------------------------------------------
(***************************************************************************)
(* The tenants of the hosted service and their requests                    *)
(***************************************************************************)
\* The tables and the requests keep their keys and fields.
Shape ==
    /\ \A q \in Request : {"locked", "saw"} \subseteq DOMAIN txn[q]
    /\ \A i \in Invitation : "state" \in DOMAIN invitation[i]
    /\ DOMAIN txn = Request /\ DOMAIN creator = Organization /\ DOMAIN invitation = Invitation
    /\ DOMAIN member = Organization /\ \A o \in Organization : DOMAIN member[o] = User

\* Open invitations and transactions are about organizations that exist.
Belong ==
    /\ \A i \in Invitation : invitation[i].state = "open" =>
        invitation[i].organization \in Organization /\ creator[invitation[i].organization] # NoOne
    /\ \A q \in Request : txn[q].op # "none" =>
        txn[q].organization \in Organization /\ creator[txn[q].organization] # NoOne

\* A transaction of withAuthorizedMutation() holds the lock and has the role; who holds
\* the lock of an organization holds it alone and has read the present members.
Locks ==
    \A q \in Request :
        /\ txn[q].op \in DOMAIN Minimum =>
            /\ txn[q].locked
            /\ txn[q].role = txn[q].saw[txn[q].user]
            /\ roleAtLeast(txn[q].role, Minimum[txn[q].op])
        /\ txn[q].locked =>
            /\ txn[q].op # "none" /\ txn[q].saw = member[txn[q].organization]
            /\ \A p \in Request : txn[p].locked /\ txn[p].organization = txn[q].organization => p = q

\* The inductive invariant of the locks.
TenancyInv == Shape /\ Belong /\ Locks

\* Which operations go through withAuthorizedMutation().
LEMMA Operations ==
    DOMAIN Minimum = {"member", "remove", "invite", "project", "scenario", "createKey",
                      "rotateKey", "revokeKey"}
BY DEF Minimum

\* Between transactions a request has neither an operation nor a lock.
LEMMA NoTxnFields ==
    /\ NoTxn.op = "none" /\ NoTxn.locked = FALSE /\ NoTxn.op \notin DOMAIN Minimum
    /\ {"locked", "saw"} \subseteq DOMAIN NoTxn
BY Operations DEF NoTxn

\* What a request remembers once Begin() has the lock and the role.
LEMMA BegunFields ==
    ASSUME NEW u, NEW o, NEW op, NEW at, NEW role, NEW saw, NEW counted
    PROVE  LET t == [NoTxn EXCEPT !.op = op, !.user = u, !.organization = o, !.at = at,
                        !.role = role, !.locked = TRUE, !.saw = saw, !.counted = counted]
           IN  /\ t.op = op /\ t.user = u /\ t.organization = o /\ t.role = role
               /\ t.at = at /\ t.counted = counted
               /\ t.locked = TRUE /\ t.saw = saw /\ {"locked", "saw"} \subseteq DOMAIN t
<1> DEFINE t == [NoTxn EXCEPT !.op = op, !.user = u, !.organization = o, !.at = at,
                    !.role = role, !.locked = TRUE, !.saw = saw, !.counted = counted]
<1>1. DOMAIN NoTxn = {"op", "user", "organization", "at", "role", "locked", "invitation", "saw",
                      "counted"}
    BY DEF NoTxn
<1>2. {"locked", "saw"} \subseteq DOMAIN t
    BY <1>1
<1>3. t.op = op /\ t.user = u /\ t.organization = o /\ t.role = role /\ t.at = at
    BY <1>1
<1>4. t.counted = counted /\ t.locked = TRUE /\ t.saw = saw
    BY <1>1
<1> QED BY <1>1, <1>2, <1>3, <1>4

\* The invariant is true when nothing has been asked for.
LEMMA TenancyInitInv == TenancyInit => TenancyInv
BY NoTxnFields DEF TenancyInit, TenancyInv, Shape, Belong, Locks, NoInvitation

\* Steps that leave members, creators and transactions alone, and open no invitation.
LEMMA QuietStep ==
    ASSUME TenancyInv, UNCHANGED <<txn, member, creator>>,
           DOMAIN invitation' = Invitation,
           \A i \in Invitation : "state" \in DOMAIN invitation'[i],
           \A i \in Invitation : invitation'[i].state = "open" => invitation'[i] = invitation[i]
    PROVE  TenancyInv'
BY DEF TenancyInv, Shape, Belong, Locks

\* A commit or an abort that leaves the members alone.
LEMMA CommitStep ==
    ASSUME TenancyInv, NEW q \in Request, txn' = [txn EXCEPT ![q] = NoTxn],
           UNCHANGED <<member, creator>>,
           DOMAIN invitation' = Invitation,
           \A i \in Invitation : "state" \in DOMAIN invitation'[i],
           \A i \in Invitation : invitation'[i].state = "open" =>
                \/ invitation'[i] = invitation[i]
                \/ invitation'[i].organization \in Organization
                        /\ creator[invitation'[i].organization] # NoOne
    PROVE  TenancyInv'
<1>1. Shape'
    BY NoTxnFields DEF TenancyInv, Shape
<1>2. Belong'
    BY NoTxnFields DEF TenancyInv, Shape, Belong
<1>3. Locks'
    BY NoTxnFields DEF TenancyInv, Shape, Locks
<1> QED BY <1>1, <1>2, <1>3 DEF TenancyInv

\* A commit that changes the members of the organization that its request has locked.
LEMMA MembersStep ==
    ASSUME TenancyInv, NEW q \in Request, txn[q].locked, NEW roles, DOMAIN roles = User,
           txn' = [txn EXCEPT ![q] = NoTxn],
           member' = [member EXCEPT ![txn[q].organization] = roles],
           creator' = creator,
           DOMAIN invitation' = Invitation,
           \A i \in Invitation : "state" \in DOMAIN invitation'[i],
           \A i \in Invitation : invitation'[i].state = "open" => invitation'[i] = invitation[i]
    PROVE  TenancyInv'
<1>1. Shape'
    BY NoTxnFields DEF TenancyInv, Shape
<1>2. Belong'
    BY NoTxnFields DEF TenancyInv, Shape, Belong
<1>3. Locks'
  <2> SUFFICES ASSUME NEW r \in Request
               PROVE  /\ txn'[r].op \in DOMAIN Minimum =>
                            /\ txn'[r].locked
                            /\ txn'[r].role = txn'[r].saw[txn'[r].user]
                            /\ roleAtLeast(txn'[r].role, Minimum[txn'[r].op])
                      /\ txn'[r].locked =>
                            /\ txn'[r].op # "none"
                            /\ txn'[r].saw = member'[txn'[r].organization]
                            /\ \A p \in Request : txn'[p].locked
                                /\ txn'[p].organization = txn'[r].organization => p = r
      BY DEF Locks
  <2>1. CASE r = q
      BY <2>1, NoTxnFields DEF TenancyInv, Shape
  <2>2. CASE r # q
    <3>1. txn'[r] = txn[r]
        BY <2>2 DEF TenancyInv, Shape
    <3>2. txn[r].locked => txn[r].organization # txn[q].organization
        BY <2>2 DEF TenancyInv, Locks
    <3>3. txn[r].locked => member'[txn[r].organization] = member[txn[r].organization]
        BY <3>2 DEF TenancyInv, Shape, Belong, Locks
    <3>4. \A p \in Request : txn'[p].locked => txn'[p] = txn[p]
        BY NoTxnFields DEF TenancyInv, Shape
    <3> QED BY <3>1, <3>3, <3>4 DEF TenancyInv, Locks
  <2> QED BY <2>1, <2>2
<1> QED BY <1>1, <1>2, <1>3 DEF TenancyInv

\* withAuthorizedMutation() takes a lock that nobody holds and reads under it.
LEMMA BeginStep ==
    ASSUME TenancyInv, NEW q \in Request, NEW u \in User, NEW o \in Organization,
           NEW op \in DOMAIN Minimum, NEW at \in 0 .. now, Begin(q, u, o, op, at)
    PROVE  TenancyInv'
<1> DEFINE t == [NoTxn EXCEPT !.op = op, !.user = u, !.organization = o, !.at = at,
                    !.role = member[o][u], !.locked = TRUE, !.saw = member[o],
                    !.counted = Resources(op, o, at)]
<1>1. /\ t.op = op /\ t.user = u /\ t.organization = o /\ t.role = member[o][u]
      /\ t.locked = TRUE /\ t.saw = member[o] /\ {"locked", "saw"} \subseteq DOMAIN t
    BY BegunFields
<1>2. /\ txn' = [txn EXCEPT ![q] = t] /\ creator[o] # NoOne /\ LockFree(o)
      /\ roleAtLeast(member[o][u], Minimum[op]) /\ UNCHANGED <<creator, member, invitation>>
    BY DEF Begin, tenantVars
<1> HIDE DEF t
<1>3. txn'[q] = t /\ \A p \in Request : p # q => txn'[p] = txn[p]
    BY <1>2 DEF TenancyInv, Shape
<1>4. op # "none"
    BY Operations
<1>5. Shape'
    BY <1>1, <1>2, <1>3 DEF TenancyInv, Shape
<1>6. Belong'
    BY <1>1, <1>2, <1>3 DEF TenancyInv, Belong
<1>7. Locks'
    BY <1>1, <1>2, <1>3, <1>4 DEF TenancyInv, Locks, LockFree
<1> QED BY <1>5, <1>6, <1>7 DEF TenancyInv

\* acceptInvitation() locks the invitation, and is not authorised by a role.
LEMMA BeginAcceptStep ==
    ASSUME TenancyInv, NEW q \in Request, NEW u \in User, NEW i \in Invitation,
           NEW at \in 0 .. now, BeginAccept(q, u, i, at)
    PROVE  TenancyInv'
<1> DEFINE t == [NoTxn EXCEPT !.op = "accept", !.user = u, !.at = at,
                    !.organization = invitation[i].organization, !.invitation = invitation[i]]
<1>1. /\ t.op = "accept" /\ t.organization = invitation[i].organization /\ t.locked = FALSE
      /\ {"locked", "saw"} \subseteq DOMAIN t
    BY DEF NoTxn
<1>2. /\ txn' = [txn EXCEPT ![q] = t] /\ invitation[i].state = "open"
      /\ UNCHANGED <<creator, member, invitation>>
    BY DEF BeginAccept, tenantVars
<1> HIDE DEF t
<1>3. txn'[q] = t /\ \A p \in Request : p # q => txn'[p] = txn[p]
    BY <1>2 DEF TenancyInv, Shape
<1>4. "accept" \notin DOMAIN Minimum
    BY Operations
<1>5. Shape'
    BY <1>1, <1>2, <1>3 DEF TenancyInv, Shape
<1>6. Belong'
    BY <1>1, <1>2, <1>3 DEF TenancyInv, Belong
<1>7. Locks'
    BY <1>1, <1>2, <1>3, <1>4 DEF TenancyInv, Locks
<1> QED BY <1>5, <1>6, <1>7 DEF TenancyInv

\* ... and waits for the lock of the organization before it counts the members.
LEMMA LockToAcceptStep ==
    ASSUME TenancyInv, NEW q \in Request, LockToAccept(q)
    PROVE  TenancyInv'
<1> DEFINE o == txn[q].organization
           t == [txn[q] EXCEPT !.locked = TRUE, !.saw = member[o]]
<1>1. /\ txn' = [txn EXCEPT ![q] = t] /\ txn[q].op = "accept" /\ LockFree(o)
      /\ UNCHANGED <<creator, member, invitation>>
    BY DEF LockToAccept, Running, tenantVars
<1>2. txn'[q] = t /\ \A p \in Request : p # q => txn'[p] = txn[p]
    BY <1>1 DEF TenancyInv, Shape
<1>3. {"locked", "saw"} \subseteq DOMAIN txn[q]
    BY DEF TenancyInv, Shape
<1>4. /\ t.op = txn[q].op /\ t.organization = o /\ t.locked = TRUE /\ t.saw = member[o]
      /\ {"locked", "saw"} \subseteq DOMAIN t
    BY <1>3
<1> HIDE DEF t
<1>5. "accept" \notin DOMAIN Minimum
    BY Operations
<1>6. Shape'
    BY <1>1, <1>2, <1>4 DEF TenancyInv, Shape
<1>7. Belong'
    BY <1>1, <1>2, <1>4 DEF TenancyInv, Belong
<1>8. Locks'
    BY <1>1, <1>2, <1>4, <1>5 DEF TenancyInv, Locks, LockFree
<1> QED BY <1>6, <1>7, <1>8 DEF TenancyInv

\* createOrganization(): nobody has locked what does not exist yet.
LEMMA CreateOrganizationStep ==
    ASSUME TenancyInv, NEW u \in User, NEW o \in Organization, CreateOrganization(u, o)
    PROVE  TenancyInv'
<1>1. /\ creator[o] = NoOne /\ creator' = [creator EXCEPT ![o] = u] /\ u # NoOne
      /\ member' = [member EXCEPT ![o] = [member[o] EXCEPT ![u] = "owner"]]
      /\ UNCHANGED <<invitation, txn>>
    BY TenancyAssumption DEF CreateOrganization
<1>2. \A q \in Request : txn[q].op # "none" => txn[q].organization # o
    BY <1>1 DEF TenancyInv, Belong
<1>3. Shape'
    BY <1>1 DEF TenancyInv, Shape
<1>4. Belong'
    BY <1>1 DEF TenancyInv, Shape, Belong
<1>5. Locks'
    BY <1>1, <1>2 DEF TenancyInv, Shape, Locks, Belong
<1> QED BY <1>3, <1>4, <1>5 DEF TenancyInv

\* An operation that is under way holds the lock of its organization.
LEMMA RunningHolds ==
    ASSUME TenancyInv, NEW q \in Request, NEW op \in DOMAIN Minimum, Running(q, op)
    PROVE  txn[q].locked /\ txn[q].organization \in Organization
                /\ creator[txn[q].organization] # NoOne
BY Operations DEF TenancyInv, Locks, Belong, Running

\* An owner or admin gives a member another role, under the lock.
LEMMA ChangeRoleStep ==
    ASSUME TenancyInv, NEW q \in Request, NEW whom \in User, NEW role,
           ChangeRole(q, whom, role)
    PROVE  TenancyInv'
<1>1. txn[q].locked /\ txn[q].organization \in Organization
    BY RunningHolds, Operations DEF ChangeRole
<1> DEFINE o == txn[q].organization
           roles == [member[o] EXCEPT ![whom] = IF member[o][whom] = "none" THEN "none" ELSE role]
<1>2. DOMAIN roles = User
    BY <1>1 DEF TenancyInv, Shape
<1>3. /\ txn' = [txn EXCEPT ![q] = NoTxn] /\ member' = [member EXCEPT ![o] = roles]
      /\ UNCHANGED <<creator, invitation>>
    BY DEF ChangeRole, Commit
<1> QED BY <1>1, <1>2, <1>3, MembersStep DEF TenancyInv, Shape

\* An owner or admin removes a member, under the lock.
LEMMA RemoveMemberStep ==
    ASSUME TenancyInv, NEW q \in Request, NEW whom \in User, RemoveMember(q, whom)
    PROVE  TenancyInv'
<1>1. txn[q].locked /\ txn[q].organization \in Organization
    BY RunningHolds, Operations DEF RemoveMember
<1> DEFINE o == txn[q].organization
           roles == [member[o] EXCEPT ![whom] = "none"]
<1>2. DOMAIN roles = User
    BY <1>1 DEF TenancyInv, Shape
<1>3. /\ txn' = [txn EXCEPT ![q] = NoTxn] /\ member' = [member EXCEPT ![o] = roles]
      /\ UNCHANGED <<creator, invitation>>
    BY DEF RemoveMember, Commit
<1> QED BY <1>1, <1>2, <1>3, MembersStep DEF TenancyInv, Shape

\* Changing the state of an invitation changes its state.
LEMMA StateOf ==
    ASSUME NEW r, "state" \in DOMAIN r, NEW v
    PROVE  [r EXCEPT !.state = v].state = v /\ "state" \in DOMAIN [r EXCEPT !.state = v]
OBVIOUS

\* The invited user becomes a member, under the lock.
LEMMA AcceptInvitationStep ==
    ASSUME TenancyInv, NEW q \in Request, AcceptInvitation(q)
    PROVE  TenancyInv'
<1> DEFINE o == txn[q].organization
           roles == [member[o] EXCEPT ![txn[q].user] = txn[q].invitation.role]
<1>1. txn[q].locked /\ o \in Organization
    BY DEF AcceptInvitation, TenancyInv, Locks, Belong
<1>2. /\ txn' = [txn EXCEPT ![q] = NoTxn] /\ creator' = creator
      /\ member' = member \/ member' = [member EXCEPT ![o] = roles]
      /\ invitation' = [i \in Invitation |->
            IF invitation[i] = txn[q].invitation THEN [invitation[i] EXCEPT !.state = "accepted"]
            ELSE invitation[i]]
    BY DEF AcceptInvitation, Commit
<1>3. \A i \in Invitation : "state" \in DOMAIN invitation[i]
    BY DEF TenancyInv, Shape
<1>4. \A i \in Invitation :
        /\ "state" \in DOMAIN invitation'[i]
        /\ invitation'[i].state = "open" => invitation'[i] = invitation[i]
    BY <1>2, <1>3, StateOf
<1>5. DOMAIN invitation' = Invitation
    BY <1>2
<1>6. DOMAIN roles = User
    BY <1>1 DEF TenancyInv, Shape
<1>7. CASE member' = member
    BY <1>2, <1>4, <1>5, <1>7, CommitStep
<1>8. CASE member' = [member EXCEPT ![o] = roles]
    BY <1>1, <1>2, <1>4, <1>5, <1>6, <1>8, MembersStep
<1> QED BY <1>2, <1>7, <1>8

\* An invitation is opened for an organization that exists.
LEMMA CreateInvitationStep ==
    ASSUME TenancyInv, NEW q \in Request, NEW i \in Invitation, NEW email \in User,
           NEW role \in MemberRole, NEW days \in 1 .. Lifetime,
           CreateInvitation(q, i, email, role, days)
    PROVE  TenancyInv'
<1>1. txn[q].organization \in Organization /\ creator[txn[q].organization] # NoOne
    BY RunningHolds, Operations DEF CreateInvitation
<1>2. PICK expired :
        invitation' = [j \in Invitation |->
            IF j = i THEN [organization |-> txn[q].organization, email |-> email, role |-> role,
                           expiresAt |-> txn[q].at + days, state |-> "open"]
            ELSE IF j \in expired THEN [invitation[j] EXCEPT !.state = "revoked"]
            ELSE invitation[j]]
    BY Zenon DEF CreateInvitation
<1>3. txn' = [txn EXCEPT ![q] = NoTxn] /\ UNCHANGED <<creator, member>>
    BY DEF CreateInvitation, Commit
<1>4. \A j \in Invitation : "state" \in DOMAIN invitation[j]
    BY DEF TenancyInv, Shape
<1>5. DOMAIN invitation' = Invitation
    BY <1>2
<1>6. invitation'[i].organization = txn[q].organization /\ "state" \in DOMAIN invitation'[i]
    BY <1>2
<1>7. \A j \in Invitation : j # i =>
        /\ "state" \in DOMAIN invitation'[j]
        /\ invitation'[j].state = "open" => invitation'[j] = invitation[j]
    BY <1>2, <1>4, StateOf
<1> QED BY <1>1, <1>3, <1>5, <1>6, <1>7, CommitStep

\* Cleanup opens no invitation.
LEMMA CleanInvitationsStep ==
    ASSUME TenancyInv, CleanInvitations
    PROVE  TenancyInv'
<1>1. PICK gone :
        invitation' = [i \in Invitation |->
            IF i \in gone THEN [invitation[i] EXCEPT !.state = "none"] ELSE invitation[i]]
    BY Zenon DEF CleanInvitations
<1>2. UNCHANGED <<txn, member, creator>>
    BY DEF CleanInvitations
<1>3. \A i \in Invitation : "state" \in DOMAIN invitation[i]
    BY DEF TenancyInv, Shape
<1>4. \A i \in Invitation :
        /\ "state" \in DOMAIN invitation'[i]
        /\ invitation'[i].state = "open" => invitation'[i] = invitation[i]
    BY <1>1, <1>3, StateOf
<1>5. DOMAIN invitation' = Invitation
    BY <1>1
<1> QED BY <1>2, <1>4, <1>5, QuietStep

\* Projects, scenario versions, ingest keys and reports leave the members alone.
LEMMA ProjectsStep ==
    ASSUME TenancyInv, NEW q \in Request, MutateProjects(q)
    PROVE  TenancyInv'
<1>1. UNCHANGED <<member, creator, invitation>>
    BY DEF MutateProjects, CreateProject, CreateScenarioVersion, CreateIngestKey, RotateIngestKey,
           RevokeIngestKey, AuthenticateIngestKey, StoreReport, tenantVars
<1>2. txn' = txn \/ txn' = [txn EXCEPT ![q] = NoTxn]
    BY DEF MutateProjects, CreateProject, CreateScenarioVersion, CreateIngestKey, RotateIngestKey,
           RevokeIngestKey, AuthenticateIngestKey, StoreReport, Commit
<1>3. DOMAIN invitation = Invitation /\ \A i \in Invitation : "state" \in DOMAIN invitation[i]
    BY DEF TenancyInv, Shape
<1>4. CASE txn' = txn
    BY <1>1, <1>3, <1>4, QuietStep
<1>5. CASE txn' = [txn EXCEPT ![q] = NoTxn]
    BY <1>1, <1>3, <1>5, CommitStep
<1> QED BY <1>2, <1>4, <1>5

\* Requests about members and invitations keep the invariant.
LEMMA MembersNext ==
    ASSUME TenancyInv, NEW q \in Request, MutateMembers(q)
    PROVE  TenancyInv'
<1>1. ASSUME NEW u \in User, RemoveMember(q, u) PROVE TenancyInv'
    BY <1>1, RemoveMemberStep
<1>2. ASSUME NEW u \in User, NEW role \in MemberRole, ChangeRole(q, u, role) PROVE TenancyInv'
    BY <1>2, ChangeRoleStep
<1>3. ASSUME NEW u \in User, NEW role \in MemberRole, NEW i \in Invitation,
             NEW days \in 1 .. Lifetime, CreateInvitation(q, i, u, role, days)
      PROVE  TenancyInv'
    BY <1>3, CreateInvitationStep
<1>4. ASSUME NEW u \in User, NEW i \in Invitation, NEW at \in 0 .. now,
             BeginAccept(q, u, i, at) PROVE TenancyInv'
    BY <1>4, BeginAcceptStep
<1>5. ASSUME LockToAccept(q) PROVE TenancyInv'
    BY <1>5, LockToAcceptStep
<1>6. ASSUME AcceptInvitation(q) PROVE TenancyInv'
    BY <1>6, AcceptInvitationStep
<1> QED BY <1>1, <1>2, <1>3, <1>4, <1>5, <1>6, Zenon DEF MutateMembers

\* Every step keeps the invariant.
LEMMA TenancyStep == TenancyInv /\ [TenancyNext]_tenancyVars => TenancyInv'
<1> SUFFICES ASSUME TenancyInv, [TenancyNext]_tenancyVars PROVE TenancyInv'
    OBVIOUS
<1>1. DOMAIN invitation = Invitation /\ \A i \in Invitation : "state" \in DOMAIN invitation[i]
    BY DEF TenancyInv, Shape
<1>2. CASE TenancyTick
  <2>1. UNCHANGED <<txn, member, creator, invitation>>
      BY <1>2 DEF TenancyTick, tenantVars
  <2> QED BY <1>1, <2>1, QuietStep
<1>3. CASE CleanInvitations
    BY <1>3, CleanInvitationsStep
<1>4. ASSUME NEW u \in User, NEW o \in Organization, CreateOrganization(u, o) PROVE TenancyInv'
    BY <1>4, CreateOrganizationStep
<1>5. ASSUME NEW q \in Request, MutateMembers(q) PROVE TenancyInv'
    BY <1>5, MembersNext
<1>6. ASSUME NEW q \in Request, MutateProjects(q) PROVE TenancyInv'
    BY <1>6, ProjectsStep
<1>7. ASSUME NEW q \in Request, Abort(q) PROVE TenancyInv'
  <2>1. txn' = [txn EXCEPT ![q] = NoTxn] /\ UNCHANGED <<member, creator, invitation>>
      BY <1>7 DEF Abort, Commit, tenantVars
  <2> QED BY <1>1, <2>1, CommitStep
<1>8. ASSUME NEW q \in Request, NEW u \in User, NEW o \in Organization,
             NEW op \in DOMAIN Minimum, NEW at \in 0 .. now, Begin(q, u, o, op, at)
      PROVE  TenancyInv'
    BY <1>8, BeginStep
<1>9. CASE UNCHANGED tenancyVars
  <2>1. UNCHANGED <<txn, member, creator, invitation>>
      BY <1>9 DEF tenancyVars, tenantVars
  <2> QED BY <1>1, <2>1, QuietStep
<1> QED BY <1>2, <1>3, <1>4, <1>5, <1>6, <1>7, <1>8, <1>9, Zenon DEF TenancyNext

\* Locks exclude each other and cover what was read, for any users, organizations and
\* requests: no transaction of the hosted service writes from a stale role.
THEOREM LocksCoverDecisions == TenancySpec => []TenancyInv
BY TenancyInitInv, TenancyStep, PTL DEF TenancySpec

\* Someone without a role is below an admin.
LEMMA NobodyIsBelowAdmin == ~roleAtLeast("none", "admin")
BY DEF roleAtLeast, Rank

\* A step of which a request comes out of an authorised operation is its own step.
LEMMA DecisionStep ==
    ASSUME TenancyInv, TenancyNext, NEW q \in Request, txn[q].op \in DOMAIN Minimum,
           txn'[q] = NoTxn, tenantVars' # tenantVars
    PROVE  LET o == txn[q].organization
               mine == member[o][txn[q].user]
           IN  /\ roleAtLeast(mine, Minimum[txn[q].op])
               /\ mine # "owner" => \A u \in User :
                    member'[o][u] # member[o][u] =>
                        ~roleAtLeast(member[o][u], "admin") /\ ~roleAtLeast(member'[o][u], "admin")
<1> DEFINE o == txn[q].organization
           Touched == \A u \in User : member'[o][u] # member[o][u] =>
                        ~roleAtLeast(member[o][u], "admin") /\ ~roleAtLeast(member'[o][u], "admin")
<1>1. /\ txn[q].saw = member[o] /\ txn[q].role = member[o][txn[q].user] /\ o \in Organization
      /\ roleAtLeast(txn[q].role, Minimum[txn[q].op])
    BY Operations DEF TenancyInv, Locks, Belong
<1>2. txn[q] # NoTxn
    BY NoTxnFields
<1>3. DOMAIN txn = Request /\ DOMAIN member = Organization /\ DOMAIN member[o] = User
    BY <1>1 DEF TenancyInv, Shape
<1>4. ASSUME NEW r \in Request, NEW v, txn' = [txn EXCEPT ![r] = v] PROVE r = q
    BY <1>2, <1>3, <1>4
<1> SUFFICES txn[q].role # "owner" => Touched
    BY <1>1
<1> SUFFICES ASSUME txn[q].role # "owner" PROVE Touched
    OBVIOUS
<1>5. ASSUME member' = member PROVE Touched
    BY <1>5
<1>6. ASSUME NEW r \in Request, NEW whom \in User, RemoveMember(r, whom) PROVE Touched
  <2>1. r = q
      BY <1>6, <1>4 DEF RemoveMember, Commit
  <2>2. /\ ~roleAtLeast(member[o][whom], "admin")
        /\ member' = [member EXCEPT ![o] = [member[o] EXCEPT ![whom] = "none"]]
      BY <1>1, <1>6, <2>1 DEF RemoveMember
  <2> QED BY <1>1, <1>3, <2>2, NobodyIsBelowAdmin
<1>7. ASSUME NEW r \in Request, NEW whom \in User, NEW role, ChangeRole(r, whom, role)
      PROVE  Touched
  <2>1. r = q
      BY <1>7, <1>4 DEF ChangeRole, Commit
  <2>2. /\ ~roleAtLeast(member[o][whom], "admin") /\ ~roleAtLeast(role, "admin")
        /\ member' = [member EXCEPT ![o] = [member[o] EXCEPT
                ![whom] = IF member[o][whom] = "none" THEN "none" ELSE role]]
      BY <1>1, <1>7, <2>1 DEF ChangeRole
  <2> QED BY <1>1, <1>3, <2>2
<1>8. ASSUME NEW r \in Request, AcceptInvitation(r) PROVE FALSE
  <2>1. r = q
      BY <1>8, <1>4 DEF AcceptInvitation, Commit
  <2> QED BY <1>8, <2>1, Operations DEF AcceptInvitation, Running
<1>9. ASSUME NEW u \in User, NEW p \in Organization, CreateOrganization(u, p) PROVE FALSE
    BY <1>2, <1>9 DEF CreateOrganization
<1>10. ASSUME NEW r \in Request, MutateProjects(r) PROVE member' = member
    BY <1>10 DEF MutateProjects, CreateProject, CreateScenarioVersion, CreateIngestKey,
           RotateIngestKey, RevokeIngestKey, AuthenticateIngestKey, StoreReport, tenantVars
<1>11. ASSUME NEW r \in Request, MutateMembers(r) PROVE Touched
  <2>1. ASSUME NEW u \in User, NEW role \in MemberRole, NEW i \in Invitation,
               NEW days \in 1 .. Lifetime, CreateInvitation(r, i, u, role, days)
        PROVE  member' = member
      BY <2>1 DEF CreateInvitation
  <2>2. ASSUME NEW u \in User, NEW i \in Invitation, NEW at \in 0 .. now,
              BeginAccept(r, u, i, at) PROVE member' = member
      BY <2>2 DEF BeginAccept, tenantVars
  <2>3. ASSUME LockToAccept(r) PROVE member' = member
      BY <2>3 DEF LockToAccept, tenantVars
  <2> QED BY <1>5, <1>6, <1>7, <1>8, <1>11, <2>1, <2>2, <2>3, Zenon DEF MutateMembers
<1>12. ASSUME TenancyTick PROVE member' = member
    BY <1>12 DEF TenancyTick, tenantVars
<1>13. ASSUME CleanInvitations PROVE member' = member
    BY <1>13 DEF CleanInvitations
<1>14. ASSUME NEW r \in Request, Abort(r) PROVE member' = member
    BY <1>14 DEF Abort, tenantVars
<1>15. ASSUME NEW r \in Request, NEW u \in User, NEW p \in Organization,
              NEW op \in DOMAIN Minimum, NEW at \in 0 .. now, Begin(r, u, p, op, at)
       PROVE  member' = member
    BY <1>15 DEF Begin, tenantVars
<1> QED BY <1>5, <1>9, <1>10, <1>11, <1>12, <1>13, <1>14, <1>15, Zenon DEF TenancyNext

\* hosted/README.md says that a revocation does not race a stale authorization decision:
\* withAuthorizedMutation() lets a write through only if the role for it is held when it
\* is made, and only owners touch admins and owners.
THEOREM NoStaleDecisions == TenancySpec => DecisionsAreCurrent
<1> DEFINE Decision(q) ==
        txn[q].op \in DOMAIN Minimum /\ txn'[q] = NoTxn /\ tenantVars' # tenantVars =>
            LET o == txn[q].organization
                mine == member[o][txn[q].user]
            IN  /\ roleAtLeast(mine, Minimum[txn[q].op])
                /\ mine # "owner" => \A u \in User :
                    member'[o][u] # member[o][u] =>
                        ~roleAtLeast(member[o][u], "admin") /\ ~roleAtLeast(member'[o][u], "admin")
<1>1. TenancyInv /\ [TenancyNext]_tenancyVars => [\A q \in Request : Decision(q)]_tenancyVars
    BY DecisionStep
<1> QED BY <1>1, LocksCoverDecisions, PTL DEF TenancySpec, DecisionsAreCurrent

-----------------------------------------------------------------------------
(***************************************************************************)
(* Quotas.  BoundsInv says for every organization that what is counted is  *)
(* a finite set within its quota; QuotaTypes types the tables, and puts    *)
(* the reading of a transaction in the past, where more was active.        *)
(***************************************************************************)
\* The rows of invitations and keys.
InvitationRow ==
    [organization : Organization \cup {Nowhere}, email : User \cup {NoOne}, role : DOMAIN Rank,
     expiresAt : Nat, state : {"none", "open", "revoked", "accepted"}]
KeyRow == [organization : Organization \cup {Nowhere}, expiresAt : Nat, revoked : BOOLEAN]

\* The types of members, tables and transactions.
MemberTypes ==
    /\ now \in Nat
    /\ creator \in [Organization -> User \cup {NoOne}]
    /\ member \in [Organization -> [User -> DOMAIN Rank]]

TableTypes ==
    /\ invitation \in [Invitation -> InvitationRow] /\ ingestKey \in [IngestKey -> KeyRow]
    /\ hostedProject \in [HostedProject -> Organization \cup {Nowhere}]
    /\ scenarioVersion \in [ScenarioVersion -> Organization \cup {Nowhere}]
    /\ reporter \in [Request -> IngestKey \cup {Nowhere}]

TxnTypes ==
    /\ \A q \in Request :
        /\ txn[q].at \in Nat /\ txn[q].at <= now
        /\ txn[q].op = "accept" => txn[q].user \in User /\ txn[q].invitation \in InvitationRow

QuotaTypes == MemberTypes /\ TableTypes /\ TxnTypes

\* What an organization has that may still be active.
OpenInvitations(o) ==
    {i \in Invitation : invitation[i].organization = o /\ invitation[i].state = "open"}
UnrevokedKeys(o) == {k \in IngestKey : ingestKey[k].organization = o /\ ~ingestKey[k].revoked}

\* A finite set within its quota.
Within(set, quota) == IsFiniteSet(set) /\ Cardinality(set) <= quota

\* An organization that nobody has created has no members, any other has an owner.
OwnersStay ==
    \A o \in Organization :
        IF creator[o] = NoOne THEN Members(o) = {} ELSE Owners(member[o]) # {}

\* What is counted stays within its quota.  Invitations and keys expire by themselves,
\* so those that may yet be active are finite too.
MembersBounded == \A o \in Organization : Within(Members(o), MemberQuota)
InvitationsBounded ==
    \A o \in Organization :
        IsFiniteSet(OpenInvitations(o)) /\ Within(ActiveInvitations(o, now), InvitationQuota)
KeysBounded ==
    \A o \in Organization :
        IsFiniteSet(UnrevokedKeys(o)) /\ Within(ActiveKeys(o, now), KeyQuota)
ProjectsBounded ==
    \A o \in Organization :
        Within(Projects(o), ProjectQuota) /\ Within(Scenarios(o), ScenarioQuota)

\* The inductive invariant.
BoundsInv ==
    /\ TenancyInv /\ QuotaTypes /\ OwnersStay
    /\ MembersBounded /\ InvitationsBounded /\ KeysBounded /\ ProjectsBounded

\* Quotas are positive numbers.
LEMMA Quotas ==
    /\ MemberQuota \in Nat /\ InvitationQuota \in Nat /\ ProjectQuota \in Nat
    /\ ScenarioQuota \in Nat /\ KeyQuota \in Nat
    /\ MemberQuota >= 1
BY TenancyAssumption

\* What shrinks stays within a quota ...
LEMMA Fewer ==
    ASSUME NEW S, NEW T \in SUBSET S, NEW quota \in Nat, Within(S, quota)
    PROVE  Within(T, quota)
<1>1. IsFiniteSet(T) /\ Cardinality(T) <= Cardinality(S)
    BY FS_Subset DEF Within
<1>2. Cardinality(T) \in Nat /\ Cardinality(S) \in Nat
    BY <1>1, FS_CardinalityType DEF Within
<1> QED BY <1>1, <1>2 DEF Within

\* ... and so does what grows by one element after enforceQuota().
LEMMA OneMore ==
    ASSUME NEW S, IsFiniteSet(S), NEW x, NEW T \in SUBSET (S \cup {x}), NEW quota \in Nat,
           Below(S, quota)
    PROVE  Within(T, quota)
<1>1. /\ IsFiniteSet(S \cup {x})
      /\ Cardinality(S \cup {x}) = IF x \in S THEN Cardinality(S) ELSE Cardinality(S) + 1
    BY FS_AddElement
<1>2. Cardinality(S) \in Nat
    BY FS_CardinalityType
<1>3. Within(S \cup {x}, quota)
    BY <1>1, <1>2 DEF Within, Below
<1> QED BY <1>3, Fewer

\* A set with an element more is finite.
LEMMA OneMoreFinite ==
    ASSUME NEW S, IsFiniteSet(S), NEW x, NEW T \in SUBSET (S \cup {x})
    PROVE  IsFiniteSet(T)
BY FS_AddElement, FS_Subset

\* Steps that leave the members alone.
LEMMA SameMembers ==
    ASSUME OwnersStay, MembersBounded, UNCHANGED <<member, creator>>
    PROVE  OwnersStay' /\ MembersBounded'
BY DEF OwnersStay, MembersBounded, Members, Owners

\* Steps that open no invitation, at the same time or later.
LEMMA NoNewInvitation ==
    ASSUME InvitationsBounded, QuotaTypes, now' \in Nat, now' >= now,
           \A i \in Invitation : invitation'[i].state = "open" => invitation'[i] = invitation[i]
    PROVE  InvitationsBounded'
<1> SUFFICES ASSUME NEW o \in Organization
             PROVE  /\ IsFiniteSet(OpenInvitations(o)')
                    /\ Within(ActiveInvitations(o, now)', InvitationQuota)
    BY DEF InvitationsBounded, Within
<1>1. OpenInvitations(o)' \in SUBSET OpenInvitations(o)
    BY DEF OpenInvitations
<1>2. ActiveInvitations(o, now)' \in SUBSET ActiveInvitations(o, now)
    BY DEF ActiveInvitations, QuotaTypes, MemberTypes, TableTypes, InvitationRow
<1>3. IsFiniteSet(OpenInvitations(o)) /\ Within(ActiveInvitations(o, now), InvitationQuota)
    BY DEF InvitationsBounded
<1>4. IsFiniteSet(OpenInvitations(o)')
    BY <1>1, <1>3, FS_Subset
<1> QED BY <1>2, <1>3, <1>4, Fewer, Quotas

\* Steps that issue no ingest key, at the same time or later.
LEMMA NoNewKey ==
    ASSUME KeysBounded, QuotaTypes, now' \in Nat, now' >= now,
           \A k \in IngestKey : ~ingestKey'[k].revoked => ingestKey'[k] = ingestKey[k]
    PROVE  KeysBounded'
<1> SUFFICES ASSUME NEW o \in Organization
             PROVE  IsFiniteSet(UnrevokedKeys(o)') /\ Within(ActiveKeys(o, now)', KeyQuota)
    BY DEF KeysBounded, Within
<1>1. UnrevokedKeys(o)' \in SUBSET UnrevokedKeys(o)
    BY DEF UnrevokedKeys
<1>2. ActiveKeys(o, now)' \in SUBSET ActiveKeys(o, now)
    BY DEF ActiveKeys, QuotaTypes, MemberTypes, TableTypes, KeyRow
<1>3. IsFiniteSet(UnrevokedKeys(o)) /\ Within(ActiveKeys(o, now), KeyQuota)
    BY DEF KeysBounded
<1>4. IsFiniteSet(UnrevokedKeys(o)')
    BY <1>1, <1>3, FS_Subset
<1> QED BY <1>2, <1>3, <1>4, Fewer, Quotas

\* Steps that create neither projects nor scenario versions.
LEMMA SameProjects ==
    ASSUME ProjectsBounded, UNCHANGED <<hostedProject, scenarioVersion>>
    PROVE  ProjectsBounded'
BY DEF ProjectsBounded, Projects, Scenarios

\* Time goes on, transactions end.
LEMMA TxnsEnd ==
    ASSUME QuotaTypes, now' \in Nat, now' >= now,
           \A q \in Request : txn'[q] = txn[q] \/ txn'[q] = NoTxn
    PROVE  TxnTypes'
<1>1. NoTxn.at = 0 /\ NoTxn.op = "none"
    BY DEF NoTxn
<1> QED BY <1>1 DEF QuotaTypes, TxnTypes, MemberTypes

\* Nothing exists at first.
LEMMA BoundsInit == TenancyInit => BoundsInv
<1> SUFFICES ASSUME TenancyInit PROVE BoundsInv
    OBVIOUS
<1>1. TenancyInv
    BY TenancyInitInv
<1>2. "none" \in DOMAIN Rank
    BY DEF Rank
<1>3. NoInvitation \in InvitationRow /\ NoKey \in KeyRow
    BY <1>2 DEF NoInvitation, NoKey, InvitationRow, KeyRow
<1>4. MemberTypes /\ TableTypes
    BY <1>2, <1>3 DEF TenancyInit, MemberTypes, TableTypes
<1>5. TxnTypes
  <2>1. NoTxn.at = 0 /\ NoTxn.op = "none"
    BY DEF NoTxn
  <2> QED BY <2>1 DEF TenancyInit, TxnTypes
<1>6. \A o \in Organization :
        /\ creator[o] = NoOne /\ Members(o) = {} /\ OpenInvitations(o) = {}
        /\ ActiveInvitations(o, now) = {} /\ UnrevokedKeys(o) = {} /\ ActiveKeys(o, now) = {}
        /\ Projects(o) = {} /\ Scenarios(o) = {}
    BY TenancyAssumption DEF TenancyInit, Members, OpenInvitations, ActiveInvitations, UnrevokedKeys,
       ActiveKeys, Projects, Scenarios, NoInvitation, NoKey
<1>7. \A quota \in Nat : Within({}, quota)
    BY FS_EmptySet DEF Within
<1>8. OwnersStay /\ MembersBounded /\ InvitationsBounded /\ KeysBounded /\ ProjectsBounded
    BY <1>6, <1>7, Quotas, FS_EmptySet
       DEF OwnersStay, MembersBounded, InvitationsBounded, KeysBounded, ProjectsBounded
<1> QED BY <1>1, <1>4, <1>5, <1>8 DEF BoundsInv, QuotaTypes

\* What a commit does to the transactions.
LEMMA Committed ==
    ASSUME BoundsInv, NEW q \in Request, Commit(q)
    PROVE  /\ now' = now /\ now \in Nat /\ now' >= now /\ reporter' = reporter
           /\ \A p \in Request : txn'[p] = txn[p] \/ txn'[p] = NoTxn
           /\ TxnTypes'
<1>1. /\ now' = now /\ now \in Nat /\ now' >= now /\ reporter' = reporter
      /\ \A p \in Request : txn'[p] = txn[p] \/ txn'[p] = NoTxn
    BY DEF Commit, BoundsInv, QuotaTypes, MemberTypes, TenancyInv, Shape
<1> QED BY <1>1, TxnsEnd DEF BoundsInv

\* Of two owners one remains.
LEMMA AnotherOwner ==
    ASSUME NEW roles, IsFiniteSet(Owners(roles)), Owners(roles) # {}, NEW u \in User,
           ~LastOwner(roles, u)
    PROVE  \E v \in Owners(roles) : v # u
<1> SUFFICES ASSUME \A v \in Owners(roles) : v = u PROVE FALSE
    OBVIOUS
<1>1. Owners(roles) = {u}
    OBVIOUS
<1>2. Cardinality(Owners(roles)) = 1 /\ roles[u] = "owner"
    BY <1>1, FS_Singleton DEF Owners
<1> QED BY <1>2 DEF LastOwner

\* A step that changes the members of one organization, with an owner among them.
LEMMA MembersChange ==
    ASSUME BoundsInv, NEW o \in Organization, NEW roles \in [User -> DOMAIN Rank],
           creator[o] # NoOne, creator' = creator,
           member' = [member EXCEPT ![o] = roles],
           Owners(roles) # {}, Within({u \in User : roles[u] # "none"}, MemberQuota)
    PROVE  /\ OwnersStay' /\ MembersBounded'
           /\ member' \in [Organization -> [User -> DOMAIN Rank]]
<1>1. member \in [Organization -> [User -> DOMAIN Rank]]
    BY DEF BoundsInv, QuotaTypes, MemberTypes
<1>2. /\ member' \in [Organization -> [User -> DOMAIN Rank]]
      /\ member'[o] = roles /\ \A p \in Organization : p # o => member'[p] = member[p]
    BY <1>1
<1>3. ASSUME NEW p \in Organization
      PROVE  /\ creator'[p] = NoOne => Members(p)' = {}
             /\ creator'[p] # NoOne => Owners(member[p])' # {}
             /\ Within(Members(p)', MemberQuota)
  <2>1. CASE p = o
    <3>1. Members(o)' = {u \in User : roles[u] # "none"} /\ Owners(member[o])' = Owners(roles)
      BY <1>2 DEF Members, Owners
    <3> QED BY <2>1, <3>1
  <2>2. CASE p # o
    <3>1. Members(p)' = Members(p) /\ Owners(member[p])' = Owners(member[p])
      BY <1>2, <2>2 DEF Members, Owners
    <3> QED BY <2>2, <3>1 DEF BoundsInv, OwnersStay, MembersBounded
  <2> QED BY <2>1, <2>2
<1> QED BY <1>2, <1>3 DEF OwnersStay, MembersBounded, Within

\* What is known of an organization whose members a request is about to change.
LEMMA LockedMembers ==
    ASSUME BoundsInv, NEW q \in Request, txn[q].locked
    PROVE  /\ txn[q].organization \in Organization /\ creator[txn[q].organization] # NoOne
           /\ txn[q].saw = member[txn[q].organization]
           /\ member[txn[q].organization] \in [User -> DOMAIN Rank]
           /\ Owners(member[txn[q].organization]) # {}
           /\ IsFiniteSet(Owners(member[txn[q].organization]))
           /\ Within(Members(txn[q].organization), MemberQuota)
<1>1. PICK o : o = txn[q].organization
    OBVIOUS
<1>2. o \in Organization /\ creator[o] # NoOne /\ txn[q].saw = member[o]
    BY <1>1 DEF BoundsInv, TenancyInv, Belong, Locks
<1>3. /\ member[o] \in [User -> DOMAIN Rank] /\ Owners(member[o]) # {}
      /\ Within(Members(o), MemberQuota)
    BY <1>2 DEF BoundsInv, QuotaTypes, MemberTypes, OwnersStay, MembersBounded
<1>4. Owners(member[o]) \in SUBSET Members(o)
    BY DEF Owners, Members
<1> QED BY <1>1, <1>2, <1>3, <1>4, FS_Subset DEF Within

\* A role that is changed is no new member, and the last owner is not demoted.
LEMMA ChangeRoleBounds ==
    ASSUME BoundsInv, NEW q \in Request, NEW whom \in User, NEW role \in MemberRole,
           ChangeRole(q, whom, role)
    PROVE  BoundsInv'
<1>1. TenancyInv'
    BY ChangeRoleStep DEF BoundsInv
<1>2. PICK o : o = txn[q].organization
    OBVIOUS
<1>3. /\ txn[q].locked /\ Commit(q) /\ txn[q].saw[whom] # "none"
      /\ role # "owner" => ~LastOwner(txn[q].saw, whom)
      /\ UNCHANGED <<creator, invitation, ingestKey, hostedProject, scenarioVersion>>
      /\ member' = [member EXCEPT ![o] = [member[o] EXCEPT
                ![whom] = IF member[o][whom] = "none" THEN "none" ELSE role]]
  <2>1. txn[q].locked
    BY Operations DEF ChangeRole, Running, BoundsInv, TenancyInv, Locks
  <2> QED BY <1>2, <2>1 DEF ChangeRole
<1>4. /\ o \in Organization /\ creator[o] # NoOne /\ txn[q].saw = member[o]
      /\ member[o] \in [User -> DOMAIN Rank] /\ Owners(member[o]) # {}
      /\ IsFiniteSet(Owners(member[o])) /\ Within(Members(o), MemberQuota)
    BY <1>2, <1>3, LockedMembers
<1>5. PICK roles : roles = [member[o] EXCEPT ![whom] = role]
    OBVIOUS
<1>6. /\ roles \in [User -> DOMAIN Rank] /\ role # "none" /\ member' = [member EXCEPT ![o] = roles]
      /\ roles[whom] = role /\ \A u \in User : u # whom => roles[u] = member[o][u]
    BY <1>3, <1>4, <1>5 DEF MemberRole
<1>7. Within({u \in User : roles[u] # "none"}, MemberQuota)
  <2>1. {u \in User : roles[u] # "none"} \in SUBSET Members(o)
    BY <1>3, <1>4, <1>6 DEF Members
  <2> QED BY <1>4, <2>1, Fewer, Quotas
<1>8. Owners(roles) # {}
  <2>1. CASE role = "owner"
    BY <1>6, <2>1 DEF Owners
  <2>2. CASE role # "owner"
    <3>1. PICK v \in Owners(member[o]) : v # whom
      BY <1>3, <1>4, <2>2, AnotherOwner
    <3> QED BY <1>6, <3>1 DEF Owners
  <2> QED BY <2>1, <2>2
<1>9. OwnersStay' /\ MembersBounded' /\ member' \in [Organization -> [User -> DOMAIN Rank]]
    BY <1>3, <1>4, <1>6, <1>7, <1>8, MembersChange
<1>10. now' \in Nat /\ now' >= now /\ TxnTypes' /\ reporter' = reporter
    BY <1>3, Committed
<1>11. InvitationsBounded' /\ KeysBounded' /\ ProjectsBounded'
    BY <1>3, <1>10, NoNewInvitation, NoNewKey, SameProjects DEF BoundsInv
<1>12. QuotaTypes'
    BY <1>3, <1>9, <1>10 DEF BoundsInv, QuotaTypes, MemberTypes, TableTypes
<1> QED BY <1>1, <1>9, <1>11, <1>12 DEF BoundsInv

\* The last owner is not removed.
LEMMA RemoveMemberBounds ==
    ASSUME BoundsInv, NEW q \in Request, NEW whom \in User, RemoveMember(q, whom)
    PROVE  BoundsInv'
<1>1. TenancyInv'
    BY RemoveMemberStep DEF BoundsInv
<1>2. PICK o : o = txn[q].organization
    OBVIOUS
<1>3. /\ txn[q].locked /\ Commit(q) /\ ~LastOwner(txn[q].saw, whom)
      /\ UNCHANGED <<creator, invitation, ingestKey, hostedProject, scenarioVersion>>
      /\ member' = [member EXCEPT ![o] = [member[o] EXCEPT ![whom] = "none"]]
  <2>1. txn[q].locked
    BY Operations DEF RemoveMember, Running, BoundsInv, TenancyInv, Locks
  <2> QED BY <1>2, <2>1 DEF RemoveMember
<1>4. /\ o \in Organization /\ creator[o] # NoOne /\ txn[q].saw = member[o]
      /\ member[o] \in [User -> DOMAIN Rank] /\ Owners(member[o]) # {}
      /\ IsFiniteSet(Owners(member[o])) /\ Within(Members(o), MemberQuota)
    BY <1>2, <1>3, LockedMembers
<1>5. PICK roles : roles = [member[o] EXCEPT ![whom] = "none"]
    OBVIOUS
<1>6. /\ roles \in [User -> DOMAIN Rank] /\ member' = [member EXCEPT ![o] = roles]
      /\ roles[whom] = "none" /\ \A u \in User : u # whom => roles[u] = member[o][u]
  <2>1. "none" \in DOMAIN Rank
    BY DEF Rank
  <2> QED BY <1>3, <1>4, <1>5, <2>1
<1>7. Within({u \in User : roles[u] # "none"}, MemberQuota)
  <2>1. {u \in User : roles[u] # "none"} \in SUBSET Members(o)
    BY <1>6 DEF Members
  <2> QED BY <1>4, <2>1, Fewer, Quotas
<1>8. Owners(roles) # {}
  <2>1. PICK v \in Owners(member[o]) : v # whom
    BY <1>3, <1>4, AnotherOwner
  <2> QED BY <1>6, <2>1 DEF Owners
<1>9. OwnersStay' /\ MembersBounded' /\ member' \in [Organization -> [User -> DOMAIN Rank]]
    BY <1>3, <1>4, <1>6, <1>7, <1>8, MembersChange
<1>10. now' \in Nat /\ now' >= now /\ TxnTypes' /\ reporter' = reporter
    BY <1>3, Committed
<1>11. InvitationsBounded' /\ KeysBounded' /\ ProjectsBounded'
    BY <1>3, <1>10, NoNewInvitation, NoNewKey, SameProjects DEF BoundsInv
<1>12. QuotaTypes'
    BY <1>3, <1>9, <1>10 DEF BoundsInv, QuotaTypes, MemberTypes, TableTypes
<1> QED BY <1>1, <1>9, <1>11, <1>12 DEF BoundsInv

\* Steps that add nothing to what the quotas count.
LEMMA NothingNew ==
    ASSUME BoundsInv, TenancyInv', now' \in Nat, now' >= now, TxnTypes', TableTypes',
           UNCHANGED <<creator, member, hostedProject, scenarioVersion>>,
           \A i \in Invitation : invitation'[i].state = "open" => invitation'[i] = invitation[i],
           \A k \in IngestKey : ~ingestKey'[k].revoked => ingestKey'[k] = ingestKey[k]
    PROVE  BoundsInv'
<1>1. OwnersStay' /\ MembersBounded'
    BY SameMembers DEF BoundsInv
<1>2. InvitationsBounded' /\ KeysBounded' /\ ProjectsBounded'
    BY NoNewInvitation, NoNewKey, SameProjects DEF BoundsInv
<1>3. QuotaTypes'
    BY DEF BoundsInv, QuotaTypes, MemberTypes
<1> QED BY <1>1, <1>2, <1>3 DEF BoundsInv

\* Such a step is a commit that leaves the tables alone.
LEMMA AbortBounds ==
    ASSUME BoundsInv, NEW q \in Request, Abort(q)
    PROVE  BoundsInv'
<1>1. Commit(q) /\ UNCHANGED tenantVars
    BY DEF Abort
<1>2. now' \in Nat /\ now' >= now /\ TxnTypes' /\ reporter' = reporter
    BY <1>1, Committed
<1>3. txn' = [txn EXCEPT ![q] = NoTxn] /\ UNCHANGED <<member, creator, invitation>>
    BY <1>1 DEF Commit, tenantVars
<1>4. TenancyInv'
    BY <1>3, CommitStep DEF BoundsInv, TenancyInv, Shape
<1>5. TableTypes'
    BY <1>1, <1>2 DEF BoundsInv, QuotaTypes, TableTypes, tenantVars
<1> QED BY <1>1, <1>2, <1>4, <1>5, NothingNew DEF tenantVars

\* Authorization goes on with a transaction that began earlier.
LEMMA BeginBounds ==
    ASSUME BoundsInv, NEW q \in Request, NEW u \in User, NEW o \in Organization,
           NEW op \in DOMAIN Minimum, NEW at \in 0 .. now, Begin(q, u, o, op, at)
    PROVE  BoundsInv'
<1>1. TenancyInv'
    BY BeginStep DEF BoundsInv
<1>2. PICK t : /\ t = [NoTxn EXCEPT !.op = op, !.user = u, !.organization = o, !.at = at,
                            !.role = member[o][u], !.locked = TRUE, !.saw = member[o],
                            !.counted = Resources(op, o, at)]
               /\ txn' = [txn EXCEPT ![q] = t]
    BY DEF Begin
<1>3. UNCHANGED <<now, tenantVars, reporter>> /\ now \in Nat
    BY DEF Begin, BoundsInv, QuotaTypes, MemberTypes
<1>4. t.op # "accept" /\ t.at = at /\ at \in Nat /\ at <= now
    BY <1>2, <1>3, BegunFields, Operations
<1>5. TxnTypes'
    BY <1>2, <1>3, <1>4 DEF BoundsInv, TenancyInv, Shape, QuotaTypes, TxnTypes
<1>6. TableTypes'
    BY <1>3 DEF BoundsInv, QuotaTypes, TableTypes, tenantVars
<1> QED BY <1>1, <1>3, <1>5, <1>6, NothingNew DEF tenantVars

\* Someone starts to accept an invitation that is open.
LEMMA BeginAcceptBounds ==
    ASSUME BoundsInv, NEW q \in Request, NEW u \in User, NEW i \in Invitation, NEW at \in 0 .. now,
             BeginAccept(q, u, i, at)
    PROVE  BoundsInv'
<1>1. TenancyInv'
    BY BeginAcceptStep DEF BoundsInv
<1>2. PICK t : /\ t = [NoTxn EXCEPT !.op = "accept", !.user = u, !.at = at,
                            !.organization = invitation[i].organization,
                            !.invitation = invitation[i]]
               /\ txn' = [txn EXCEPT ![q] = t]
    BY DEF BeginAccept
<1>3. UNCHANGED <<now, tenantVars, reporter>> /\ now \in Nat /\ invitation[i] \in InvitationRow
    BY DEF BeginAccept, BoundsInv, QuotaTypes, MemberTypes, TableTypes
<1>4. t.user = u /\ t.at = at /\ at \in Nat /\ at <= now /\ t.invitation = invitation[i]
    BY <1>2, <1>3 DEF NoTxn
<1>5. TxnTypes'
    BY <1>2, <1>3, <1>4 DEF BoundsInv, TenancyInv, Shape, QuotaTypes, TxnTypes
<1>6. TableTypes'
    BY <1>3 DEF BoundsInv, QuotaTypes, TableTypes, tenantVars
<1> QED BY <1>1, <1>3, <1>5, <1>6, NothingNew DEF tenantVars

\* ... and then locks the organization.
LEMMA LockToAcceptBounds ==
    ASSUME BoundsInv, NEW q \in Request, LockToAccept(q)
    PROVE  BoundsInv'
<1>1. TenancyInv'
    BY LockToAcceptStep DEF BoundsInv
<1>2. PICK t : /\ t = [txn[q] EXCEPT !.locked = TRUE, !.saw = member[txn[q].organization]]
               /\ txn' = [txn EXCEPT ![q] = t]
    BY DEF LockToAccept
<1>3. UNCHANGED <<now, tenantVars, reporter>> /\ now \in Nat
    BY DEF LockToAccept, BoundsInv, QuotaTypes, MemberTypes
<1>4. t.user = txn[q].user /\ t.at = txn[q].at /\ t.invitation = txn[q].invitation /\ t.op = txn[q].op
    BY <1>2
<1>5. TxnTypes'
    BY <1>2, <1>3, <1>4 DEF BoundsInv, TenancyInv, Shape, QuotaTypes, TxnTypes
<1>6. TableTypes'
    BY <1>3 DEF BoundsInv, QuotaTypes, TableTypes, tenantVars
<1> QED BY <1>1, <1>3, <1>5, <1>6, NothingNew DEF tenantVars

\* The first member of an organization is its owner.
LEMMA CreateOrganizationBounds ==
    ASSUME BoundsInv, NEW u \in User, NEW o \in Organization, CreateOrganization(u, o)
    PROVE  BoundsInv'
<1>1. TenancyInv'
    BY CreateOrganizationStep DEF BoundsInv
<1>2. /\ creator[o] = NoOne /\ creator' = [creator EXCEPT ![o] = u]
      /\ member' = [member EXCEPT ![o] = [member[o] EXCEPT ![u] = "owner"]]
      /\ UNCHANGED <<now, invitation, ingestKey, hostedProject, scenarioVersion, txn, reporter>>
    BY DEF CreateOrganization
<1>3. /\ now \in Nat /\ creator \in [Organization -> User \cup {NoOne}]
      /\ member \in [Organization -> [User -> DOMAIN Rank]] /\ "owner" \in DOMAIN Rank
    BY DEF BoundsInv, QuotaTypes, MemberTypes, Rank
<1>4. /\ creator' \in [Organization -> User \cup {NoOne}]
      /\ member' \in [Organization -> [User -> DOMAIN Rank]]
      /\ member'[o][u] = "owner" /\ \A v \in User : v # u => member'[o][v] = member[o][v]
      /\ \A p \in Organization : p # o => member'[p] = member[p] /\ creator'[p] = creator[p]
      /\ creator'[o] # NoOne
    BY <1>2, <1>3, TenancyAssumption
<1>5. Members(o) = {}
    BY <1>2 DEF BoundsInv, OwnersStay
<1>6. Members(o)' = {u} /\ Owners(member[o])' # {}
    BY <1>4, <1>5 DEF Members, Owners
<1>7. Within({u}, MemberQuota)
    BY FS_Singleton, Quotas DEF Within
<1>8. \A p \in Organization : p # o => /\ Members(p)' = Members(p)
                                       /\ Owners(member[p])' = Owners(member[p])
    BY <1>4 DEF Members, Owners
<1>9. OwnersStay'
    BY <1>4, <1>6, <1>8 DEF BoundsInv, OwnersStay
<1>10. MembersBounded'
  <2> SUFFICES ASSUME NEW p \in Organization PROVE Within(Members(p)', MemberQuota)
    BY DEF MembersBounded, Within
  <2> QED BY <1>6, <1>7, <1>8 DEF BoundsInv, MembersBounded
<1>11. InvitationsBounded' /\ KeysBounded' /\ ProjectsBounded'
    BY <1>2, <1>3, NoNewInvitation, NoNewKey, SameProjects DEF BoundsInv
<1>12. TxnTypes'
    BY <1>2 DEF BoundsInv, QuotaTypes, TxnTypes
<1>13. QuotaTypes'
    BY <1>2, <1>3, <1>4, <1>12 DEF BoundsInv, QuotaTypes, MemberTypes, TableTypes
<1> QED BY <1>1, <1>9, <1>10, <1>11, <1>13 DEF BoundsInv

\* Who joins has been counted under the lock, and the invitation is used up.
LEMMA AcceptInvitationBounds ==
    ASSUME BoundsInv, NEW q \in Request, AcceptInvitation(q)
    PROVE  BoundsInv'
<1>1. TenancyInv'
    BY AcceptInvitationStep DEF BoundsInv
<1>2. PICK o, u, role : o = txn[q].organization /\ u = txn[q].user /\ role = txn[q].invitation.role
    OBVIOUS
<1>3. /\ txn[q].locked /\ txn[q].op = "accept" /\ Commit(q)
      /\ UNCHANGED <<creator, ingestKey, hostedProject, scenarioVersion>>
      /\ Below({v \in User : txn[q].saw[v] # "none"}, MemberQuota)
      /\ member' = IF member[o][u] # "none" THEN member
                   ELSE [member EXCEPT ![o] = [member[o] EXCEPT ![u] = role]]
    BY <1>2, Zenon DEF AcceptInvitation, Running
<1>4. PICK accepted : accepted = txn[q].invitation
    OBVIOUS
<1>5. invitation' = [i \in Invitation |->
            IF invitation[i] = accepted THEN [invitation[i] EXCEPT !.state = "accepted"]
            ELSE invitation[i]]
    BY <1>4, Zenon DEF AcceptInvitation
<1>6. /\ o \in Organization /\ creator[o] # NoOne /\ txn[q].saw = member[o]
      /\ member[o] \in [User -> DOMAIN Rank] /\ Owners(member[o]) # {}
      /\ Within(Members(o), MemberQuota)
    BY <1>2, <1>3, LockedMembers
<1>7. u \in User /\ role \in DOMAIN Rank
    BY <1>2, <1>3 DEF BoundsInv, QuotaTypes, TxnTypes, InvitationRow
<1>8. OwnersStay' /\ MembersBounded' /\ member' \in [Organization -> [User -> DOMAIN Rank]]
  <2>1. CASE member' = member
    BY <1>3, <2>1, SameMembers DEF BoundsInv, QuotaTypes, MemberTypes
  <2>2. CASE member' = [member EXCEPT ![o] = [member[o] EXCEPT ![u] = role]] /\ member[o][u] = "none"
    <3>1. PICK roles : roles = [member[o] EXCEPT ![u] = role]
      OBVIOUS
    <3>2. /\ roles \in [User -> DOMAIN Rank] /\ member' = [member EXCEPT ![o] = roles]
          /\ \A v \in User : v # u => roles[v] = member[o][v]
      BY <1>6, <1>7, <2>2, <3>1
    <3>3. {v \in User : roles[v] # "none"} \in SUBSET (Members(o) \cup {u})
      BY <3>2 DEF Members
    <3>4. Below(Members(o), MemberQuota) /\ IsFiniteSet(Members(o))
      BY <1>3, <1>6 DEF Members, Within
    <3>5. Within({v \in User : roles[v] # "none"}, MemberQuota)
      BY <3>3, <3>4, OneMore, Quotas
    <3>6. Owners(roles) # {}
      <4>1. PICK v \in User : member[o][v] = "owner"
        BY <1>6 DEF Owners
      <4>2. roles[v] = "owner"
        BY <2>2, <3>2, <4>1
      <4> QED BY <4>2 DEF Owners
    <3> QED BY <1>3, <1>6, <3>2, <3>5, <3>6, MembersChange
  <2> QED BY <1>3, <2>1, <2>2
<1>9. now' \in Nat /\ now' >= now /\ TxnTypes' /\ reporter' = reporter
    BY <1>3, Committed
<1>10. invitation \in [Invitation -> InvitationRow]
    BY DEF BoundsInv, QuotaTypes, TableTypes
<1>11. \A i \in Invitation : [invitation[i] EXCEPT !.state = "accepted"] \in InvitationRow
    BY <1>10 DEF InvitationRow
<1>12. \A i \in Invitation :
        /\ invitation'[i] \in InvitationRow
        /\ invitation'[i].state = "open" => invitation'[i] = invitation[i]
  <2> TAKE i \in Invitation
  <2>1. [invitation[i] EXCEPT !.state = "accepted"].state # "open"
    BY <1>10, StateOf DEF InvitationRow
  <2> QED BY <1>5, <1>10, <1>11, <2>1
<1>13. InvitationsBounded' /\ KeysBounded' /\ ProjectsBounded'
    BY <1>3, <1>9, <1>12, NoNewInvitation, NoNewKey, SameProjects DEF BoundsInv
<1>14. invitation' \in [Invitation -> InvitationRow]
    BY <1>5, <1>12
<1>15. QuotaTypes'
    BY <1>3, <1>8, <1>9, <1>14 DEF BoundsInv, QuotaTypes, MemberTypes, TableTypes
<1> QED BY <1>1, <1>8, <1>13, <1>15 DEF BoundsInv

\* Cleanup opens no invitation.
LEMMA CleanInvitationsBounds ==
    ASSUME BoundsInv, CleanInvitations
    PROVE  BoundsInv'
<1>1. TenancyInv'
    BY CleanInvitationsStep DEF BoundsInv
<1>2. PICK gone :
        invitation' = [i \in Invitation |->
            IF i \in gone THEN [invitation[i] EXCEPT !.state = "none"] ELSE invitation[i]]
    BY Zenon DEF CleanInvitations
<1>3. UNCHANGED <<now, creator, member, ingestKey, hostedProject, scenarioVersion, txn, reporter>>
    BY DEF CleanInvitations
<1>4. invitation \in [Invitation -> InvitationRow] /\ now \in Nat
    BY DEF BoundsInv, QuotaTypes, MemberTypes, TableTypes
<1>5. \A i \in Invitation : /\ [invitation[i] EXCEPT !.state = "none"] \in InvitationRow
                            /\ [invitation[i] EXCEPT !.state = "none"].state # "open"
    BY <1>4 DEF InvitationRow
<1>6. \A i \in Invitation :
        /\ invitation'[i] \in InvitationRow
        /\ invitation'[i].state = "open" => invitation'[i] = invitation[i]
    BY <1>2, <1>4, <1>5
<1>7. TxnTypes'
    BY <1>3 DEF BoundsInv, QuotaTypes, TxnTypes
<1>8. invitation' \in [Invitation -> InvitationRow]
    BY <1>2, <1>6
<1>9. TableTypes'
    BY <1>3, <1>8 DEF BoundsInv, QuotaTypes, TableTypes
<1> QED BY <1>1, <1>3, <1>4, <1>6, <1>7, <1>9, NothingNew

\* Fewer invitations and keys are active later.
LEMMA FewerLater ==
    ASSUME BoundsInv, NEW o \in Organization, NEW at \in Nat, at <= now
    PROVE  /\ ActiveInvitations(o, now) \in SUBSET ActiveInvitations(o, at)
           /\ ActiveKeys(o, now) \in SUBSET ActiveKeys(o, at)
           /\ IsFiniteSet(ActiveInvitations(o, at)) /\ IsFiniteSet(ActiveKeys(o, at))
<1>1. /\ ActiveInvitations(o, now) \in SUBSET ActiveInvitations(o, at)
      /\ ActiveKeys(o, now) \in SUBSET ActiveKeys(o, at)
    BY DEF ActiveInvitations, ActiveKeys, BoundsInv, QuotaTypes, MemberTypes, TableTypes,
       InvitationRow, KeyRow
<1>2. /\ ActiveInvitations(o, at) \in SUBSET OpenInvitations(o)
      /\ ActiveKeys(o, at) \in SUBSET UnrevokedKeys(o)
    BY DEF ActiveInvitations, ActiveKeys, OpenInvitations, UnrevokedKeys
<1>3. IsFiniteSet(OpenInvitations(o)) /\ IsFiniteSet(UnrevokedKeys(o))
    BY DEF BoundsInv, InvitationsBounded, KeysBounded
<1> QED BY <1>1, <1>2, <1>3, FS_Subset

\* What a transaction of withAuthorizedMutation() is about.
LEMMA Underway ==
    ASSUME BoundsInv, NEW q \in Request, NEW op \in DOMAIN Minimum, Running(q, op)
    PROVE  /\ txn[q].organization \in Organization
           /\ txn[q].at \in Nat /\ txn[q].at <= now /\ now \in Nat
BY RunningHolds DEF BoundsInv, QuotaTypes, TxnTypes, MemberTypes

\* What a request has counted under the lock is still all there is.
Covers(counted, set) == IsFiniteSet(counted) /\ set \in SUBSET counted
CountsCover ==
    \A q \in Request : txn[q].op \in DOMAIN Minimum =>
        Covers(txn[q].counted, Resources(txn[q].op, txn[q].organization, txn[q].at))

\* So there is room for one more when it has counted fewer than the quota.
LEMMA RoomLeft ==
    ASSUME CountsCover, NEW q \in Request, NEW op \in DOMAIN Minimum, Running(q, op),
           NEW quota \in Nat, NEW gone, Below(txn[q].counted \ gone, quota)
    PROVE  Below(Resources(op, txn[q].organization, txn[q].at) \ gone, quota)
<1>1. PICK all, some : /\ all = txn[q].counted \ gone
                       /\ some = Resources(op, txn[q].organization, txn[q].at) \ gone
    OBVIOUS
<1>2. Covers(txn[q].counted, Resources(op, txn[q].organization, txn[q].at))
    BY Zenon DEF CountsCover, Running
<1>3. IsFiniteSet(all) /\ some \in SUBSET all
    BY <1>1, <1>2, FS_Subset DEF Covers
<1>4. /\ IsFiniteSet(some) /\ Cardinality(some) \in Nat /\ Cardinality(all) \in Nat
      /\ Cardinality(some) <= Cardinality(all)
    BY <1>3, FS_Subset, FS_CardinalityType
<1> QED BY <1>1, <1>4 DEF Below

LEMMA RoomForOne ==
    ASSUME CountsCover, NEW q \in Request, NEW op \in DOMAIN Minimum, Running(q, op),
           NEW quota \in Nat, Below(txn[q].counted, quota)
    PROVE  Below(Resources(op, txn[q].organization, txn[q].at), quota)
<1>1. txn[q].counted \ {} = txn[q].counted
    OBVIOUS
<1>2. Below(Resources(op, txn[q].organization, txn[q].at) \ {}, quota)
    BY <1>1, RoomLeft
<1>3. \A S : S \ {} = S
    OBVIOUS
<1> QED BY <1>2, <1>3

\* A new invitation has been counted under the lock.
LEMMA CreateInvitationBounds ==
    ASSUME BoundsInv, CountsCover, NEW q \in Request, NEW i \in Invitation, NEW email \in User,
           NEW role \in MemberRole, NEW days \in 1 .. Lifetime,
           CreateInvitation(q, i, email, role, days)
    PROVE  BoundsInv'
<1>1. TenancyInv'
    BY CreateInvitationStep DEF BoundsInv
<1>2. PICK o, at, row :
        /\ o = txn[q].organization /\ at = txn[q].at
        /\ row = [organization |-> o, email |-> email, role |-> role, expiresAt |-> at + days,
                  state |-> "open"]
    OBVIOUS
<1>3. PICK expired :
        invitation' = [j \in Invitation |->
            IF j = i THEN row
            ELSE IF j \in expired THEN [invitation[j] EXCEPT !.state = "revoked"]
            ELSE invitation[j]]
    BY <1>2, Zenon DEF CreateInvitation
<1>4. /\ Running(q, "invite") /\ invitation[i] = NoInvitation /\ Commit(q)
      /\ Below(ActiveInvitations(o, at), InvitationQuota)
      /\ UNCHANGED <<creator, member, ingestKey, hostedProject, scenarioVersion>>
  <2>1. /\ Running(q, "invite") /\ invitation[i] = NoInvitation /\ Commit(q)
        /\ Below(txn[q].counted, InvitationQuota)
        /\ UNCHANGED <<creator, member, ingestKey, hostedProject, scenarioVersion>>
    BY Zenon DEF CreateInvitation
  <2>2. Resources("invite", o, at) = ActiveInvitations(o, at)
    BY DEF Resources
  <2> QED BY <1>2, <2>1, <2>2, RoomForOne, Operations, Quotas
<1>5. o \in Organization /\ at \in Nat /\ at <= now /\ now \in Nat
    BY <1>2, <1>4, Underway, Operations
<1>6. row \in InvitationRow /\ row.organization = o
    BY <1>2, <1>5, TenancyAssumption DEF InvitationRow, MemberRole
<1>7. invitation \in [Invitation -> InvitationRow]
    BY DEF BoundsInv, QuotaTypes, TableTypes
<1>8. \A j \in Invitation : /\ [invitation[j] EXCEPT !.state = "revoked"] \in InvitationRow
                            /\ [invitation[j] EXCEPT !.state = "revoked"].state # "open"
    BY <1>7 DEF InvitationRow
<1>9. /\ invitation' \in [Invitation -> InvitationRow] /\ invitation'[i] = row
      /\ \A j \in Invitation : j # i /\ invitation'[j].state = "open" => invitation'[j] = invitation[j]
    BY <1>3, <1>6, <1>7, <1>8
<1>10. now' = now /\ now' \in Nat /\ now' >= now /\ TxnTypes' /\ reporter' = reporter
    BY <1>4, Committed
<1>11. InvitationsBounded'
  <2> SUFFICES ASSUME NEW p \in Organization
               PROVE  /\ IsFiniteSet(OpenInvitations(p)')
                      /\ Within(ActiveInvitations(p, now)', InvitationQuota)
    BY DEF InvitationsBounded, Within
  <2>1. IsFiniteSet(OpenInvitations(p)) /\ Within(ActiveInvitations(p, now), InvitationQuota)
    BY DEF BoundsInv, InvitationsBounded
  <2>2. OpenInvitations(p)' \in SUBSET (OpenInvitations(p) \cup {i})
    BY <1>9 DEF OpenInvitations
  <2>3. ActiveInvitations(p, now)' \in SUBSET (ActiveInvitations(p, now) \cup {i})
    BY <1>9, <1>10 DEF ActiveInvitations
  <2>4. CASE p = o
    <3>1. ActiveInvitations(p, now)' \in SUBSET (ActiveInvitations(o, at) \cup {i})
      BY <1>5, <2>3, <2>4, FewerLater
    <3>2. Within(ActiveInvitations(p, now)', InvitationQuota)
      BY <1>4, <1>5, <3>1, FewerLater, OneMore, Quotas
    <3> QED BY <2>1, <2>2, <3>2, OneMoreFinite
  <2>5. CASE p # o
    <3>1. ActiveInvitations(p, now)' \in SUBSET ActiveInvitations(p, now)
      BY <1>6, <1>9, <2>3, <2>5 DEF ActiveInvitations
    <3> QED BY <2>1, <2>2, <3>1, OneMoreFinite, Fewer, Quotas
  <2> QED BY <2>4, <2>5
<1>12. OwnersStay' /\ MembersBounded' /\ KeysBounded' /\ ProjectsBounded'
    BY <1>4, <1>10, SameMembers, NoNewKey, SameProjects DEF BoundsInv
<1>13. QuotaTypes'
    BY <1>4, <1>9, <1>10 DEF BoundsInv, QuotaTypes, MemberTypes, TableTypes
<1> QED BY <1>1, <1>11, <1>12, <1>13 DEF BoundsInv

\* Steps about projects, scenario versions and keys, as far as the members go.
LEMMA ProjectsOnly ==
    ASSUME BoundsInv, NEW q \in Request, MutateProjects(q), now' \in Nat, now' >= now,
           TxnTypes', TableTypes', KeysBounded', ProjectsBounded'
    PROVE  BoundsInv'
<1>1. TenancyInv'
    BY ProjectsStep DEF BoundsInv
<1>2. UNCHANGED <<member, creator, invitation>>
    BY DEF MutateProjects, CreateProject, CreateScenarioVersion, CreateIngestKey, RotateIngestKey,
           RevokeIngestKey, AuthenticateIngestKey, StoreReport, tenantVars
<1>3. OwnersStay' /\ MembersBounded' /\ InvitationsBounded'
    BY <1>2, SameMembers, NoNewInvitation DEF BoundsInv
<1>4. QuotaTypes'
    BY <1>2 DEF BoundsInv, QuotaTypes, MemberTypes
<1> QED BY <1>1, <1>3, <1>4 DEF BoundsInv

\* A new key has been counted under the lock, and so has one that replaces another.
LEMMA NewKey ==
    ASSUME BoundsInv, NEW o \in Organization, NEW at \in Nat, at <= now, now' = now,
           NEW k \in IngestKey, NEW counted \in SUBSET ActiveKeys(o, at), Below(counted, KeyQuota),
           ingestKey'[k].organization = o,
           \A j \in IngestKey : j # k /\ ~ingestKey'[j].revoked => ingestKey'[j] = ingestKey[j],
           \A j \in ActiveKeys(o, at) \ counted : j # k /\ ingestKey'[j].revoked
    PROVE  KeysBounded'
<1> SUFFICES ASSUME NEW p \in Organization
             PROVE  IsFiniteSet(UnrevokedKeys(p)') /\ Within(ActiveKeys(p, now)', KeyQuota)
    BY DEF KeysBounded, Within
<1>1. IsFiniteSet(UnrevokedKeys(p)) /\ Within(ActiveKeys(p, now), KeyQuota)
    BY DEF BoundsInv, KeysBounded
<1>2. UnrevokedKeys(p)' \in SUBSET (UnrevokedKeys(p) \cup {k})
    BY DEF UnrevokedKeys
<1>3. ActiveKeys(p, now)' \in SUBSET (ActiveKeys(p, now) \cup {k})
    BY DEF ActiveKeys
<1>4. CASE p = o
  <2>1. ActiveKeys(p, now)' \in SUBSET (counted \cup {k})
    <3>1. ActiveKeys(p, now)' \in SUBSET (ActiveKeys(o, at) \cup {k})
      BY <1>3, <1>4, FewerLater
    <3>2. \A j \in ActiveKeys(p, now)' : ~ingestKey'[j].revoked
      BY DEF ActiveKeys
    <3> QED BY <3>1, <3>2
  <2>2. IsFiniteSet(counted)
    BY FewerLater, FS_Subset
  <2>3. Within(ActiveKeys(p, now)', KeyQuota)
    BY <2>1, <2>2, OneMore, Quotas
  <2> QED BY <1>1, <1>2, <2>3, OneMoreFinite
<1>5. CASE p # o
  <2>1. ActiveKeys(p, now)' \in SUBSET ActiveKeys(p, now)
    BY <1>3, <1>5 DEF ActiveKeys
  <2> QED BY <1>1, <1>2, <2>1, OneMoreFinite, Fewer, Quotas
<1> QED BY <1>4, <1>5

\* Keys are issued within the quota.
LEMMA CreateIngestKeyBounds ==
    ASSUME BoundsInv, CountsCover, NEW q \in Request, NEW k \in IngestKey, NEW days \in 1 .. Lifetime,
           CreateIngestKey(q, k, days), MutateProjects(q)
    PROVE  BoundsInv'
<1>1. PICK o, at, row :
        /\ o = txn[q].organization /\ at = txn[q].at
        /\ row = [organization |-> o, expiresAt |-> at + days, revoked |-> FALSE]
    OBVIOUS
<1>2. /\ Running(q, "createKey") /\ ingestKey[k] = NoKey /\ Commit(q)
      /\ Below(ActiveKeys(o, at), KeyQuota)
      /\ ingestKey' = [ingestKey EXCEPT ![k] = row]
      /\ UNCHANGED <<creator, member, invitation, hostedProject, scenarioVersion>>
  <2>1. /\ Running(q, "createKey") /\ ingestKey[k] = NoKey /\ Commit(q)
        /\ Below(txn[q].counted, KeyQuota) /\ ingestKey' = [ingestKey EXCEPT ![k] = row]
        /\ UNCHANGED <<creator, member, invitation, hostedProject, scenarioVersion>>
    BY <1>1 DEF CreateIngestKey
  <2>2. Resources("createKey", o, at) = ActiveKeys(o, at)
    BY DEF Resources
  <2> QED BY <1>1, <2>1, <2>2, RoomForOne, Operations, Quotas
<1>3. o \in Organization /\ at \in Nat /\ at <= now /\ now \in Nat
    BY <1>1, <1>2, Underway, Operations
<1>4. row \in KeyRow /\ row.organization = o
    BY <1>1, <1>3, TenancyAssumption DEF KeyRow
<1>5. ingestKey \in [IngestKey -> KeyRow]
    BY DEF BoundsInv, QuotaTypes, TableTypes
<1>6. /\ ingestKey' \in [IngestKey -> KeyRow] /\ ingestKey'[k] = row
      /\ \A j \in IngestKey : j # k => ingestKey'[j] = ingestKey[j]
    BY <1>2, <1>4, <1>5
<1>7. now' = now /\ now' \in Nat /\ now' >= now /\ TxnTypes' /\ reporter' = reporter
    BY <1>2, Committed
<1>8. KeysBounded'
    BY <1>2, <1>3, <1>4, <1>6, <1>7, NewKey
<1>9. ProjectsBounded' /\ TableTypes'
    BY <1>2, <1>6, <1>7, SameProjects DEF BoundsInv, QuotaTypes, TableTypes
<1> QED BY <1>7, <1>8, <1>9, ProjectsOnly

\* A key that replaces another counts in its place.
LEMMA RotateIngestKeyBounds ==
    ASSUME BoundsInv, CountsCover, NEW q \in Request, NEW k \in IngestKey, NEW new \in IngestKey,
           NEW days \in 1 .. Lifetime, RotateIngestKey(q, k, new, days), MutateProjects(q)
    PROVE  BoundsInv'
<1>1. PICK o, at, row, old :
        /\ o = txn[q].organization /\ at = txn[q].at /\ old = [ingestKey[k] EXCEPT !.revoked = TRUE]
        /\ row = [organization |-> o, expiresAt |-> at + days, revoked |-> FALSE]
    OBVIOUS
<1>2. /\ Running(q, "rotateKey") /\ ingestKey[new] = NoKey /\ Commit(q)
      /\ ingestKey[k].organization = o
      /\ Below(ActiveKeys(o, at) \ {k}, KeyQuota)
      /\ ingestKey' = [ingestKey EXCEPT ![k] = old, ![new] = row]
      /\ UNCHANGED <<creator, member, invitation, hostedProject, scenarioVersion>>
  <2>1. /\ Running(q, "rotateKey") /\ ingestKey[new] = NoKey /\ Commit(q)
        /\ ingestKey[k].organization = o /\ Below(txn[q].counted \ {k}, KeyQuota)
        /\ ingestKey' = [ingestKey EXCEPT ![k] = old, ![new] = row]
        /\ UNCHANGED <<creator, member, invitation, hostedProject, scenarioVersion>>
    BY <1>1 DEF RotateIngestKey
  <2>2. Resources("rotateKey", o, at) = ActiveKeys(o, at)
    BY DEF Resources
  <2>3. Below(Resources("rotateKey", o, at) \ {k}, KeyQuota)
    BY <1>1, <2>1, RoomLeft, Operations, Quotas
  <2> QED BY <2>1, <2>2, <2>3
<1>3. o \in Organization /\ at \in Nat /\ at <= now /\ now \in Nat
    BY <1>1, <1>2, Underway, Operations
<1>4. row \in KeyRow /\ row.organization = o
    BY <1>1, <1>3, TenancyAssumption DEF KeyRow
<1>5. ingestKey \in [IngestKey -> KeyRow]
    BY DEF BoundsInv, QuotaTypes, TableTypes
<1>6. old \in KeyRow /\ old.revoked
    BY <1>1, <1>5 DEF KeyRow
<1>7. k # new
    BY <1>2, <1>3, TenancyAssumption DEF NoKey
<1>8. /\ ingestKey' \in [IngestKey -> KeyRow] /\ ingestKey'[new] = row /\ ingestKey'[k] = old
      /\ \A j \in IngestKey : j # k /\ j # new => ingestKey'[j] = ingestKey[j]
    BY <1>2, <1>4, <1>5, <1>6, <1>7
<1>9. now' = now /\ now' \in Nat /\ now' >= now /\ TxnTypes' /\ reporter' = reporter
    BY <1>2, Committed
<1>10. KeysBounded'
  <2>1. \A j \in IngestKey : j # new /\ ~ingestKey'[j].revoked => ingestKey'[j] = ingestKey[j]
    BY <1>6, <1>8
  <2>2. \A j \in ActiveKeys(o, at) \ (ActiveKeys(o, at) \ {k}) : j # new /\ ingestKey'[j].revoked
    BY <1>6, <1>7, <1>8
  <2> QED BY <1>2, <1>3, <1>4, <1>8, <1>9, <2>1, <2>2, NewKey
<1>11. ProjectsBounded' /\ TableTypes'
    BY <1>2, <1>8, <1>9, SameProjects DEF BoundsInv, QuotaTypes, TableTypes
<1> QED BY <1>9, <1>10, <1>11, ProjectsOnly

\* A key that is revoked no longer counts.
LEMMA RevokeIngestKeyBounds ==
    ASSUME BoundsInv, NEW q \in Request, NEW k \in IngestKey, RevokeIngestKey(q, k),
           MutateProjects(q)
    PROVE  BoundsInv'
<1>1. PICK old : old = [ingestKey[k] EXCEPT !.revoked = TRUE]
    OBVIOUS
<1>2. /\ Commit(q) /\ ingestKey' = [ingestKey EXCEPT ![k] = old]
      /\ UNCHANGED <<creator, member, invitation, hostedProject, scenarioVersion>>
    BY <1>1 DEF RevokeIngestKey
<1>3. ingestKey \in [IngestKey -> KeyRow]
    BY DEF BoundsInv, QuotaTypes, TableTypes
<1>4. old \in KeyRow /\ old.revoked
    BY <1>1, <1>3 DEF KeyRow
<1>5. /\ ingestKey' \in [IngestKey -> KeyRow]
      /\ \A j \in IngestKey : ~ingestKey'[j].revoked => ingestKey'[j] = ingestKey[j]
    BY <1>2, <1>3, <1>4
<1>6. now' = now /\ now' \in Nat /\ now' >= now /\ TxnTypes' /\ reporter' = reporter
    BY <1>2, Committed
<1>7. KeysBounded' /\ ProjectsBounded' /\ TableTypes'
    BY <1>2, <1>5, <1>6, NoNewKey, SameProjects DEF BoundsInv, QuotaTypes, TableTypes
<1> QED BY <1>6, <1>7, ProjectsOnly

\* A report is accepted with a key and stored, which changes no tenant.
LEMMA ReportBounds ==
    ASSUME BoundsInv, NEW q \in Request, MutateProjects(q), UNCHANGED <<now, tenantVars, txn>>,
           NEW key \in IngestKey \cup {Nowhere}, reporter' = [reporter EXCEPT ![q] = key]
    PROVE  BoundsInv'
<1>1. now' \in Nat /\ now' >= now /\ TxnTypes' /\ TableTypes'
    BY DEF BoundsInv, QuotaTypes, MemberTypes, TxnTypes, TableTypes, tenantVars
<1>2. KeysBounded' /\ ProjectsBounded'
    BY <1>1, NoNewKey, SameProjects DEF BoundsInv, tenantVars
<1> QED BY <1>1, <1>2, ProjectsOnly

\* A new project has been counted under the lock.
LEMMA CreateProjectBounds ==
    ASSUME BoundsInv, CountsCover, NEW q \in Request, NEW p \in HostedProject, CreateProject(q, p),
           MutateProjects(q)
    PROVE  BoundsInv'
<1>1. PICK o : o = txn[q].organization
    OBVIOUS
<1>2. /\ Running(q, "project") /\ Commit(q) /\ Below(Projects(o), ProjectQuota)
      /\ hostedProject' = [hostedProject EXCEPT ![p] = o]
      /\ UNCHANGED <<creator, member, invitation, ingestKey, scenarioVersion>>
  <2>1. /\ Running(q, "project") /\ Commit(q) /\ Below(txn[q].counted, ProjectQuota)
        /\ hostedProject' = [hostedProject EXCEPT ![p] = o]
        /\ UNCHANGED <<creator, member, invitation, ingestKey, scenarioVersion>>
    BY <1>1 DEF CreateProject
  <2>2. Resources("project", o, txn[q].at) = Projects(o)
    BY DEF Resources
  <2> QED BY <1>1, <2>1, <2>2, RoomForOne, Operations, Quotas
<1>3. o \in Organization
    BY <1>1, <1>2, Underway, Operations
<1>4. hostedProject \in [HostedProject -> Organization \cup {Nowhere}]
    BY DEF BoundsInv, QuotaTypes, TableTypes
<1>5. /\ hostedProject' \in [HostedProject -> Organization \cup {Nowhere}] /\ hostedProject'[p] = o
      /\ \A r \in HostedProject : r # p => hostedProject'[r] = hostedProject[r]
    BY <1>2, <1>3, <1>4
<1>6. now' = now /\ now' \in Nat /\ now' >= now /\ TxnTypes' /\ reporter' = reporter
    BY <1>2, Committed
<1>7. ProjectsBounded'
  <2> SUFFICES ASSUME NEW n \in Organization
               PROVE  Within(Projects(n)', ProjectQuota) /\ Within(Scenarios(n)', ScenarioQuota)
    BY DEF ProjectsBounded, Within
  <2>1. Within(Projects(n), ProjectQuota) /\ Within(Scenarios(n), ScenarioQuota)
    BY DEF BoundsInv, ProjectsBounded
  <2>2. Scenarios(n)' = Scenarios(n)
    BY <1>2 DEF Scenarios
  <2>3. CASE n = o
    <3>1. Projects(n)' \in SUBSET (Projects(n) \cup {p}) /\ IsFiniteSet(Projects(n))
      BY <1>5, <2>1 DEF Projects, Within
    <3> QED BY <1>2, <2>1, <2>2, <2>3, <3>1, OneMore, Quotas
  <2>4. CASE n # o
    <3>1. Projects(n)' \in SUBSET Projects(n)
      BY <1>5, <2>4 DEF Projects
    <3> QED BY <2>1, <2>2, <3>1, Fewer, Quotas
  <2> QED BY <2>3, <2>4
<1>8. KeysBounded' /\ TableTypes'
    BY <1>2, <1>5, <1>6, NoNewKey DEF BoundsInv, QuotaTypes, TableTypes
<1> QED BY <1>6, <1>7, <1>8, ProjectsOnly

\* A new scenario version has been counted under the lock.
LEMMA CreateScenarioVersionBounds ==
    ASSUME BoundsInv, CountsCover, NEW q \in Request, NEW s \in ScenarioVersion,
           CreateScenarioVersion(q, s), MutateProjects(q)
    PROVE  BoundsInv'
<1>1. PICK o : o = txn[q].organization
    OBVIOUS
<1>2. /\ Running(q, "scenario") /\ Commit(q) /\ Below(Scenarios(o), ScenarioQuota)
      /\ scenarioVersion' = [scenarioVersion EXCEPT ![s] = o]
      /\ UNCHANGED <<creator, member, invitation, ingestKey, hostedProject>>
  <2>1. /\ Running(q, "scenario") /\ Commit(q) /\ Below(txn[q].counted, ScenarioQuota)
        /\ scenarioVersion' = [scenarioVersion EXCEPT ![s] = o]
        /\ UNCHANGED <<creator, member, invitation, ingestKey, hostedProject>>
    BY <1>1 DEF CreateScenarioVersion
  <2>2. Resources("scenario", o, txn[q].at) = Scenarios(o)
    BY DEF Resources
  <2> QED BY <1>1, <2>1, <2>2, RoomForOne, Operations, Quotas
<1>3. o \in Organization
    BY <1>1, <1>2, Underway, Operations
<1>4. scenarioVersion \in [ScenarioVersion -> Organization \cup {Nowhere}]
    BY DEF BoundsInv, QuotaTypes, TableTypes
<1>5. /\ scenarioVersion' \in [ScenarioVersion -> Organization \cup {Nowhere}]
      /\ scenarioVersion'[s] = o
      /\ \A r \in ScenarioVersion : r # s => scenarioVersion'[r] = scenarioVersion[r]
    BY <1>2, <1>3, <1>4
<1>6. now' = now /\ now' \in Nat /\ now' >= now /\ TxnTypes' /\ reporter' = reporter
    BY <1>2, Committed
<1>7. ProjectsBounded'
  <2> SUFFICES ASSUME NEW n \in Organization
               PROVE  Within(Projects(n)', ProjectQuota) /\ Within(Scenarios(n)', ScenarioQuota)
    BY DEF ProjectsBounded, Within
  <2>1. Within(Projects(n), ProjectQuota) /\ Within(Scenarios(n), ScenarioQuota)
    BY DEF BoundsInv, ProjectsBounded
  <2>2. Projects(n)' = Projects(n)
    BY <1>2 DEF Projects
  <2>3. CASE n = o
    <3>1. Scenarios(n)' \in SUBSET (Scenarios(n) \cup {s}) /\ IsFiniteSet(Scenarios(n))
      BY <1>5, <2>1 DEF Scenarios, Within
    <3> QED BY <1>2, <2>1, <2>2, <2>3, <3>1, OneMore, Quotas
  <2>4. CASE n # o
    <3>1. Scenarios(n)' \in SUBSET Scenarios(n)
      BY <1>5, <2>4 DEF Scenarios
    <3> QED BY <2>1, <2>2, <3>1, Fewer, Quotas
  <2> QED BY <2>3, <2>4
<1>8. KeysBounded' /\ TableTypes'
    BY <1>2, <1>5, <1>6, NoNewKey DEF BoundsInv, QuotaTypes, TableTypes
<1> QED BY <1>6, <1>7, <1>8, ProjectsOnly

\* Requests about projects, scenario versions, keys and reports stay within the quotas ...
LEMMA ProjectsBounds ==
    ASSUME BoundsInv, CountsCover, NEW q \in Request, MutateProjects(q)
    PROVE  BoundsInv'
<1>1. ASSUME NEW p \in HostedProject, CreateProject(q, p) PROVE BoundsInv'
    BY <1>1, CreateProjectBounds
<1>2. ASSUME NEW s \in ScenarioVersion, CreateScenarioVersion(q, s) PROVE BoundsInv'
    BY <1>2, CreateScenarioVersionBounds
<1>3. ASSUME NEW k \in IngestKey, NEW days \in 1 .. Lifetime, CreateIngestKey(q, k, days)
      PROVE  BoundsInv'
    BY <1>3, CreateIngestKeyBounds
<1>4. ASSUME NEW k \in IngestKey, NEW new \in IngestKey, NEW days \in 1 .. Lifetime,
             RotateIngestKey(q, k, new, days)
      PROVE  BoundsInv'
    BY <1>4, RotateIngestKeyBounds
<1>5. ASSUME NEW k \in IngestKey, RevokeIngestKey(q, k) PROVE BoundsInv'
    BY <1>5, RevokeIngestKeyBounds
<1>6. ASSUME NEW k \in IngestKey, AuthenticateIngestKey(q, k) PROVE BoundsInv'
    BY <1>6, ReportBounds DEF AuthenticateIngestKey
<1>7. ASSUME StoreReport(q) PROVE BoundsInv'
    BY <1>7, ReportBounds DEF StoreReport
<1> QED BY <1>1, <1>2, <1>3, <1>4, <1>5, <1>6, <1>7, Zenon DEF MutateProjects

\* ... and so do those about members and invitations.
LEMMA MembersBounds ==
    ASSUME BoundsInv, CountsCover, NEW q \in Request, MutateMembers(q)
    PROVE  BoundsInv'
<1>1. ASSUME NEW u \in User, RemoveMember(q, u) PROVE BoundsInv'
    BY <1>1, RemoveMemberBounds
<1>2. ASSUME NEW u \in User, NEW role \in MemberRole, ChangeRole(q, u, role) PROVE BoundsInv'
    BY <1>2, ChangeRoleBounds
<1>3. ASSUME NEW u \in User, NEW role \in MemberRole, NEW i \in Invitation,
             NEW days \in 1 .. Lifetime, CreateInvitation(q, i, u, role, days)
      PROVE  BoundsInv'
    BY <1>3, CreateInvitationBounds
<1>4. ASSUME NEW u \in User, NEW i \in Invitation, NEW at \in 0 .. now,
             BeginAccept(q, u, i, at) PROVE BoundsInv'
    BY <1>4, BeginAcceptBounds
<1>5. ASSUME LockToAccept(q) PROVE BoundsInv'
    BY <1>5, LockToAcceptBounds
<1>6. ASSUME AcceptInvitation(q) PROVE BoundsInv'
    BY <1>6, AcceptInvitationBounds
<1> QED BY <1>1, <1>2, <1>3, <1>4, <1>5, <1>6, Zenon DEF MutateMembers

\* Every step keeps the owners and the quotas.
LEMMA BoundsStep == BoundsInv /\ CountsCover /\ [TenancyNext]_tenancyVars => BoundsInv'
<1> SUFFICES ASSUME BoundsInv, CountsCover, [TenancyNext]_tenancyVars PROVE BoundsInv'
    OBVIOUS
<1>1. ASSUME now' \in Nat, now' >= now, UNCHANGED <<tenantVars, txn, reporter>> PROVE BoundsInv'
  <2>1. TenancyInv'
    BY TenancyStep DEF BoundsInv
  <2>2. TableTypes' /\ TxnTypes'
    BY <1>1, TxnsEnd DEF BoundsInv, QuotaTypes, TableTypes, tenantVars
  <2> QED BY <1>1, <2>1, <2>2, NothingNew DEF tenantVars
<1>2. CASE TenancyTick
    BY <1>1, <1>2 DEF TenancyTick, Tick, BoundsInv, QuotaTypes, MemberTypes
<1>3. CASE CleanInvitations
    BY <1>3, CleanInvitationsBounds
<1>4. ASSUME NEW u \in User, NEW o \in Organization, CreateOrganization(u, o) PROVE BoundsInv'
    BY <1>4, CreateOrganizationBounds
<1>5. ASSUME NEW q \in Request, MutateMembers(q) PROVE BoundsInv'
    BY <1>5, MembersBounds
<1>6. ASSUME NEW q \in Request, MutateProjects(q) PROVE BoundsInv'
    BY <1>6, ProjectsBounds
<1>7. ASSUME NEW q \in Request, Abort(q) PROVE BoundsInv'
    BY <1>7, AbortBounds
<1>8. ASSUME NEW q \in Request, NEW u \in User, NEW o \in Organization,
             NEW op \in DOMAIN Minimum, NEW at \in 0 .. now, Begin(q, u, o, op, at)
      PROVE  BoundsInv'
    BY <1>8, BeginBounds
<1>9. CASE UNCHANGED tenancyVars
    BY <1>1, <1>9 DEF tenancyVars, BoundsInv, QuotaTypes, MemberTypes
<1> QED BY <1>2, <1>3, <1>4, <1>5, <1>6, <1>7, <1>8, <1>9, Zenon DEF TenancyNext

\* What others have counted is still all there is: nothing is added to an organization
\* without its lock.
NoneAdded(o) ==
    \A p \in Organization, op \in DOMAIN Minimum, at \in Nat :
        p # o => Resources(op, p, at)' \in SUBSET Resources(op, p, at)

\* Resources shrink where every table does.
LEMMA ResourcesShrink ==
    ASSUME NEW p, NEW op, NEW at,
           ActiveInvitations(p, at)' \in SUBSET ActiveInvitations(p, at),
           ActiveKeys(p, at)' \in SUBSET ActiveKeys(p, at),
           Projects(p)' \in SUBSET Projects(p), Scenarios(p)' \in SUBSET Scenarios(p)
    PROVE  Resources(op, p, at)' \in SUBSET Resources(op, p, at)
BY DEF Resources

\* No request has counted anything at first.
LEMMA CountsInit == TenancyInit => CountsCover
BY NoTxnFields DEF TenancyInit, CountsCover

\* A step that ends transactions, and adds only to the organization of one that ends.
LEMMA CountsKept ==
    ASSUME BoundsInv, CountsCover, NEW o, NoneAdded(o),
           \A q \in Request : \/ txn'[q].op \notin DOMAIN Minimum
                              \/ txn'[q] = txn[q]
                                    /\ (txn[q].op \in DOMAIN Minimum => txn[q].organization # o)
    PROVE  CountsCover'
<1> SUFFICES ASSUME NEW q \in Request, txn'[q].op \in DOMAIN Minimum
             PROVE  Covers(txn[q].counted, Resources(txn[q].op, txn[q].organization, txn[q].at))'
    BY DEF CountsCover
<1>1. txn'[q] = txn[q] /\ txn[q].op \in DOMAIN Minimum /\ txn[q].organization # o
    OBVIOUS
<1>2. PICK op, p, at, counted : /\ op = txn[q].op /\ p = txn[q].organization /\ at = txn[q].at
                                /\ counted = txn[q].counted
    OBVIOUS
<1>3. p \in Organization /\ at \in Nat /\ op \in DOMAIN Minimum /\ p # o
    BY <1>1, <1>2, Operations DEF BoundsInv, TenancyInv, Belong, QuotaTypes, TxnTypes
<1>4. Covers(counted, Resources(op, p, at))
    BY <1>1, <1>2 DEF CountsCover
<1>5. Resources(op, p, at)' \in SUBSET Resources(op, p, at)
    BY <1>3 DEF NoneAdded
<1>6. Covers(counted, Resources(op, p, at)')
    BY <1>4, <1>5 DEF Covers
<1>7. Resources(txn[q].op, txn[q].organization, txn[q].at)' = Resources(op, p, at)'
    BY <1>1, <1>2, Zenon DEF Resources, ActiveInvitations, ActiveKeys, Projects, Scenarios
<1> QED BY <1>1, <1>2, <1>6, <1>7 DEF Covers

\* A commit ends one transaction.
LEMMA CommitsEnd ==
    ASSUME BoundsInv, NEW q \in Request, Commit(q)
    PROVE  \A r \in Request : txn'[r].op \notin DOMAIN Minimum \/ txn'[r] = txn[r]
BY NoTxnFields DEF Commit, BoundsInv, TenancyInv, Shape

\* What is not added to another organization does not count there.
LEMMA AddedOnlyTo ==
    ASSUME NEW o,
           \A i \in Invitation : invitation'[i].state = "open" =>
                invitation'[i] = invitation[i] \/ invitation'[i].organization = o,
           \A k \in IngestKey : ~ingestKey'[k].revoked =>
                ingestKey'[k] = ingestKey[k] \/ ingestKey'[k].organization = o,
           \A p \in HostedProject : hostedProject'[p] = hostedProject[p] \/ hostedProject'[p] = o,
           \A s \in ScenarioVersion :
                scenarioVersion'[s] = scenarioVersion[s] \/ scenarioVersion'[s] = o
    PROVE  NoneAdded(o)
<1> SUFFICES ASSUME NEW p \in Organization, NEW op \in DOMAIN Minimum, NEW at \in Nat, p # o
             PROVE  Resources(op, p, at)' \in SUBSET Resources(op, p, at)
    BY DEF NoneAdded
<1>1. ActiveInvitations(p, at)' \in SUBSET ActiveInvitations(p, at)
    BY DEF ActiveInvitations
<1>2. ActiveKeys(p, at)' \in SUBSET ActiveKeys(p, at)
    BY DEF ActiveKeys
<1>3. Projects(p)' \in SUBSET Projects(p) /\ Scenarios(p)' \in SUBSET Scenarios(p)
    BY DEF Projects, Scenarios
<1> QED BY <1>1, <1>2, <1>3, ResourcesShrink

\* Steps that add nothing, whatever transactions they end.
LEMMA QuietCounts ==
    ASSUME BoundsInv, CountsCover, NoneAdded(Nowhere),
           \A q \in Request : txn'[q].op \notin DOMAIN Minimum \/ txn'[q] = txn[q]
    PROVE  CountsCover'
<1>1. \A q \in Request : txn[q].op \in DOMAIN Minimum => txn[q].organization # Nowhere
    BY Operations, TenancyAssumption DEF BoundsInv, TenancyInv, Belong
<1> QED BY <1>1, CountsKept

\* Who commits holds the lock of the organization that it adds to.
LEMMA CommitCounts ==
    ASSUME BoundsInv, CountsCover, NEW q \in Request, txn[q].locked, Commit(q),
           NoneAdded(txn[q].organization)
    PROVE  CountsCover'
<1>1. txn'[q] = NoTxn /\ \A r \in Request : r # q => txn'[r] = txn[r]
    BY DEF Commit, BoundsInv, TenancyInv, Shape
<1>2. \A r \in Request : r # q /\ txn[r].op \in DOMAIN Minimum =>
                                txn[r].organization # txn[q].organization
    BY DEF BoundsInv, TenancyInv, Locks
<1> QED BY <1>1, <1>2, NoTxnFields, CountsKept

\* The tables as they were.
LEMMA SameTables ==
    ASSUME UNCHANGED <<invitation, ingestKey, hostedProject, scenarioVersion>>
    PROVE  NoneAdded(Nowhere)
BY AddedOnlyTo

\* withAuthorizedMutation() counts what there is.
LEMMA BeginCounts ==
    ASSUME BoundsInv, CountsCover, NEW q \in Request, NEW u \in User, NEW o \in Organization,
           NEW op \in DOMAIN Minimum, NEW at \in 0 .. now, Begin(q, u, o, op, at)
    PROVE  CountsCover'
<1>1. PICK t : /\ t = [NoTxn EXCEPT !.op = op, !.user = u, !.organization = o, !.at = at,
                            !.role = member[o][u], !.locked = TRUE, !.saw = member[o],
                            !.counted = Resources(op, o, at)]
               /\ txn' = [txn EXCEPT ![q] = t]
    BY DEF Begin
<1>2. t.op = op /\ t.organization = o /\ t.at = at /\ t.counted = Resources(op, o, at)
    BY <1>1, BegunFields
<1>3. txn'[q] = t /\ \A r \in Request : r # q => txn'[r] = txn[r]
    BY <1>1 DEF BoundsInv, TenancyInv, Shape
<1>4. UNCHANGED <<invitation, ingestKey, hostedProject, scenarioVersion>>
    BY DEF Begin, tenantVars
<1>5. now \in Nat /\ at \in Nat /\ at <= now
    BY DEF BoundsInv, QuotaTypes, MemberTypes
<1>6. IsFiniteSet(Resources(op, o, at))
  <2>1. IsFiniteSet(ActiveInvitations(o, at)) /\ IsFiniteSet(ActiveKeys(o, at))
    BY <1>5, FewerLater
  <2>2. IsFiniteSet(Projects(o)) /\ IsFiniteSet(Scenarios(o)) /\ IsFiniteSet({})
    BY FS_EmptySet DEF BoundsInv, ProjectsBounded, Within
  <2> QED BY <2>1, <2>2 DEF Resources
<1>7. ASSUME NEW r \in Request, txn'[r].op \in DOMAIN Minimum
      PROVE  Covers(txn'[r].counted, Resources(txn'[r].op, txn'[r].organization, txn'[r].at))
  <2>1. CASE r = q
    BY <1>2, <1>3, <1>6, <2>1 DEF Covers
  <2>2. CASE r # q
    BY <1>3, <1>7, <2>2 DEF CountsCover
  <2> QED BY <2>1, <2>2
<1>8. \A p, a, b : Resources(a, p, b)' = Resources(a, p, b)
    BY <1>4 DEF Resources, ActiveInvitations, ActiveKeys, Projects, Scenarios
<1> QED BY <1>7, <1>8 DEF CountsCover, Covers

\* Members, invitations and acceptance.
LEMMA MembersCounts ==
    ASSUME BoundsInv, CountsCover, NEW q \in Request, MutateMembers(q)
    PROVE  CountsCover'
<1>1. PICK o : o = txn[q].organization
    OBVIOUS
<1>2. ASSUME NEW u \in User, RemoveMember(q, u) \/ \E role \in MemberRole : ChangeRole(q, u, role)
      PROVE  CountsCover'
  <2>1. Commit(q) /\ UNCHANGED <<invitation, ingestKey, hostedProject, scenarioVersion>>
    BY <1>2, Zenon DEF RemoveMember, ChangeRole
  <2> QED BY <2>1, SameTables, CommitsEnd, QuietCounts
<1>3. ASSUME NEW u \in User, NEW role \in MemberRole, NEW i \in Invitation,
             NEW days \in 1 .. Lifetime, CreateInvitation(q, i, u, role, days)
      PROVE  CountsCover'
  <2>1. PICK row, expired :
        /\ row = [organization |-> o, email |-> u, role |-> role,
                  expiresAt |-> txn[q].at + days, state |-> "open"]
        /\ invitation' = [j \in Invitation |->
            IF j = i THEN row
            ELSE IF j \in expired THEN [invitation[j] EXCEPT !.state = "revoked"]
            ELSE invitation[j]]
    BY <1>1, <1>3, Zenon DEF CreateInvitation
  <2>2. /\ Running(q, "invite") /\ Commit(q)
        /\ UNCHANGED <<ingestKey, hostedProject, scenarioVersion>>
    BY <1>3, Zenon DEF CreateInvitation
  <2>3. txn[q].locked
    BY <2>2, Operations DEF Running, BoundsInv, TenancyInv, Locks
  <2>4. \A j \in Invitation : [invitation[j] EXCEPT !.state = "revoked"].state # "open"
    BY DEF BoundsInv, TenancyInv, Shape
  <2>5. \A j \in Invitation : invitation'[j].state = "open" =>
            invitation'[j] = invitation[j] \/ invitation'[j].organization = o
    BY <2>1, <2>4
  <2> QED BY <1>1, <2>2, <2>3, <2>5, AddedOnlyTo, CommitCounts
<1>4. ASSUME NEW u \in User, NEW i \in Invitation, NEW at \in 0 .. now, BeginAccept(q, u, i, at)
      PROVE  CountsCover'
  <2>1. PICK t : /\ t = [NoTxn EXCEPT !.op = "accept", !.user = u, !.at = at,
                            !.organization = invitation[i].organization,
                            !.invitation = invitation[i]]
                 /\ txn' = [txn EXCEPT ![q] = t]
    BY <1>4 DEF BeginAccept
  <2>2. t.op = "accept"
    BY <2>1 DEF NoTxn
  <2>3. txn'[q] = t /\ \A r \in Request : r # q => txn'[r] = txn[r]
    BY <2>1 DEF BoundsInv, TenancyInv, Shape
  <2>4. UNCHANGED <<invitation, ingestKey, hostedProject, scenarioVersion>>
    BY <1>4 DEF BeginAccept, tenantVars
  <2> QED BY <2>2, <2>3, <2>4, Operations, SameTables, QuietCounts
<1>5. ASSUME LockToAccept(q) PROVE CountsCover'
  <2>1. PICK t : /\ t = [txn[q] EXCEPT !.locked = TRUE, !.saw = member[txn[q].organization]]
                 /\ txn' = [txn EXCEPT ![q] = t]
    BY <1>5 DEF LockToAccept
  <2>2. t.op = "accept"
    BY <1>5, <2>1 DEF LockToAccept, Running
  <2>3. txn'[q] = t /\ \A r \in Request : r # q => txn'[r] = txn[r]
    BY <2>1 DEF BoundsInv, TenancyInv, Shape
  <2>4. UNCHANGED <<invitation, ingestKey, hostedProject, scenarioVersion>>
    BY <1>5 DEF LockToAccept, tenantVars
  <2> QED BY <2>2, <2>3, <2>4, Operations, SameTables, QuietCounts
<1>6. ASSUME AcceptInvitation(q) PROVE CountsCover'
  <2>1. PICK accepted :
        invitation' = [i \in Invitation |->
            IF invitation[i] = accepted THEN [invitation[i] EXCEPT !.state = "accepted"]
            ELSE invitation[i]]
    BY <1>6, Zenon DEF AcceptInvitation
  <2>2. Commit(q) /\ UNCHANGED <<ingestKey, hostedProject, scenarioVersion>>
    BY <1>6, Zenon DEF AcceptInvitation
  <2>3. \A i \in Invitation : [invitation[i] EXCEPT !.state = "accepted"].state # "open"
    BY DEF BoundsInv, TenancyInv, Shape
  <2>4. \A i \in Invitation : invitation'[i].state = "open" => invitation'[i] = invitation[i]
    BY <2>1, <2>3
  <2>5. NoneAdded(Nowhere)
    BY <2>2, <2>4, AddedOnlyTo
  <2> QED BY <2>2, <2>5, CommitsEnd, QuietCounts
<1> QED BY <1>2, <1>3, <1>4, <1>5, <1>6, Zenon DEF MutateMembers

\* Projects, scenario versions, keys and reports.
LEMMA ProjectsCounts ==
    ASSUME BoundsInv, CountsCover, NEW q \in Request, MutateProjects(q)
    PROVE  CountsCover'
<1>1. PICK o : o = txn[q].organization
    OBVIOUS
<1>2. ASSUME NEW op \in DOMAIN Minimum, Running(q, op), Commit(q), NoneAdded(o) PROVE CountsCover'
  <2>1. txn[q].locked
    BY <1>2 DEF Running, BoundsInv, TenancyInv, Locks
  <2> QED BY <1>1, <1>2, <2>1, CommitCounts
<1>3. ASSUME NEW p \in HostedProject, CreateProject(q, p) PROVE CountsCover'
  <2>1. /\ Running(q, "project") /\ Commit(q) /\ hostedProject' = [hostedProject EXCEPT ![p] = o]
        /\ UNCHANGED <<invitation, ingestKey, scenarioVersion>>
    BY <1>1, <1>3 DEF CreateProject
  <2>2. \A r \in HostedProject : hostedProject'[r] = hostedProject[r] \/ hostedProject'[r] = o
    BY <2>1 DEF BoundsInv, QuotaTypes, TableTypes
  <2>3. NoneAdded(o)
    BY <2>1, <2>2, AddedOnlyTo
  <2> QED BY <1>2, <2>1, <2>3, Operations
<1>4. ASSUME NEW s \in ScenarioVersion, CreateScenarioVersion(q, s) PROVE CountsCover'
  <2>1. /\ Running(q, "scenario") /\ Commit(q)
        /\ scenarioVersion' = [scenarioVersion EXCEPT ![s] = o]
        /\ UNCHANGED <<invitation, ingestKey, hostedProject>>
    BY <1>1, <1>4 DEF CreateScenarioVersion
  <2>2. \A r \in ScenarioVersion :
            scenarioVersion'[r] = scenarioVersion[r] \/ scenarioVersion'[r] = o
    BY <2>1 DEF BoundsInv, QuotaTypes, TableTypes
  <2>3. NoneAdded(o)
    BY <2>1, <2>2, AddedOnlyTo
  <2> QED BY <1>2, <2>1, <2>3, Operations
<1>5. ASSUME NEW k \in IngestKey, NEW days \in 1 .. Lifetime, CreateIngestKey(q, k, days)
      PROVE  CountsCover'
  <2>1. PICK row : /\ row = [organization |-> o, expiresAt |-> txn[q].at + days, revoked |-> FALSE]
                   /\ ingestKey' = [ingestKey EXCEPT ![k] = row]
    BY <1>1, <1>5 DEF CreateIngestKey
  <2>2. /\ Running(q, "createKey") /\ Commit(q)
        /\ UNCHANGED <<invitation, hostedProject, scenarioVersion>>
    BY <1>5 DEF CreateIngestKey
  <2>3. \A j \in IngestKey : ingestKey'[j] = ingestKey[j] \/ ingestKey'[j].organization = o
    BY <2>1 DEF BoundsInv, QuotaTypes, TableTypes
  <2>4. NoneAdded(o)
    BY <2>2, <2>3, AddedOnlyTo
  <2> QED BY <1>2, <2>2, <2>4, Operations
<1>6. ASSUME NEW k \in IngestKey, NEW new \in IngestKey, NEW days \in 1 .. Lifetime,
             RotateIngestKey(q, k, new, days)
      PROVE  CountsCover'
  <2>1. PICK row, old :
        /\ row = [organization |-> o, expiresAt |-> txn[q].at + days, revoked |-> FALSE]
        /\ old = [ingestKey[k] EXCEPT !.revoked = TRUE]
        /\ ingestKey' = [ingestKey EXCEPT ![k] = old, ![new] = row]
    BY <1>1, <1>6 DEF RotateIngestKey
  <2>2. /\ Running(q, "rotateKey") /\ Commit(q) /\ ingestKey[k].organization = o
        /\ UNCHANGED <<invitation, hostedProject, scenarioVersion>>
    BY <1>1, <1>6 DEF RotateIngestKey
  <2>3. old.organization = o
    BY <2>1, <2>2
  <2>4. \A j \in IngestKey : ingestKey'[j] = ingestKey[j] \/ ingestKey'[j].organization = o
    BY <2>1, <2>3 DEF BoundsInv, QuotaTypes, TableTypes
  <2>5. NoneAdded(o)
    BY <2>2, <2>4, AddedOnlyTo
  <2> QED BY <1>2, <2>2, <2>5, Operations
<1>7. ASSUME NEW k \in IngestKey, RevokeIngestKey(q, k) PROVE CountsCover'
  <2>1. PICK old : /\ old = [ingestKey[k] EXCEPT !.revoked = TRUE]
                   /\ ingestKey' = [ingestKey EXCEPT ![k] = old]
    BY <1>7 DEF RevokeIngestKey
  <2>2. /\ Running(q, "revokeKey") /\ Commit(q) /\ ingestKey[k].organization = o
        /\ UNCHANGED <<invitation, hostedProject, scenarioVersion>>
    BY <1>1, <1>7 DEF RevokeIngestKey
  <2>3. old.organization = o
    BY <2>1, <2>2
  <2>4. \A j \in IngestKey : ingestKey'[j] = ingestKey[j] \/ ingestKey'[j].organization = o
    BY <2>1, <2>3 DEF BoundsInv, QuotaTypes, TableTypes
  <2>5. NoneAdded(o)
    BY <2>2, <2>4, AddedOnlyTo
  <2> QED BY <1>2, <2>2, <2>5, Operations
<1>8. ASSUME StoreReport(q) \/ \E k \in IngestKey : AuthenticateIngestKey(q, k) PROVE CountsCover'
  <2>1. UNCHANGED <<tenantVars, txn>>
    BY <1>8 DEF StoreReport, AuthenticateIngestKey
  <2> QED BY <2>1, SameTables, QuietCounts DEF tenantVars
<1> QED BY <1>3, <1>4, <1>5, <1>6, <1>7, <1>8, Zenon DEF MutateProjects

\* Every step leaves the counts of the requests under way good.
LEMMA CountsStep == BoundsInv /\ CountsCover /\ [TenancyNext]_tenancyVars => CountsCover'
<1> SUFFICES ASSUME BoundsInv, CountsCover, [TenancyNext]_tenancyVars PROVE CountsCover'
    OBVIOUS
<1>1. CASE TenancyTick \/ UNCHANGED tenancyVars
  <2>1. UNCHANGED <<tenantVars, txn>>
    BY <1>1 DEF TenancyTick, tenancyVars
  <2> QED BY <2>1, SameTables, QuietCounts DEF tenantVars
<1>2. CASE CleanInvitations
  <2>1. PICK gone :
        invitation' = [i \in Invitation |->
            IF i \in gone THEN [invitation[i] EXCEPT !.state = "none"] ELSE invitation[i]]
    BY <1>2, Zenon DEF CleanInvitations
  <2>2. UNCHANGED <<ingestKey, hostedProject, scenarioVersion, txn>>
    BY <1>2 DEF CleanInvitations
  <2>3. \A i \in Invitation : [invitation[i] EXCEPT !.state = "none"].state # "open"
    BY DEF BoundsInv, TenancyInv, Shape
  <2>4. \A i \in Invitation : invitation'[i].state = "open" => invitation'[i] = invitation[i]
    BY <2>1, <2>3
  <2> QED BY <2>2, <2>4, AddedOnlyTo, QuietCounts
<1>3. ASSUME NEW u \in User, NEW o \in Organization, CreateOrganization(u, o) PROVE CountsCover'
  <2>1. UNCHANGED <<invitation, ingestKey, hostedProject, scenarioVersion, txn>>
    BY <1>3 DEF CreateOrganization
  <2> QED BY <2>1, SameTables, QuietCounts
<1>4. ASSUME NEW q \in Request, Abort(q) PROVE CountsCover'
  <2>1. Commit(q) /\ UNCHANGED <<invitation, ingestKey, hostedProject, scenarioVersion>>
    BY <1>4 DEF Abort, tenantVars
  <2> QED BY <2>1, SameTables, CommitsEnd, QuietCounts
<1>5. ASSUME NEW q \in Request, MutateMembers(q) PROVE CountsCover'
    BY <1>5, MembersCounts
<1>6. ASSUME NEW q \in Request, MutateProjects(q) PROVE CountsCover'
    BY <1>6, ProjectsCounts
<1>7. ASSUME NEW q \in Request, NEW u \in User, NEW o \in Organization,
             NEW op \in DOMAIN Minimum, NEW at \in 0 .. now, Begin(q, u, o, op, at)
      PROVE  CountsCover'
    BY <1>7, BeginCounts
<1> QED BY <1>1, <1>2, <1>3, <1>4, <1>5, <1>6, <1>7, Zenon DEF TenancyNext

\* Owners and quotas, with the types, the locks and the counts they rest on, always hold.
THEOREM BoundsInvariance == TenancySpec => [](BoundsInv /\ CountsCover)
BY BoundsInit, BoundsStep, CountsInit, CountsStep, PTL DEF TenancySpec

\* For any users, organizations, requests and quotas: however the requests interleave, an
\* organization keeps an owner, and enforceQuota() keeps its members, open invitations,
\* active keys, projects and scenario versions within their quotas.
THEOREM TenantsStayBounded == TenancySpec => []TenantsStayWithinBounds
<1>1. BoundsInv /\ CountsCover => TenantsStayWithinBounds
    BY DEF BoundsInv, OwnersStay, MembersBounded, InvitationsBounded, KeysBounded, ProjectsBounded,
       Within, TenantsStayWithinBounds
<1> QED BY <1>1, BoundsInvariance, PTL

-----------------------------------------------------------------------------
(***************************************************************************)
(* All parts together.  The parts share the clock and nothing else: when   *)
(* one of them moves, every other one rests or sees a tick of its own.     *)
(* Therefore each behaviour of the whole is one of every part, and what is *)
(* proved of the parts holds of the whole.                                 *)
(***************************************************************************)
AllAsked == UNION {Asked[p] : p \in DOMAIN Asked}

\* A request to the hosted service leaves the clock alone.
LEMMA TenantsMoveClock ==
    ASSUME TenancyNext
    PROVE  Tick \/ now' = now
<1>1. CASE TenancyTick \/ CleanInvitations
    BY <1>1, Zenon DEF TenancyTick, CleanInvitations
<1>2. ASSUME NEW u \in User, NEW o \in Organization, CreateOrganization(u, o) PROVE now' = now
    BY <1>2, Zenon DEF CreateOrganization
<1>3. ASSUME NEW q \in Request, MutateMembers(q) PROVE now' = now
    BY <1>3, Zenon DEF MutateMembers, RemoveMember, ChangeRole, CreateInvitation, BeginAccept,
       LockToAccept, AcceptInvitation, Commit
<1>4. ASSUME NEW q \in Request, MutateProjects(q) PROVE now' = now
    BY <1>4, Zenon DEF MutateProjects, CreateProject, CreateScenarioVersion, CreateIngestKey,
       RotateIngestKey, RevokeIngestKey, AuthenticateIngestKey, StoreReport, Commit
<1>5. ASSUME NEW q \in Request, Abort(q) PROVE now' = now
    BY <1>5, Zenon DEF Abort, Commit
<1>6. ASSUME NEW q \in Request, NEW u \in User, NEW o \in Organization,
             NEW op \in DOMAIN Minimum, NEW at \in 0 .. now, Begin(q, u, o, op, at)
      PROVE  now' = now
    BY <1>6, Zenon DEF Begin
<1> QED BY <1>1, <1>2, <1>3, <1>4, <1>5, <1>6, Zenon DEF TenancyNext

\* Whatever is requested, the tenants make a step of their own.
LEMMA TenantsMoveOn == \A requested : TenantsMove(requested) => TenancyNext
BY DEF TenantsMove

\* Neither do the pack and cost governance touch it.
LEMMA OthersMoveClock ==
    ASSUME CostNext \/ (\E p \in DOMAIN Asked : StripeNext(Asked[p]))
    PROVE  Tick \/ now' = now
<1>1. CASE CostNext
    BY <1>1, Zenon DEF CostNext, CostTick, ListAlerts, RecordCost, ConfigureBudget, RemoveBudget,
       AcknowledgeAlert
<1>2. ASSUME NEW p \in DOMAIN Asked, StripeNext(Asked[p]) PROVE Tick \/ now' = now
    BY <1>2, Zenon DEF StripeNext, Serve, ClearState
<1> QED BY <1>1, <1>2

\* The ledger moves the clock by one at most, while an action is recorded.
LEMMA LedgerMovesClock ==
    ASSUME LedgerInv, LedgerNext \/ ReconNext
    PROVE  Tick \/ now' = now
<1>1. ASSUME NEW t \in LedgerTenant, RecordSomething(t) PROVE Tick \/ now' = now
  <2>1. PICK e \in Envelope, h \in ReceiptHistory, later \in {now, now + 1} \cap 0 .. MaxTime :
          \E n \in SplitAt \cup {Len(Stages(h))} : RecordAction(t, e, h, n, later)
      BY <1>1 DEF RecordSomething
  <2>2. now' = later
      BY <2>1, Zenon DEF RecordAction
  <2>3. now \in Nat /\ MaxTime \in Nat
      BY ClockAssumption DEF LedgerInv
  <2> QED BY <2>2, <2>3 DEF Tick
<1>2. CASE LedgerNext
  <2>1. ASSUME NEW t \in LedgerTenant,
               \/ \E days \in RetentionDays \cup {Forever} : ConfigureRetention(t, days)
               \/ \E active \in BOOLEAN : SetLegalHold(t, active)
               \/ RequestDeletion(t)
               \/ \E id \in LedgerActionId : CreateIncidentFixture(t, id)
        PROVE  now' = now
      BY <2>1, Zenon DEF ConfigureRetention, SetLegalHold, RequestDeletion, Govern, CreateIncidentFixture
  <2> QED BY <1>1, <1>2, <2>1, Zenon DEF LedgerNext, LedgerTick
<1>3. CASE ReconNext
  <2>1. OwnTenant \in LedgerTenant
      BY ReconciliationAssumption
  <2>2. CASE LedgerMoves
      BY <1>1, <2>1, <2>2, Zenon DEF LedgerMoves, LedgerTick, ConfigureRetention, Govern
  <2>3. CASE UNCHANGED ledgerVars
      BY <2>3 DEF ledgerVars
  <2> QED BY <1>3, <2>2, <2>3, Zenon DEF ReconNext, StartRun, SaveFindings, RecordSamples, RunEnds,
          Classify, Resolve, ProviderChanges
<1> QED BY <1>2, <1>3

\* Of reconciliation the ledger sees its own steps.
LEMMA ReconIsLedger ==
    ASSUME ReconNext
    PROVE  LedgerNext \/ UNCHANGED ledgerVars
<1>1. OwnTenant \in LedgerTenant
    BY ReconciliationAssumption
<1>2. CASE LedgerMoves
    BY <1>1, <1>2, Zenon DEF LedgerMoves, LedgerNext
<1> QED BY <1>2, Zenon DEF ReconNext, StartRun, SaveFindings, RecordSamples, RunEnds,
        Classify, Resolve, ProviderChanges

\* The step of a part moves the clock by one at most, and the ledger makes a step of its own
\* or rests.
LEMMA WholeStep ==
    ASSUME LedgerInv, Next \/ UNCHANGED allVars
    PROVE  /\ Tick \/ now' = now
           /\ LedgerNext \/ UNCHANGED ledgerVars
<1>0. ASSUME Tick \/ now' = now, UNCHANGED ledgerOnly PROVE LedgerNext \/ UNCHANGED ledgerVars
    BY <1>0, Zenon DEF LedgerNext, LedgerTick, ledgerVars
<1>1. CASE UNCHANGED allVars
    BY <1>1, Zenon DEF allVars, ledgerVars
<1>2. CASE LedgerNext \/ ReconNext
    BY <1>2, LedgerMovesClock, ReconIsLedger
<1>3. CASE CostNext /\ UNCHANGED ledgerOnly
    BY <1>0, <1>3, OthersMoveClock
<1>4. CASE UNCHANGED <<now, ledgerOnly>>
    BY <1>0, <1>4
<1>5. CASE TenancyNext /\ UNCHANGED ledgerOnly
    BY <1>0, <1>5, TenantsMoveClock
<1>6. CASE part \in DOMAIN Asked /\ StripeNext(Asked[part]) /\ UNCHANGED ledgerOnly
    BY <1>0, <1>6, OthersMoveClock
<1> QED BY <1>1, <1>2, <1>3, <1>4, <1>5, <1>6, TenantsMoveOn, Zenon DEF Next

\* A step of the whole is a step of every part, or one in which it rests.
LEMMA PartSteps ==
    ASSUME LedgerInv, Next \/ UNCHANGED allVars
    PROVE  /\ [LedgerNext]_ledgerVars /\ [CostNext]_costVars /\ [BackupNext]_backupVars
           /\ [TenancyNext]_tenancyVars /\ [StripeNext(AllAsked)]_stripeVars /\ [WorldNext]_worldVars
<1>1. Tick \/ now' = now
    BY WholeStep
<1>2. [LedgerNext]_ledgerVars
    BY WholeStep
<1>3. CostNext \/ UNCHANGED costOnly
    BY Zenon DEF Next, allVars
<1>4. [CostNext]_costVars
    BY <1>1, <1>3, Zenon DEF CostNext, CostTick, costVars
<1>5. [BackupNext]_backupVars
    BY Zenon DEF Next, allVars
<1>6. TenancyNext \/ UNCHANGED tenantOnly
    BY TenantsMoveOn, Zenon DEF Next, allVars
<1>7. [TenancyNext]_tenancyVars
  <2>1. CASE UNCHANGED tenantOnly
    <3>1. UNCHANGED <<tenantVars, txn, reporter>>
        BY <2>1 DEF tenantOnly
    <3> QED BY <1>1, <3>1, Zenon DEF TenancyNext, TenancyTick, tenancyVars
  <2> QED BY <1>6, <2>1
<1>8. (part \in DOMAIN Asked /\ StripeNext(Asked[part])) \/ UNCHANGED stripeOnly
    BY Zenon DEF Next, allVars
<1>9. [StripeNext(AllAsked)]_stripeVars
  <2>1. CASE UNCHANGED stripeOnly
      BY <1>1, <2>1, Zenon DEF StripeNext, stripeVars
  <2>2. CASE part \in DOMAIN Asked /\ StripeNext(Asked[part])
    <3>1. Asked[part] \subseteq AllAsked
        BY <2>2, Zenon DEF AllAsked
    <3> QED BY <2>2, <3>1, Zenon DEF StripeNext
  <2> QED BY <1>8, <2>1, <2>2
<1>10. [WorldNext]_worldVars
    BY Zenon DEF Next, allVars
<1> QED BY <1>2, <1>4, <1>5, <1>7, <1>9, <1>10

\* The whole begins where its parts begin.
LEMMA PartsInit ==
    Init => /\ ReconInit /\ LedgerInit /\ CostInit /\ BackupInit /\ TenancyInit /\ StripeInit
            /\ InitWorld
BY DEF Init, ReconInit

\* What one part does is what it could do alone: every behaviour of the composed service is
\* one of each of its parts.
THEOREM PartsStandAlone ==
    Spec => /\ LedgerSpec /\ CostSpec /\ BackupSpec /\ TenancySpec /\ StripeSpec(AllAsked)
            /\ WorldSpec
<1>1. Init => LedgerInv
    BY PartsInit, LedgerInitially
<1>2. LedgerInv /\ [Next]_allVars => LedgerInv'
  <2> SUFFICES ASSUME LedgerInv, [Next]_allVars PROVE LedgerInv'
      OBVIOUS
  <2>1. LedgerNext \/ UNCHANGED ledgerVars
      BY WholeStep
  <2> QED BY <2>1, LedgerStep
<1>3. LedgerInv /\ [Next]_allVars =>
        /\ [LedgerNext]_ledgerVars /\ [CostNext]_costVars /\ [BackupNext]_backupVars
        /\ [TenancyNext]_tenancyVars /\ [StripeNext(AllAsked)]_stripeVars /\ [WorldNext]_worldVars
    BY PartSteps
<1> QED BY <1>1, <1>2, <1>3, PartsInit, PTL
        DEF Spec, LedgerSpec, CostSpec, BackupSpec, TenancySpec, StripeSpec, WorldSpec

\* What has to be kept is kept when a store makes room, whichever part moves.
THEOREM HeldThingsStay == Spec => NothingHeldIsDropped
BY PartsStandAlone, HeldIsKept, AlertsAreKept, PTL DEF NothingHeldIsDropped

\* The ledger of the whole service tells what was recorded.
THEOREM WholeLedgerIsTrue == Spec => []LedgerTellsTheRecord
BY PartsStandAlone, LedgerIsTrue, PTL

\* A run of reconciliation is not disturbed by what other parts do.
LEMMA WholeReconStep ==
    ASSUME ReconInv, Next \/ UNCHANGED allVars
    PROVE  ReconInv'
<1>1. CASE ReconNext
    BY <1>1, ReconStep
<1>2. CASE UNCHANGED reconOnly
  <2>1. LedgerNext \/ UNCHANGED ledgerVars
      BY WholeStep DEF ReconInv
  <2>2. LedgerInv'
      BY <2>1, LedgerStep DEF ReconInv
  <2>3. recon' = recon /\ findings' = findings
      BY <1>2 DEF reconOnly
  <2> QED BY <2>2, <2>3 DEF ReconInv, OneOpenFindingPerAction
<1> QED BY <1>1, <1>2, Zenon DEF Next, allVars

\* Whichever part moves: one open finding per action, and a retry is called safe for an
\* attempted action only if the timeline that was read had already lost its intent.
THEOREM WholeFindingsAreSound == Spec => []FindingsAreSound
<1>1. Init => ReconInv
    BY PartsInit, ReconInitially
<1>2. ReconInv /\ [Next]_allVars => ReconInv'
    BY WholeReconStep
<1> QED BY <1>1, <1>2, RetriesAreSafe, PTL DEF Spec

\* The tables of the tenants have their types.
LEMMA TenantsTyped == BoundsInv => TenancyTypeOK
<1> SUFFICES ASSUME BoundsInv PROVE TenancyTypeOK
    OBVIOUS
<1>1. MemberTypes /\ TableTypes
    BY DEF BoundsInv, QuotaTypes
<1>2. ASSUME NEW i \in Invitation
      PROVE  invitation[i].state \in {"none", "open", "revoked", "accepted"}
    BY <1>1 DEF TableTypes, InvitationRow
<1>3. ASSUME NEW k \in IngestKey PROVE ingestKey[k].organization \in Organization \cup {Nowhere}
    BY <1>1 DEF TableTypes, KeyRow
<1> QED BY <1>1, <1>2, <1>3 DEF MemberTypes, TableTypes, TenancyTypeOK

\* For any ledger entries, findings, samples, files, objects and tenants: whichever part
\* moves, every store of the service keeps to its types and to its bounds.
THEOREM ReliabilityTypes == Spec => []ReliabilityTypeOK
<1>1. Init => ReconInv /\ ReconLimits
    BY PartsInit, ReconInitially, LimitsInitially
<1>2. ReconInv /\ ReconLimits /\ [Next]_allVars => (ReconInv /\ ReconLimits)'
  <2> SUFFICES ASSUME ReconInv, ReconLimits, [Next]_allVars PROVE (ReconInv /\ ReconLimits)'
      OBVIOUS
  <2>1. ReconNext \/ UNCHANGED reconOnly
      BY Zenon DEF Next, allVars
  <2> QED BY <2>1, WholeReconStep, LimitsKept
<1>3. Spec => []ReconTypeOK
    BY <1>1, <1>2, ReconTyped, PTL DEF Spec
<1>4. Spec => []TenancyTypeOK
    BY PartsStandAlone, BoundsInvariance, TenantsTyped, PTL
<1>5. Spec => []StripeTypeOK
  <2>1. StripeSpec(AllAsked) => []StripeTypeOK
      BY StripeTypes
  <2> QED BY <2>1, PartsStandAlone, PTL
<1>6. Spec => [](LedgerTypeOK /\ CostTypeOK /\ BackupTypeOK)
    BY PartsStandAlone, LedgerTypes, CostTypes, BackupTypeCorrect, PTL
<1> QED BY <1>3, <1>4, <1>5, <1>6, PTL DEF ReliabilityTypeOK
==============================================================================
