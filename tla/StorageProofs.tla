--------------------------- MODULE StorageProofs ---------------------------
(***************************************************************************)
(* Storage for any number of bodies and overlapping writers, any number of *)
(* crashes, and a backup at any moment; and what a restore of the state    *)
(* directory checks.                                                       *)
(***************************************************************************)
EXTENDS Storage, StateDir, TLAPS

LocalPhases == {"idle", "open", "write", "describe", "fill", "held", "failed"}
S3Phases == {"idle", "upload", "mark", "commit", "held"}
Copies == UNION {[S -> {"torn", "whole", "changed"}] : S \in SUBSET Bodies}

StorageTypeOK ==
  /\ backend \in {"local", "s3"}
  /\ blobs \in [Bodies -> {"none", "torn", "whole"}]
  /\ manifests \in [Bodies -> {"none", "torn", "own"}]
  /\ writer \in [Writers -> [phase : {"idle"}] \cup [body : Bodies, phase : LocalPhases \cup S3Phases]]
  /\ rows \in [main : SUBSET Bodies, log : SUBSET Bodies]
  /\ removed \in SUBSET Bodies /\ crashes \in Nat

\* A body has a blob, if only a torn one, or it has been collected.
Present(b) == blobs[b] # "none" \/ b \in removed

\* Some writer of the body is in one of the phases.
Busy(b, phases) == \E w \in Writers : writer[w].phase \in phases /\ writer[w].body = b

\* What a writer may rely on between two of its steps.
WriterOK(w) ==
  /\ writer[w].phase \in IF backend = "s3" THEN S3Phases ELSE LocalPhases
  /\ writer[w].phase # "idle" => writer[w].body \in Bodies
  /\ writer[w].phase \in {"write", "describe", "fill", "mark", "commit", "held"} =>
       Present(writer[w].body)

\* On S3 nothing is ever torn.
S3OK(b) ==
  backend = "s3" => /\ blobs[b] # "torn" /\ manifests[b] # "torn"
                    /\ manifests[b] = "own" => Present(b)

\* What is not whole and described is in the hands of some writer.
InHands(b) ==
  /\ blobs[b] = "none" => manifests[b] = "none"
  /\ blobs[b] = "torn" => Busy(b, {"write"})
  /\ manifests[b] = "torn" => Busy(b, {"fill"})
  /\ blobs[b] # "none" /\ manifests[b] = "none" =>
       Busy(b, {"write", "describe", "mark", "commit"})

RowsPresent == \A b \in Referenced : Present(b)

StoreInv ==
  /\ StorageTypeOK
  /\ \A w \in Writers : WriterOK(w)
  /\ \A b \in Bodies : S3OK(b)
  /\ crashes = 0 /\ removed = {} => \A b \in Bodies : InHands(b)
  /\ RowsPresent

\* At the start nothing is stored.
THEOREM StoreInvInit == StorageInit => StoreInv
BY DEF StorageInit, StoreInv, StorageTypeOK, WriterOK, S3OK, InHands, RowsPresent, Referenced,
       Present, Busy, NoWriter, LocalPhases, S3Phases, StorageAssumption

\* An upload begins.
LEMMA UploadBegins ==
  ASSUME StoreInv, NEW w \in Writers, NEW b \in Bodies,
         HeadBlob(w, b) \/ \E stream \in BOOLEAN : put(w, b, stream)
  PROVE  StoreInv'
<1>1. StorageTypeOK'
  BY DEF StoreInv, StorageTypeOK, HeadBlob, put, get_meta,
         SamePlace, Advance, NoWriter, LocalPhases, S3Phases, Referenced
<1>2. \A v \in Writers : WriterOK(v)'
  BY DEF StoreInv, StorageTypeOK, WriterOK, Present, HeadBlob, put, get_meta,
         SamePlace, Advance, NoWriter, LocalPhases, S3Phases
<1>3. \A c \in Bodies : S3OK(c)'
  BY DEF StoreInv, StorageTypeOK, S3OK, Present, WriterOK, HeadBlob, put, get_meta,
         SamePlace, Advance, NoWriter, LocalPhases, S3Phases
<1>4. ASSUME crashes' = 0, removed' = {}, NEW c \in Bodies PROVE InHands(c)'
  BY <1>4 DEF StoreInv, StorageTypeOK, InHands, Busy, WriterOK, Present, HeadBlob, put, get_meta,
         SamePlace, Advance, NoWriter, LocalPhases, S3Phases
<1>5. RowsPresent'
  BY DEF StoreInv, StorageTypeOK, RowsPresent, Referenced, Present, WriterOK, HeadBlob, put, get_meta,
         SamePlace, Advance, NoWriter, LocalPhases, S3Phases
<1> QED BY <1>1, <1>2, <1>3, <1>4, <1>5 DEF StoreInv

\* A blob is opened or completed.
LEMMA BlobSteps ==
  ASSUME StoreInv, NEW w \in Writers,
         OpenBlob(w) \/ WriteBlob(w) \/ UploadBlob(w)
  PROVE  StoreInv'
<1>1. StorageTypeOK'
  BY DEF StoreInv, StorageTypeOK, OpenBlob, WriteBlob, UploadBlob,
         SamePlace, Advance, NoWriter, LocalPhases, S3Phases, Referenced
<1>2. \A v \in Writers : WriterOK(v)'
  BY DEF StoreInv, StorageTypeOK, WriterOK, Present, OpenBlob, WriteBlob, UploadBlob,
         SamePlace, Advance, NoWriter, LocalPhases, S3Phases
<1>3. \A c \in Bodies : S3OK(c)'
  BY DEF StoreInv, StorageTypeOK, S3OK, Present, WriterOK, OpenBlob, WriteBlob, UploadBlob,
         SamePlace, Advance, NoWriter, LocalPhases, S3Phases
<1>4. ASSUME crashes' = 0, removed' = {}, NEW c \in Bodies PROVE InHands(c)'
  BY <1>4 DEF StoreInv, StorageTypeOK, InHands, Busy, WriterOK, Present, OpenBlob, WriteBlob, UploadBlob,
         SamePlace, Advance, NoWriter, LocalPhases, S3Phases
<1>5. RowsPresent'
  BY DEF StoreInv, StorageTypeOK, RowsPresent, Referenced, Present, WriterOK, OpenBlob, WriteBlob, UploadBlob,
         SamePlace, Advance, NoWriter, LocalPhases, S3Phases
<1> QED BY <1>1, <1>2, <1>3, <1>4, <1>5 DEF StoreInv

\* A manifest is looked up, opened or completed.
LEMMA ManifestSteps ==
  ASSUME StoreInv, NEW w \in Writers,
         OpenManifest(w) \/ FillManifest(w) \/ HeadManifest(w) \/ CommitManifest(w)
  PROVE  StoreInv'
<1>1. StorageTypeOK'
  BY DEF StoreInv, StorageTypeOK, OpenManifest, FillManifest, HeadManifest, CommitManifest,
         SamePlace, Advance, NoWriter, LocalPhases, S3Phases, Referenced
<1>2. \A v \in Writers : WriterOK(v)'
  BY DEF StoreInv, StorageTypeOK, WriterOK, Present, OpenManifest, FillManifest, HeadManifest, CommitManifest,
         SamePlace, Advance, NoWriter, LocalPhases, S3Phases
<1>3. \A c \in Bodies : S3OK(c)'
  BY DEF StoreInv, StorageTypeOK, S3OK, Present, WriterOK, OpenManifest, FillManifest, HeadManifest, CommitManifest,
         SamePlace, Advance, NoWriter, LocalPhases, S3Phases
<1>4. ASSUME crashes' = 0, removed' = {}, NEW c \in Bodies PROVE InHands(c)'
  BY <1>4 DEF StoreInv, StorageTypeOK, InHands, Busy, WriterOK, Present, OpenManifest, FillManifest, HeadManifest, CommitManifest,
         SamePlace, Advance, NoWriter, LocalPhases, S3Phases
<1>5. RowsPresent'
  BY DEF StoreInv, StorageTypeOK, RowsPresent, Referenced, Present, WriterOK, OpenManifest, FillManifest, HeadManifest, CommitManifest,
         SamePlace, Advance, NoWriter, LocalPhases, S3Phases
<1> QED BY <1>1, <1>2, <1>3, <1>4, <1>5 DEF StoreInv

\* An upload ends, with a row or without.
LEMMA UploadEnds ==
  ASSUME StoreInv, NEW w \in Writers, CommitRow(w) \/ Abandon(w)
  PROVE  StoreInv'
<1>1. StorageTypeOK'
  BY DEF StoreInv, StorageTypeOK, CommitRow, Abandon,
         SamePlace, NoWriter, LocalPhases, S3Phases, Referenced
<1>2. \A v \in Writers : WriterOK(v)'
  BY DEF StoreInv, StorageTypeOK, WriterOK, Present, CommitRow, Abandon,
         SamePlace, NoWriter, LocalPhases, S3Phases
<1>3. \A c \in Bodies : S3OK(c)'
  BY DEF StoreInv, StorageTypeOK, S3OK, Present, WriterOK, CommitRow, Abandon,
         SamePlace, NoWriter, LocalPhases, S3Phases
<1>4. ASSUME crashes' = 0, removed' = {}, NEW c \in Bodies PROVE InHands(c)'
  BY <1>4 DEF StoreInv, StorageTypeOK, InHands, Busy, WriterOK, Present, CommitRow, Abandon,
         SamePlace, NoWriter, LocalPhases, S3Phases
<1>5. RowsPresent'
  BY DEF StoreInv, StorageTypeOK, RowsPresent, Referenced, Present, WriterOK, CommitRow, Abandon,
         SamePlace, NoWriter, LocalPhases, S3Phases
<1> QED BY <1>1, <1>2, <1>3, <1>4, <1>5 DEF StoreInv

\* Steps around the uploads.
LEMMA OtherSteps ==
  ASSUME StoreInv, Read \/ Checkpoint \/ Crash \/ delete_object_if_unreferenced
  PROVE  StoreInv'
<1>1. StorageTypeOK'
  BY DEF StoreInv, StorageTypeOK, Read, Checkpoint, Crash, delete_object_if_unreferenced,
         SamePlace, NoWriter, LocalPhases, S3Phases, Referenced
<1>2. \A v \in Writers : WriterOK(v)'
  BY DEF StoreInv, StorageTypeOK, WriterOK, Present, Read, Checkpoint, Crash, delete_object_if_unreferenced,
         SamePlace, NoWriter, LocalPhases, S3Phases
<1>3. \A c \in Bodies : S3OK(c)'
  BY DEF StoreInv, StorageTypeOK, S3OK, Present, WriterOK, Read, Checkpoint, Crash, delete_object_if_unreferenced,
         SamePlace, NoWriter, LocalPhases, S3Phases
<1>4. ASSUME crashes' = 0, removed' = {}, NEW c \in Bodies PROVE InHands(c)'
  BY <1>4 DEF StoreInv, StorageTypeOK, InHands, Busy, WriterOK, Present, Read, Checkpoint, Crash, delete_object_if_unreferenced,
         SamePlace, NoWriter, LocalPhases, S3Phases
<1>5. RowsPresent'
  BY DEF StoreInv, StorageTypeOK, RowsPresent, Referenced, Present, WriterOK, Read, Checkpoint, Crash, delete_object_if_unreferenced,
         SamePlace, NoWriter, LocalPhases, S3Phases
<1> QED BY <1>1, <1>2, <1>3, <1>4, <1>5 DEF StoreInv

\* A backup reads, and changes nothing here.
LEMMA BackUpReads ==
  ASSUME StoreInv, BackUp \/ UNCHANGED storageVars
  PROVE  StoreInv'
<1>1. UNCHANGED <<backend, blobs, manifests, writer, rows, removed, crashes>>
  BY DEF BackUp, CopyDatabase, ListFiles, CopyFile, Pack, DamageBackup, restore_backup, storageVars
<1> QED BY <1>1 DEF StoreInv, StorageTypeOK, WriterOK, S3OK, InHands, RowsPresent, Referenced,
                    Present, Busy

\* Every step of uploads, markers and backups keeps the files as they should be.
THEOREM StoreInvStep == StoreInv /\ [StorageNext]_storageVars => StoreInv'
<1> SUFFICES ASSUME StoreInv, [StorageNext]_storageVars PROVE StoreInv' OBVIOUS
<1>1. CASE \E w \in Writers : Upload(w) \/ CommitRow(w)
  BY <1>1, UploadBegins, BlobSteps, ManifestSteps, UploadEnds DEF Upload
<1>2. CASE Read \/ Checkpoint \/ Crash \/ delete_object_if_unreferenced
  BY <1>2, OtherSteps
<1>3. CASE BackUp \/ UNCHANGED storageVars
  BY <1>3, BackUpReads
<1> QED BY <1>1, <1>2, <1>3 DEF StorageNext

\* However many uploads of however many bodies overlap, in whatever order the
\* steps of put and its streaming writer come, they leave each body whole and
\* described once all are done, when nothing crashed and nothing was collected.
THEOREM UploadsSettle == StorageSpec => []SettledIsWhole
<1>1. StoreInv => SettledIsWhole
  BY DEF StoreInv, StorageTypeOK, SettledIsWhole, InHands, Busy
<1> QED BY StoreInvInit, StoreInvStep, <1>1, PTL DEF StorageSpec

\* On S3 the commit marker is believed rightly through any number of crashes:
\* a manifest never stands without the whole blob, unless that was collected.
THEOREM MarkersAreTrue == StorageSpec => []MarkerMeansWhole
<1>1. StoreInv => MarkerMeansWhole
  BY DEF StoreInv, StorageTypeOK, MarkerMeansWhole, S3OK, Present
<1> QED BY StoreInvInit, StoreInvStep, <1>1, PTL DEF StorageSpec

-----------------------------------------------------------------------------
(* Backup *)

Unmade == [phase : {"none", "failed"}]
Begun == [phase : {"list"}, db : SUBSET Bodies]
Copying == [phase : {"copy"}, db : SUBSET Bodies, files : Copies, left : SUBSET Bodies]
Packed == [phase : {"packed"}, db : SUBSET Bodies, files : Copies, listed : Copies]

\* A row that was copied has its artifact among the files copied or still to be
\* copied, unless it was collected; what was restored is what was packed.
BackupInv ==
  /\ snapshot \in Unmade \cup Begun \cup Copying \cup Packed
  /\ snapshot.phase = "list" => \A b \in snapshot.db : Present(b)
  /\ snapshot.phase = "copy" =>
       snapshot.db \subseteq snapshot.left \cup DOMAIN snapshot.files \cup removed
  /\ snapshot.phase = "packed" => snapshot.db \subseteq DOMAIN snapshot.listed \cup removed
  /\ restored.phase = "ok" =>
       /\ snapshot.phase = "packed" /\ restored.db = snapshot.db
       /\ \A b \in DOMAIN restored.files :
            b \in DOMAIN snapshot.listed /\ restored.files[b] = snapshot.listed[b]
       /\ \/ restored.files = snapshot.listed
          \/ restored.files = snapshot.files /\ snapshot.files # snapshot.listed

\* At the start there is no backup.
THEOREM BackupInvInit == StorageInit => BackupInv
BY DEF StorageInit, BackupInv, Unmade

\* What is present, or was collected, stays so.
LEMMA PresentStays ==
  ASSUME StoreInv, [StorageNext]_storageVars, NEW b \in Bodies, Present(b)
  PROVE  Present(b)'
<1>1. CASE \E w \in Writers : Upload(w) \/ CommitRow(w)
  BY <1>1 DEF StoreInv, StorageTypeOK, Upload, CommitRow, Present, HeadBlob, put, OpenBlob, WriteBlob,
       UploadBlob, OpenManifest, FillManifest, HeadManifest, CommitManifest, Abandon, SamePlace
<1>2. CASE Read \/ Checkpoint \/ Crash \/ delete_object_if_unreferenced
  BY <1>2 DEF StoreInv, StorageTypeOK, Read, Checkpoint, Crash, delete_object_if_unreferenced, Present
<1>3. CASE BackUp \/ UNCHANGED storageVars
  BY <1>3 DEF BackUp, CopyDatabase, ListFiles, CopyFile, Pack, DamageBackup, restore_backup,
              storageVars, Present
<1> QED BY <1>1, <1>2, <1>3 DEF StorageNext

\* What garbage collection removed is remembered.
LEMMA CollectedStays ==
  ASSUME [StorageNext]_storageVars
  PROVE  removed \subseteq removed'
<1>1. CASE \E w \in Writers : Upload(w) \/ CommitRow(w)
  BY <1>1 DEF Upload, CommitRow, HeadBlob, put, OpenBlob, WriteBlob,
       UploadBlob, OpenManifest, FillManifest, HeadManifest, CommitManifest, Abandon, SamePlace
<1>2. CASE Read \/ Checkpoint \/ Crash \/ delete_object_if_unreferenced
  BY <1>2 DEF Read, Checkpoint, Crash, delete_object_if_unreferenced
<1>3. CASE BackUp \/ UNCHANGED storageVars
  BY <1>3 DEF BackUp, CopyDatabase, ListFiles, CopyFile, Pack, DamageBackup, restore_backup,
              storageVars
<1> QED BY <1>1, <1>2, <1>3 DEF StorageNext

\* Outside a backup nothing touches one.
LEMMA OthersLeaveBackups ==
  ASSUME (\E w \in Writers : Upload(w) \/ CommitRow(w))
         \/ Read \/ Checkpoint \/ Crash \/ delete_object_if_unreferenced
  PROVE  UNCHANGED <<snapshot, restored>>
BY DEF Upload, CommitRow, HeadBlob, put, OpenBlob, WriteBlob, UploadBlob, OpenManifest, FillManifest,
       HeadManifest, CommitManifest, Abandon, SamePlace, Read, Checkpoint, Crash,
       delete_object_if_unreferenced

\* Copies are made one file at a time.
LEMMA CopyMore ==
  ASSUME NEW f \in Copies, NEW b \in Bodies, NEW v \in {"torn", "whole", "changed"}
  PROVE  [x \in DOMAIN f \cup {b} |-> IF x = b THEN v ELSE f[x]] \in Copies
<1>1. PICK S \in SUBSET Bodies : f \in [S -> {"torn", "whole", "changed"}]
  BY DEF Copies
<1>2. [x \in DOMAIN f \cup {b} |-> IF x = b THEN v ELSE f[x]]
        \in [S \cup {b} -> {"torn", "whole", "changed"}]
  <2>1. DOMAIN f = S /\ \A x \in S : f[x] \in {"torn", "whole", "changed"}
    BY <1>1
  <2>2. \A x \in S \cup {b} : (IF x = b THEN v ELSE f[x]) \in {"torn", "whole", "changed"}
    BY <2>1
  <2> QED BY <2>1, <2>2
<1> QED BY <1>2 DEF Copies

\* Having copied nothing is a way to have copied.
LEMMA NoCopies == <<>> \in Copies
<1>1. <<>> \in [{} -> {"torn", "whole", "changed"}]
  OBVIOUS
<1> QED BY <1>1 DEF Copies

\* Every step keeps backups and restores as they should be.
THEOREM BackupInvStep ==
  StoreInv /\ BackupInv /\ [StorageNext]_storageVars => BackupInv'
<1> SUFFICES ASSUME StoreInv, BackupInv, [StorageNext]_storageVars PROVE BackupInv' OBVIOUS
<1> USE DEF Unmade, Begun, Copying, Packed
<1>1. CASE UNCHANGED <<snapshot, restored>>
  BY <1>1, PresentStays, CollectedStays DEF BackupInv
<1>2. CASE CopyDatabase
  BY <1>2 DEF CopyDatabase, BackupInv, StoreInv, StorageTypeOK, RowsPresent, Referenced, Present
<1>3. CASE ListFiles
  BY <1>3, NoCopies DEF ListFiles, BackupInv, Present
<1>4. CASE CopyFile
  <2>0. PICK b \in snapshot.left :
        snapshot' = IF blobs[b] = "none" THEN [phase |-> "failed"]
                    ELSE [snapshot EXCEPT !.left = @ \ {b},
                            !.files = [x \in DOMAIN @ \cup {b} |-> IF x = b THEN blobs[b] ELSE @[x]]]
    BY <1>4 DEF CopyFile
  <2>1. snapshot \in Copying /\ restored'.phase # "ok" /\ removed' = removed
    BY <1>4 DEF CopyFile, BackupInv
  <2>2. snapshot.db \subseteq snapshot.left \cup DOMAIN snapshot.files \cup removed
    BY <1>4 DEF CopyFile, BackupInv
  <2>3. CASE blobs[b] = "none"
    <3>1. snapshot' = [phase |-> "failed"]
      BY <2>0, <2>3
    <3>2. snapshot' \in Unmade /\ snapshot'.phase = "failed"
      BY <3>1
    <3> HIDE DEF Unmade, Begun, Copying, Packed
    <3> QED BY <2>1, <3>2 DEF BackupInv
  <2>4. CASE blobs[b] # "none"
    <3>1. b \in Bodies /\ snapshot.files \in Copies /\ blobs[b] \in {"torn", "whole", "changed"}
      BY <2>0, <2>1, <2>4 DEF StoreInv, StorageTypeOK
    <3>2. PICK copied \in Copies :
            copied = [x \in DOMAIN snapshot.files \cup {b} |->
                        IF x = b THEN blobs[b] ELSE snapshot.files[x]]
      BY <3>1, CopyMore
    <3>3. snapshot' = [phase |-> "copy", db |-> snapshot.db, files |-> copied,
                       left |-> snapshot.left \ {b}]
      BY <2>0, <2>1, <2>4, <3>2
    <3>4. snapshot' \in Copying /\ snapshot'.phase = "copy"
      BY <2>1, <3>3
    <3>5. snapshot'.db \subseteq snapshot'.left \cup DOMAIN snapshot'.files \cup removed'
      BY <2>1, <2>2, <3>2, <3>3
    <3> HIDE DEF Unmade, Begun, Copying, Packed
    <3> QED BY <2>1, <3>4, <3>5 DEF BackupInv
  <2> QED BY <2>3, <2>4
<1>5. CASE Pack
  BY <1>5 DEF Pack, BackupInv
<1>6. CASE DamageBackup
  BY <1>6 DEF DamageBackup, BackupInv, Copies
<1>7. CASE restore_backup
  BY <1>7 DEF restore_backup, BackupInv, Matches
<1> QED
  BY <1>1, <1>2, <1>3, <1>4, <1>5, <1>6, <1>7, OthersLeaveBackups DEF StorageNext, BackUp, storageVars

\* A restore that succeeds brings back what was copied, and every row in it has
\* its artifact there unless that was collected or lost on the way, whatever
\* was uploaded, committed and checkpointed while the backup was made.
THEOREM RestoresResolve == StorageSpec => []RestoredRefsResolve
<1>1. BackupInv => RestoredRefsResolve
  BY DEF BackupInv, RestoredRefsResolve
<1> QED BY StoreInvInit, StoreInvStep, BackupInvInit, BackupInvStep, <1>1, PTL DEF StorageSpec

-----------------------------------------------------------------------------
(* The state directory: what a restore checks *)

\* No entry is above the directory.
Below(entries) == \A e \in entries : e[1] \in Nat

StateInv == Below(dir) /\ (kept.taken => Below(kept.entries))

\* What init, doctor and repair leave in the directory.
LEMMA RootStaysBelow ==
  ASSUME Below(dir), NEW d, d \subseteq dir \cup {<<0, "artifacts">>, <<0, "sound">>, <<0, "damaged">>}
                                        \cup {<<0, b>> : b \in Blobs}
  PROVE  Below(d)
<1> SUFFICES ASSUME NEW e \in d PROVE e[1] \in Nat
  BY DEF Below
<1>1. CASE e \in dir
  BY <1>1 DEF Below
<1>2. CASE e \notin dir
  <2>1. PICK x : e = <<0, x>>
    BY <1>2
  <2> QED BY <2>1
<1> QED BY <1>1, <1>2

\* The invariant of the state directory.
THEOREM StateInvariance == StateSpec => []StateInv
<1>1. StateInit => StateInv
  BY DEF StateInit, StateInv, Below, NoBackup
<1>2. StateInv /\ [StateNext]_stateVars => StateInv'
  <2> SUFFICES ASSUME StateInv, [StateNext]_stateVars PROVE StateInv' OBVIOUS
  <2>1. CASE init_state \/ doctor \/ DamageDatabase \/ LoseBlob \/ LoseDirectory
    <3>1. kept' = kept /\ dir' \subseteq dir \cup {<<0, "artifacts">>, <<0, "sound">>, <<0, "damaged">>}
                                        \cup {<<0, b>> : b \in Blobs}
      BY <2>1 DEF init_state, doctor, MakeArtifactRoot, DamageDatabase, LoseBlob, LoseDirectory
    <3>2. Below(dir')
      BY <3>1, RootStaysBelow DEF StateInv
    <3> QED BY <3>1, <3>2 DEF StateInv
  <2>2. CASE repair \/ Work
    <3>1. kept' = kept /\ dir' \subseteq dir \cup {<<0, "artifacts">>, <<0, "sound">>, <<0, "damaged">>}
                                        \cup {<<0, b>> : b \in Blobs}
      BY <2>2 DEF repair, Work
    <3>2. Below(dir')
      BY <3>1, RootStaysBelow DEF StateInv
    <3> QED BY <3>1, <3>2 DEF StateInv
  <2>3. CASE backup
    <3>1. dir' = dir /\ (kept' = kept \/ kept' = [taken |-> TRUE, entries |-> dir])
      BY <2>3 DEF backup
    <3> QED BY <3>1 DEF StateInv
  <2>4. CASE restore
    <3>1. kept' = kept
      BY <2>4 DEF restore
    <3>2. Below(dir')
      <4>1. CASE dir' = dir
        BY <4>1 DEF StateInv
      <4>2. CASE kept.taken /\ dir' = {<<e[1] + 1, e[2]>> : e \in kept.entries}
        <5> SUFFICES ASSUME NEW d \in dir' PROVE d[1] \in Nat
          BY DEF Below
        <5>1. PICK e \in kept.entries : d = <<e[1] + 1, e[2]>>
          BY <4>2
        <5>2. e[1] \in Nat
          BY <4>2 DEF StateInv, Below
        <5> QED BY <5>1, <5>2
      <4> QED BY <2>4, <4>1, <4>2 DEF restore
    <3> QED BY <3>1, <3>2 DEF StateInv
  <2>5. CASE UNCHANGED stateVars
    BY <2>5 DEF stateVars, StateInv
  <2> QED BY <2>1, <2>2, <2>3, <2>4, <2>5 DEF StateNext
<1> QED BY <1>1, <1>2, PTL DEF StateSpec

\* A restore that unpacks an archive, into a directory that was empty.
Unpacks == restore /\ kept.taken /\ dir = {}

\* The check that ends a restore cannot fail: whatever the archive holds, a
\* damaged database included, it is looked for where nothing was unpacked.
CheckIsBlind == Unpacks => said'.code = 0 /\ DatabaseIn(dir') = {}

\* Every restore that unpacks reports success, and has put no database where the
\* configuration points (restore_state, _check_db): why RestoredIsVerified fails
\* for every archive with a database in it.
THEOREM RestoreChecksNothing == StateSpec => [][CheckIsBlind]_stateVars
<1>1. StateInv /\ [StateNext]_stateVars => [CheckIsBlind]_stateVars
  <2> SUFFICES ASSUME StateInv, Unpacks PROVE said'.code = 0 /\ DatabaseIn(dir') = {}
    BY DEF CheckIsBlind
  <2>1. dir' = {<<e[1] + 1, e[2]>> : e \in kept.entries} /\ Say("restore", _check_db(dir'))
    BY DEF Unpacks, restore
  <2>2. \A d \in dir' : d[1] # 0
    <3> SUFFICES ASSUME NEW d \in dir' PROVE d[1] # 0
      OBVIOUS
    <3>1. PICK e \in kept.entries : d = <<e[1] + 1, e[2]>>
      BY <2>1
    <3>2. e[1] \in Nat
      BY DEF Unpacks, StateInv, Below
    <3> QED BY <3>1, <3>2
  <2>3. DatabaseIn(dir') = {}
    BY <2>2 DEF DatabaseIn
  <2>4. _check_db(dir')
    BY <2>2 DEF _check_db
  <2> QED BY <2>1, <2>3, <2>4 DEF Say
<1> QED BY <1>1, StateInvariance, PTL DEF StateSpec

=============================================================================
