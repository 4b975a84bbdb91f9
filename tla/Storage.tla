------------------------------ MODULE Storage ------------------------------
(***************************************************************************)
(* The content-addressed artifact store on a file system                   *)
(* (infrastructure/artifacts/local.py) or on S3 (s3.py), the database rows *)
(* that refer to it, and backup and restore of both                        *)
(* (deployment/backup.py).  A body is its digest.  Every file operation is *)
(* a step: writers overlap, and a crash leaves what was written so far.    *)
(***************************************************************************)
EXTENDS Integers, FiniteSets

CONSTANTS Bodies,     \* contents of artifacts
          Writers,    \* concurrent uploads
          MaxCrashes  \* bound

ASSUME StorageAssumption == MaxCrashes \in Nat

VARIABLES backend,    \* "local" or "s3"
          blobs,      \* body -> "none", "torn" or "whole"
          manifests,  \* body -> "none", "torn" or "own"
          writer,     \* writer -> upload in progress
          rows,       \* committed references: in the database file, in its log
          removed,    \* history: collected bodies
          crashes,    \* history: number of crashes
          served,     \* history: what reads returned
          snapshot,   \* the backup being made, or made
          restored    \* result of a restore

storageVars == <<backend, blobs, manifests, writer, rows, removed, crashes, served, snapshot, restored>>

NoWriter == [phase |-> "idle"]
Referenced == rows.main \cup rows.log
Advance(w, phase) == writer' = [writer EXCEPT ![w].phase = phase]
SamePlace == UNCHANGED <<backend, rows, removed, crashes, served, snapshot, restored>>

StorageInit ==
  /\ backend \in {"local", "s3"}
  /\ blobs = [b \in Bodies |-> "none"] /\ manifests = [b \in Bodies |-> "none"]
  /\ writer = [w \in Writers |-> NoWriter]
  /\ rows = [main |-> {}, log |-> {}] /\ removed = {} /\ crashes = 0 /\ served = {}
  /\ snapshot = [phase |-> "none"] /\ restored = [phase |-> "none"]

-----------------------------------------------------------------------------
(* The local store *)

\* Metadata handed out for a body: its manifest, or one made up for an orphan
\* blob.  A manifest that is being written cannot be read.
get_meta(b) == CASE manifests[b] = "own" -> "held"
                 [] manifests[b] = "none" -> "held"
                 [] manifests[b] = "torn" -> "failed"

\* A blob that exists is taken for complete.  The streaming writer describes
\* the body in any case.
put(w, b, stream) ==
  /\ backend = "local" /\ writer[w].phase = "idle"
  /\ writer' = [writer EXCEPT ![w] =
       [body |-> b, phase |-> IF blobs[b] = "none" THEN "open"
                              ELSE IF stream THEN "describe" ELSE get_meta(b)]]
  /\ UNCHANGED <<blobs, manifests>> /\ SamePlace

OpenBlob(w) ==
  /\ writer[w].phase = "open" /\ Advance(w, "write")
  /\ blobs' = [blobs EXCEPT ![writer[w].body] = "torn"]
  /\ UNCHANGED manifests /\ SamePlace

\* Mutant: the description of the body is left for later.
WriteBlobOnly(w) ==
  /\ writer[w].phase = "write" /\ Advance(w, "held")
  /\ blobs' = [blobs EXCEPT ![writer[w].body] = "whole"]
  /\ UNCHANGED manifests /\ SamePlace

WriteBlob(w) ==
  /\ writer[w].phase = "write" /\ Advance(w, "describe")
  /\ blobs' = [blobs EXCEPT ![writer[w].body] = "whole"]
  /\ UNCHANGED manifests /\ SamePlace

OpenManifest(w) ==
  /\ writer[w].phase = "describe" /\ Advance(w, "fill")
  /\ manifests' = [manifests EXCEPT ![writer[w].body] = "torn"]
  /\ UNCHANGED blobs /\ SamePlace

FillManifest(w) ==
  /\ writer[w].phase = "fill" /\ Advance(w, "held")
  /\ manifests' = [manifests EXCEPT ![writer[w].body] = "own"]
  /\ UNCHANGED blobs /\ SamePlace

-----------------------------------------------------------------------------
(* The S3 store: objects appear whole, the manifest is the commit marker *)

\* Mutant: the object is taken to be there.
HeadBlobPresent(w, b) ==
  /\ backend = "s3" /\ writer[w].phase = "idle"
  /\ writer' = [writer EXCEPT ![w] = [body |-> b, phase |-> "mark"]]
  /\ UNCHANGED <<blobs, manifests>> /\ SamePlace

HeadBlob(w, b) ==
  /\ backend = "s3" /\ writer[w].phase = "idle"
  /\ writer' = [writer EXCEPT ![w] =
       [body |-> b, phase |-> IF blobs[b] = "none" THEN "upload" ELSE "mark"]]
  /\ UNCHANGED <<blobs, manifests>> /\ SamePlace

UploadBlob(w) ==
  /\ writer[w].phase = "upload" /\ Advance(w, "mark")
  /\ blobs' = [blobs EXCEPT ![writer[w].body] = "whole"]
  /\ UNCHANGED manifests /\ SamePlace

HeadManifest(w) ==
  /\ writer[w].phase = "mark"
  /\ Advance(w, IF manifests[writer[w].body] = "none" THEN "commit" ELSE "held")
  /\ UNCHANGED <<blobs, manifests>> /\ SamePlace

CommitManifest(w) ==
  /\ writer[w].phase = "commit" /\ Advance(w, "held")
  /\ manifests' = [manifests EXCEPT ![writer[w].body] = "own"]
  /\ UNCHANGED blobs /\ SamePlace

-----------------------------------------------------------------------------
(* Rows, reads, crashes, collection *)

\* add_source: the row is committed after the artifact is stored, or never,
\* when the project does not exist or the put has failed.
CommitRow(w) ==
  /\ writer[w].phase = "held"
  /\ rows' = [rows EXCEPT !.log = @ \cup {writer[w].body}]
  /\ writer' = [writer EXCEPT ![w] = NoWriter]
  /\ UNCHANGED <<backend, blobs, manifests, removed, crashes, served, snapshot, restored>>

Abandon(w) ==
  /\ writer[w].phase \in {"held", "failed"}
  /\ writer' = [writer EXCEPT ![w] = NoWriter]
  /\ UNCHANGED <<blobs, manifests>> /\ SamePlace

\* SQLite moves its log into the database file when it likes.
Checkpoint ==
  /\ rows.log # {}
  /\ rows' = [main |-> Referenced, log |-> {}]
  /\ UNCHANGED <<backend, blobs, manifests, writer, removed, crashes, served, snapshot, restored>>

get(b) == CASE blobs[b] = "none" -> "missing"
            [] blobs[b] = "torn" -> "corrupt"
            [] blobs[b] = "whole" -> "whole"

Read ==
  /\ \E b \in Bodies : served' = served \cup {get(b)}
  /\ UNCHANGED <<backend, blobs, manifests, writer, rows, removed, crashes, snapshot, restored>>

Crash ==
  /\ crashes < MaxCrashes /\ crashes' = crashes + 1
  /\ writer' = [w \in Writers |-> NoWriter]
  /\ UNCHANGED <<backend, blobs, manifests, rows, removed, served, snapshot, restored>>

\* The caller vouches that nothing refers to the body; its manifest stays.  No
\* legal hold is set.
delete_object_if_unreferenced ==
  /\ \E b \in Bodies \ Referenced :
       /\ blobs[b] # "none"
       /\ blobs' = [blobs EXCEPT ![b] = "none"] /\ removed' = removed \cup {b}
  /\ UNCHANGED <<backend, manifests, writer, rows, crashes, served, snapshot, restored>>

-----------------------------------------------------------------------------
(* Backup and restore of the local store *)

\* The database file is copied before the artifacts.  The checkpoint asked for
\* beforehand is made on a read-only connection and moves nothing.
CopyDatabase ==
  /\ backend = "local" /\ snapshot.phase = "none"
  /\ snapshot' = [phase |-> "list", db |-> rows.main]
  /\ UNCHANGED <<backend, blobs, manifests, writer, rows, removed, crashes, served, restored>>

ListFiles ==
  /\ snapshot.phase = "list"
  /\ snapshot' = [phase |-> "copy", db |-> snapshot.db, files |-> <<>>,
                left |-> {b \in Bodies : blobs[b] # "none"}]
  /\ UNCHANGED <<backend, blobs, manifests, writer, rows, removed, crashes, served, restored>>

\* A listed file that has gone by now ends the backup.
CopyFile ==
  /\ snapshot.phase = "copy"
  /\ \E b \in snapshot.left :
       snapshot' = IF blobs[b] = "none" THEN [phase |-> "failed"]
                 ELSE [snapshot EXCEPT !.left = @ \ {b},
                         !.files = [x \in DOMAIN @ \cup {b} |-> IF x = b THEN blobs[b] ELSE @[x]]]
  /\ UNCHANGED <<backend, blobs, manifests, writer, rows, removed, crashes, served, restored>>

\* Mutant: the database is read when the archive is closed.
PackLate ==
  /\ snapshot.phase = "copy" /\ snapshot.left = {}
  /\ snapshot' = [phase |-> "packed", db |-> Referenced, files |-> snapshot.files,
                listed |-> snapshot.files]
  /\ UNCHANGED <<backend, blobs, manifests, writer, rows, removed, crashes, served, restored>>

\* The digests of what was copied go into the manifest of the archive.
Pack ==
  /\ snapshot.phase = "copy" /\ snapshot.left = {}
  /\ snapshot' = [phase |-> "packed", db |-> snapshot.db, files |-> snapshot.files,
                listed |-> snapshot.files]
  /\ UNCHANGED <<backend, blobs, manifests, writer, rows, removed, crashes, served, restored>>

\* One entry of the archive is changed, added or lost on its way.
DamageBackup ==
  /\ snapshot.phase = "packed" /\ snapshot.files = snapshot.listed
  /\ \E b \in Bodies :
       \/ snapshot' = [snapshot EXCEPT !.files =
                       [x \in DOMAIN @ \cup {b} |-> IF x = b THEN "changed" ELSE @[x]]]
       \/ snapshot' = [snapshot EXCEPT !.files = [x \in DOMAIN @ \ {b} |-> @[x]]]
  /\ UNCHANGED <<backend, blobs, manifests, writer, rows, removed, crashes, served, restored>>

Matches(b) == b \in DOMAIN snapshot.listed /\ snapshot.files[b] = snapshot.listed[b]

\* Every entry is compared with the manifest; a listed entry that has gone is
\* not missed.
restore_backup ==
  /\ snapshot.phase = "packed" /\ restored.phase = "none"
  /\ restored' = IF \A b \in DOMAIN snapshot.files : Matches(b)
                 THEN [phase |-> "ok", db |-> snapshot.db, files |-> snapshot.files]
                 ELSE [phase |-> "corrupt"]
  /\ UNCHANGED <<backend, blobs, manifests, writer, rows, removed, crashes, served, snapshot>>

Upload(w) ==
  \/ \E b \in Bodies : HeadBlob(w, b) \/ \E stream \in BOOLEAN : put(w, b, stream)
  \/ OpenBlob(w) \/ WriteBlob(w) \/ OpenManifest(w) \/ FillManifest(w)
  \/ UploadBlob(w) \/ HeadManifest(w) \/ CommitManifest(w)
  \/ Abandon(w)

BackUp == CopyDatabase \/ ListFiles \/ CopyFile \/ Pack \/ DamageBackup \/ restore_backup

StorageNext ==
  \/ \E w \in Writers : Upload(w) \/ CommitRow(w)
  \/ Read \/ Checkpoint \/ Crash \/ delete_object_if_unreferenced \/ BackUp

StorageSpec == StorageInit /\ [][StorageNext]_storageVars

-----------------------------------------------------------------------------
(* Properties *)

\* Without a crash, overlapping uploads of one body leave it whole and
\* described once all are done, whichever of them looked first.
SettledIsWhole ==
  crashes = 0 /\ removed = {} /\ (\A w \in Writers : writer[w].phase \in {"idle", "held", "failed"}) =>
    \A b \in Bodies : \/ blobs[b] = "none" /\ manifests[b] = "none"
                      \/ blobs[b] = "whole" /\ manifests[b] = "own"

\* On S3 a manifest says that its blob is complete, through any crash
\* (S3ArtifactStore, "readers use manifest as the commit marker").
MarkerMeansWhole ==
  backend = "s3" => \A b \in Bodies \ removed : manifests[b] = "own" => blobs[b] = "whole"

\* Whatever is uploaded while a backup is made, a restore that succeeds brings
\* back files as they were copied, and every row in it finds its artifact there
\* unless that was collected or lost on the way (restore_backup).
RestoredRefsResolve ==
  restored.phase = "ok" =>
    /\ \A b \in DOMAIN restored.files : restored.files[b] = snapshot.listed[b]
    /\ restored.db \subseteq DOMAIN restored.files \cup removed
                             \cup (DOMAIN snapshot.listed \ DOMAIN snapshot.files)

=============================================================================
