------------------------------ MODULE StateDir ------------------------------
(***************************************************************************)
(* The state directory of a local installation and the commands that look  *)
(* after it: init, doctor, repair, backup, restore (interfaces/cli/        *)
(* commands.py).  An entry is at a depth below the directory: 0 is where   *)
(* the configuration points.                                               *)
(***************************************************************************)
EXTENDS Integers, FiniteSets

CONSTANTS Blobs,     \* artifact files
          MaxDepth   \* bound on directories inside one another

ASSUME StateDirAssumption == MaxDepth \in Nat

VARIABLES present,   \* the directory exists
          dir,       \* its entries: <<depth, what>>
          kept,      \* the newest backup archive: its entries, under one name
          said       \* the last command and its exit code

stateVars == <<present, dir, kept, said>>

NoBackup == [taken |-> FALSE]
Database == {"sound", "damaged"}
DatabaseIn(entries) == {e \in entries : e[1] = 0 /\ e[2] \in Database}

StateInit ==
  /\ present = FALSE /\ dir = {} /\ kept = NoBackup /\ said = [command |-> "none", code |-> 0]

Say(command, good) == said' = [command |-> command, code |-> IF good THEN 0 ELSE 1]

\* A database that is not there yet is no failure.
_check_db(entries) == <<0, "damaged">> \notin entries

MakeArtifactRoot == present' = TRUE /\ dir' = dir \cup {<<0, "artifacts">>}

init_state == MakeArtifactRoot /\ Say("init", TRUE) /\ UNCHANGED kept

doctor == MakeArtifactRoot /\ Say("doctor", _check_db(dir)) /\ UNCHANGED kept

\* VACUUM raises, or it is taken to have helped.  No index of the artifacts is
\* ever written, so there is nothing to compare them with.
repair ==
  /\ present' = TRUE
  /\ \E raises, helps \in BOOLEAN :
       /\ ~ (raises /\ helps)
       /\ dir' = {<<0, "artifacts">>} \cup
            IF helps /\ ~ _check_db(dir) THEN (dir \ {<<0, "damaged">>}) \cup {<<0, "sound">>} ELSE dir
       /\ Say("repair", _check_db(dir) \/ ~ raises)
  /\ UNCHANGED kept

\* The archive holds the directory under its own name.
backup ==
  /\ IF present THEN kept' = [taken |-> TRUE, entries |-> dir] /\ Say("backup", TRUE)
                ELSE Say("backup", FALSE) /\ UNCHANGED kept
  /\ UNCHANGED <<present, dir>>

\* It is unpacked inside the directory, then the database is checked where the
\* configuration points.
restore ==
  IF ~ kept.taken \/ dir # {}
  THEN Say("restore", FALSE) /\ UNCHANGED <<present, dir, kept>>
  ELSE /\ \A e \in kept.entries : e[1] < MaxDepth
       /\ present' = TRUE /\ dir' = {<<e[1] + 1, e[2]>> : e \in kept.entries}
       /\ Say("restore", _check_db(dir')) /\ UNCHANGED kept

-----------------------------------------------------------------------------
(* The server at work, and what happens to disks *)

Work ==
  /\ _check_db(dir) /\ present' = TRUE
  /\ \E b \in Blobs : dir' = dir \cup {<<0, "artifacts">>, <<0, "sound">>, <<0, b>>}
  /\ UNCHANGED <<kept, said>>

DamageDatabase ==
  /\ <<0, "sound">> \in dir
  /\ dir' = (dir \ {<<0, "sound">>}) \cup {<<0, "damaged">>}
  /\ UNCHANGED <<present, kept, said>>

LoseBlob ==
  /\ \E b \in Blobs : <<0, b>> \in dir /\ dir' = dir \ {<<0, b>>}
  /\ UNCHANGED <<present, kept, said>>

LoseDirectory ==
  /\ present /\ present' = FALSE /\ dir' = {} /\ UNCHANGED <<kept, said>>

StateNext ==
  \/ init_state \/ doctor \/ repair \/ backup \/ restore
  \/ Work \/ DamageDatabase \/ LoseBlob \/ LoseDirectory

StateSpec == StateInit /\ [][StateNext]_stateVars

-----------------------------------------------------------------------------
(* Property *)

\* A restore that reports success has put the database of the backup where the
\* configuration points, undamaged (docs/support.md: "the restore path verifies
\* integrity before completing").
RestoredIsVerified ==
  [][restore /\ said'.code = 0 => DatabaseIn(kept.entries) \subseteq DatabaseIn(dir')]_stateVars
=============================================================================
