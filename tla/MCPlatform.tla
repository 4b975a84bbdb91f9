----------------------------- MODULE MCPlatform -----------------------------
(* One scene is picked in the initial state and played to its end. *)
EXTENDS Storage, Submission, StateDir, Intake, Access
VARIABLE scene

MCSourcesOf == [P |-> {"s1", "s2"}, Q |-> {"s3"}, R |-> {}]
MCOwnerOf == [P |-> "p", Q |-> "q", R |-> "p"]

Member(path, kind, size, packed) == [path |-> path, kind |-> kind, size |-> size, packed |-> packed]
MCMembers ==
  LET small == Member("plain", "file", 3, 1)  stored == Member("plain", "file", 4, 0)
      folder == Member("plain", "dir", 0, 0)  bomb == Member("plain", "file", 5, 1)
  IN  {<<small, folder, small>>, <<small, stored>>, <<small, bomb>>,
       <<small, Member("parent", "file", 1, 1)>>, <<Member("absolute", "archive", 1, 1)>>,
       <<folder, folder, folder, small>>}

File(name, suffix, magic, size, sound, members) ==
  [name |-> name, suffix |-> suffix, magic |-> magic, size |-> size, sound |-> sound,
   members |-> members, injects |-> name = "notes"]
MCFiles ==
  { File("notes", "md", "none", 1, FALSE, <<>>),
    File("empty", "txt", "none", 0, FALSE, <<>>), File("large", "csv", "none", 7, FALSE, <<>>),
    File("tool", "exe", "pdf", 1, FALSE, <<>>), File("fake", "zip", "none", 1, FALSE, <<>>) }
  \cup {File("zip", "zip", "zip", 2, TRUE, ms) : ms \in MCMembers}
  \cup {File("office", "docx", "zip", 2, TRUE, <<Member("plain", "file", 9, 1)>>)}

Site(scheme, listed, addresses, login) ==
  [scheme |-> scheme, host |-> TRUE, listed |-> listed, metadata |-> FALSE,
   addresses |-> addresses, login |-> login]
MCSites ==
  {Site(scheme, listed, addresses, login) :
     scheme \in {"http", "https", "ftp"}, listed \in BOOLEAN,
     addresses \in {{}, {"public"}, {"public", "private"}}, login \in BOOLEAN}
  \cup {[Site("https", TRUE, {"public"}, FALSE) EXCEPT !.metadata = TRUE],
        [Site("https", TRUE, {"public"}, FALSE) EXCEPT !.host = FALSE]}

Call(route, token, declared, chunks, project) ==
  [server |-> "rest", route |-> route, token |-> token, address |-> "a", declared |-> declared,
   chunks |-> chunks, project |-> project, example |-> project,
   owner |-> "", fits |-> TRUE]
McpCall(route, token, project, fits) ==
  [Call(route, token, 0, <<>>, project) EXCEPT !.server = "mcp", !.owner = "mcp", !.fits = fits]
MCRequests ==
  { Call("create_project", "good", 2, <<1, 1>>, "new"), McpCall("create_project", "good", "new", TRUE),
    Call("add_source", "good", 0, <<2, 2>>, "P"), Call("run_job", "good", 4, <<4>>, "Q"),
    Call("get_project", "none", 0, <<>>, "P"), McpCall("job", "good", "P", FALSE),
    McpCall("run_job", "none", "P", TRUE),
    [Call("review_example", "good", 1, <<1>>, "P") EXCEPT !.example = "Q"] }
MCOwners == [P |-> "token", Q |-> "local", new |-> "nobody"]

otherVars == <<intakeVars, visit, accessVars>>
Scenes == {"uploads", "backup", "submit", "log", "state", "intake", "fetch", "access"}

MCInit ==
  /\ scene \in Scenes
  /\ StorageInit /\ SubmitInit /\ LogInit /\ StateInit /\ IntakeInit /\ VisitInit /\ AccessInit
  /\ scene # "uploads" => backend = "local"

\* Uploads overlap, fail and are collected.
Uploads ==
  /\ (\E w \in Writers : Upload(w)) \/ Read \/ Crash \/ delete_object_if_unreferenced
  /\ UNCHANGED <<submitVars, logVars, stateVars, otherVars>>

\* A backup is made while one writer uploads and commits.
BackupScene ==
  /\ \/ \E w \in Writers : /\ \A v \in Writers \ {w} : writer[v].phase = "idle"
                           /\ Upload(w) \/ CommitRow(w)
     \/ Checkpoint \/ delete_object_if_unreferenced \/ BackUp
  /\ UNCHANGED <<submitVars, logVars, stateVars, otherVars>>

\* Bounds: two requests past the limiter, and one stranger after everyone else.
AccessBound ==
  LET busy == {r \in Requests : request'[r].phase \notin {"new", "queued", "refusing", "done"}}
      stranger == {r \in Requests : r.token # "good" \/ ~ r.fits \/ r.example # r.project}
  IN  /\ Cardinality(busy) <= 2
      /\ Cardinality({r \in stranger : request'[r].phase # "new"}) <= 1
      /\ \A r \in stranger, q \in Requests \ stranger :
           request'[r].phase # "new" => request'[q].phase = "done"

MCNext ==
  /\ UNCHANGED scene
  /\ \/ scene = "uploads" /\ Uploads
     \/ scene = "backup" /\ BackupScene
     \/ scene = "submit" /\ SubmitNext
                         /\ UNCHANGED <<storageVars, logVars, stateVars, otherVars>>
     \/ scene = "log" /\ LogNext
                      /\ UNCHANGED <<storageVars, submitVars, stateVars, otherVars>>
     \/ scene = "state" /\ StateNext
                        /\ UNCHANGED <<storageVars, submitVars, logVars, otherVars>>
     \/ scene = "intake" /\ IntakeNext /\ Cardinality({f \in Touched' : f.name # "notes"}) <= 1
                         /\ UNCHANGED <<storageVars, submitVars, logVars, stateVars, visit, accessVars>>
     \/ scene = "fetch" /\ VisitNext
                         /\ UNCHANGED <<storageVars, submitVars, logVars, stateVars>>
                         /\ UNCHANGED <<intakeVars, accessVars>>
     \/ scene = "access" /\ AccessNext /\ AccessBound
                         /\ UNCHANGED <<storageVars, submitVars, logVars, stateVars, intakeVars, visit>>

MCSpec ==
  MCInit /\ [][MCNext]_<<scene, storageVars, submitVars, logVars, stateVars, otherVars>>
=============================================================================
