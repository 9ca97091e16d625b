----------------------------- MODULE SelfUpdate -----------------------------
(***************************************************************************)
(* The appliance updates itself: services/update_service.py, started by    *)
(* routers/settings.py.  A request checks the progress record and leaves a *)
(* worker thread behind; the thread backs the database up, pulls the       *)
(* source, builds an image and launches a helper container, and the helper *)
(* replaces the container all of this runs in.                             *)
(*                                                                         *)
(* The thread's commands block only the thread, so other requests, other   *)
(* update threads and database commits come in between.  The record says   *)
(* running only when the thread sets it, so a second request may come in   *)
(* before that, and two threads work on one checkout.  The progress record *)
(* is a module variable: it is empty again in every new process.           *)
(***************************************************************************)
EXTENDS Integers

CONSTANTS
    Updates,      \* slots for update threads
    MaxPushes,    \* pushes to the repository (a bound for the model)
    MaxCommits,   \* commits to the database (a bound for the model)
    NULL,
    Faults

AllFaults == {"backup", "pull", "tags", "version", "build", "raise", "launch", "swap", "crash"}
ASSUME BoundsAssumption == MaxPushes \in Nat /\ MaxCommits \in Nat /\ NULL \notin Nat
ASSUME FaultsAssumption == Faults \subseteq AllFaults

VARIABLES
    status,    \* _update_status: state and step
    thread,    \* the update threads, from create_task to their return
    branch,    \* the remote branch: its last commit and the last tag on it
    newest,    \* the newest tag of the repository, on whatever branch
    source,    \* what /app-source has checked out
    fetched,   \* the last tag of the branch that git knows there
    image,     \* the image tagged latest: the code in it, the version baked in
    running,   \* the image the appliance runs
    helper,    \* the updater container was started and has not acted yet
    db,        \* database commits so far
    main,      \* those that reached the main file, not only the write-ahead log
    backup     \* those in the latest backup, NULL when this version has none

vars == <<status, thread, branch, newest, source, fetched, image, running, helper, db, main, backup>>
repository == <<branch, newest>>
checkout == <<source, fetched>>
container == <<image, running, helper>>
data == <<db, main, backup>>

Unknown == 0
Numbers == 0 .. MaxPushes + 1
Versions == [commit : Numbers, tag : Numbers]
UnknownVersion == [commit |-> Unknown, tag |-> Unknown]
Elsewhere == MaxPushes + 2   \* a tag on another branch
Images == [code : Versions, version : Versions]

Steps == {"", "backup", "pull", "build", "restart"}
Pcs == {"queued", "backup", "pull", "fetch", "commit", "tag", "build", "building", "launch"}
\* version: GIT_TAG and GIT_COMMIT in build_env; code: what the build copies.
Thread == [pc : Pcs, version : Versions, code : Versions]

TypeOK ==
    /\ status \in [state : {"idle", "running", "failed"}, step : Steps]
    /\ thread \in [Updates -> Thread \cup {NULL}]
    /\ branch \in Versions /\ newest \in Numbers \cup {Elsewhere}
    /\ source \in Versions /\ fetched \in Numbers
    /\ image \in Images /\ running \in Images
    /\ helper \in BOOLEAN
    /\ db \in 0 .. MaxCommits /\ main \in 0 .. db
    /\ backup \in 0 .. db \cup {NULL}

First == [commit |-> 1, tag |-> 1]

Init ==
    /\ status = [state |-> "idle", step |-> ""]
    /\ thread = [u \in Updates |-> NULL]
    /\ branch = First /\ newest = 1 /\ source = First /\ fetched = 1
    /\ image = [code |-> First, version |-> First] /\ running = image
    /\ helper = FALSE
    /\ db = 0 /\ main = 0 /\ backup = NULL

-----------------------------------------------------------------------------
(* The surroundings *)

\* A push to the branch, with a tag or without one.
Push ==
    /\ branch.commit <= MaxPushes
    /\ \E tag \in {branch.tag, branch.commit + 1} :
          /\ branch' = [commit |-> branch.commit + 1, tag |-> tag]
          /\ newest' = IF tag = branch.tag THEN newest ELSE tag
    /\ UNCHANGED <<status, thread, checkout, container, data>>

\* A tag on another branch.
TagElsewhere ==
    /\ newest # Elsewhere
    /\ newest' = Elsewhere
    /\ UNCHANGED <<status, thread, branch, checkout, container, data>>

Commit ==
    /\ db < MaxCommits
    /\ db' = db + 1
    /\ UNCHANGED <<status, thread, repository, checkout, container, main, backup>>

\* sqlite copies the log into the main file.
Checkpoint ==
    /\ main # db
    /\ main' = db
    /\ UNCHANGED <<status, thread, repository, checkout, container, db, backup>>

-----------------------------------------------------------------------------
(* check_for_updates: tags where both are known, else commits. *)

NeedsUpdate(current, latest) ==
    \/ /\ current = UnknownVersion
       /\ latest # UnknownVersion
    \/ /\ current.tag # Unknown /\ latest.tag # Unknown
       /\ current.tag # latest.tag
    \/ /\ current # UnknownVersion
       /\ current.tag = Unknown \/ latest.tag = Unknown
       /\ current.commit # Unknown /\ latest.commit # Unknown
       /\ current.commit # latest.commit

\* What the repository's API answers: the branch's commit, the newest tag.
Latest == [commit |-> branch.commit, tag |-> newest]

-----------------------------------------------------------------------------
(* The request and its thread *)

At(u, pc) == thread[u] # NULL /\ thread[u].pc = pc
Go(u, pc) == thread' = [thread EXCEPT ![u] = [@ EXCEPT !.pc = pc]]
End(u) == thread' = [thread EXCEPT ![u] = NULL]

\* Variant: the two strings are swapped.
SwappedStatus(state, step) == status' = [state |-> step, step |-> state]

SetStatus(state, step) == status' = [state |-> state, step |-> step]

\* Variant: a failed step returns without a word.
FailSilently(u, step) == End(u) /\ UNCHANGED status

\* A step that failed: the progress record says so and the thread returns.
Fail(u, step) == SetStatus("failed", step) /\ End(u)

NewThread == [pc |-> "queued", version |-> UnknownVersion, code |-> UnknownVersion]

\* trigger_update of the router: 409 while the state is "running", which the
\* thread sets when it starts.
Trigger(u) ==
    /\ thread[u] = NULL
    /\ status.state # "running"
    /\ thread' = [thread EXCEPT ![u] = NewThread]
    /\ UNCHANGED <<status, repository, checkout, container, data>>

Start(u) ==
    /\ At(u, "queued")
    /\ SetStatus("running", "backup")
    /\ Go(u, "backup")
    /\ UNCHANGED <<repository, checkout, container, data>>

\* Variant: a failed backup does not end the update.
BackupBestEffort(u) ==
    /\ At(u, "backup")
    /\ \/ backup' = main
       \/ "backup" \in Faults /\ UNCHANGED backup
    /\ SetStatus("running", "pull") /\ Go(u, "pull")
    /\ UNCHANGED <<repository, checkout, container, db, main>>

\* backup_database copies the main file.
BackUp(u) ==
    /\ At(u, "backup")
    /\ \/ backup' = main /\ SetStatus("running", "pull") /\ Go(u, "pull")
       \/ "backup" \in Faults /\ Fail(u, "backup") /\ UNCHANGED backup
    /\ UNCHANGED <<repository, checkout, container, db, main>>

\* git pull, which fetches some tags itself; a second pull at the same time
\* finds the index locked.
Pull(u) ==
    /\ At(u, "pull")
    /\ \/ source' = branch /\ fetched' \in {fetched, branch.tag} /\ Go(u, "fetch") /\ UNCHANGED status
       \/ /\ "pull" \in Faults \/ \E v \in Updates \ {u} : At(v, "pull")
          /\ Fail(u, "pull") /\ UNCHANGED checkout
    /\ UNCHANGED <<repository, container, data>>

\* git fetch --tags, of which nobody asks whether it failed.
FetchTags(u) ==
    /\ At(u, "fetch")
    /\ fetched' = branch.tag \/ ("tags" \in Faults /\ UNCHANGED fetched)
    /\ Go(u, "commit")
    /\ UNCHANGED <<status, repository, source, container, data>>

\* The version is read, as far as git can be run; the build begins.
Label(u, commit, tag, pc) ==
    thread' = [thread EXCEPT ![u] = [@ EXCEPT !.pc = pc, !.version = [commit |-> commit, tag |-> tag]]]

\* git rev-parse; if it cannot be run git describe is not tried.
ReadCommit(u) ==
    /\ At(u, "commit")
    /\ \/ Label(u, source.commit, Unknown, "tag") /\ UNCHANGED status
       \/ "version" \in Faults /\ Label(u, Unknown, Unknown, "build") /\ SetStatus("running", "build")
    /\ UNCHANGED <<repository, checkout, container, data>>

\* Variant: the newest tag that was fetched, wherever the checkout is.
NewestTag == fetched

\* The last tag that git knows on the way to the commit checked out.
DescribedTag == IF fetched <= source.tag THEN fetched ELSE source.tag

\* git describe --tags --abbrev=0
ReadTag(u) ==
    /\ At(u, "tag")
    /\ \E tag \in {DescribedTag} \cup (IF "version" \in Faults THEN {Unknown} ELSE {}) :
          Label(u, thread[u].version.commit, tag, "build")
    /\ SetStatus("running", "build")
    /\ UNCHANGED <<repository, checkout, container, data>>

\* docker compose build sends the checkout to the daemon ...
StartBuild(u) ==
    /\ At(u, "build")
    /\ thread' = [thread EXCEPT ![u] = [@ EXCEPT !.pc = "building", !.code = source]]
    /\ UNCHANGED <<status, repository, checkout, container, data>>

\* ... and tags the image.  Only a timeout is caught: when docker cannot be
\* run or the build log not be written, the thread ends and says nothing.  What
\* it does not read any more is dropped.
Build(u) ==
    /\ At(u, "building")
    /\ \/ /\ image' = [code |-> thread[u].code, version |-> thread[u].version]
          /\ SetStatus("running", "restart")
          /\ thread' = [thread EXCEPT ![u] = [NewThread EXCEPT !.pc = "launch"]]
       \/ "build" \in Faults /\ Fail(u, "build") /\ UNCHANGED image
       \/ "raise" \in Faults /\ End(u) /\ UNCHANGED <<status, image>>
    /\ UNCHANGED <<repository, checkout, running, helper, data>>

\* A helper of an earlier update is removed, then the new one is started; a
\* start that timed out counts as failed and may have happened.
Launch(u) ==
    /\ At(u, "launch")
    /\ \/ helper' = TRUE /\ End(u) /\ UNCHANGED status
       \/ "launch" \in Faults /\ helper' \in BOOLEAN /\ Fail(u, "restart")
    /\ UNCHANGED <<repository, checkout, image, running, data>>

\* A new process: no threads, an empty progress record.
NewProcess ==
    /\ thread' = [u \in Updates |-> NULL]
    /\ status' = [state |-> "idle", step |-> ""]

\* The helper recreates the container from the image, or fails and is gone.
Swap ==
    /\ helper
    /\ helper' = FALSE
    /\ \/ running' = image /\ backup' = NULL /\ NewProcess
       \/ "swap" \in Faults /\ UNCHANGED <<running, backup, thread, status>>
    /\ UNCHANGED <<repository, checkout, image, db, main>>

\* The container is restarted with the image it has.
Restart ==
    /\ "crash" \in Faults
    /\ NewProcess
    /\ UNCHANGED <<repository, checkout, container, data>>

Step(u) ==
    \/ Start(u) \/ BackUp(u) \/ Pull(u) \/ FetchTags(u) \/ ReadCommit(u) \/ ReadTag(u)
    \/ StartBuild(u) \/ Build(u) \/ Launch(u)

Next ==
    \/ \E u \in Updates : Trigger(u) \/ Step(u)
    \/ Swap \/ Restart
    \/ Push \/ TagElsewhere \/ Commit \/ Checkpoint

Spec == Init /\ [][Next]_vars

\* Threads run on, and their commands have timeouts; the helper acts after
\* its three seconds.
FairSpec == Spec /\ (\A u \in Updates : WF_vars(Step(u))) /\ WF_vars(Swap)

-----------------------------------------------------------------------------
(* Properties *)

\* The container is not replaced unless the running version's database was
\* backed up before.
SwapHasBackup == helper => backup # NULL

\* An update that was started shows a result: the state "running" ends.
UpdateSettles == status.state = "running" ~> status.state # "running"

\* An update is never hidden: as long as the appliance does not run the last
\* tag of the branch, the check offers it, whatever of its version could be read
\* when its image was built and whichever threads moved the checkout meanwhile.
\* The tag is not always told; then the commits are compared.
NewsIsOffered ==
    running.code.tag < branch.tag =>
        \A latest \in {Latest, [Latest EXCEPT !.tag = Unknown]} : NeedsUpdate(running.version, latest)

\* A backup has every commit made before it.
BackupIsComplete == [][backup' # backup /\ backup' # NULL => backup' = db]_vars
=============================================================================
