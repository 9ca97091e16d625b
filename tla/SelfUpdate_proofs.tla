-------------------------- MODULE SelfUpdate_proofs --------------------------
(***************************************************************************)
(* Theorems about SelfUpdate, for every number of threads, pushes and      *)
(* commits.  None needs an assumption on faults, or on how many updates    *)
(* are under way.                                                          *)
(***************************************************************************)
EXTENDS SelfUpdate, TLAPS

USE DEF repository, checkout, container, data

-----------------------------------------------------------------------------
(* Types *)

ThreadTyped == thread \in [Updates -> Thread \cup {NULL}]
StatusTyped == status \in [state : {"idle", "running", "failed"}, step : Steps]
RepositoryTyped == branch \in Versions /\ newest \in Numbers \cup {Elsewhere} /\ source \in Versions
                   /\ fetched \in Numbers
ContainerTyped == image \in Images /\ running \in Images /\ helper \in BOOLEAN
DataTyped == db \in 0 .. MaxCommits /\ main \in 0 .. db /\ backup \in 0 .. db \cup {NULL}

LEMMA TypeParts ==
    /\ TypeOK <=> ThreadTyped /\ StatusTyped /\ RepositoryTyped /\ ContainerTyped /\ DataTyped
    /\ TypeOK' <=> ThreadTyped' /\ StatusTyped' /\ RepositoryTyped' /\ ContainerTyped' /\ DataTyped'
BY DEF TypeOK, ThreadTyped, StatusTyped, RepositoryTyped, ContainerTyped, DataTyped

LEMMA UnknownTyped == UnknownVersion \in Versions
    BY BoundsAssumption DEF UnknownVersion, Versions, Numbers, Unknown

LEMMA InitTyped == Init => TypeOK
<1> SUFFICES ASSUME Init PROVE TypeOK
    OBVIOUS
<1>1. First \in Versions /\ 1 \in Numbers
    BY BoundsAssumption DEF First, Versions, Numbers
<1>2. ContainerTyped /\ RepositoryTyped
    BY <1>1 DEF Init, Images, ContainerTyped, RepositoryTyped
<1>3. DataTyped
    <2>1. db = 0 /\ main = 0 /\ backup = NULL
        BY DEF Init
    <2> QED BY <2>1, BoundsAssumption DEF DataTyped
<1>4. ThreadTyped /\ StatusTyped
    BY DEF Init, ThreadTyped, StatusTyped, Steps
<1> QED BY <1>2, <1>3, <1>4, TypeParts

\* A thread that goes on is a thread.
LEMMA GoTyped ==
    ASSUME ThreadTyped, NEW u \in Updates, NEW pc \in Pcs, thread[u] # NULL, Go(u, pc)
    PROVE ThreadTyped'
<1>1. [thread[u] EXCEPT !.pc = pc] \in Thread
    BY DEF ThreadTyped, Thread
<1> QED BY <1>1 DEF ThreadTyped, Go

\* A thread that ends leaves its slot empty.
LEMMA EndTyped ==
    ASSUME ThreadTyped, NEW u \in Updates, End(u)
    PROVE ThreadTyped'
BY DEF ThreadTyped, End

\* So is a thread that has read its version.
LEMMA LabelTyped ==
    ASSUME ThreadTyped, NEW u \in Updates, thread[u] # NULL, NEW pc \in Pcs,
           NEW commit \in Numbers, NEW tag \in Numbers, Label(u, commit, tag, pc)
    PROVE ThreadTyped'
<1>1. [commit |-> commit, tag |-> tag] \in Versions
    BY DEF Versions
<1>2. [thread[u] EXCEPT !.pc = pc, !.version = [commit |-> commit, tag |-> tag]] \in Thread
    BY <1>1 DEF ThreadTyped, Thread
<1> QED BY <1>2 DEF ThreadTyped, Label

\* The record is set to a state and a step, and a failed step sets it too.
LEMMA SetTyped ==
    ASSUME NEW state \in {"idle", "running", "failed"}, NEW step \in Steps, SetStatus(state, step)
    PROVE StatusTyped'
BY DEF SetStatus, StatusTyped

\* Every step of the surroundings keeps the types.
LEMMA SurroundingsTyped ==
    ASSUME TypeOK, Push \/ TagElsewhere \/ Commit \/ Checkpoint \/ Swap \/ Restart
    PROVE TypeOK'
<1> USE TypeParts DEF ThreadTyped, StatusTyped, ContainerTyped
<1>1. CASE Push
    <2>1. branch.commit \in Numbers /\ branch.tag \in Numbers /\ branch.commit <= MaxPushes
        BY <1>1 DEF Push, RepositoryTyped, Versions
    <2>2. branch.commit + 1 \in Numbers
        BY <2>1, BoundsAssumption DEF Numbers
    <2>3. RepositoryTyped'
        BY <1>1, <2>1, <2>2 DEF Push, RepositoryTyped, Versions
    <2> QED BY <1>1, <2>3 DEF Push, DataTyped
<1>2. CASE TagElsewhere
    BY <1>2 DEF TagElsewhere, RepositoryTyped, DataTyped
<1>3. CASE Commit
    <2>1. DataTyped'
        <3>1. db < MaxCommits /\ db' = db + 1 /\ main' = main /\ backup' = backup
            BY <1>3 DEF Commit
        <3> QED BY <3>1, BoundsAssumption DEF DataTyped
    <2> QED BY <1>3, <2>1 DEF Commit, RepositoryTyped
<1>4. CASE Checkpoint
    <2>1. DataTyped'
        BY <1>4, BoundsAssumption DEF Checkpoint, DataTyped
    <2> QED BY <1>4, <2>1 DEF Checkpoint, RepositoryTyped
<1>5. CASE Swap
    <2>1. ThreadTyped' /\ StatusTyped'
        <3>1. CASE NewProcess
            BY <3>1 DEF NewProcess, Steps
        <3> QED BY <1>5, <3>1 DEF Swap
    <2>2. DataTyped'
        <3>1. db' = db /\ main' = main /\ backup' \in {backup, NULL}
            BY <1>5 DEF Swap
        <3> QED BY <3>1 DEF DataTyped
    <2> QED BY <1>5, <2>1, <2>2 DEF Swap, RepositoryTyped
<1>6. CASE Restart
    BY <1>6 DEF Restart, NewProcess, Steps, RepositoryTyped, DataTyped
<1> QED BY <1>1, <1>2, <1>3, <1>4, <1>5, <1>6

\* Every step of a request or its thread keeps the types.
LEMMA ThreadStepTyped ==
    ASSUME TypeOK, NEW u \in Updates, Trigger(u) \/ Step(u)
    PROVE TypeOK'
<1> USE TypeParts DEF At
<1>1. CASE Trigger(u)
    <2>1. NewThread \in Thread
        BY UnknownTyped DEF NewThread, Thread, Pcs
    <2>2. ThreadTyped'
        BY <1>1, <2>1 DEF Trigger, ThreadTyped
    <2> QED BY <1>1, <2>2 DEF Trigger, StatusTyped, RepositoryTyped, ContainerTyped, DataTyped
<1>2. CASE Start(u)
    <2>1. ThreadTyped' /\ StatusTyped'
        BY <1>2, GoTyped, SetTyped DEF Start, Pcs, Steps
    <2> QED BY <1>2, <2>1 DEF Start, RepositoryTyped, ContainerTyped, DataTyped
<1>3. CASE BackUp(u)
    <2>1. ThreadTyped' /\ StatusTyped'
        BY <1>3, GoTyped, EndTyped, SetTyped DEF BackUp, Fail, Pcs, Steps
    <2>2. DataTyped'
        <3>1. db' = db /\ main' = main /\ backup' \in {main, backup}
            BY <1>3 DEF BackUp
        <3> QED BY <3>1 DEF DataTyped
    <2> QED BY <1>3, <2>1, <2>2 DEF BackUp, RepositoryTyped, ContainerTyped
<1>4. CASE Pull(u)
    <2>1. ThreadTyped' /\ StatusTyped'
        BY <1>4, GoTyped, EndTyped, SetTyped DEF Pull, Fail, Pcs, Steps, StatusTyped
    <2>2. branch' = branch /\ newest' = newest /\ source' \in {source, branch} /\ fetched' \in {fetched, branch.tag}
        BY <1>4 DEF Pull, Fail
    <2>3. RepositoryTyped'
        BY <2>2 DEF RepositoryTyped, Versions
    <2>4. UNCHANGED container /\ UNCHANGED data
        BY <1>4 DEF Pull
    <2> QED BY <2>1, <2>3, <2>4 DEF ContainerTyped, DataTyped
<1>9. CASE FetchTags(u)
    <2>1. ThreadTyped'
        BY <1>9, GoTyped DEF FetchTags, Pcs
    <2>2. fetched' \in Numbers
        BY <1>9 DEF FetchTags, RepositoryTyped, Versions
    <2> QED BY <1>9, <2>1, <2>2 DEF FetchTags, StatusTyped, RepositoryTyped, ContainerTyped, DataTyped
<1>5. CASE ReadCommit(u)
    <2>1. source.commit \in Numbers /\ Unknown \in Numbers
        BY BoundsAssumption DEF RepositoryTyped, Versions, Numbers, Unknown
    <2>2. ThreadTyped'
        BY <1>5, <2>1, LabelTyped DEF ReadCommit, Pcs
    <2>3. StatusTyped'
        BY <1>5, SetTyped DEF ReadCommit, Steps, StatusTyped
    <2> QED BY <1>5, <2>2, <2>3 DEF ReadCommit, RepositoryTyped, ContainerTyped, DataTyped
<1>10. CASE ReadTag(u)
    <2>1. PICK tag \in {DescribedTag, Unknown} : Label(u, thread[u].version.commit, tag, "build")
        BY <1>10 DEF ReadTag
    <2>2. tag \in Numbers
        BY BoundsAssumption DEF DescribedTag, RepositoryTyped, Versions, Numbers, Unknown
    <2>5. thread[u].version.commit \in Numbers
        BY <1>10 DEF ReadTag, ThreadTyped, Thread, Versions
    <2>3. ThreadTyped'
        BY <1>10, <2>1, <2>2, <2>5, LabelTyped DEF ReadTag, Pcs
    <2>4. StatusTyped'
        BY <1>10, SetTyped DEF ReadTag, Steps
    <2> QED BY <1>10, <2>3, <2>4 DEF ReadTag, RepositoryTyped, ContainerTyped, DataTyped
<1>6. CASE StartBuild(u)
    <2>1. [thread[u] EXCEPT !.pc = "building", !.code = source] \in Thread
        BY <1>6 DEF StartBuild, ThreadTyped, RepositoryTyped, Thread, Pcs
    <2>2. ThreadTyped'
        BY <1>6, <2>1 DEF StartBuild, ThreadTyped
    <2> QED BY <1>6, <2>2 DEF StartBuild, StatusTyped, RepositoryTyped, ContainerTyped, DataTyped
<1>7. CASE Build(u)
    <2>4. [NewThread EXCEPT !.pc = "launch"] \in Thread
        BY UnknownTyped DEF NewThread, Thread, Pcs
    <2>1. ThreadTyped'
        BY <1>7, <2>4, EndTyped DEF Build, Fail, ThreadTyped
    <2>5. StatusTyped'
        BY <1>7, SetTyped DEF Build, Fail, Steps, StatusTyped
    <2>2. thread[u].code \in Versions /\ thread[u].version \in Versions
        BY <1>7 DEF Build, ThreadTyped, Thread
    <2>3. ContainerTyped'
        BY <1>7, <2>2 DEF Build, ContainerTyped, Images
    <2> QED BY <1>7, <2>1, <2>3, <2>5 DEF Build, RepositoryTyped, DataTyped
<1>8. CASE Launch(u)
    <2>1. ThreadTyped' /\ StatusTyped'
        BY <1>8, EndTyped, SetTyped DEF Launch, Fail, Steps, StatusTyped
    <2> QED BY <1>8, <2>1 DEF Launch, RepositoryTyped, ContainerTyped, DataTyped
<1> QED BY <1>1, <1>2, <1>3, <1>4, <1>5, <1>6, <1>7, <1>8, <1>9, <1>10 DEF Step

LEMMA NextTyped == TypeOK /\ [Next]_vars => TypeOK'
<1> SUFFICES ASSUME TypeOK, [Next]_vars PROVE TypeOK'
    OBVIOUS
<1>1. CASE UNCHANGED vars
    BY <1>1 DEF vars, TypeOK
<1> QED BY <1>1, ThreadStepTyped, SurroundingsTyped DEF Next

\* Whatever fails and however requests, threads, restarts and pushes
\* interleave, every variable keeps its type.
THEOREM TypeCorrect == Spec => []TypeOK
    BY InitTyped, NextTyped, PTL DEF Spec

-----------------------------------------------------------------------------
(* No swap without a backup *)

PastBackup == {"pull", "fetch", "commit", "tag", "build", "building", "launch"}

\* A thread that is past its first step has made a backup of this version,
\* and so has one that left a helper behind.
BackupInv ==
    /\ SwapHasBackup
    /\ \A u \in Updates : thread[u] # NULL /\ thread[u].pc \in PastBackup => backup # NULL

LEMMA BackupStep ==
    ASSUME TypeOK, BackupInv, [Next]_vars
    PROVE BackupInv'
<1> USE DEF BackupInv, SwapHasBackup, PastBackup
<1>1. CASE UNCHANGED vars
    BY <1>1 DEF vars
<1>2. CASE Swap
    <2>1. helper' = FALSE /\ ((backup' = backup /\ thread' = thread) \/ NewProcess)
        BY <1>2 DEF Swap
    <2> QED BY <2>1 DEF NewProcess
<1>3. CASE Restart
    <2>1. helper' = helper /\ backup' = backup /\ NewProcess
        BY <1>3 DEF Restart
    <2> QED BY <2>1 DEF NewProcess
<1>7. CASE Push \/ TagElsewhere \/ Commit \/ Checkpoint
    BY <1>7 DEF Push, TagElsewhere, Commit, Checkpoint
<1>4. ASSUME NEW u \in Updates, Trigger(u) \/ Start(u)
      PROVE BackupInv'
    BY <1>4 DEF TypeOK, Trigger, Start, At, Go, NewThread, Thread
<1>5. ASSUME NEW u \in Updates, BackUp(u)
      PROVE BackupInv'
    <2>1. main # NULL
        BY BoundsAssumption DEF TypeOK
    <2> QED BY <1>5, <2>1 DEF TypeOK, BackUp, At, Go, Fail, End, Thread
<1>6. ASSUME NEW u \in Updates,
             \/ Pull(u) \/ FetchTags(u) \/ ReadCommit(u) \/ ReadTag(u)
             \/ StartBuild(u) \/ Build(u) \/ Launch(u)
      PROVE BackupInv'
    <2>1. backup' = backup /\ backup # NULL
        BY <1>6 DEF Pull, FetchTags, ReadCommit, ReadTag, StartBuild, Build, Launch, At
    <2> QED BY <2>1
<1> QED BY <1>1, <1>2, <1>3, <1>4, <1>5, <1>6, <1>7 DEF Next, Step

\* The container is never replaced unless the database was backed up under
\* the version that is being replaced (trigger_update's first step), also
\* when updates overlap.
THEOREM NoSwapWithoutBackup == Spec => []SwapHasBackup
<1>1. Init => BackupInv
    BY DEF Init, BackupInv, SwapHasBackup
<1>2. TypeOK /\ BackupInv /\ [Next]_vars => BackupInv'
    BY BackupStep
<1>3. BackupInv => SwapHasBackup
    BY DEF BackupInv
<1> QED BY <1>1, <1>2, <1>3, TypeCorrect, PTL DEF Spec

-----------------------------------------------------------------------------
(* The version in an image is never newer than its code *)

\* v is w, or a state of the branch before it.
Precedes(v, w) ==
    v.commit <= w.commit /\ v.tag <= w.tag /\ (v.commit = w.commit => v.tag = w.tag)

\* What was read of a version is not newer than the code; without the commit
\* the tag was not read either.
Labels(version, code) ==
    /\ version.commit <= code.commit /\ version.tag <= code.tag
    /\ version.commit = Unknown => version.tag = Unknown

\* The checkout follows the branch, the builds follow the checkout, and what a
\* thread has read of a version stays true while other threads pull.
HistoryInv ==
    /\ branch.commit # Unknown /\ branch.tag <= branch.commit
    /\ newest = branch.tag \/ newest = Elsewhere
    /\ Precedes(source, branch) /\ source.commit # Unknown
    /\ Precedes(image.code, branch) /\ Labels(image.version, image.code)
    /\ Precedes(running.code, branch) /\ Labels(running.version, running.code)
    /\ \A u \in Updates : thread[u] # NULL =>
          /\ thread[u].pc \in {"tag", "build"} => Labels(thread[u].version, source)
          /\ thread[u].pc = "tag" => thread[u].version.commit # Unknown
          /\ thread[u].pc = "building" =>
                /\ Precedes(thread[u].code, branch)
                /\ Labels(thread[u].version, thread[u].code)

\* States of the branch are ordered.
LEMMA PrecedesIsAnOrder ==
    ASSUME NEW v \in Versions, NEW w \in Versions
    PROVE /\ Precedes(v, v)
          /\ \A x \in Versions : Precedes(v, w) /\ Precedes(w, x) => Precedes(v, x)
          /\ \A version \in Versions : Labels(version, v) /\ Precedes(v, w) => Labels(version, w)
BY BoundsAssumption DEF Precedes, Labels, Versions, Numbers

LEMMA HistoryStep ==
    ASSUME TypeOK, HistoryInv, [Next]_vars
    PROVE HistoryInv'
<1> USE DEF HistoryInv
<1>1. CASE UNCHANGED vars
    BY <1>1 DEF vars
<1>2. CASE Swap \/ Restart
    BY <1>2 DEF Swap, Restart, NewProcess
<1>3. CASE TagElsewhere \/ Commit \/ Checkpoint
    BY <1>3 DEF TagElsewhere, Commit, Checkpoint
<1>4. CASE Push
    <2>1. TypeOK'
        BY <1>4, SurroundingsTyped
    <2>2. Precedes(branch, branch') /\ branch'.commit # Unknown /\ branch'.tag <= branch'.commit
        BY <1>4, BoundsAssumption DEF Push, Precedes, TypeOK, Versions, Numbers, Unknown
    <2>3. newest' = branch'.tag \/ newest' = Elsewhere
        BY <1>4 DEF Push
    <2>4. ASSUME NEW v \in Versions, Precedes(v, branch) PROVE Precedes(v, branch')
        <3>1. branch \in Versions /\ branch' \in Versions
            BY <2>1 DEF TypeOK
        <3> QED BY <2>2, <2>4, <3>1, PrecedesIsAnOrder
    <2>5. source \in Versions /\ image.code \in Versions /\ running.code \in Versions
        BY DEF TypeOK, Images
    <2>6. \A u \in Updates : thread[u] # NULL => thread[u].code \in Versions
        BY DEF TypeOK, Thread
    <2> QED BY <1>4, <2>2, <2>3, <2>4, <2>5, <2>6 DEF Push
<1>5. ASSUME NEW u \in Updates, Trigger(u) \/ Start(u) \/ BackUp(u) \/ FetchTags(u) \/ Launch(u)
      PROVE HistoryInv'
    <2>1. /\ UNCHANGED <<branch, newest, source, image, running>>
          /\ \A v \in Updates \ {u} : thread'[v] = thread[v]
          /\ thread'[u] # NULL => thread'[u].pc \in {"queued", "backup", "pull", "commit"}
        BY <1>5 DEF Trigger, Start, BackUp, FetchTags, Launch, TypeOK, Thread, At, Go, End, Fail, NewThread
    <2> QED BY <2>1
<1>6. ASSUME NEW u \in Updates, Pull(u)
      PROVE HistoryInv'
    <2>1. /\ UNCHANGED <<branch, newest, image, running>>
          /\ source' = branch \/ source' = source
          /\ \A v \in Updates \ {u} : thread'[v] = thread[v]
          /\ thread'[u] # NULL => thread'[u].pc = "fetch"
        BY <1>6 DEF Pull, TypeOK, Thread, At, Go, End, Fail
    <2>2. Precedes(source, source') /\ Precedes(source', branch) /\ source'.commit # Unknown
        BY <2>1, PrecedesIsAnOrder DEF TypeOK
    <2>3. \A v \in Updates \ {u} : thread[v] # NULL /\ thread[v].pc \in {"tag", "build"} =>
              Labels(thread[v].version, source')
        BY <2>1, <2>2, PrecedesIsAnOrder DEF TypeOK, Thread
    <2> QED BY <2>1, <2>2, <2>3
<1>7. ASSUME NEW u \in Updates, ReadCommit(u) \/ ReadTag(u) \/ StartBuild(u)
      PROVE HistoryInv'
    <2>1. /\ UNCHANGED <<branch, newest, source, image, running>>
          /\ \A v \in Updates \ {u} : thread'[v] = thread[v]
          /\ thread[u] \in Thread /\ source \in Versions /\ fetched \in Numbers
        BY <1>7 DEF ReadCommit, ReadTag, StartBuild, Label, At, TypeOK
    <2>2. CASE ReadCommit(u)
        <3>1. /\ thread'[u].pc \in {"tag", "build"}
              /\ \/ thread'[u].version = [commit |-> source.commit, tag |-> Unknown]
                 \/ thread'[u].version = UnknownVersion /\ thread'[u].pc = "build"
            <4>1. ASSUME NEW commit, NEW tag, NEW pc, Label(u, commit, tag, pc)
                  PROVE thread'[u].pc = pc /\ thread'[u].version = [commit |-> commit, tag |-> tag]
                BY <2>1, <4>1 DEF Label, TypeOK, Thread
            <4> QED BY <2>2, <4>1 DEF ReadCommit, UnknownVersion
        <3>2. Labels([commit |-> source.commit, tag |-> Unknown], source) /\ Labels(UnknownVersion, source)
            BY <2>1, BoundsAssumption DEF Labels, UnknownVersion, Unknown, Versions, Numbers
        <3> QED BY <2>1, <3>1, <3>2
    <2>3. CASE ReadTag(u)
        <3>1. thread[u].pc = "tag" /\ thread[u].version \in Versions
            BY <2>1, <2>3 DEF ReadTag, At, Thread
        <3>2. PICK tag \in {DescribedTag, Unknown} : Label(u, thread[u].version.commit, tag, "build")
            BY <2>3 DEF ReadTag
        <3>3. /\ thread'[u].pc = "build"
              /\ thread'[u].version = [commit |-> thread[u].version.commit, tag |-> tag]
            BY <2>1, <3>2 DEF Label, TypeOK, Thread
        <3>4. tag <= source.tag /\ thread[u].version.commit # Unknown
            BY <2>1, <2>3, <3>1, BoundsAssumption
            DEF DescribedTag, Unknown, Versions, Numbers, ReadTag, At
        <3>5. Labels([commit |-> thread[u].version.commit, tag |-> tag], source)
            BY <2>1, <2>3, <3>1, <3>4 DEF Labels, ReadTag, At
        <3> QED BY <2>1, <3>3, <3>5
    <2>4. CASE StartBuild(u)
        <3>1. /\ thread[u] # NULL /\ thread[u].pc = "build"
              /\ thread'[u].pc = "building" /\ thread'[u].code = source
              /\ thread'[u].version = thread[u].version
            BY <2>1, <2>4 DEF StartBuild, At, TypeOK, Thread
        <3> QED BY <2>1, <3>1
    <2> QED BY <1>7, <2>2, <2>3, <2>4
<1>8. ASSUME NEW u \in Updates, Build(u)
      PROVE HistoryInv'
    <2>1. /\ UNCHANGED <<branch, newest, source, running>>
          /\ \A v \in Updates \ {u} : thread'[v] = thread[v]
          /\ thread'[u] # NULL => thread'[u].pc = "launch"
          /\ image' = image \/ image' = [code |-> thread[u].code, version |-> thread[u].version]
          /\ thread[u] # NULL /\ thread[u].pc = "building"
        BY <1>8 DEF Build, TypeOK, At, End, Fail, NewThread
    <2> QED BY <2>1
<1> QED BY <1>1, <1>2, <1>3, <1>4, <1>5, <1>6, <1>7, <1>8 DEF Next, Step

\* An appliance that does not run the last tag of the branch reads a tag of its
\* own that is older, or a commit that is older, or nothing.
LEMMA HistoryIsOffered == TypeOK /\ HistoryInv => NewsIsOffered
<1> SUFFICES ASSUME TypeOK, HistoryInv, running.code.tag < branch.tag,
                    NEW latest \in {Latest, [Latest EXCEPT !.tag = Unknown]}
             PROVE NeedsUpdate(running.version, latest)
    BY DEF NewsIsOffered
<1> DEFINE v == running.version
<1>1. /\ v \in Versions /\ running.code \in Versions /\ branch \in Versions
      /\ v = [commit |-> v.commit, tag |-> v.tag]
    BY DEF TypeOK, Images, Versions
<1>2. v.tag < branch.tag /\ v.commit < branch.commit
    BY <1>1, BoundsAssumption DEF HistoryInv, Labels, Precedes, Versions, Numbers
<1>3. latest.commit = branch.commit /\ latest.tag \in {branch.tag, Elsewhere, Unknown}
    BY DEF Latest, HistoryInv
<1>4. latest.commit # Unknown /\ latest # UnknownVersion
    BY <1>3 DEF HistoryInv, UnknownVersion
<1>5. v.commit = Unknown => v = UnknownVersion
    BY <1>1 DEF HistoryInv, Labels, UnknownVersion
<1>6. v.tag # latest.tag \/ latest.tag = Unknown
    BY <1>1, <1>2, <1>3, BoundsAssumption DEF Versions, Numbers, Elsewhere
<1>7. v.commit # latest.commit
    BY <1>1, <1>2, <1>3, BoundsAssumption DEF Versions, Numbers
<1> HIDE DEF v
<1>8. NeedsUpdate(v, latest)
    BY <1>4, <1>5, <1>6, <1>7 DEF NeedsUpdate, UnknownVersion
<1> QED BY <1>8 DEF v

\* check_for_updates never hides a tag of the branch that the appliance does not
\* run: not after tags that could not be fetched, nor versions that could not
\* be read, nor with any number of updates at work on the one checkout.
THEOREM NewsIsAlwaysOffered == Spec => []NewsIsOffered
<1>1. Init => HistoryInv
    <2> SUFFICES ASSUME Init PROVE HistoryInv
        OBVIOUS
    <2>1. First = [commit |-> 1, tag |-> 1] /\ First.tag <= First.commit /\ Precedes(First, First) /\ Labels(First, First)
        BY DEF First, Precedes, Labels, Unknown
    <2>2. \A u \in Updates : thread[u] = NULL
        BY DEF Init
    <2>3. /\ branch = First /\ source = First /\ newest = 1
          /\ image.code = First /\ image.version = First
          /\ running.code = First /\ running.version = First
        BY DEF Init
    <2> QED BY <2>1, <2>2, <2>3 DEF HistoryInv, Unknown
<1>2. TypeOK /\ HistoryInv /\ [Next]_vars => HistoryInv'
    BY HistoryStep
<1> QED BY <1>1, <1>2, HistoryIsOffered, TypeCorrect, PTL DEF Spec
=============================================================================
