------------------------ MODULE ImageUpdates_proofs ------------------------
(***************************************************************************)
(* Theorems about ImageUpdates, for any customers, services, jobs and      *)
(* versions, whatever faults happen and whether or not customers are       *)
(* deleted while a job works on them.                                      *)
(***************************************************************************)
EXTENDS ImageUpdates, TLAPS

-----------------------------------------------------------------------------
(* The invariant.  A job that works on a customer knows which; a container *)
(* is never newer than its local image, nor that newer than Docker Hub's;  *)
(* and a container that compose has renamed is older than its replacement, *)
(* so the one it removes is never the last one.                            *)

Busy == {"repair", "start", "compose"}
CurrentKnown == \A j \in Jobs : job[j] # NULL /\ job[j].pc \in Busy => job[j].current \in Customers
TypeInv == TypeOK /\ CurrentKnown

Pulls == \A s \in Services : local[s] <= hub[s]

NotNewer(b, version) ==
    /\ b.named # NULL => b.named <= version
    /\ b.orphan # NULL => b.orphan <= version
Contained == \A c \in Customers, s \in Services : NotNewer(box[c][s], local[s])

\* A box out of which a container of that version can go.
Replaced(b, held) ==
    /\ b.named # NULL => held < b.named
    /\ b.named = NULL /\ b.orphan # NULL => held < b.orphan

HeldOlder ==
    \A j \in Jobs, s \in Services : job[j] # NULL =>
        LET stage == job[j].stage[s]
        IN  /\ stage.at \in {"renamed", "created"} =>
                  job[j].pc = "compose" /\ stage.held # NULL /\ stage.held < local[s]
            /\ stage.at = "created" =>
                  job[j].current \in Customers /\ Replaced(box[job[j].current][s], stage.held)

IInv == Pulls /\ Contained /\ HeldOlder /\ ServiceKept
-----------------------------------------------------------------------------
(* Records *)

BoxTyped == box \in [Customers -> [Services -> Box]]
JobTyped == job \in [Jobs -> Job \cup {NULL}]
ImagesTyped == hub \in [Services -> Versions] /\ local \in [Services -> Versions]
ScheduleTyped ==
    /\ clock \in {"early", "due", "late"}
    /\ lastRun \in {"never", "today", "earlier"}
    /\ runs \in Nat
RestTyped ==
    /\ customer \in [Customers -> {"absent", "deployed", "deleting"}]
    /\ log \in RunStatuses \cup {NULL}
    /\ troubles \in 0 .. MaxTroubles

LEMMA TypeParts ==
    /\ TypeInv <=> ImagesTyped /\ BoxTyped /\ JobTyped /\ ScheduleTyped /\ RestTyped /\ CurrentKnown
    /\ TypeInv' <=>
          ImagesTyped' /\ BoxTyped' /\ JobTyped' /\ ScheduleTyped' /\ RestTyped' /\ CurrentKnown'
BY DEF TypeInv, TypeOK, ImagesTyped, BoxTyped, JobTyped, ScheduleTyped, RestTyped

\* A gather or a compose call starts with nothing done.
LEMMA TodoTyped == Todo \in [Services -> Stage]
BY DEF Todo, Stage

\* A step of one service keeps the job's record, but for that stage.
LEMMA StageToTyped ==
    ASSUME NEW r \in Job, NEW s \in Services, NEW at \in {"todo", "renamed", "created", "done"},
           NEW held \in Versions \cup {NULL}
    PROVE  /\ StageTo(r, s, at, held) \in Job
           /\ StageTo(r, s, at, held).pc = r.pc
           /\ StageTo(r, s, at, held).current = r.current
<1>1. [at |-> at, held |-> held] \in Stage
    BY DEF Stage
<1>2. [r.stage EXCEPT ![s] = [at |-> at, held |-> held]] \in [Services -> Stage]
    BY <1>1 DEF Job
<1> QED BY <1>2 DEF StageTo, Job

\* The records a job goes on with between customers and between phases.
LEMMA PhaseTyped ==
    ASSUME NEW r \in Job
    PROVE  /\ ToNext(r) \in Job /\ ToNext(r).pc = "next"
           /\ Failed(r) \in Job /\ Failed(r).pc = "next"
           /\ r.current \in Customers => Accepted(r) \in Job
           /\ Accepted(r).pc = "next"
           /\ AfterPull(r) \in Job /\ AfterPull(r).pc \in {"list", "record"}
           /\ ToPull(r) \in Job /\ ToPull(r).pc = "pull"
<1>1. ToNext(r) \in Job /\ ToNext(r).pc = "next" /\ ToNext(r).ok = r.ok
    BY TodoTyped DEF ToNext, Job, Pcs
<1>2. Failed(r) \in Job /\ Failed(r).pc = "next"
    BY <1>1 DEF Failed, Job
<1>3. Accepted(r).pc = "next"
    BY <1>1 DEF Accepted, Job
<1>4. ASSUME r.current \in Customers PROVE Accepted(r) \in Job
    <2>1. r.ok \cup {r.current} \in SUBSET Customers
        BY <1>4 DEF Job
    <2> QED BY <1>1, <2>1 DEF Accepted, Job
<1>5. AfterPull(r) \in Job /\ AfterPull(r).pc \in {"list", "record"}
    BY TodoTyped DEF AfterPull, Job, Pcs
<1>6. ToPull(r) \in Job /\ ToPull(r).pc = "pull"
    BY TodoTyped DEF ToPull, Job, Pcs
<1> QED BY <1>1, <1>2, <1>3, <1>4, <1>5, <1>6

\* Every job starts with a record of a job.
LEMMA NewJobTyped ==
    ASSUME ImagesTyped, NEW kind \in Kinds, NEW pc \in Pcs, NEW todo \in SUBSET Customers
    PROVE  /\ NewJob(kind, pc, todo) \in Job
           /\ NewJob(kind, pc, todo).pc = pc
           /\ NewJob(kind, pc, todo).kind = kind
BY TodoTyped DEF NewJob, Job, ImagesTyped

\* A job that is given another record, or none.
LEMMA SetTyped ==
    ASSUME JobTyped, CurrentKnown, NEW j \in Jobs, NEW r \in Job \cup {NULL},
           r # NULL /\ r.pc \in Busy => r.current \in Customers, Set(j, r)
    PROVE  JobTyped' /\ CurrentKnown'
BY DEF JobTyped, CurrentKnown, Set

\* Repairing names leaves boxes.
LEMMA RepairTyped ==
    ASSUME BoxTyped, NEW c \in Customers
    PROVE  RepairedBox(c) \in [Services -> Box]
BY DEF BoxTyped, RepairedBox, Repair, Box

LEMMA NoBoxTyped == NoBox \in Box
BY DEF NoBox, Box

-----------------------------------------------------------------------------
(* Types *)

LEMMA InitTyped == Init => TypeInv
<1> SUFFICES ASSUME Init PROVE TypeInv
    OBVIOUS
<1>1. 1 \in Versions
    BY BoundsAssumption DEF Versions
<1>2. ImagesTyped /\ BoxTyped
    BY <1>1 DEF Init, ImagesTyped, BoxTyped, Box
<1>3. JobTyped /\ CurrentKnown
    BY DEF Init, JobTyped, CurrentKnown
<1>4. troubles \in 0 .. MaxTroubles
    BY BoundsAssumption DEF Init
<1>5. ScheduleTyped /\ RestTyped
    BY <1>4 DEF Init, ScheduleTyped, RestTyped
<1> QED BY <1>2, <1>3, <1>5, TypeParts

LEMMA TroubleTyped ==
    ASSUME RestTyped, Trouble
    PROVE  troubles' \in 0 .. MaxTroubles
BY BoundsAssumption DEF RestTyped, Trouble

\* Every step outside the jobs keeps the types.
LEMMA SurroundingsTyped ==
    ASSUME TypeInv,
           \/ \E c \in Customers : Deploy(c) \/ Down(c) \/ Remove(c) \/ LoadPage(c)
           \/ \E s \in Services : Release(s)
           \/ Elapse \/ MoveCheckTime \/ Crash
    PROVE  TypeInv'
<1> USE TypeParts, TroubleTyped DEF schedule
<1>1. ASSUME NEW c \in Customers, Deploy(c) PROVE TypeInv'
    <2>1. [s \in Services |-> [named |-> local[s], orphan |-> NULL]] \in [Services -> Box]
        BY DEF ImagesTyped, Box
    <2>2. BoxTyped' /\ RestTyped'
        BY <1>1, <2>1 DEF Deploy, BoxTyped, RestTyped
    <2> QED BY <1>1, <2>2 DEF Deploy, ImagesTyped, JobTyped, ScheduleTyped, CurrentKnown
<1>2. ASSUME NEW c \in Customers, Down(c) PROVE TypeInv'
    <2>1. [s \in Services |-> NoBox] \in [Services -> Box]
        BY NoBoxTyped
    <2>2. BoxTyped' /\ RestTyped'
        BY <1>2, <2>1 DEF Down, BoxTyped, RestTyped
    <2> QED BY <1>2, <2>2 DEF Down, ImagesTyped, JobTyped, ScheduleTyped, CurrentKnown
<1>3. ASSUME NEW c \in Customers, Remove(c) PROVE TypeInv'
    BY <1>3 DEF Remove, ImagesTyped, BoxTyped, JobTyped, ScheduleTyped, RestTyped, CurrentKnown
<1>4. ASSUME NEW c \in Customers, LoadPage(c) PROVE TypeInv'
    <2>1. BoxTyped' /\ RestTyped'
        BY <1>4, RepairTyped DEF LoadPage, BoxTyped, RestTyped
    <2> QED BY <1>4, <2>1 DEF LoadPage, ImagesTyped, JobTyped, ScheduleTyped, CurrentKnown
<1>5. ASSUME NEW s \in Services, Release(s) PROVE TypeInv'
    <2>1. hub[s] + 1 \in Versions
        BY <1>5, BoundsAssumption DEF Release, ImagesTyped, Versions
    <2>2. ImagesTyped'
        BY <1>5, <2>1 DEF Release, ImagesTyped
    <2> QED BY <1>5, <2>2 DEF Release, BoxTyped, JobTyped, ScheduleTyped, RestTyped, CurrentKnown
<1>6. CASE Elapse
    <2>1. ScheduleTyped'
        BY <1>6 DEF Elapse, ScheduleTyped
    <2> QED BY <1>6, <2>1 DEF Elapse, ImagesTyped, BoxTyped, JobTyped, RestTyped, CurrentKnown
<1>7. CASE MoveCheckTime
    <2>1. ScheduleTyped' /\ RestTyped'
        BY <1>7 DEF MoveCheckTime, ScheduleTyped, RestTyped
    <2> QED BY <1>7, <2>1 DEF MoveCheckTime, ImagesTyped, BoxTyped, JobTyped, CurrentKnown
<1>8. CASE Crash
    <2>1. JobTyped' /\ CurrentKnown' /\ RestTyped'
        BY <1>8 DEF Crash, JobTyped, CurrentKnown, RestTyped
    <2> QED BY <1>8, <2>1 DEF Crash, ImagesTyped, BoxTyped, ScheduleTyped
<1> QED BY <1>1, <1>2, <1>3, <1>4, <1>5, <1>6, <1>7, <1>8

\* A click and a tick start a job.
LEMMA StartTyped ==
    ASSUME TypeInv, Tick \/ \E j \in Jobs : Click(j)
    PROVE  TypeInv'
<1> USE TypeParts, TroubleTyped DEF schedule
<1>1. CASE Tick
    <2>1. NewJob("scheduled", "check", {}) \in Job /\ NewJob("scheduled", "check", {}).pc = "check"
        BY NewJobTyped DEF Kinds, Pcs
    <2>2. Set(Poller, NewJob("scheduled", "check", {}))
        BY <1>1 DEF Tick, StartRun, Set
    <2>3. JobTyped' /\ CurrentKnown'
        BY <2>1, <2>2, SetTyped, SwitchesAssumption DEF Busy
    <2>4. ScheduleTyped'
        BY <1>1 DEF Tick, StartRun, RunIsDue, ScheduleTyped
    <2> QED BY <1>1, <2>3, <2>4 DEF Tick, StartRun, ImagesTyped, BoxTyped, RestTyped
<1>2. ASSUME NEW j \in Jobs, Click(j) PROVE TypeInv'
    <2> DEFINE Rows == {d \in Customers : customer[d] # "absent"}
               Some == {NewJob("pull", "pull", {}), NewJob("all", "list", {})}
                       \cup {NewJob("one", "next", {c}) : c \in Rows}
    <2>1. PICK new \in Some : Set(j, IF new.kind = "pull" THEN [new EXCEPT !.pulled = "ok"] ELSE new)
        BY <1>2 DEF Click, Set
    <2>2. new \in Job /\ new.pc \notin Busy
        <3>1. \/ new = NewJob("pull", "pull", {})
              \/ new = NewJob("all", "list", {})
              \/ \E c \in Customers : new = NewJob("one", "next", {c})
            BY <2>1
        <3>2. /\ NewJob("pull", "pull", {}) \in Job /\ NewJob("pull", "pull", {}).pc = "pull"
              /\ NewJob("all", "list", {}) \in Job /\ NewJob("all", "list", {}).pc = "list"
            BY NewJobTyped DEF Kinds, Pcs
        <3>3. ASSUME NEW c \in Customers
              PROVE  NewJob("one", "next", {c}) \in Job /\ NewJob("one", "next", {c}).pc = "next"
            <4>1. {c} \in SUBSET Customers
                OBVIOUS
            <4> QED BY <4>1, NewJobTyped DEF Kinds, Pcs
        <3> QED BY <3>1, <3>2, <3>3 DEF Busy
    <2>3. [new EXCEPT !.pulled = "ok"] \in Job /\ [new EXCEPT !.pulled = "ok"].pc = new.pc
        BY <2>2 DEF Job
    <2>4. JobTyped' /\ CurrentKnown'
        BY <2>1, <2>2, <2>3, SetTyped
    <2>5. RestTyped'
        BY <1>2 DEF Click, RestTyped
    <2> QED BY <1>2, <2>4, <2>5 DEF Click, ImagesTyped, BoxTyped, ScheduleTyped
<1> QED BY <1>1, <1>2

\* What compose does with one service: the box and the stage it leaves.
Outcome(b, stage, version, new, at, held) ==
    \/ /\ stage.at = "todo" /\ b = NoBox
       /\ new = [b EXCEPT !.named = version] /\ at = "done" /\ held = NULL
    \/ /\ stage.at = "todo" /\ b.named # NULL
       /\ new = [b EXCEPT !.orphan = NULL] /\ at = "todo" /\ held = NULL
    \/ /\ stage.at = "todo" /\ b.named = version
       /\ new = b /\ at = "done" /\ held = NULL
    \/ /\ stage.at = "todo" /\ b.named \notin {version, NULL} /\ b.orphan = NULL
       /\ new = [named |-> NULL, orphan |-> b.named] /\ at = "renamed" /\ held = b.named
    \/ /\ stage.at = "renamed" /\ b.named = NULL
       /\ new = [b EXCEPT !.named = version] /\ at = "created" /\ held = stage.held
    \/ /\ stage.at = "created" /\ at = "done" /\ held = NULL
       /\ new = IF b.orphan = stage.held THEN [b EXCEPT !.orphan = NULL] ELSE b

LEMMA RecreateOutcome ==
    ASSUME TypeInv, NEW j \in Jobs, NEW s \in Services, Recreate(j, s)
    PROVE  /\ At(j, "compose")
           /\ UNCHANGED <<hub, local, customer, log, schedule, troubles>>
           /\ \/ UNCHANGED box /\ Set(j, Failed(job[j]))
              \/ \E new, at, held :
                    /\ Outcome(box[job[j].current][s], job[j].stage[s], local[s], new, at, held)
                    /\ box' = [box EXCEPT ![job[j].current][s] = new]
                    /\ Set(j, StageTo(job[j], s, at, held))
<1> DEFINE c == job[j].current
           b == box[c][s]
           stage == job[j].stage[s]
           Goes(new, at, held) ==
               /\ box' = [box EXCEPT ![c][s] = new]
               /\ Set(j, StageTo(job[j], s, at, held))
           Collides == UNCHANGED box /\ Set(j, Failed(job[j]))
           New == [b EXCEPT !.named = local[s]]
<1>1. /\ At(j, "compose")
      /\ UNCHANGED <<hub, local, customer, log, schedule, troubles>>
      /\ \/ /\ stage.at = "todo"
            /\ \/ b = NoBox /\ Goes(New, "done", NULL)
               \/ b.named = NULL /\ b.orphan # NULL /\ Collides
               \/ b.named # NULL /\ b.orphan # NULL /\ Goes([b EXCEPT !.orphan = NULL], "todo", NULL)
               \/ b.named = local[s] /\ b.orphan = NULL /\ Goes(b, "done", NULL)
               \/ /\ b.named \notin {local[s], NULL} /\ b.orphan = NULL
                  /\ Goes([named |-> NULL, orphan |-> b.named], "renamed", b.named)
         \/ /\ stage.at = "renamed"
            /\ IF b.named = NULL THEN Goes(New, "created", stage.held) ELSE Collides
         \/ /\ stage.at = "created"
            /\ Goes(IF b.orphan = stage.held THEN [b EXCEPT !.orphan = NULL] ELSE b, "done", NULL)
    BY DEF Recreate
<1>2. ASSUME NEW new, NEW at, NEW held, Outcome(b, stage, local[s], new, at, held), Goes(new, at, held)
      PROVE  \E n, a, h : Outcome(b, stage, local[s], n, a, h) /\ Goes(n, a, h)
    BY <1>2
<1> HIDE DEF Goes, Collides
<1>3. CASE stage.at = "todo"
    <2>1. \/ b = NoBox /\ Goes(New, "done", NULL)
          \/ Collides
          \/ b.named # NULL /\ Goes([b EXCEPT !.orphan = NULL], "todo", NULL)
          \/ b.named = local[s] /\ Goes(b, "done", NULL)
          \/ /\ b.named \notin {local[s], NULL} /\ b.orphan = NULL
             /\ Goes([named |-> NULL, orphan |-> b.named], "renamed", b.named)
        BY <1>1, <1>3
    <2>2. CASE b = NoBox /\ Goes(New, "done", NULL)
        <3>1. Outcome(b, stage, local[s], New, "done", NULL)
            BY <1>3, <2>2 DEF Outcome
        <3> QED BY <1>1, <1>2, <2>2, <3>1 DEF Goes
    <2>3. CASE Collides
        BY <1>1, <2>3 DEF Collides
    <2>4. CASE b.named # NULL /\ Goes([b EXCEPT !.orphan = NULL], "todo", NULL)
        <3>1. Outcome(b, stage, local[s], [b EXCEPT !.orphan = NULL], "todo", NULL)
            BY <1>3, <2>4 DEF Outcome
        <3> QED BY <1>1, <1>2, <2>4, <3>1 DEF Goes
    <2>5. CASE b.named = local[s] /\ Goes(b, "done", NULL)
        <3>1. Outcome(b, stage, local[s], b, "done", NULL)
            BY <1>3, <2>5 DEF Outcome
        <3> QED BY <1>1, <1>2, <2>5, <3>1 DEF Goes
    <2>6. CASE /\ b.named \notin {local[s], NULL} /\ b.orphan = NULL
               /\ Goes([named |-> NULL, orphan |-> b.named], "renamed", b.named)
        <3>1. Outcome(b, stage, local[s], [named |-> NULL, orphan |-> b.named], "renamed", b.named)
            BY <1>3, <2>6 DEF Outcome
        <3> QED BY <1>1, <1>2, <2>6, <3>1 DEF Goes
    <2> QED BY <2>1, <2>2, <2>3, <2>4, <2>5, <2>6
<1>4. CASE stage.at = "renamed"
    <2>1. CASE b.named = NULL
        <3>1. Outcome(b, stage, local[s], New, "created", stage.held)
            BY <1>4, <2>1 DEF Outcome
        <3>2. Goes(New, "created", stage.held)
            BY <1>1, <1>4, <2>1
        <3> QED BY <1>1, <1>2, <3>1, <3>2 DEF Goes
    <2>2. CASE b.named # NULL
        <3>1. Collides
            BY <1>1, <1>4, <2>2
        <3> QED BY <1>1, <3>1 DEF Collides
    <2> QED BY <2>1, <2>2
<1>5. CASE stage.at = "created"
    <2> DEFINE n == IF b.orphan = stage.held THEN [b EXCEPT !.orphan = NULL] ELSE b
    <2>1. Outcome(b, stage, local[s], n, "done", NULL)
        BY <1>5 DEF Outcome
    <2>2. Goes(n, "done", NULL)
        BY <1>1, <1>5
    <2> QED BY <1>1, <1>2, <2>1, <2>2 DEF Goes
<1> QED BY <1>1, <1>3, <1>4, <1>5

\* A service that compose goes on with has a box, and its job a stage.
LEMMA OutcomeTyped ==
    ASSUME NEW b \in Box, NEW stage \in Stage, NEW version \in Versions,
           NEW new, NEW at, NEW held, Outcome(b, stage, version, new, at, held)
    PROVE  /\ new \in Box
           /\ at \in {"todo", "renamed", "created", "done"}
           /\ held \in Versions \cup {NULL}
BY DEF Outcome, Box, Stage

\* Every step of a job keeps the types.
LEMMA JobStepTyped ==
    ASSUME TypeInv, NEW j \in Jobs, Step(j) \/ ListRaises(j) \/ RepairRaises(j) \/ Hang(j)
    PROVE  TypeInv'
<1> USE TypeParts, TroubleTyped DEF schedule
<1> DEFINE r == job[j]
<1>0. r # NULL /\ r \in Job
    BY DEF JobTyped, Step, ListRaises, RepairRaises, Hang, At, Checked, Pulled, List, NextCustomer,
           RepairCustomer, StartCompose, Composed, Record, Ready, CheckImage, PullImage, Recreate
<1>1. ASSUME NEW s \in Services, CheckImage(j, s) PROVE TypeInv'
    <2>1. PICK new : /\ new \in {r, [r EXCEPT !.news = @ \/ hub[s] # local[s]]}
                     /\ Set(j, StageTo(new, s, "done", NULL))
        BY <1>1 DEF CheckImage
    <2>2. new \in Job /\ new.pc = "check"
        BY <1>0, <1>1, <2>1 DEF CheckImage, At, Job
    <2>3. JobTyped' /\ CurrentKnown'
        BY <2>1, <2>2, StageToTyped, SetTyped DEF Busy
    <2>4. RestTyped'
        BY <1>1 DEF CheckImage, RestTyped
    <2> QED BY <1>1, <2>3, <2>4 DEF CheckImage, ImagesTyped, BoxTyped, ScheduleTyped
<1>2. CASE Checked(j)
    <2>1. JobTyped' /\ CurrentKnown'
        BY <1>0, <1>2, PhaseTyped, SetTyped DEF Checked, Busy
    <2> QED BY <1>2, <2>1 DEF Checked, ImagesTyped, BoxTyped, ScheduleTyped, RestTyped
<1>3. ASSUME NEW s \in Services, PullImage(j, s) PROVE TypeInv'
    <2>1. PICK new : /\ new \in {r, [r EXCEPT !.pulled = "failed"]}
                     /\ Set(j, StageTo(new, s, "done", NULL))
        BY <1>3 DEF PullImage
    <2>2. new \in Job /\ new.pc = "pull"
        BY <1>0, <1>3, <2>1 DEF PullImage, At, Job
    <2>3. JobTyped' /\ CurrentKnown'
        BY <2>1, <2>2, StageToTyped, SetTyped DEF Busy
    <2>4. RestTyped'
        BY <1>3 DEF PullImage, RestTyped
    <2>5. ImagesTyped'
        BY <1>3 DEF PullImage, ImagesTyped
    <2> QED BY <1>3, <2>3, <2>4, <2>5 DEF PullImage, BoxTyped, ScheduleTyped
<1>4. CASE Pulled(j)
    <2>1. JobTyped' /\ CurrentKnown'
        BY <1>0, <1>4, PhaseTyped, SetTyped DEF Pulled, Busy
    <2> QED BY <1>4, <2>1 DEF Pulled, ImagesTyped, BoxTyped, ScheduleTyped, RestTyped
<1>5. CASE List(j)
    <2> DEFINE todo == {c \in Customers : customer[c] # "absent"
                            /\ NeedsUpdate([d \in Customers |-> RepairedBox(d)][c])}
               new == [r EXCEPT !.pc = "next", !.want = local, !.todo = todo]
    <2>1. Set(j, new)
        BY <1>5 DEF List
    <2>2. todo \in SUBSET Customers
        OBVIOUS
    <2> HIDE DEF todo
    <2>3. new \in Job /\ new.pc = "next"
        BY <1>0, <2>2 DEF Job, Pcs, ImagesTyped
    <2>4. JobTyped' /\ CurrentKnown'
        BY <2>1, <2>3, SetTyped DEF Busy
    <2>5. BoxTyped'
        BY <1>5, RepairTyped DEF List, BoxTyped
    <2> QED BY <1>5, <2>4, <2>5 DEF List, ImagesTyped, ScheduleTyped, RestTyped
<1>6. CASE ListRaises(j)
    <2>1. [r EXCEPT !.pc = "record", !.error = TRUE] \in Job
          /\ [r EXCEPT !.pc = "record", !.error = TRUE].pc = "record"
        BY <1>0 DEF Job, Pcs
    <2>2. JobTyped' /\ CurrentKnown'
        BY <1>6, <2>1, SetTyped DEF ListRaises, Busy
    <2>3. RestTyped'
        BY <1>6 DEF ListRaises, RestTyped
    <2> QED BY <1>6, <2>2, <2>3 DEF ListRaises, ImagesTyped, BoxTyped, ScheduleTyped
<1>7. CASE NextCustomer(j)
    <2>1. PICK c \in r.todo :
              LET n == [r EXCEPT !.todo = @ \ {c}]
              IN  Set(j, IF customer[c] = "absent" THEN Failed(n)
                         ELSE [n EXCEPT !.current = c, !.pc = "repair"])
        BY <1>7 DEF NextCustomer
    <2> DEFINE n == [r EXCEPT !.todo = @ \ {c}]
    <2>2. c \in Customers /\ n \in Job
        BY <1>0, <2>1 DEF Job
    <2>3. /\ [n EXCEPT !.current = c, !.pc = "repair"] \in Job
          /\ [n EXCEPT !.current = c, !.pc = "repair"].current = c
        BY <2>2 DEF Job, Pcs
    <2>4. Failed(n) \in Job /\ Failed(n).pc = "next"
        BY <2>2, PhaseTyped
    <2>5. JobTyped' /\ CurrentKnown'
        BY <2>1, <2>2, <2>3, <2>4, SetTyped DEF Busy
    <2> QED BY <1>7, <2>5 DEF NextCustomer, ImagesTyped, BoxTyped, ScheduleTyped, RestTyped
<1>8. CASE RepairCustomer(j)
    <2>1. r.current \in Customers
        BY <1>8 DEF RepairCustomer, At, CurrentKnown, Busy
    <2>2. /\ [r EXCEPT !.pc = "start"] \in Job
          /\ [r EXCEPT !.pc = "start"].current = r.current
        BY <1>0 DEF Job, Pcs
    <2>3. JobTyped' /\ CurrentKnown'
        BY <1>8, <2>1, <2>2, SetTyped DEF RepairCustomer
    <2>4. BoxTyped'
        BY <1>8, <2>1, RepairTyped DEF RepairCustomer, BoxTyped
    <2> QED BY <1>8, <2>3, <2>4 DEF RepairCustomer, ImagesTyped, ScheduleTyped, RestTyped
<1>9. CASE StartCompose(j)
    <2>1. r.current \in Customers
        BY <1>9 DEF StartCompose, At, CurrentKnown, Busy
    <2>2. /\ [r EXCEPT !.pc = "compose"] \in Job
          /\ [r EXCEPT !.pc = "compose"].current = r.current
        BY <1>0 DEF Job, Pcs
    <2>3. JobTyped' /\ CurrentKnown'
        BY <1>0, <1>9, <2>1, <2>2, PhaseTyped, SetTyped DEF StartCompose, Busy
    <2> QED BY <1>9, <2>3 DEF StartCompose, ImagesTyped, BoxTyped, ScheduleTyped, RestTyped
<1>10. ASSUME NEW s \in Services, Recreate(j, s) PROVE TypeInv'
    <2>1. At(j, "compose") /\ UNCHANGED <<hub, local, customer, log, schedule, troubles>>
        BY <1>10, RecreateOutcome
    <2>2. r.current \in Customers
        BY <2>1 DEF At, CurrentKnown, Busy
    <2>3. CASE UNCHANGED box /\ Set(j, Failed(r))
        <3>1. JobTyped' /\ CurrentKnown'
            BY <1>0, <2>3, PhaseTyped, SetTyped DEF Busy
        <3> QED BY <2>1, <2>3, <3>1 DEF ImagesTyped, BoxTyped, ScheduleTyped, RestTyped
    <2>4. ASSUME NEW new, NEW at, NEW held,
                 Outcome(box[r.current][s], r.stage[s], local[s], new, at, held),
                 box' = [box EXCEPT ![r.current][s] = new],
                 Set(j, StageTo(r, s, at, held))
          PROVE  TypeInv'
        <3>1. box[r.current][s] \in Box /\ r.stage[s] \in Stage /\ local[s] \in Versions
            BY <1>0, <2>2 DEF BoxTyped, Job, ImagesTyped
        <3>2. /\ new \in Box
              /\ at \in {"todo", "renamed", "created", "done"}
              /\ held \in Versions \cup {NULL}
            BY <2>4, <3>1, OutcomeTyped
        <3>3. JobTyped' /\ CurrentKnown'
            BY <1>0, <2>2, <2>4, <3>2, StageToTyped, SetTyped
        <3>4. BoxTyped'
            BY <2>2, <2>4, <3>2 DEF BoxTyped
        <3> QED BY <2>1, <3>3, <3>4 DEF ImagesTyped, ScheduleTyped, RestTyped
    <2> QED BY <1>10, <2>3, <2>4, RecreateOutcome
<1>11. CASE Hang(j)
    <2>1. JobTyped' /\ CurrentKnown'
        BY <1>0, <1>11, PhaseTyped, SetTyped DEF Hang, TimedOut, Busy
    <2>2. RestTyped'
        BY <1>11 DEF Hang, RestTyped
    <2> QED BY <1>11, <2>1, <2>2 DEF Hang, ImagesTyped, BoxTyped, ScheduleTyped
<1>12. CASE RepairRaises(j)
    <2>1. JobTyped' /\ CurrentKnown'
        BY <1>0, <1>12, PhaseTyped, SetTyped DEF RepairRaises, Busy
    <2>2. RestTyped'
        BY <1>12 DEF RepairRaises, RestTyped
    <2> QED BY <1>12, <2>1, <2>2 DEF RepairRaises, ImagesTyped, BoxTyped, ScheduleTyped
<1>13. CASE Composed(j)
    <2>1. r.current \in Customers
        BY <1>13 DEF Composed, At, CurrentKnown, Busy
    <2>2. JobTyped' /\ CurrentKnown'
        BY <1>0, <1>13, <2>1, PhaseTyped, SetTyped DEF Composed, Busy
    <2> QED BY <1>13, <2>2 DEF Composed, ImagesTyped, BoxTyped, ScheduleTyped, RestTyped
<1>14. CASE Record(j)
    <2>1. RunStatus(r) \in RunStatuses
        BY DEF RunStatus, RunStatuses
    <2>2. JobTyped' /\ CurrentKnown'
        BY <1>14, SetTyped DEF Record
    <2>3. RestTyped'
        BY <1>14, <2>1 DEF Record, RestTyped
    <2> QED BY <1>14, <2>2, <2>3 DEF Record, ImagesTyped, BoxTyped, ScheduleTyped
<1> QED BY <1>1, <1>2, <1>3, <1>4, <1>5, <1>6, <1>7, <1>8, <1>9, <1>10, <1>11, <1>12, <1>13, <1>14 DEF Step

LEMMA NextTyped == TypeInv /\ [Next]_vars => TypeInv'
<1> SUFFICES ASSUME TypeInv, [Next]_vars PROVE TypeInv'
    OBVIOUS
<1>1. CASE UNCHANGED vars
    BY <1>1 DEF vars, TypeInv, TypeOK, CurrentKnown
<1> QED BY <1>1, JobStepTyped, StartTyped, SurroundingsTyped DEF Next

LEMMA AlwaysTyped == Spec => []TypeInv
    BY InitTyped, NextTyped, PTL DEF Spec

\* Every variable keeps its type: every record a job goes on with, and every
\* box compose and the repair leave, is one the other steps are defined on.
THEOREM UpdatesTypeCorrect == Spec => []TypeOK
<1>1. TypeInv => TypeOK
    BY DEF TypeInv
<1> QED BY <1>1, AlwaysTyped, PTL

-----------------------------------------------------------------------------
(* One scheduled run a day *)

RunIsClaimed == runs \in {0, 1} /\ (runs = 1 => lastRun = "today")

LEMMA ClaimStep ==
    ASSUME RunIsClaimed, [Next]_vars
    PROVE  RunIsClaimed'
<1>1. CASE Tick
    BY <1>1 DEF Tick, RunIsDue, StartRun, RunIsClaimed
<1>2. CASE Elapse
    BY <1>2 DEF Elapse, RunIsClaimed
<1>3. CASE UNCHANGED <<lastRun, runs>>
    BY <1>3 DEF RunIsClaimed
<1>4. UNCHANGED <<lastRun, runs>> \/ Tick \/ Elapse
    <2>1. CASE UNCHANGED vars
        BY <2>1 DEF vars
    <2>2. ASSUME NEW j \in Jobs, Step(j) \/ ListRaises(j) \/ RepairRaises(j) \/ Hang(j) \/ Click(j)
          PROVE  UNCHANGED <<lastRun, runs>>
        BY <2>2
        DEF schedule, Step, ListRaises, RepairRaises, Hang, Click, Checked, Pulled, List, NextCustomer,
            RepairCustomer, StartCompose, Composed, Record, CheckImage, PullImage, Recreate
    <2>3. ASSUME NEW c \in Customers, Deploy(c) \/ Down(c) \/ Remove(c) \/ LoadPage(c)
          PROVE  UNCHANGED <<lastRun, runs>>
        BY <2>3 DEF schedule, Deploy, Down, Remove, LoadPage
    <2>4. ASSUME NEW s \in Services, Release(s)
          PROVE  UNCHANGED <<lastRun, runs>>
        BY <2>4 DEF schedule, Release
    <2>5. CASE MoveCheckTime \/ Crash
        BY <2>5 DEF schedule, MoveCheckTime, Crash
    <2> QED BY <2>1, <2>2, <2>3, <2>4, <2>5 DEF Next
<1> QED BY <1>1, <1>2, <1>3, <1>4

\* There is one scheduled run a day, whatever happens to the run, the process
\* and the configured time: _tick claims the day before its first await.
THEOREM OneRunADay == Spec => []OneRunPerDay
<1>1. Init => RunIsClaimed
    BY DEF Init, RunIsClaimed
<1>2. RunIsClaimed /\ [Next]_vars => RunIsClaimed'
    BY ClaimStep
<1>3. RunIsClaimed => OneRunPerDay
    BY DEF RunIsClaimed, OneRunPerDay
<1> QED BY <1>1, <1>2, <1>3, PTL DEF Spec

-----------------------------------------------------------------------------
(* No service loses its container *)

\* Repairing a name loses no container and makes none newer or older.
LEMMA RepairKeeps ==
    ASSUME NEW b \in Box
    PROVE  /\ Repair(b) \in Box
           /\ Repair(b) = NoBox => b = NoBox
           /\ \A v \in Versions : NotNewer(b, v) => NotNewer(Repair(b), v)
           /\ \A v \in Versions : Replaced(b, v) => Replaced(Repair(b), v)
BY DEF Repair, Box, NoBox, NotNewer, Replaced

\* A box that is not newer than a version is not newer than a later one.
LEMMA NotNewerLater ==
    ASSUME NEW b \in Box, NEW v \in Versions, NEW w \in Versions, v <= w, NotNewer(b, v)
    PROVE  NotNewer(b, w)
BY BoundsAssumption DEF NotNewer, Box, Versions

\* A job, other than some, only goes on with a compose call it was in.
JobsKeep(others) ==
    \A k \in others, s \in Services :
        job'[k] # NULL /\ job'[k].stage[s].at \in {"renamed", "created"} =>
            /\ job[k] # NULL
            /\ job'[k].stage[s] = job[k].stage[s]
            /\ job'[k].pc = job[k].pc
            /\ job'[k].current = job[k].current

\* What most steps do: containers are left alone or get their name back.
Quiet ==
    /\ JobsKeep(Jobs)
    /\ \A s \in Services : local[s] <= local'[s] /\ local'[s] <= hub'[s]
    /\ \A c \in Customers, s \in Services : box'[c][s] \in {box[c][s], Repair(box[c][s])}
    /\ \A c \in Customers : customer'[c] = "deployed" => customer[c] = "deployed"

LEMMA QuietStep ==
    ASSUME TypeInv, TypeInv', IInv, Quiet
    PROVE  IInv'
<1> USE TypeParts
<1>1. Pulls'
    BY DEF Quiet, Pulls
<1>2. Contained'
    <2> SUFFICES ASSUME NEW c \in Customers, NEW s \in Services
                 PROVE  NotNewer(box'[c][s], local'[s])
        BY DEF Contained, NotNewer
    <2>1. box[c][s] \in Box /\ local[s] \in Versions /\ local'[s] \in Versions
        BY DEF BoxTyped, ImagesTyped
    <2>2. NotNewer(box[c][s], local'[s])
        BY <2>1, NotNewerLater DEF IInv, Contained, Quiet
    <2> QED BY <2>1, <2>2, RepairKeeps DEF Quiet
<1>3. HeldOlder'
    <2> SUFFICES ASSUME NEW j \in Jobs, NEW s \in Services, job'[j] # NULL,
                        job'[j].stage[s].at \in {"renamed", "created"}
                 PROVE  /\ job'[j].pc = "compose" /\ job'[j].stage[s].held # NULL
                        /\ job'[j].stage[s].held < local'[s]
                        /\ job'[j].stage[s].at = "created" =>
                              /\ job'[j].current \in Customers
                              /\ Replaced(box'[job'[j].current][s], job'[j].stage[s].held)
        BY DEF HeldOlder, Replaced
    <2>1. /\ job[j] # NULL /\ job'[j].stage[s] = job[j].stage[s]
          /\ job'[j].pc = job[j].pc /\ job'[j].current = job[j].current
        BY DEF Quiet, JobsKeep
    <2> DEFINE held == job[j].stage[s].held
    <2>2. job[j].pc = "compose" /\ held # NULL /\ held < local[s]
        BY <2>1 DEF IInv, HeldOlder
    <2>3. held \in Versions
        BY <2>1, <2>2 DEF JobTyped, Job, Stage
    <2>4. held < local'[s]
        <3>1. local[s] \in Versions /\ local'[s] \in Versions /\ local[s] <= local'[s]
            BY DEF ImagesTyped, Quiet
        <3> QED BY <2>2, <2>3, <3>1 DEF Versions
    <2>5. ASSUME job[j].stage[s].at = "created"
          PROVE  job[j].current \in Customers /\ Replaced(box'[job[j].current][s], held)
        <3>1. job[j].current \in Customers /\ Replaced(box[job[j].current][s], held)
            BY <2>1, <2>5 DEF IInv, HeldOlder
        <3>2. box[job[j].current][s] \in Box
            BY <3>1 DEF BoxTyped
        <3> QED BY <2>3, <3>1, <3>2, RepairKeeps DEF Quiet
    <2> QED BY <2>1, <2>2, <2>4, <2>5
<1>4. ServiceKept'
    <2> SUFFICES ASSUME NEW c \in Customers, NEW s \in Services, customer'[c] = "deployed"
                 PROVE  box'[c][s] # NoBox
        BY DEF ServiceKept, NoBox
    <2>1. box[c][s] # NoBox /\ box[c][s] \in Box
        BY DEF Quiet, IInv, ServiceKept, BoxTyped
    <2> QED BY <2>1, RepairKeeps DEF Quiet
<1> QED BY <1>1, <1>2, <1>3, <1>4 DEF IInv

\* A record of a job that is not in the middle of a compose call.
Settled(r) == \A s \in Services : r.stage[s].at \notin {"renamed", "created"}

\* A job that is given a settled record does not disturb the others.
LEMMA SettledStep ==
    ASSUME TypeInv, NEW j \in Jobs, NEW r, r = NULL \/ Settled(r), Set(j, r)
    PROVE  JobsKeep(Jobs)
<1>1. job' = [job EXCEPT ![j] = r] /\ job \in [Jobs -> Job \cup {NULL}]
    BY DEF Set, TypeInv, TypeOK
<1>2. job'[j] = r /\ \A k \in Jobs : k # j => job'[k] = job[k]
    BY <1>1
<1> QED BY <1>2 DEF Settled, JobsKeep

\* Outside of compose a job's record is settled.
LEMMA NotComposing ==
    ASSUME TypeInv, IInv, NEW j \in Jobs, job[j] # NULL, job[j].pc # "compose"
    PROVE  Settled(job[j])
BY DEF IInv, HeldOlder, Settled

\* The records a job starts and goes on with between phases are settled.
LEMMA PhaseSettled ==
    ASSUME NEW r \in Job
    PROVE  /\ Settled(Failed(r)) /\ Settled(Accepted(r))
           /\ Settled(AfterPull(r)) /\ Settled(ToPull(r))
<1>1. ToNext(r).stage = Todo /\ ToNext(r) \in Job
    BY PhaseTyped DEF ToNext, Job
<1>2. Failed(r).stage = Todo /\ Accepted(r).stage = Todo
    BY <1>1 DEF Failed, Accepted, Job
<1>3. AfterPull(r).stage = Todo /\ ToPull(r).stage = Todo
    BY DEF AfterPull, ToPull, Job
<1> QED BY <1>2, <1>3 DEF Settled, Todo

LEMMA DoneSettled ==
    ASSUME NEW r \in Job, NEW s \in Services, Settled(r)
    PROVE  Settled(StageTo(r, s, "done", NULL))
<1>1. StageTo(r, s, "done", NULL).stage = [r.stage EXCEPT ![s] = [at |-> "done", held |-> NULL]]
    BY DEF StageTo, Job
<1>2. r.stage \in [Services -> Stage]
    BY DEF Job
<1> QED BY <1>1, <1>2 DEF Settled

\* The steps of a job, but for those of compose, are quiet.
LEMMA JobIsQuiet ==
    ASSUME TypeInv, TypeInv', IInv, NEW j \in Jobs,
           \/ ListRaises(j) \/ RepairRaises(j) \/ Hang(j)
           \/ Step(j) /\ ~(\E s \in Services : Recreate(j, s))
    PROVE  IInv'
<1> USE TypeParts
<1> DEFINE r == job[j]
<1>0. r # NULL /\ r \in Job
    BY DEF JobTyped, Step, ListRaises, RepairRaises, Hang, At, Checked, Pulled, List, NextCustomer,
           RepairCustomer, StartCompose, Composed, Record, Ready, CheckImage, PullImage
<1>a. \A s \in Services : local[s] <= local[s] /\ local[s] <= hub[s]
    BY DEF IInv, Pulls, ImagesTyped, Versions
<1>1. ASSUME NEW s \in Services, CheckImage(j, s) PROVE IInv'
    <2>1. PICK new : /\ new \in {r, [r EXCEPT !.news = @ \/ hub[s] # local[s]]}
                     /\ Set(j, StageTo(new, s, "done", NULL))
        BY <1>1 DEF CheckImage
    <2>2. new \in Job /\ new.stage = r.stage
        BY <1>0, <2>1 DEF Job
    <2>3. Settled(new)
        BY <1>0, <1>1, <2>2, NotComposing DEF CheckImage, At, Settled
    <2>4. UNCHANGED <<hub, local, box, customer>>
        BY <1>1 DEF CheckImage
    <2>5. Settled(StageTo(new, s, "done", NULL))
        BY <2>2, <2>3, DoneSettled
    <2>6. JobsKeep(Jobs)
        BY <2>1, <2>5, SettledStep
    <2> QED BY <1>a, <2>4, <2>6, QuietStep DEF Quiet
<1>2. ASSUME NEW s \in Services, PullImage(j, s) PROVE IInv'
    <2>1. PICK new : /\ new \in {r, [r EXCEPT !.pulled = "failed"]}
                     /\ Set(j, StageTo(new, s, "done", NULL))
        BY <1>2 DEF PullImage
    <2>2. new \in Job /\ new.stage = r.stage
        BY <1>0, <2>1 DEF Job
    <2>3. Settled(new)
        BY <1>0, <1>2, <2>2, NotComposing DEF PullImage, At, Settled
    <2>4. UNCHANGED <<hub, box, customer>> /\ local' \in {local, [local EXCEPT ![s] = hub[s]]}
        BY <1>2 DEF PullImage
    <2>5. \A t \in Services : local[t] <= local'[t] /\ local'[t] <= hub'[t]
        BY <1>a, <2>4 DEF ImagesTyped, Versions
    <2>6. Settled(StageTo(new, s, "done", NULL))
        BY <2>2, <2>3, DoneSettled
    <2>7. JobsKeep(Jobs)
        BY <2>1, <2>6, SettledStep
    <2> QED BY <2>4, <2>5, <2>7, QuietStep DEF Quiet
<1>3. CASE Checked(j) \/ Pulled(j)
    <2>1. UNCHANGED <<hub, local, box, customer>>
        BY <1>3 DEF Checked, Pulled
    <2>2. PICK new : Settled(new) /\ Set(j, new)
        BY <1>0, <1>3, PhaseSettled DEF Checked, Pulled
    <2> QED BY <1>a, <2>1, <2>2, SettledStep, QuietStep DEF Quiet
<1>4. CASE List(j)
    <2> DEFINE todo == {c \in Customers : customer[c] # "absent"
                            /\ NeedsUpdate([d \in Customers |-> RepairedBox(d)][c])}
               new == [r EXCEPT !.pc = "next", !.want = local, !.todo = todo]
    <2>0. Set(j, new)
        BY <1>4 DEF List
    <2> HIDE DEF todo
    <2>1. new.stage = r.stage
        BY <1>0 DEF Job
    <2> HIDE DEF new
    <2>2. Settled(new)
        BY <1>0, <1>4, <2>1, NotComposing DEF List, At, Settled
    <2>3. UNCHANGED <<hub, local, customer>> /\ box' = [c \in Customers |-> RepairedBox(c)]
        BY <1>4 DEF List
    <2>4. \A c \in Customers, s \in Services : box'[c][s] = Repair(box[c][s])
        BY <2>3 DEF RepairedBox
    <2> QED BY <1>a, <2>0, <2>2, <2>3, <2>4, SettledStep, QuietStep DEF Quiet
<1>5. CASE ListRaises(j)
    <2>1. UNCHANGED <<hub, local, box, customer>>
        BY <1>5 DEF ListRaises
    <2>2. PICK new : Set(j, new) /\ (new = NULL \/ new.stage = r.stage)
        <3>1. [r EXCEPT !.pc = "record", !.error = TRUE].stage = r.stage
            BY <1>0 DEF Job
        <3>2. Set(j, [r EXCEPT !.pc = "record", !.error = TRUE]) \/ Set(j, NULL)
            BY <1>5 DEF ListRaises
        <3> QED BY <3>1, <3>2
    <2>3. new = NULL \/ Settled(new)
        BY <1>0, <1>5, <2>2, NotComposing DEF ListRaises, At, Settled
    <2> QED BY <1>a, <2>1, <2>2, <2>3, SettledStep, QuietStep DEF Quiet
<1>6. CASE NextCustomer(j)
    <2>1. UNCHANGED <<hub, local, box, customer>>
        BY <1>6 DEF NextCustomer
    <2>2. PICK c \in r.todo :
              LET n == [r EXCEPT !.todo = @ \ {c}]
              IN  Set(j, IF customer[c] = "absent" THEN Failed(n)
                         ELSE [n EXCEPT !.current = c, !.pc = "repair"])
        BY <1>6 DEF NextCustomer
    <2> DEFINE n == [r EXCEPT !.todo = @ \ {c}]
    <2>3. n \in Job /\ [n EXCEPT !.current = c, !.pc = "repair"].stage = r.stage
        BY <1>0 DEF Job
    <2>4. Settled(Failed(n)) /\ Settled([n EXCEPT !.current = c, !.pc = "repair"])
        BY <1>0, <1>6, <2>3, PhaseSettled, NotComposing DEF NextCustomer, At, Settled
    <2> QED BY <1>a, <2>1, <2>2, <2>4, SettledStep, QuietStep DEF Quiet
<1>7. CASE RepairCustomer(j)
    <2>1. UNCHANGED <<hub, local, customer>>
          /\ box' = [box EXCEPT ![r.current] = RepairedBox(r.current)]
          /\ Set(j, [r EXCEPT !.pc = "start"])
        BY <1>7 DEF RepairCustomer
    <2>2. \A c \in Customers, s \in Services : box'[c][s] \in {box[c][s], Repair(box[c][s])}
        BY <2>1 DEF RepairedBox, BoxTyped
    <2>3. [r EXCEPT !.pc = "start"].stage = r.stage
        BY <1>0 DEF Job
    <2>4. Settled([r EXCEPT !.pc = "start"])
        BY <1>0, <1>7, <2>3, NotComposing DEF RepairCustomer, At, Settled
    <2> QED BY <1>a, <2>1, <2>2, <2>4, SettledStep, QuietStep DEF Quiet
<1>8. CASE StartCompose(j)
    <2>1. UNCHANGED <<hub, local, box, customer>>
        BY <1>8 DEF StartCompose
    <2>2. [r EXCEPT !.pc = "compose"].stage = r.stage
        BY <1>0 DEF Job
    <2>3. Settled(Failed(r)) /\ Settled([r EXCEPT !.pc = "compose"])
        BY <1>0, <1>8, <2>2, PhaseSettled, NotComposing DEF StartCompose, At, Settled
    <2>4. PICK new : Settled(new) /\ Set(j, new)
        BY <1>8, <2>3 DEF StartCompose
    <2> QED BY <1>a, <2>1, <2>4, SettledStep, QuietStep DEF Quiet
<1>9. CASE Hang(j) \/ Composed(j)
    <2>1. UNCHANGED <<hub, local, box, customer>>
        BY <1>9 DEF Hang, Composed
    <2>2. PICK new : Settled(new) /\ Set(j, new)
        BY <1>0, <1>9, PhaseSettled DEF Hang, Composed, TimedOut
    <2> QED BY <1>a, <2>1, <2>2, SettledStep, QuietStep DEF Quiet
<1>10. CASE RepairRaises(j)
    <2>1. UNCHANGED <<hub, local, box, customer>>
        BY <1>10 DEF RepairRaises
    <2>2. PICK new : (new = NULL \/ Settled(new)) /\ Set(j, new)
        BY <1>0, <1>10, PhaseSettled DEF RepairRaises
    <2> QED BY <1>a, <2>1, <2>2, SettledStep, QuietStep DEF Quiet
<1>11. CASE Record(j)
    <2>1. UNCHANGED <<hub, local, box, customer>> /\ Set(j, NULL)
        BY <1>11 DEF Record
    <2> QED BY <1>a, <2>1, SettledStep, QuietStep DEF Quiet
<1> QED BY <1>1, <1>2, <1>3, <1>4, <1>5, <1>6, <1>7, <1>8, <1>9, <1>10, <1>11 DEF Step

\* So are the steps around the jobs, but for a deployment and a deletion.
LEMMA SurroundingsAreQuiet ==
    ASSUME TypeInv, TypeInv', IInv,
           \/ \E c \in Customers : Remove(c) \/ LoadPage(c)
           \/ \E s \in Services : Release(s)
           \/ Elapse \/ MoveCheckTime \/ Crash \/ Tick
           \/ \E j \in Jobs : Click(j)
    PROVE  IInv'
<1> USE TypeParts
<1>a. \A s \in Services : local[s] <= local[s] /\ local[s] <= hub[s]
    BY DEF IInv, Pulls, ImagesTyped, Versions
<1>1. ASSUME NEW c \in Customers, Remove(c) PROVE IInv'
    <2>1. UNCHANGED <<hub, local, box, job>>
        BY <1>1 DEF Remove
    <2>2. \A d \in Customers : customer'[d] = "deployed" => customer[d] = "deployed"
        BY <1>1 DEF Remove, RestTyped
    <2> QED BY <1>a, <2>1, <2>2, QuietStep DEF Quiet, JobsKeep
<1>2. ASSUME NEW c \in Customers, LoadPage(c) PROVE IInv'
    <2>1. UNCHANGED <<hub, local, customer, job>>
        BY <1>2 DEF LoadPage
    <2>2. \A d \in Customers, s \in Services : box'[d][s] \in {box[d][s], Repair(box[d][s])}
        BY <1>2 DEF LoadPage, RepairedBox, BoxTyped
    <2> QED BY <1>a, <2>1, <2>2, QuietStep DEF Quiet, JobsKeep
<1>3. ASSUME NEW s \in Services, Release(s) PROVE IInv'
    <2>1. UNCHANGED <<local, box, customer, job>>
        BY <1>3 DEF Release
    <2>2. \A t \in Services : local[t] <= local[t] /\ local[t] <= hub'[t]
        BY <1>3, <1>a DEF Release, ImagesTyped, Versions
    <2> QED BY <2>1, <2>2, QuietStep DEF Quiet, JobsKeep
<1>4. CASE Elapse \/ MoveCheckTime
    <2>1. UNCHANGED <<hub, local, box, customer, job>>
        BY <1>4 DEF Elapse, MoveCheckTime
    <2> QED BY <1>a, <2>1, QuietStep DEF Quiet, JobsKeep
<1>5. CASE Crash
    <2>1. UNCHANGED <<hub, local, box, customer>> /\ \A k \in Jobs : job'[k] = NULL
        BY <1>5 DEF Crash
    <2> QED BY <1>a, <2>1, QuietStep DEF Quiet, JobsKeep
<1>6. CASE Tick
    <2>1. UNCHANGED <<hub, local, box, customer>> /\ Set(Poller, NewJob("scheduled", "check", {}))
        BY <1>6 DEF Tick, StartRun, Set
    <2>2. Settled(NewJob("scheduled", "check", {}))
        BY DEF Settled, NewJob, Todo
    <2>3. JobsKeep(Jobs)
        BY <2>1, <2>2, SettledStep, SwitchesAssumption
    <2> QED BY <1>a, <2>1, <2>3, QuietStep DEF Quiet
<1>7. ASSUME NEW j \in Jobs, Click(j) PROVE IInv'
    <2>1. UNCHANGED <<hub, local, box, customer>>
        BY <1>7 DEF Click
    <2>2. PICK new : /\ Set(j, IF new.kind = "pull" THEN [new EXCEPT !.pulled = "ok"] ELSE new)
                     /\ \E kind, pc, todo : new = NewJob(kind, pc, todo)
        <3> DEFINE Rows == {d \in Customers : customer[d] # "absent"}
                   Some == {NewJob("pull", "pull", {}), NewJob("all", "list", {})}
                           \cup {NewJob("one", "next", {c}) : c \in Rows}
        <3>1. PICK new \in Some : Set(j, IF new.kind = "pull" THEN [new EXCEPT !.pulled = "ok"] ELSE new)
            BY <1>7 DEF Click, Set
        <3>2. \E kind, pc, todo : new = NewJob(kind, pc, todo)
            BY <3>1
        <3> QED BY <3>1, <3>2
    <2>3. Settled(new) /\ Settled([new EXCEPT !.pulled = "ok"])
        BY <2>2 DEF Settled, NewJob, Todo
    <2>4. JobsKeep(Jobs)
        BY <2>2, <2>3, SettledStep
    <2> QED BY <1>a, <2>1, <2>4, QuietStep DEF Quiet
<1> QED BY <1>1, <1>2, <1>3, <1>4, <1>5, <1>6, <1>7

\* What compose does with a service: the container it leaves is not newer than
\* the image, and is there if one was; and what it replaces is older.
LEMMA OutcomeSafe ==
    ASSUME NEW b \in Box, NEW stage \in Stage, NEW version \in Versions,
           NEW new, NEW at, NEW held, Outcome(b, stage, version, new, at, held),
           NotNewer(b, version),
           stage.at \in {"renamed", "created"} => stage.held # NULL /\ stage.held < version,
           stage.at = "created" => Replaced(b, stage.held)
    PROVE  /\ NotNewer(new, version)
           /\ new = NoBox => b = NoBox
           /\ \A v \in Versions : v < version /\ Replaced(b, v) => Replaced(new, v)
           /\ at \in {"renamed", "created"} => held # NULL /\ held < version
           /\ at = "created" => Replaced(new, held)
<1> USE BoundsAssumption DEF Outcome, Box, Stage, Versions, NotNewer, Replaced, NoBox
<1>1. NotNewer(new, version)
    OBVIOUS
<1>2. new = NoBox => b = NoBox
    OBVIOUS
<1>3. \A v \in Versions : v < version /\ Replaced(b, v) => Replaced(new, v)
    OBVIOUS
<1>4. at \in {"renamed", "created"} => held # NULL /\ held < version
    OBVIOUS
<1>5. at = "created" => Replaced(new, held)
    OBVIOUS
<1> QED BY <1>1, <1>2, <1>3, <1>4, <1>5

\* One step of compose keeps every service, and makes no container outdate
\* what another command is about to remove.
LEMMA RecreateKeeps ==
    ASSUME TypeInv, TypeInv', IInv, NEW j \in Jobs, NEW s \in Services, Recreate(j, s)
    PROVE  IInv'
<1> USE TypeParts
<1> DEFINE r == job[j]
           c == r.current
<1>1. At(j, "compose") /\ UNCHANGED <<hub, local, customer>>
    BY RecreateOutcome
<1>2. r \in Job /\ c \in Customers
    BY <1>1 DEF At, JobTyped, CurrentKnown, Busy
<1>3. CASE UNCHANGED box /\ Set(j, Failed(r))
    <2>1. \A t \in Services : local[t] <= local[t] /\ local[t] <= hub[t]
        BY DEF IInv, Pulls, ImagesTyped, Versions
    <2>2. JobsKeep(Jobs)
        BY <1>2, <1>3, PhaseSettled, SettledStep
    <2> QED BY <1>1, <1>3, <2>1, <2>2, QuietStep DEF Quiet
<1>4. ASSUME NEW new, NEW at, NEW held,
             Outcome(box[c][s], r.stage[s], local[s], new, at, held),
             box' = [box EXCEPT ![c][s] = new],
             Set(j, StageTo(r, s, at, held))
      PROVE  IInv'
    <2> DEFINE b == box[c][s]
               stage == r.stage[s]
    <2>1. b \in Box /\ stage \in Stage /\ local[s] \in Versions
        BY <1>2 DEF BoxTyped, Job, ImagesTyped
    <2>2. NotNewer(b, local[s])
        BY <1>2 DEF IInv, Contained
    <2>3. /\ stage.at \in {"renamed", "created"} => stage.held # NULL /\ stage.held < local[s]
          /\ stage.at = "created" => Replaced(b, stage.held)
        BY <1>1, <1>2 DEF IInv, HeldOlder, At
    <2>4. /\ NotNewer(new, local[s])
          /\ new = NoBox => b = NoBox
          /\ \A v \in Versions : v < local[s] /\ Replaced(b, v) => Replaced(new, v)
          /\ at \in {"renamed", "created"} => held # NULL /\ held < local[s]
          /\ at = "created" => Replaced(new, held)
        BY <1>4, <2>1, <2>2, <2>3, OutcomeSafe
    <2>5. \A d \in Customers, t \in Services :
              box'[d][t] = IF d = c /\ t = s THEN new ELSE box[d][t]
        BY <1>2, <1>4 DEF BoxTyped
    <2>6. Pulls'
        BY <1>1 DEF Pulls, IInv
    <2>7. Contained'
        <3> SUFFICES ASSUME NEW d \in Customers, NEW t \in Services
                     PROVE  NotNewer(box'[d][t], local[t])
            BY <1>1 DEF Contained, NotNewer
        <3> QED BY <2>4, <2>5 DEF IInv, Contained
    <2>8. ServiceKept'
        <3> SUFFICES ASSUME NEW d \in Customers, NEW t \in Services, customer[d] = "deployed"
                     PROVE  box'[d][t] # NoBox
            BY <1>1 DEF ServiceKept, NoBox
        <3> QED BY <2>4, <2>5 DEF IInv, ServiceKept
    <2>9. HeldOlder'
        <3> SUFFICES ASSUME NEW k \in Jobs, NEW t \in Services, job'[k] # NULL,
                            job'[k].stage[t].at \in {"renamed", "created"}
                     PROVE  /\ job'[k].pc = "compose" /\ job'[k].stage[t].held # NULL
                            /\ job'[k].stage[t].held < local[t]
                            /\ job'[k].stage[t].at = "created" =>
                                  /\ job'[k].current \in Customers
                                  /\ Replaced(box'[job'[k].current][t], job'[k].stage[t].held)
            BY <1>1 DEF HeldOlder, Replaced
        <3> DEFINE n == StageTo(r, s, at, held)
        <3>1. /\ n.stage = [r.stage EXCEPT ![s] = [at |-> at, held |-> held]]
              /\ n.pc = r.pc /\ n.current = r.current
            BY <1>2 DEF StageTo, Job
        <3>2. job' = [job EXCEPT ![j] = n]
            BY <1>4 DEF Set
        <3> HIDE DEF n
        <3>3. job'[j] = n /\ \A i \in Jobs : i # j => job'[i] = job[i]
            BY <3>2 DEF JobTyped
        <3>4. CASE k = j /\ t = s
            <4>1. n.stage[s] = [at |-> at, held |-> held]
                BY <1>2, <3>1 DEF Job
            <4>2. job'[k].stage[t].at = at /\ job'[k].stage[t].held = held
                BY <3>3, <3>4, <4>1
            <4>3. job'[k].pc = "compose" /\ job'[k].current = c
                BY <1>1, <3>1, <3>3, <3>4 DEF At
            <4>4. box'[c][t] = new
                BY <1>2, <2>5, <3>4
            <4>5. at \in {"renamed", "created"}
                BY <4>2
            <4> HIDE DEF c
            <4> QED BY <1>2, <2>4, <3>4, <4>2, <4>3, <4>4, <4>5
        <3>5. CASE ~(k = j /\ t = s)
            <4>1. /\ job[k] # NULL /\ job'[k].stage[t] = job[k].stage[t]
                  /\ job'[k].pc = job[k].pc /\ job'[k].current = job[k].current
                <5>1. CASE k = j
                    <6>1. n.stage[t] = r.stage[t]
                        BY <1>2, <3>1, <3>5, <5>1 DEF Job
                    <6> QED BY <1>1, <3>1, <3>3, <5>1, <6>1 DEF At
                <5>2. CASE k # j
                    BY <3>3, <5>2
                <5> QED BY <5>1, <5>2
            <4> DEFINE old == job[k].stage[t].held
            <4>2. job[k].pc = "compose" /\ old # NULL /\ old < local[t]
                BY <4>1 DEF IInv, HeldOlder
            <4>3. old \in Versions
                BY <4>1, <4>2 DEF JobTyped, Job, Stage
            <4>4. ASSUME job[k].stage[t].at = "created"
                  PROVE  job[k].current \in Customers /\ Replaced(box'[job[k].current][t], old)
                <5>1. job[k].current \in Customers /\ Replaced(box[job[k].current][t], old)
                    BY <4>1, <4>4 DEF IInv, HeldOlder
                <5> QED BY <2>4, <2>5, <4>2, <4>3, <5>1
            <4> QED BY <4>1, <4>2, <4>4
        <3> QED BY <3>4, <3>5
    <2> QED BY <2>6, <2>7, <2>8, <2>9 DEF IInv
<1> QED BY <1>3, <1>4, RecreateOutcome

\* The boxes of a customer that has just been deployed or deleted.
LEMMA FreshBox ==
    ASSUME NEW v \in Versions, NEW b, b = NoBox \/ b = [named |-> v, orphan |-> NULL]
    PROVE  /\ NotNewer(b, v)
           /\ \A w \in Versions : w < v => Replaced(b, w)
           /\ [named |-> v, orphan |-> NULL] # NoBox
BY BoundsAssumption DEF NoBox, NotNewer, Replaced, Versions

\* A customer is deployed with, and deleted with, all of its containers.
LEMMA CustomersKeep ==
    ASSUME TypeInv, TypeInv', IInv, NEW c \in Customers, Deploy(c) \/ Down(c)
    PROVE  IInv'
<1> USE TypeParts
<1>1. UNCHANGED <<hub, local, job>> /\ \A d \in Customers : d # c => customer'[d] = customer[d]
    BY DEF Deploy, Down, RestTyped
<1>2. \A d \in Customers, s \in Services : d # c => box'[d][s] = box[d][s]
    BY DEF Deploy, Down, BoxTyped
<1>3. \/ \A s \in Services : box'[c][s] = [named |-> local[s], orphan |-> NULL]
      \/ customer'[c] # "deployed" /\ \A s \in Services : box'[c][s] = NoBox
    BY DEF Deploy, Down, BoxTyped, RestTyped
<1>4. \A s \in Services : local[s] \in Versions
    BY DEF ImagesTyped
<1>5. \A s \in Services : NotNewer(box'[c][s], local[s])
    BY <1>3, <1>4, FreshBox
<1>6. \A s \in Services, v \in Versions : v < local[s] => Replaced(box'[c][s], v)
    BY <1>3, <1>4, FreshBox
<1>7. Pulls'
    BY <1>1 DEF Pulls, IInv
<1>8. Contained'
    <2> SUFFICES ASSUME NEW d \in Customers, NEW s \in Services
                 PROVE  NotNewer(box'[d][s], local[s])
        BY <1>1 DEF Contained, NotNewer
    <2> QED BY <1>2, <1>5 DEF IInv, Contained
<1>9. HeldOlder'
    <2> SUFFICES ASSUME NEW k \in Jobs, NEW s \in Services, job[k] # NULL,
                        job[k].stage[s].at = "created"
                 PROVE  Replaced(box'[job[k].current][s], job[k].stage[s].held)
        BY <1>1 DEF HeldOlder, IInv, Replaced
    <2> DEFINE held == job[k].stage[s].held
    <2>1. /\ held # NULL /\ held < local[s] /\ job[k].current \in Customers
          /\ Replaced(box[job[k].current][s], held)
        BY DEF IInv, HeldOlder
    <2>2. held \in Versions
        BY <2>1 DEF JobTyped, Job, Stage
    <2> QED BY <1>2, <1>6, <2>1, <2>2
<1>10. ServiceKept'
    <2> SUFFICES ASSUME NEW d \in Customers, NEW s \in Services, customer'[d] = "deployed"
                 PROVE  box'[d][s] # NoBox
        BY DEF ServiceKept, NoBox
    <2>1. CASE d = c
        BY <1>3, <1>4, <2>1, FreshBox
    <2>2. CASE d # c
        BY <1>1, <1>2, <2>2 DEF IInv, ServiceKept
    <2> QED BY <2>1, <2>2
<1> QED BY <1>7, <1>8, <1>9, <1>10 DEF IInv

LEMMA InitContained == Init => IInv
<1> SUFFICES ASSUME Init PROVE IInv
    OBVIOUS
<1>1. Pulls /\ Contained /\ HeldOlder
    BY BoundsAssumption DEF Init, Pulls, Contained, NotNewer, HeldOlder
<1>2. ServiceKept
    BY BoundsAssumption DEF Init, ServiceKept, NoBox
<1> QED BY <1>1, <1>2 DEF IInv

LEMMA StepContained == TypeInv /\ TypeInv' /\ IInv /\ [Next]_vars => IInv'
<1> SUFFICES ASSUME TypeInv, TypeInv', IInv, [Next]_vars PROVE IInv'
    OBVIOUS
<1>1. CASE UNCHANGED vars
    BY <1>1 DEF vars, IInv, Pulls, Contained, NotNewer, HeldOlder, Replaced, ServiceKept, NoBox
<1>2. ASSUME NEW j \in Jobs, Step(j) \/ ListRaises(j) \/ RepairRaises(j) \/ Hang(j) PROVE IInv'
    BY <1>2, JobIsQuiet, RecreateKeeps
<1> QED BY <1>1, <1>2, CustomersKeep, SurroundingsAreQuiet DEF Next

\* A service of a deployed customer never loses its last container, whatever
\* is interrupted or overlaps: update_customer_containers, the repairs of
\* names, commands killed by their timeout, restarts and redeployments.
THEOREM NoServiceLost == Spec => []ServiceKept
<1>1. IInv => ServiceKept
    BY DEF IInv
<1> QED BY <1>1, AlwaysTyped, InitContained, StepContained, PTL DEF Spec

-----------------------------------------------------------------------------
(* An entry that says success is true.  A customer that a job has updated  *)
(* stays updated: no step but its deletion takes the newest container of a *)
(* service away.                                                           *)

Has(b, version) ==
    \/ b.named # NULL /\ b.named >= version
    \/ b.orphan # NULL /\ b.orphan >= version
Current(c, s, version) == customer[c] = "deployed" => Has(box[c][s], version)

\* The container with the hash-prefixed name is the older one.
Ordered(b) == b.named # NULL /\ b.orphan # NULL => b.orphan <= b.named
OrderedInv == \A c \in Customers, s \in Services : Ordered(box[c][s])

\* What a job has established: it wants what was pulled, the customers it has
\* counted have that, and so has the one it works on, service by service.
Honest(r) ==
    /\ \A s \in Services : r.want[s] <= local[s]
    /\ r.pc \in {"check", "pull", "list"} => r.ok = {}
    /\ r.pc \in {"list", "next", "repair", "start"} => \A s \in Services : r.stage[s].at = "todo"
    /\ \A c \in r.ok, s \in Services : Current(c, s, r.want[s])
    /\ r.pc = "compose" =>
          \A s \in Services : r.stage[s].at \in {"created", "done"} => Current(r.current, s, r.want[s])
HonestInv == \A j \in Jobs : job[j] # NULL => Honest(job[j])

\* What a step does to boxes and images.
Lasts ==
    /\ \A s \in Services : local[s] <= local'[s]
    /\ \A c \in Customers, s \in Services, v \in Versions :
          v <= local[s] /\ Current(c, s, v) => Current(c, s, v)'
Still ==
    /\ \A s \in Services : local[s] <= local'[s]
    /\ \A c \in Customers, s \in Services : box'[c][s] \in {box[c][s], Repair(box[c][s])}
    /\ \A c \in Customers : customer'[c] = "deployed" => customer[c] = "deployed"

\* Repairing a name keeps the newest container.
LEMMA RepairLasts ==
    ASSUME NEW b \in Box, Ordered(b)
    PROVE  Ordered(Repair(b)) /\ \A v \in Versions : Has(b, v) => Has(Repair(b), v)
BY DEF Repair, Box, Ordered, Has

\* So does compose, and a service it is through with has the pulled version.
LEMMA OutcomeLasts ==
    ASSUME NEW b \in Box, NEW stage \in Stage, NEW version \in Versions,
           NEW new, NEW at, NEW held, Outcome(b, stage, version, new, at, held),
           NotNewer(b, version), Ordered(b),
           stage.at = "created" => stage.held # NULL /\ Replaced(b, stage.held)
    PROVE  /\ Ordered(new)
           /\ \A v \in Versions : Has(b, v) => Has(new, v)
           /\ \A v \in Versions :
                 v <= version /\ at \in {"created", "done"} /\ stage.at # "created" => Has(new, v)
<1> USE BoundsAssumption DEF Outcome, Box, Stage, Versions, NotNewer, Replaced, NoBox, Ordered, Has
<1>1. Ordered(new)
    OBVIOUS
<1>2. \A v \in Versions : Has(b, v) => Has(new, v)
    OBVIOUS
<1>3. \A v \in Versions :
          v <= version /\ at \in {"created", "done"} /\ stage.at # "created" => Has(new, v)
    OBVIOUS
<1> QED BY <1>1, <1>2, <1>3

\* A new customer has the pulled versions.
LEMMA FreshLasts ==
    ASSUME NEW v \in Versions, NEW b, b = NoBox \/ b = [named |-> v, orphan |-> NULL]
    PROVE  /\ Ordered(b)
           /\ b = [named |-> v, orphan |-> NULL] => \A w \in Versions : w <= v => Has(b, w)
BY BoundsAssumption DEF NoBox, Ordered, Has, Versions

\* Steps that leave containers alone or give them their names back.
LEMMA StillLasts ==
    ASSUME TypeInv, OrderedInv, Still
    PROVE  Lasts /\ OrderedInv'
<1> USE TypeParts
<1>1. ASSUME NEW c \in Customers, NEW s \in Services
      PROVE  /\ Ordered(box'[c][s])
             /\ \A v \in Versions : Has(box[c][s], v) => Has(box'[c][s], v)
    <2>1. box[c][s] \in Box /\ Ordered(box[c][s])
        BY DEF BoxTyped, OrderedInv
    <2> QED BY <2>1, RepairLasts DEF Still
<1>2. OrderedInv'
    BY <1>1 DEF OrderedInv, Ordered
<1>3. ASSUME NEW c \in Customers, NEW s \in Services, NEW v \in Versions, Current(c, s, v)
      PROVE  Current(c, s, v)'
    BY <1>1, <1>3 DEF Current, Has, Still
<1> QED BY <1>2, <1>3 DEF Lasts, Still

\* Every step leaves the newest container of a deployed customer.
LEMMA StepLasts ==
    ASSUME TypeInv, IInv, OrderedInv, [Next]_vars
    PROVE  Lasts /\ OrderedInv'
<1> USE TypeParts
<1>a. \A s \in Services : local[s] <= local[s] /\ local[s] <= hub[s]
    BY DEF IInv, Pulls, ImagesTyped, Versions
<1>1. CASE UNCHANGED <<local, customer, box>>
    BY <1>1, <1>a, StillLasts DEF Still
<1>2. ASSUME NEW j \in Jobs, NEW s \in Services, PullImage(j, s) PROVE Lasts /\ OrderedInv'
    <2>1. UNCHANGED <<box, customer>> /\ local' \in {local, [local EXCEPT ![s] = hub[s]]}
        BY <1>2 DEF PullImage
    <2>2. \A t \in Services : local[t] <= local'[t]
        BY <1>a, <2>1 DEF ImagesTyped, Versions
    <2> QED BY <2>1, <2>2, StillLasts DEF Still
<1>3. ASSUME NEW j \in Jobs, List(j) \/ RepairCustomer(j) PROVE Lasts /\ OrderedInv'
    <2>1. UNCHANGED <<local, customer>>
        BY <1>3 DEF List, RepairCustomer
    <2>2. \/ box' = [c \in Customers |-> RepairedBox(c)]
          \/ box' = [box EXCEPT ![job[j].current] = RepairedBox(job[j].current)]
        BY <1>3 DEF List, RepairCustomer
    <2>3. \A c \in Customers, s \in Services : box'[c][s] \in {box[c][s], Repair(box[c][s])}
        BY <2>2 DEF RepairedBox, BoxTyped
    <2> QED BY <1>a, <2>1, <2>3, StillLasts DEF Still
<1>4. ASSUME NEW c \in Customers, LoadPage(c) \/ Remove(c) PROVE Lasts /\ OrderedInv'
    <2>1. local' = local /\ box' \in {box, [box EXCEPT ![c] = RepairedBox(c)]}
        BY <1>4 DEF LoadPage, Remove
    <2>2. \A d \in Customers, s \in Services : box'[d][s] \in {box[d][s], Repair(box[d][s])}
        BY <2>1 DEF RepairedBox, BoxTyped
    <2>3. \A d \in Customers : customer'[d] = "deployed" => customer[d] = "deployed"
        BY <1>4 DEF LoadPage, Remove, RestTyped
    <2> QED BY <1>a, <2>1, <2>2, <2>3, StillLasts DEF Still
<1>5. ASSUME NEW c \in Customers, Deploy(c) \/ Down(c) PROVE Lasts /\ OrderedInv'
    <2>1. /\ local' = local
          /\ \A d \in Customers : d # c => customer'[d] = customer[d]
          /\ \A d \in Customers, s \in Services : d # c => box'[d][s] = box[d][s]
        BY <1>5 DEF Deploy, Down, BoxTyped, RestTyped
    <2>2. \/ \A s \in Services : box'[c][s] = [named |-> local[s], orphan |-> NULL]
          \/ customer'[c] # "deployed" /\ \A s \in Services : box'[c][s] = NoBox
        BY <1>5 DEF Deploy, Down, BoxTyped, RestTyped
    <2>3. \A s \in Services : Ordered(box'[c][s]) /\ local[s] \in Versions
        BY <2>2, FreshLasts DEF ImagesTyped
    <2>4. OrderedInv'
        BY <2>1, <2>3 DEF OrderedInv, Ordered
    <2>5. ASSUME NEW s \in Services, NEW v \in Versions, v <= local[s] PROVE Current(c, s, v)'
        <3>1. box'[c][s] = [named |-> local[s], orphan |-> NULL] => Has(box'[c][s], v)
            BY <2>3, <2>5, FreshLasts
        <3> QED BY <2>2, <3>1 DEF Current, Has
    <2>6. ASSUME NEW d \in Customers, d # c, NEW s \in Services, NEW v \in Versions, Current(d, s, v)
          PROVE  Current(d, s, v)'
        BY <2>1, <2>6 DEF Current, Has
    <2> QED BY <1>a, <2>1, <2>4, <2>5, <2>6 DEF Lasts
<1>6. ASSUME NEW j \in Jobs, NEW s \in Services, Recreate(j, s) PROVE Lasts /\ OrderedInv'
    <2>1. PICK c : c = job[j].current
        OBVIOUS
    <2>2. At(j, "compose") /\ UNCHANGED <<local, customer>>
        BY <1>6, RecreateOutcome
    <2>3. job[j] \in Job /\ c \in Customers
        BY <2>1, <2>2 DEF At, JobTyped, CurrentKnown, Busy
    <2>4. ASSUME NEW new, NEW at, NEW held,
                 Outcome(box[c][s], job[j].stage[s], local[s], new, at, held),
                 box' = [box EXCEPT ![c][s] = new]
          PROVE  Lasts /\ OrderedInv'
        <3>1. /\ box[c][s] \in Box /\ job[j].stage[s] \in Stage /\ local[s] \in Versions
              /\ NotNewer(box[c][s], local[s]) /\ Ordered(box[c][s])
            BY <2>3 DEF BoxTyped, Job, ImagesTyped, IInv, Contained, OrderedInv
        <3>2. job[j].stage[s].at = "created" =>
                  job[j].stage[s].held # NULL /\ Replaced(box[c][s], job[j].stage[s].held)
            BY <2>1, <2>2, <2>3 DEF IInv, HeldOlder, At
        <3>3. Ordered(new) /\ \A v \in Versions : Has(box[c][s], v) => Has(new, v)
            BY <2>4, <3>1, <3>2, OutcomeLasts
        <3>4. \A d \in Customers, t \in Services :
                  box'[d][t] = IF d = c /\ t = s THEN new ELSE box[d][t]
            BY <2>3, <2>4 DEF BoxTyped
        <3>5. OrderedInv'
            BY <3>3, <3>4 DEF OrderedInv, Ordered
        <3>6. ASSUME NEW d \in Customers, NEW t \in Services, NEW v \in Versions, Current(d, t, v)
              PROVE  Current(d, t, v)'
            <4>1. Has(box[d][t], v) => Has(box'[d][t], v)
                BY <3>3, <3>4
            <4> QED BY <2>2, <3>6, <4>1 DEF Current, Has
        <3> QED BY <1>a, <2>2, <3>5, <3>6 DEF Lasts
    <2>5. \/ UNCHANGED box
          \/ \E new, at, held : /\ Outcome(box[c][s], job[j].stage[s], local[s], new, at, held)
                                /\ box' = [box EXCEPT ![c][s] = new]
        BY <1>6, <2>1, RecreateOutcome
    <2> QED BY <1>1, <2>2, <2>4, <2>5
<1>7. ASSUME NEW j \in Jobs, Step(j) PROVE Lasts /\ OrderedInv'
    BY <1>1, <1>2, <1>3, <1>6, <1>7
       DEF Step, CheckImage, Checked, Pulled, NextCustomer, StartCompose, Composed, Record
<1>8. ASSUME NEW j \in Jobs, ListRaises(j) \/ RepairRaises(j) \/ Hang(j) \/ Click(j)
      PROVE  Lasts /\ OrderedInv'
    BY <1>1, <1>8 DEF ListRaises, RepairRaises, Hang, Click
<1>9. ASSUME NEW s \in Services, Release(s) PROVE Lasts /\ OrderedInv'
    BY <1>1, <1>9 DEF Release
<1>10. CASE Tick \/ Elapse \/ MoveCheckTime \/ Crash
    BY <1>1, <1>10 DEF Tick, StartRun, Elapse, MoveCheckTime, Crash
<1>11. CASE UNCHANGED vars
    BY <1>1, <1>11 DEF vars
<1> QED BY <1>4, <1>5, <1>7, <1>8, <1>9, <1>10, <1>11 DEF Next

-----------------------------------------------------------------------------
(* The records of the jobs *)

\* What a record says stays true.
LEMMA HonestLasts ==
    ASSUME TypeInv, TypeInv', Lasts, NEW r \in Job, Honest(r), r.pc \in Busy => r.current \in Customers
    PROVE  Honest(r)'
<1> USE TypeParts
<1>1. /\ \A s \in Services : r.want[s] \in Versions
      /\ r.ok \subseteq Customers
    BY DEF Job
<1>2. \A s \in Services : r.want[s] <= local'[s]
    <2> TAKE s \in Services
    <2>1. local[s] \in Versions /\ local'[s] \in Versions /\ local[s] <= local'[s] /\ r.want[s] <= local[s]
        BY DEF ImagesTyped, Lasts, Honest
    <2> QED BY <1>1, <2>1 DEF Versions
<1>3. \A c \in r.ok, s \in Services : Current(c, s, r.want[s])'
    BY <1>1 DEF Honest, Lasts
<1>4. r.pc = "compose" =>
          \A s \in Services : r.stage[s].at \in {"created", "done"} => Current(r.current, s, r.want[s])'
    BY <1>1 DEF Honest, Lasts, Busy
<1> QED BY <1>2, <1>3, <1>4 DEF Honest

\* A step of one job, or a click, changes its record only.
LEMMA SetHonest ==
    ASSUME TypeInv, TypeInv', Lasts, HonestInv, NEW j \in Jobs, NEW r, Set(j, r),
           r = NULL \/ Honest(r)'
    PROVE  HonestInv'
<1> USE TypeParts
<1>1. job'[j] = r /\ \A k \in Jobs : k # j => job'[k] = job[k]
    BY DEF Set, JobTyped
<1>2. ASSUME NEW k \in Jobs, job'[k] # NULL, k # j PROVE Honest(job[k])'
    <2>1. PICK q : q = job[k]
        OBVIOUS
    <2>2. q = job'[k] /\ q \in Job /\ Honest(q) /\ (q.pc \in Busy => q.current \in Customers)
        BY <1>1, <1>2, <2>1 DEF JobTyped, CurrentKnown, HonestInv
    <2>3. Honest(q)'
        BY <2>2, HonestLasts
    <2> QED BY <2>2, <2>3
<1>3. ASSUME NEW k \in Jobs, job'[k] # NULL, k = j PROVE Honest(job[k])'
    <2>1. Honest(r)' /\ job'[k] = r
        BY <1>1, <1>3
    <2> QED BY <2>1
<1> QED BY <1>2, <1>3 DEF HonestInv

\* A record that is true before the step.
LEMMA SetTrue ==
    ASSUME TypeInv, TypeInv', Lasts, HonestInv, NEW j \in Jobs, NEW r, Set(j, r), r = NULL \/ Honest(r)
    PROVE  HonestInv'
<1> USE TypeParts
<1>1. CASE r = NULL
    BY <1>1, SetHonest
<1>2. CASE r # NULL
    <2>1. job'[j] = r
        BY DEF Set, JobTyped
    <2>2. r \in Job /\ (r.pc \in Busy => r.current \in Customers)
        BY <1>2, <2>1 DEF JobTyped, CurrentKnown
    <2>3. Honest(r)'
        BY <1>2, <2>2, HonestLasts
    <2> QED BY <2>3, SetHonest
<1> QED BY <1>1, <1>2

\* A record that counts nobody more and is not in the middle of compose.
LEMMA MoveHonest ==
    ASSUME NEW r, Honest(r), NEW n, n.want = r.want, n.ok = r.ok,
           n.pc \in {"check", "pull", "list"} => r.pc \in {"check", "pull", "list"},
           n.pc \in {"list", "next", "repair", "start", "compose"} =>
               \A s \in Services : n.stage[s].at = "todo"
    PROVE  Honest(n)
BY DEF Honest

\* The records a job goes on with between phases.
LEMMA PhaseHonest ==
    ASSUME NEW r \in Job, Honest(r)
    PROVE  /\ r.pc \notin {"check", "pull", "list"} => Honest(Failed(r))
           /\ r.pc \in {"check", "pull"} => Honest(AfterPull(r)) /\ Honest(ToPull(r))
           /\ Accepted(r).ok = r.ok \cup {r.current} /\ Accepted(r).want = r.want
           /\ Accepted(r).stage = Todo
<1>t. \A s \in Services : Todo[s].at = "todo"
    BY DEF Todo
<1>1. /\ ToNext(r) \in Job /\ ToNext(r).want = r.want /\ ToNext(r).ok = r.ok
      /\ ToNext(r).stage = Todo
    BY PhaseTyped DEF ToNext, Job
<1>2. Failed(r).want = r.want /\ Failed(r).ok = r.ok /\ Failed(r).stage = Todo
    BY <1>1 DEF Failed, Job
<1>3. Accepted(r).ok = r.ok \cup {r.current} /\ Accepted(r).want = r.want /\ Accepted(r).stage = Todo
    BY <1>1 DEF Accepted, Job
<1>4. AfterPull(r).want = r.want /\ AfterPull(r).ok = r.ok /\ AfterPull(r).stage = Todo
    BY DEF AfterPull, Job
<1>5. ToPull(r).want = r.want /\ ToPull(r).ok = r.ok
    BY DEF ToPull, Job
<1>6. r.pc \notin {"check", "pull", "list"} => Honest(Failed(r))
    BY <1>t, <1>2, PhaseTyped DEF Honest
<1>7. r.pc \in {"check", "pull"} => Honest(AfterPull(r)) /\ Honest(ToPull(r))
    BY <1>t, <1>4, <1>5, PhaseTyped DEF Honest
<1> QED BY <1>3, <1>6, <1>7
\* Every step of a job but compose's.
LEMMA JobHonest ==
    ASSUME TypeInv, TypeInv', IInv, HonestInv, Lasts, NEW j \in Jobs,
           \/ ListRaises(j) \/ RepairRaises(j) \/ Hang(j)
           \/ Step(j) /\ ~(\E s \in Services : Recreate(j, s))
    PROVE  HonestInv'
<1> USE TypeParts
<1> DEFINE r == job[j]
<1>0. r # NULL /\ r \in Job /\ Honest(r)
    BY DEF JobTyped, HonestInv, Step, ListRaises, RepairRaises, Hang, At, Checked, Pulled, List,
           NextCustomer, RepairCustomer, StartCompose, Composed, Record, Ready, CheckImage, PullImage
<1>s. r.pc \in {"list", "next", "repair", "start"} => \A s \in Services : r.stage[s].at = "todo"
    BY <1>0 DEF Honest
<1>1. ASSUME NEW s \in Services, CheckImage(j, s) \/ PullImage(j, s) PROVE HonestInv'
    <2>1. PICK new : /\ new \in {r, [r EXCEPT !.news = @ \/ hub[s] # local[s]], [r EXCEPT !.pulled = "failed"]}
                     /\ Set(j, StageTo(new, s, "done", NULL))
        BY <1>1 DEF CheckImage, PullImage
    <2>2. /\ new \in Job /\ new.pc = r.pc /\ new.want = r.want /\ new.ok = r.ok
          /\ r.pc \in {"check", "pull"}
        BY <1>0, <1>1, <2>1 DEF Job, CheckImage, PullImage, At
    <2>3. PICK n : n = StageTo(new, s, "done", NULL)
        OBVIOUS
    <2>4. n.pc = r.pc /\ n.want = r.want /\ n.ok = r.ok
        BY <2>2, <2>3 DEF StageTo, Job
    <2> QED BY <1>0, <2>1, <2>2, <2>3, <2>4, MoveHonest, SetTrue
<1>2. CASE Checked(j) \/ Pulled(j)
    <2>1. r.pc \in {"check", "pull"} /\ (Set(j, AfterPull(r)) \/ Set(j, ToPull(r)))
        BY <1>2 DEF Checked, Pulled, At
    <2> QED BY <1>0, <2>1, PhaseHonest, SetTrue
<1>3. CASE List(j)
    <2>1. PICK n : /\ Set(j, n)
                   /\ \E todo : n = [r EXCEPT !.pc = "next", !.want = local, !.todo = todo]
        BY <1>3 DEF List
    <2>2. n.pc = "next" /\ n.want = local /\ n.ok = r.ok /\ n.stage = r.stage /\ r.pc = "list"
        BY <1>0, <1>3, <2>1 DEF Job, List, At
    <2>3. r.ok = {} /\ \A s \in Services : local[s] <= local[s]
        BY <1>0, <2>2 DEF Honest, ImagesTyped, Versions
    <2>4. Honest(n)
        BY <1>s, <2>2, <2>3 DEF Honest
    <2> QED BY <2>1, <2>4, SetTrue
<1>4. CASE ListRaises(j)
    <2>1. PICK n : Set(j, n) /\ n \in {[r EXCEPT !.pc = "record", !.error = TRUE], NULL}
        BY <1>4 DEF ListRaises
    <2>2. n # NULL => n.pc = "record" /\ n.want = r.want /\ n.ok = r.ok
        BY <1>0, <2>1 DEF Job
    <2>3. n = NULL \/ Honest(n)
        BY <1>0, <2>2, MoveHonest
    <2> QED BY <2>1, <2>3, SetTrue
<1>5. CASE NextCustomer(j)
    <2>1. PICK c, m, n : /\ m = [r EXCEPT !.todo = @ \ {c}]
                         /\ n = [m EXCEPT !.current = c, !.pc = "repair"]
                         /\ Set(j, Failed(m)) \/ Set(j, n)
        BY <1>5 DEF NextCustomer
    <2>2. /\ m \in Job /\ m.pc = "next" /\ m.want = r.want /\ m.ok = r.ok /\ m.stage = r.stage
          /\ r.pc = "next"
        BY <1>0, <1>5, <2>1 DEF Job, NextCustomer, At
    <2>3. n.pc = "repair" /\ n.want = r.want /\ n.ok = r.ok /\ n.stage = r.stage
        BY <2>1, <2>2 DEF Job
    <2>4. Honest(m) /\ Honest(n)
        BY <1>0, <1>s, <2>2, <2>3, MoveHonest
    <2> QED BY <2>1, <2>2, <2>4, PhaseHonest, SetTrue
<1>6. CASE RepairCustomer(j)
    <2>1. PICK n : Set(j, n) /\ n = [r EXCEPT !.pc = "start"]
        BY <1>6 DEF RepairCustomer
    <2>2. n.pc = "start" /\ n.want = r.want /\ n.ok = r.ok /\ n.stage = r.stage /\ r.pc = "repair"
        BY <1>0, <1>6, <2>1 DEF Job, RepairCustomer, At
    <2>3. Honest(n)
        BY <1>0, <1>s, <2>2, MoveHonest
    <2> QED BY <2>1, <2>3, SetTrue
<1>7. CASE StartCompose(j)
    <2>1. PICK n : n = [r EXCEPT !.pc = "compose"]
        OBVIOUS
    <2>2. n.pc = "compose" /\ n.want = r.want /\ n.ok = r.ok /\ n.stage = r.stage /\ r.pc = "start"
        BY <1>0, <1>7, <2>1 DEF Job, StartCompose, At
    <2>3. Honest(n) /\ Honest(Failed(r))
        BY <1>0, <1>s, <2>2, MoveHonest, PhaseHonest
    <2>4. Set(j, n) \/ Set(j, Failed(r))
        BY <1>7, <2>1 DEF StartCompose
    <2> QED BY <2>3, <2>4, SetTrue
<1>8. CASE RepairRaises(j) \/ Hang(j) \/ Record(j)
    <2>1. Set(j, NULL) \/ (r.pc \in {"repair", "compose"} /\ Set(j, Failed(r)))
        BY <1>8 DEF RepairRaises, Hang, TimedOut, Record, At
    <2> QED BY <1>0, <2>1, PhaseHonest, SetTrue
<1>9. CASE Composed(j)
    <2>1. /\ r.pc = "compose" /\ Set(j, Accepted(r))
          /\ \A s \in Services : r.stage[s].at = "done"
        BY <1>9 DEF Composed, At, AllDone
    <2>2. PICK n : n = Accepted(r)
        OBVIOUS
    <2>3. n.pc = "next" /\ n.want = r.want /\ n.ok = r.ok \cup {r.current} /\ n.stage = Todo
        BY <1>0, <2>2, PhaseTyped, PhaseHonest
    <2>4. \A s \in Services : n.stage[s].at = "todo"
        BY <2>3 DEF Todo
    <2>5. \A c \in n.ok, s \in Services : Current(c, s, n.want[s])
        BY <1>0, <2>1, <2>3 DEF Honest
    <2>6. Honest(n)
        BY <1>0, <2>3, <2>4, <2>5 DEF Honest
    <2> QED BY <2>1, <2>2, <2>6, SetTrue
<1> QED BY <1>1, <1>2, <1>3, <1>4, <1>5, <1>6, <1>7, <1>8, <1>9 DEF Step

\* One step of compose: when it has created a container it has the version
\* that is pulled now, which is not older than the one the job wants.
LEMMA RecreateHonest ==
    ASSUME TypeInv, TypeInv', IInv, OrderedInv, HonestInv, Lasts,
           NEW j \in Jobs, NEW s \in Services, Recreate(j, s)
    PROVE  HonestInv'
<1> USE TypeParts
<1>0. PICK r, c : r = job[j] /\ c = r.current
    OBVIOUS
<1>1. At(j, "compose") /\ UNCHANGED <<local, customer>>
    BY RecreateOutcome
<1>2. r \in Job /\ c \in Customers /\ Honest(r) /\ r.pc = "compose"
    BY <1>0, <1>1 DEF At, JobTyped, CurrentKnown, Busy, HonestInv
<1>3. CASE Set(j, Failed(r))
    BY <1>2, <1>3, PhaseHonest, SetTrue
<1>4. ASSUME NEW new, NEW at, NEW held,
             Outcome(box[c][s], r.stage[s], local[s], new, at, held),
             box' = [box EXCEPT ![c][s] = new],
             Set(j, StageTo(r, s, at, held))
      PROVE  HonestInv'
    <2>1. /\ box[c][s] \in Box /\ r.stage[s] \in Stage /\ local[s] \in Versions /\ r.want[s] \in Versions
          /\ NotNewer(box[c][s], local[s]) /\ Ordered(box[c][s])
        BY <1>2 DEF BoxTyped, Job, ImagesTyped, IInv, Contained, OrderedInv
    <2>2. r.stage[s].at = "created" => r.stage[s].held # NULL /\ Replaced(box[c][s], r.stage[s].held)
        BY <1>0, <1>1, <1>2 DEF IInv, HeldOlder, At
    <2>3. r.want[s] <= local[s]
        BY <1>2 DEF Honest
    <2>4. at \in {"created", "done"} /\ r.stage[s].at # "created" => Has(new, r.want[s])
        BY <1>4, <2>1, <2>2, <2>3, OutcomeLasts
    <2>5. box'[c][s] = new
        BY <1>2, <1>4 DEF BoxTyped
    <2>6. Honest(r)'
        BY <1>0, <1>2, HonestLasts DEF Busy
    <2>7. at \in {"created", "done"} => Current(c, s, r.want[s])'
        <3>1. CASE r.stage[s].at = "created"
            BY <1>0, <1>2, <2>6, <3>1 DEF Honest
        <3>2. CASE r.stage[s].at # "created"
            BY <2>4, <2>5, <3>2 DEF Current, Has
        <3> QED BY <3>1, <3>2
    <2>8. PICK n : n = StageTo(r, s, at, held)
        OBVIOUS
    <2>9. /\ n.stage = [r.stage EXCEPT ![s] = [at |-> at, held |-> held]]
          /\ n.pc = r.pc /\ n.current = r.current /\ n.want = r.want /\ n.ok = r.ok
        BY <1>2, <2>8 DEF StageTo, Job
    <2>10. n.stage[s].at = at /\ \A t \in Services : t # s => n.stage[t] = r.stage[t]
        BY <1>2, <2>9 DEF Job
    <2>11. ASSUME NEW t \in Services, n.stage[t].at \in {"created", "done"}
           PROVE  Current(n.current, t, n.want[t])'
        <3>1. CASE t = s
            BY <1>0, <2>7, <2>9, <2>10, <2>11, <3>1
        <3>2. CASE t # s
            BY <1>2, <2>6, <2>9, <2>10, <2>11, <3>2 DEF Honest
        <3> QED BY <3>1, <3>2
    <2>12. Honest(n)'
        BY <1>2, <2>6, <2>9, <2>11 DEF Honest
    <2>13. Set(j, n)
        BY <1>4, <2>8
    <2> QED BY <2>12, <2>13, SetHonest
<1>5. \/ Set(j, Failed(r))
      \/ \E new, at, held :
            /\ Outcome(box[c][s], r.stage[s], local[s], new, at, held)
            /\ box' = [box EXCEPT ![c][s] = new]
            /\ Set(j, StageTo(r, s, at, held))
    BY <1>0, RecreateOutcome
<1> QED BY <1>3, <1>4, <1>5

\* Every step keeps the records honest.
LEMMA HonestStep == TypeInv /\ TypeInv' /\ IInv /\ OrderedInv /\ HonestInv /\ [Next]_vars => HonestInv'
<1> SUFFICES ASSUME TypeInv, TypeInv', IInv, OrderedInv, HonestInv, [Next]_vars PROVE HonestInv'
    OBVIOUS
<1> USE TypeParts
<1>0. Lasts
    BY StepLasts
<1>1. ASSUME NEW j \in Jobs, Step(j) \/ ListRaises(j) \/ RepairRaises(j) \/ Hang(j) PROVE HonestInv'
    BY <1>0, <1>1, JobHonest, RecreateHonest
<1>n. ASSUME NEW kind, NEW pc, NEW todo PROVE Honest(NewJob(kind, pc, todo))
    <2>1. \A s \in Services : local[s] <= local[s]
        BY DEF ImagesTyped, Versions
    <2>2. PICK n : n = NewJob(kind, pc, todo)
        OBVIOUS
    <2>3. n.want = local /\ n.ok = {} /\ \A s \in Services : n.stage[s].at = "todo"
        BY <2>2 DEF NewJob, Todo
    <2>4. Honest(n)
        BY <2>1, <2>3 DEF Honest
    <2> QED BY <2>2, <2>4
<1>2. ASSUME NEW j \in Jobs, Click(j) PROVE HonestInv'
    <2>1. PICK new : /\ Set(j, IF new.kind = "pull" THEN [new EXCEPT !.pulled = "ok"] ELSE new)
                     /\ \E kind, pc, todo : new = NewJob(kind, pc, todo)
        <3> DEFINE Rows == {d \in Customers : customer[d] # "absent"}
                   Some == {NewJob("pull", "pull", {}), NewJob("all", "list", {})}
                           \cup {NewJob("one", "next", {c}) : c \in Rows}
        <3>1. PICK new \in Some : Set(j, IF new.kind = "pull" THEN [new EXCEPT !.pulled = "ok"] ELSE new)
            BY <1>2 DEF Click, Set
        <3>2. \E kind, pc, todo : new = NewJob(kind, pc, todo)
            BY <3>1
        <3> QED BY <3>1, <3>2
    <2>2. PICK n : n = [new EXCEPT !.pulled = "ok"]
        OBVIOUS
    <2>3. n.want = new.want /\ n.ok = new.ok /\ n.pc = new.pc /\ n.stage = new.stage
        BY <2>1, <2>2 DEF NewJob
    <2>4. Honest(new)
        BY <1>n, <2>1
    <2>5. \A s \in Services : n.stage[s].at = "todo"
        BY <2>1, <2>3 DEF NewJob, Todo
    <2>6. Honest(n)
        BY <2>3, <2>4, <2>5, MoveHonest
    <2> QED BY <1>0, <2>1, <2>2, <2>4, <2>6, SetTrue
<1>3. CASE Tick
    <2>1. Set(Poller, NewJob("scheduled", "check", {})) /\ Poller \in Jobs
        BY <1>3, SwitchesAssumption DEF Tick, StartRun, Set
    <2> QED BY <1>0, <1>n, <2>1, SetTrue
<1>4. ASSUME job' = job PROVE HonestInv'
    <2>1. ASSUME NEW k \in Jobs, job[k] # NULL PROVE Honest(job[k])'
        <3>1. PICK q : q = job[k]
            OBVIOUS
        <3>2. q \in Job /\ Honest(q) /\ (q.pc \in Busy => q.current \in Customers)
            BY <2>1, <3>1 DEF JobTyped, CurrentKnown, HonestInv
        <3>3. Honest(q)' /\ job'[k] = q
            BY <1>0, <1>4, <3>1, <3>2, HonestLasts
        <3> QED BY <3>3
    <2> QED BY <1>4, <2>1 DEF HonestInv
<1>5. CASE Crash
    BY <1>5 DEF Crash, HonestInv
<1>6. CASE UNCHANGED vars
    BY <1>4, <1>6 DEF vars
<1>7. ASSUME NEW c \in Customers, Deploy(c) \/ Down(c) \/ Remove(c) \/ LoadPage(c) PROVE HonestInv'
    BY <1>4, <1>7 DEF Deploy, Down, Remove, LoadPage
<1>8. ASSUME NEW s \in Services, Release(s) PROVE HonestInv'
    BY <1>4, <1>8 DEF Release
<1>9. CASE Elapse \/ MoveCheckTime
    BY <1>4, <1>9 DEF Elapse, MoveCheckTime
<1> QED BY <1>1, <1>2, <1>3, <1>5, <1>6, <1>7, <1>8, <1>9 DEF Next

\* An entry that says success counts only customers whose services all run
\* what was pulled when the run listed them, or newer, whatever other jobs,
\* repairs, timeouts, restarts and deployments came in between.
THEOREM LogIsHonest == Spec => []LogHonest
<1> DEFINE Inv == IInv /\ OrderedInv /\ HonestInv
<1>1. Init => Inv
    <2> SUFFICES ASSUME Init PROVE OrderedInv /\ HonestInv
        BY InitContained
    <2> QED BY DEF Init, OrderedInv, Ordered, HonestInv
<1>2. TypeInv /\ TypeInv' /\ Inv /\ [Next]_vars => Inv'
    BY StepContained, StepLasts, HonestStep
<1>3. TypeInv /\ Inv => LogHonest
    <2> SUFFICES ASSUME TypeInv, Inv, NEW j \in Jobs, Ready(j), NEW c \in job[j].ok,
                        NEW s \in Services, customer[c] = "deployed"
                 PROVE  Runs(c, s, job[j].want[s])
        BY DEF LogHonest
    <2>1. Current(c, s, job[j].want[s])
        BY DEF Ready, At, HonestInv, Honest
    <2> QED BY <2>1 DEF Current, Has, Runs
<1> HIDE DEF Inv
<1> QED BY <1>1, <1>2, <1>3, AlwaysTyped, PTL DEF Spec
=============================================================================
