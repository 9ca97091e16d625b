---------------------------- MODULE ImageUpdates ----------------------------
(***************************************************************************)
(* NetBird image updates: the daily run of scheduler_service.py, the       *)
(* buttons of routers/monitoring.py and deployments.py, and what they call *)
(* in image_service.py and update_log_service.py.                          *)
(*                                                                         *)
(* A job is a coroutine.  It gives way at every await, so jobs, page loads *)
(* that repair container names, and deletions of customers come in         *)
(* between, and docker compose recreates the containers of a customer      *)
(* meanwhile.  A new process has no jobs; only the rows survive.           *)
(***************************************************************************)
EXTENDS Integers

CONSTANTS
    Customers,
    Services,     \* of a customer; each has an image of its own
    Jobs, Poller, \* slots for jobs; the scheduler's loop has its own
    MaxVersion,   \* of an image (a bound for the model)
    MaxTroubles,  \* faults and interventions (a bound for the model)
    AutoApply,    \* auto_update_apply_enabled
    Overlap,      \* a customer can be deleted while a job works on it
    NULL,
    Faults

AllFaults == {"hub", "pull", "hang", "raise", "crash"}
ASSUME BoundsAssumption ==
    MaxVersion \in Nat \ {0} /\ MaxTroubles \in Nat /\ NULL \notin Nat /\ NULL \notin Customers
ASSUME SwitchesAssumption ==
    Poller \in Jobs /\ {AutoApply, Overlap} \subseteq BOOLEAN /\ Faults \subseteq AllFaults

VARIABLES
    hub,       \* the version of each image on Docker Hub
    local,     \* the version that is pulled
    customer,  \* absent; deployed: row, files and containers; deleting: no containers
    box,       \* the containers of a service, under its name and under a hash-prefixed one
    job,
    log,       \* the status in the newest entry of the update log, NULL when none
    clock,     \* before, in and after the minute of auto_update_check_time
    lastRun,   \* auto_update_last_run_at: never, today, or an earlier day
    runs,      \* scheduled runs started today
    troubles   \* faults and interventions so far

vars == <<hub, local, customer, box, job, log, clock, lastRun, runs, troubles>>
schedule == <<clock, lastRun, runs>>

Versions == 1 .. MaxVersion
Box == [named : Versions \cup {NULL}, orphan : Versions \cup {NULL}]
NoBox == [named |-> NULL, orphan |-> NULL]

Kinds == {"scheduled", "pull", "all", "one"}
Pcs == {"check", "pull", "list", "next", "repair", "start", "compose", "record"}
\* How far a gather or compose is with a service; the version compose renamed.
Stage == [at : {"todo", "renamed", "created", "done"}, held : Versions \cup {NULL}]
Job == [kind : Kinds, pc : Pcs, stage : [Services -> Stage], news : BOOLEAN,
        pulled : {"no", "ok", "failed"}, todo : SUBSET Customers, current : Customers \cup {NULL},
        ok : SUBSET Customers, failed : BOOLEAN, error : BOOLEAN, want : [Services -> Versions]]
RunStatuses == {"no_update", "success", "partial", "failed"}

TypeOK ==
    /\ hub \in [Services -> Versions] /\ local \in [Services -> Versions]
    /\ customer \in [Customers -> {"absent", "deployed", "deleting"}]
    /\ box \in [Customers -> [Services -> Box]]
    /\ job \in [Jobs -> Job \cup {NULL}]
    /\ log \in RunStatuses \cup {NULL}
    /\ clock \in {"early", "due", "late"} /\ lastRun \in {"never", "today", "earlier"}
    /\ runs \in Nat /\ troubles \in 0 .. MaxTroubles

Todo == [s \in Services |-> [at |-> "todo", held |-> NULL]]
AllDone(j) == \A s \in Services : job[j].stage[s].at = "done"

NewJob(kind, pc, todo) ==
    [kind |-> kind, pc |-> pc, stage |-> Todo, news |-> FALSE, pulled |-> "no", todo |-> todo,
     current |-> NULL, ok |-> {}, failed |-> FALSE, error |-> FALSE, want |-> local]

Init ==
    /\ hub = [s \in Services |-> 1] /\ local = hub
    /\ customer = [c \in Customers |-> "deployed"]
    /\ box = [c \in Customers |-> [s \in Services |-> [named |-> 1, orphan |-> NULL]]]
    /\ job = [j \in Jobs |-> NULL] /\ log = NULL
    /\ clock = "early" /\ lastRun = "never" /\ runs = 0 /\ troubles = 0

Trouble == troubles < MaxTroubles /\ troubles' = troubles + 1

-----------------------------------------------------------------------------
(* The surroundings *)

Release(s) ==
    /\ hub[s] < MaxVersion
    /\ hub' = [hub EXCEPT ![s] = @ + 1]
    /\ UNCHANGED <<local, customer, box, job, log, schedule, troubles>>

\* Variant: a run of any day counts.
NeverRan == job[Poller] = NULL /\ clock = "due" /\ lastRun = "never"

\* _tick runs in the minute of the check, if there was no run today.
RunIsDue == job[Poller] = NULL /\ clock = "due" /\ lastRun # "today"

\* The minute comes, and passes; the loop, which sleeps for a minute and then
\* works, may not have looked at the clock in it.
Elapse ==
    /\ \/ clock = "early" /\ clock' = "due" /\ UNCHANGED <<lastRun, runs>>
       \/ clock = "due" /\ clock' = "late" /\ UNCHANGED <<lastRun, runs>>
       \/ /\ clock = "late" /\ clock' = "early" /\ runs' = 0
          /\ lastRun' = IF lastRun = "never" THEN "never" ELSE "earlier"
    /\ UNCHANGED <<hub, local, customer, box, job, log, troubles>>

\* The operator moves auto_update_check_time to a later minute of the day.
MoveCheckTime ==
    /\ Trouble
    /\ clock # "early" /\ clock' = "early"
    /\ UNCHANGED <<hub, local, customer, box, job, log, lastRun, runs>>

\* The appliance is restarted.
Crash ==
    /\ "crash" \in Faults /\ Trouble
    /\ job' = [j \in Jobs |-> NULL]
    /\ UNCHANGED <<hub, local, customer, box, log, schedule>>

Working(c) == \E j \in Jobs : job[j] # NULL /\ job[j].current = c

\* deploy_customer, undeploy_customer with its two steps.
Deploy(c) ==
    /\ Trouble
    /\ customer[c] = "absent"
    /\ customer' = [customer EXCEPT ![c] = "deployed"]
    /\ box' = [box EXCEPT ![c] = [s \in Services |-> [named |-> local[s], orphan |-> NULL]]]
    /\ UNCHANGED <<hub, local, job, log, schedule>>

Down(c) ==
    /\ customer[c] = "deployed"
    /\ Overlap \/ ~Working(c)
    /\ customer' = [customer EXCEPT ![c] = "deleting"]
    /\ box' = [box EXCEPT ![c] = [s \in Services |-> NoBox]]
    /\ UNCHANGED <<hub, local, job, log, schedule, troubles>>

Remove(c) ==
    /\ customer[c] = "deleting"
    /\ customer' = [customer EXCEPT ![c] = "absent"]
    /\ UNCHANGED <<hub, local, box, job, log, schedule, troubles>>

-----------------------------------------------------------------------------
(* repair_container_naming: a service whose name is free gets it back. *)

\* Variant: the container with the hash-prefixed name is removed.
RemoveOrphan(b) == [b EXCEPT !.orphan = NULL]

Repair(b) == IF b.named = NULL THEN [named |-> b.orphan, orphan |-> NULL] ELSE b

RepairedBox(c) == [s \in Services |-> Repair(box[c][s])]

\* Loading the dashboard or the update page looks at every customer, and repairs.
LoadPage(c) ==
    /\ Trouble
    /\ customer[c] # "absent"
    /\ RepairedBox(c) # box[c]
    /\ box' = [box EXCEPT ![c] = RepairedBox(c)]
    /\ UNCHANGED <<hub, local, customer, job, log, schedule>>

-----------------------------------------------------------------------------
(* Starting jobs *)

StartRun ==
    /\ runs' = runs + 1
    /\ job' = [job EXCEPT ![Poller] = NewJob("scheduled", "check", {})]
    /\ UNCHANGED <<hub, local, customer, box, log, clock, troubles>>

\* Variant: the run is not claimed before it starts.
TickUnclaimed ==
    /\ RunIsDue
    /\ StartRun /\ UNCHANGED lastRun

\* The run is claimed in the database before it starts.
Tick ==
    /\ RunIsDue
    /\ StartRun /\ lastRun' = "today"

\* The buttons: pull, update all customers, update one that has a row.
Click(j) ==
    /\ Trouble
    /\ j # Poller /\ job[j] = NULL
    /\ \E new \in {NewJob("pull", "pull", {}), NewJob("all", "list", {})}
                  \cup {NewJob("one", "next", {c}) : c \in {d \in Customers : customer[d] # "absent"}} :
          job' = [job EXCEPT ![j] = IF new.kind = "pull" THEN [new EXCEPT !.pulled = "ok"] ELSE new]
    /\ UNCHANGED <<hub, local, customer, box, log, schedule>>

-----------------------------------------------------------------------------
(* The steps of a job *)

At(j, pc) == job[j] # NULL /\ job[j].pc = pc
\* The job goes on with another record.
Set(j, new) == job' = [job EXCEPT ![j] = new]
StageTo(r, s, at, held) == [r EXCEPT !.stage[s] = [at |-> at, held |-> held]]

\* check_image_status, for all images at once; no answer is no update.
CheckImage(j, s) ==
    /\ At(j, "check") /\ job[j].stage[s].at = "todo"
    /\ \/ /\ Set(j, StageTo([job[j] EXCEPT !.news = @ \/ hub[s] # local[s]], s, "done", NULL))
          /\ UNCHANGED troubles
       \/ "hub" \in Faults /\ Trouble /\ Set(j, StageTo(job[j], s, "done", NULL))
    /\ UNCHANGED <<hub, local, customer, box, log, schedule>>

\* What a run goes on with, without what it does not read any more.
AfterPull(r) ==
    [r EXCEPT !.pc = IF r.kind = "scheduled" /\ AutoApply THEN "list" ELSE "record",
              !.stage = Todo, !.news = FALSE]
ToPull(r) == [r EXCEPT !.pc = "pull", !.stage = Todo, !.news = FALSE, !.pulled = "ok"]

\* Variant: without news on Docker Hub nothing is applied.
OnlyNews(j) ==
    /\ At(j, "check") /\ AllDone(j)
    /\ Set(j, IF job[j].news THEN ToPull(job[j]) ELSE [job[j] EXCEPT !.pc = "record"])
    /\ UNCHANGED <<hub, local, customer, box, log, schedule, troubles>>

Checked(j) ==
    /\ At(j, "check") /\ AllDone(j)
    /\ Set(j, IF job[j].news THEN ToPull(job[j]) ELSE AfterPull(job[j]))
    /\ UNCHANGED <<hub, local, customer, box, log, schedule, troubles>>

\* pull_image, for all images at once.
PullImage(j, s) ==
    /\ At(j, "pull") /\ job[j].stage[s].at = "todo"
    /\ \/ /\ local' = [local EXCEPT ![s] = hub[s]]
          /\ Set(j, StageTo(job[j], s, "done", NULL)) /\ UNCHANGED troubles
       \/ /\ "pull" \in Faults /\ Trouble
          /\ Set(j, StageTo([job[j] EXCEPT !.pulled = "failed"], s, "done", NULL))
          /\ UNCHANGED local
    /\ UNCHANGED <<hub, customer, box, log, schedule>>

Pulled(j) ==
    /\ At(j, "pull") /\ AllDone(j)
    /\ Set(j, AfterPull(job[j]))
    /\ UNCHANGED <<hub, local, customer, box, log, schedule, troubles>>

\* needs_update of get_customer_container_image_status: a container that is
\* missing is not counted.
NeedsUpdate(b) == \E s \in Services : b[s].named # NULL /\ b[s].named # local[s]

\* Every customer with a row is repaired and looked at, without an await.
List(j) ==
    /\ At(j, "list")
    /\ LET repaired == [c \in Customers |-> RepairedBox(c)]
       IN /\ box' = repaired
          /\ Set(j, [job[j] EXCEPT !.pc = "next", !.want = local,
                        !.todo = {c \in Customers : customer[c] # "absent" /\ NeedsUpdate(repaired[c])}])
    /\ UNCHANGED <<hub, local, customer, log, schedule, troubles>>

\* Docker cannot be asked: the scheduled run is logged as failed, the request is not.
ListRaises(j) ==
    /\ "raise" \in Faults /\ Trouble
    /\ At(j, "list")
    /\ Set(j, IF job[j].kind = "scheduled" THEN [job[j] EXCEPT !.pc = "record", !.error = TRUE] ELSE NULL)
    /\ UNCHANGED <<hub, local, customer, box, log, schedule>>

-----------------------------------------------------------------------------
(* update_customer_containers *)

ToNext(r) == [r EXCEPT !.pc = "next", !.stage = Todo, !.current = NULL]
Failed(r) == [ToNext(r) EXCEPT !.failed = TRUE]
\* Variant: a command that timed out counts as done.
Accepted(r) == [ToNext(r) EXCEPT !.ok = @ \cup {r.current}]
TimedOut(r) == Failed(r)

\* The next customer; one without a compose file has failed.
NextCustomer(j) ==
    /\ At(j, "next")
    /\ \E c \in job[j].todo :
          LET r == [job[j] EXCEPT !.todo = @ \ {c}]
          IN /\ Overlap \/ customer[c] # "deleting"
             /\ Set(j, IF customer[c] = "absent" THEN Failed(r)
                       ELSE [r EXCEPT !.current = c, !.pc = "repair"])
    /\ UNCHANGED <<hub, local, customer, box, log, schedule, troubles>>

RepairCustomer(j) ==
    /\ At(j, "repair")
    /\ box' = [box EXCEPT ![job[j].current] = RepairedBox(job[j].current)]
    /\ Set(j, [job[j] EXCEPT !.pc = "start"])
    /\ UNCHANGED <<hub, local, customer, log, schedule, troubles>>

\* Docker cannot be asked: one customer of a loop has failed, a request for one
\* customer ends without an entry.
RepairRaises(j) ==
    /\ "raise" \in Faults /\ Trouble
    /\ At(j, "repair")
    /\ Set(j, IF job[j].kind = "one" THEN NULL ELSE Failed(job[j]))
    /\ UNCHANGED <<hub, local, customer, box, log, schedule>>

\* docker compose up reads the compose file.
StartCompose(j) ==
    /\ At(j, "start")
    /\ Set(j, IF customer[job[j].current] = "absent" THEN Failed(job[j])
              ELSE [job[j] EXCEPT !.pc = "compose"])
    /\ UNCHANGED <<hub, local, customer, box, log, schedule, troubles>>

\* compose renames an outdated container, creates the new one and removes the
\* old one, unless a name is taken.
Recreate(j, s) ==
    LET c == job[j].current
        b == box[c][s]
        stage == job[j].stage[s]
        Goes(new, at, held) ==
            /\ box' = [box EXCEPT ![c][s] = new]
            /\ Set(j, StageTo(job[j], s, at, held))
        Collides == UNCHANGED box /\ Set(j, Failed(job[j]))
        New == [b EXCEPT !.named = local[s]]
    IN  /\ At(j, "compose")
        /\ \/ /\ stage.at = "todo"
              /\ \/ b = NoBox /\ Goes(New, "done", NULL)
                 \/ b.named = NULL /\ b.orphan # NULL /\ Collides
                 \/ b.named # NULL /\ b.orphan # NULL /\ Goes([b EXCEPT !.orphan = NULL], "todo", NULL)
                 \/ b.named = local[s] /\ b.orphan = NULL /\ Goes(b, "done", NULL)
                 \/ /\ b.named \notin {local[s], NULL} /\ b.orphan = NULL
                    /\ Goes([named |-> NULL, orphan |-> b.named], "renamed", b.named)
           \/ /\ stage.at = "renamed"
              /\ IF b.named = NULL THEN Goes(New, "created", stage.held) ELSE Collides
           \/ /\ stage.at = "created"
              /\ Goes(IF b.orphan = stage.held THEN [b EXCEPT !.orphan = NULL] ELSE b, "done", NULL)
        /\ UNCHANGED <<hub, local, customer, log, schedule, troubles>>

\* The command is killed after 300 s, wherever it is.
Hang(j) ==
    /\ "hang" \in Faults /\ Trouble
    /\ At(j, "compose")
    /\ Set(j, TimedOut(job[j]))
    /\ UNCHANGED <<hub, local, customer, box, log, schedule>>

Composed(j) ==
    /\ At(j, "compose") /\ AllDone(j)
    /\ Set(j, Accepted(job[j]))
    /\ UNCHANGED <<hub, local, customer, box, log, schedule, troubles>>

-----------------------------------------------------------------------------
(* record_run *)

\* Variant: the column keeps its default.
StillRunning(r) == "running"

RunStatus(r) ==
    LET applied == r.ok # {} \/ r.failed
    IN  CASE r.error \/ r.pulled = "failed" -> "failed"
          [] ~r.error /\ r.pulled # "failed" /\ r.failed -> "partial"
          [] ~r.error /\ r.pulled = "no" /\ ~applied -> "no_update"
          [] OTHER -> "success"

Ready(j) == At(j, "record") \/ (At(j, "next") /\ job[j].todo = {})

Record(j) ==
    /\ Ready(j)
    /\ log' = RunStatus(job[j])
    /\ Set(j, NULL)
    /\ UNCHANGED <<hub, local, customer, box, schedule, troubles>>

-----------------------------------------------------------------------------

Step(j) ==
    \/ Checked(j) \/ Pulled(j) \/ List(j) \/ NextCustomer(j) \/ RepairCustomer(j)
    \/ StartCompose(j) \/ Composed(j) \/ Record(j)
    \/ \E s \in Services : CheckImage(j, s) \/ PullImage(j, s) \/ Recreate(j, s)

Next ==
    \/ \E j \in Jobs : Step(j) \/ ListRaises(j) \/ RepairRaises(j) \/ Hang(j) \/ Click(j)
    \/ \E c \in Customers : Deploy(c) \/ Down(c) \/ Remove(c) \/ LoadPage(c)
    \/ \E s \in Services : Release(s)
    \/ Tick \/ Elapse \/ MoveCheckTime \/ Crash

Spec == Init /\ [][Next]_vars

\* Jobs run on, their commands have timeouts, the loop polls and time passes.
FairSpec ==
    /\ Spec
    /\ \A j \in Jobs : WF_vars(Step(j))
    /\ \A c \in Customers : WF_vars(Remove(c))
    /\ WF_vars(Tick) /\ WF_vars(Elapse)

-----------------------------------------------------------------------------
(* Properties *)

Runs(c, s, version) ==
    \E v \in {box[c][s].named, box[c][s].orphan} : v # NULL /\ v >= version

\* Whatever interrupts an update, each service of a deployed customer keeps a
\* container, under its name or under the one compose gave it.
ServiceKept ==
    \A c \in Customers, s \in Services : customer[c] = "deployed" => box[c][s] # NoBox

\* There is one scheduled run a day, restarts and a moved check time included.
OneRunPerDay == runs <= 1

\* When an entry is about to say success, the customers it counts run what
\* was pulled when the run listed them, or newer.
LogHonest ==
    \A j \in Jobs : Ready(j) /\ RunStatus(job[j]) = "success" =>
        \A c \in job[j].ok, s \in Services :
            customer[c] = "deployed" => Runs(c, s, job[j].want[s])

\* A day's run is lost: the loop did not look at the clock in the minute.
Missed == RunIsDue /\ clock' = "late"

\* What is released is pulled, however many days are missed, unless days are
\* missed for ever.
NewsArrives ==
    \/ []<><<Missed>>_vars
    \/ \A s \in Services, n \in Versions : hub[s] >= n ~> local[s] >= n

\* What is pulled reaches the customers, also when Docker Hub has nothing new
\* and whatever days are missed, unless they are missed for ever.
BacklogClears ==
    \/ []<><<Missed>>_vars
    \/ \A c \in Customers, s \in Services, n \in Versions :
          customer[c] = "deployed" /\ local[s] >= n ~>
              customer[c] # "deployed" \/ (box[c][s].named # NULL /\ box[c][s].named >= n)

\* Nothing is left of a deleted customer.
DeletedIsGone ==
    \A c \in Customers, s \in Services : customer[c] = "absent" => box[c][s] = NoBox
=============================================================================
