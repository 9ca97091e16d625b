---------------------------- MODULE AutoRestart ----------------------------
(***************************************************************************)
(* The automatic restart of unreachable customers (_auto_restart_tick of   *)
(* services/scheduler_service.py) beside the requests and background tasks *)
(* of DeployLifecycle.                                                     *)
(*                                                                         *)
(* A tick loads every deployments row, then asks one dashboard after the   *)
(* other whether it answers and restarts those that do not.  The restart   *)
(* is restart_customer, which here is a task of DeployLifecycle in the     *)
(* slot Poller: it does not ask whether anybody works on the customer.     *)
(*                                                                         *)
(* The rows stay as loaded until the tick commits for the first time; a    *)
(* commit expires them, and from then on each is read when its turn comes. *)
(***************************************************************************)
EXTENDS DeployLifecycle

CONSTANTS
    Poller,     \* the slot of the scheduler's own restart
    Alone       \* requests do not hit a customer that a request's task works on

\* The commits of a tick succeed here, and those of the tasks beside it.
ASSUME PollerAssumption ==
    Poller \in Tasks /\ Overlap /\ Alone \in BOOLEAN /\ "db" \notin Faults

VARIABLES
    tick,       \* the tick in progress
    cooling,    \* rows whose last_auto_restart_at is within the cooldown
    spared      \* customers restarted less than a cooldown ago by a tick that did not
                \* die over it, which no variable keeps

allVars == <<vars, tick, cooling, spared>>

Operators == Tasks \ {Poller}
Restarting(c) == task[Poller] # NULL /\ Cust(Poller) = c

\* One tick: the dashboard it has asked (or the customer it restarts), the rows
\* it has not come to, those of them that were due when it loaded them, and
\* whether they have expired since.
Tick == [cust : Customers, todo : SUBSET Customers, due : SUBSET Customers, expired : BOOLEAN]
ASSUME RecordsAssumption == NULL \notin Tick /\ NULL \notin Task

SystemTypeOK ==
    /\ TypeOK
    /\ tick \in Tick \cup {NULL}
    /\ cooling \subseteq Customers /\ spared \subseteq Customers

SystemInit == Init /\ tick = NULL /\ cooling = {} /\ spared = {}

-----------------------------------------------------------------------------

\* Variant: a row that says failed is left alone.
OnlyRunning(c) == row[c] # NULL /\ row[c].status = "running" /\ c \notin cooling

\* deployment_status and last_auto_restart_at let c be restarted.
Due(c) == row[c] # NULL /\ row[c].status \in {"running", "failed"} /\ c \notin cooling

\* The loop goes on to the next row that is due, skipping others in front of
\* it, or comes to its end; a row that expired and is gone raises.
Advance(todo, due, expired) ==
    LET isDue(d) == IF expired THEN Due(d) ELSE d \in due
        gone(d) == expired /\ row[d] = NULL
    IN  \/ \E c \in todo : \E rest \in SUBSET (todo \ {c}) :
              /\ isDue(c) /\ \A d \in todo \ (rest \cup {c}) : ~isDue(d) /\ ~gone(d)
              /\ tick' = [cust |-> c, todo |-> rest, due |-> due \cap rest, expired |-> expired]
        \/ \E c \in todo : gone(c) /\ tick' = NULL
        \/ (\A c \in todo : ~isDue(c)) /\ tick' = NULL

\* A tick starts.
Wake ==
    LET rows == {c \in Customers : row[c] # NULL} IN
    /\ tick = NULL
    /\ Advance(rows, {c \in rows : Due(c)}, FALSE)
    /\ UNCHANGED <<vars, cooling, spared>>

Asking == tick # NULL /\ task[Poller] = NULL

\* Containers that are down do not answer, nor need those that were started.  A
\* proxy answers for them with an error, which counts as an answer.
MayAnswer(c) == ~LocalMode \/ (stack[c] # NULL /\ stack[c].started)

Answers ==
    /\ Asking /\ MayAnswer(tick.cust)
    /\ Advance(tick.todo, tick.due, tick.expired)
    /\ UNCHANGED <<vars, cooling, spared>>

\* No answer: the log entry, whose commit expires the rows, and the restart up
\* to the compose call.  The log entry of a customer that is gone or the stamp in a
\* row that is gone raises and ends the tick.
RestartUnreachable ==
    /\ Asking
    /\ LET c == tick.cust IN
       \/ /\ Present(c) /\ row[c] # NULL
          /\ Control(Poller, c) /\ task'[Poller].op = "restart"
          /\ tick' = [tick EXCEPT !.expired = TRUE]
          /\ spared' = spared \cup {c}
          /\ UNCHANGED cooling
       \/ /\ ~Present(c) \/ row[c] = NULL
          /\ tick' = NULL
          /\ UNCHANGED <<vars, cooling, spared>>

\* Variant: only a restart that succeeds is stamped.
StampSuccess ==
    LET c == tick.cust IN
    /\ tick # NULL /\ ResumeControl(Poller)
    /\ \/ /\ Present(c) /\ row[c] # NULL
          /\ cooling' = IF task[Poller].ok THEN cooling \cup {c} ELSE cooling
          /\ Advance(tick.todo, tick.due, tick.expired)
       \/ /\ ~Present(c) \/ row[c] = NULL
          /\ tick' = NULL
          /\ UNCHANGED cooling
    /\ UNCHANGED spared

\* restart_customer goes on and writes its statuses, then the tick stamps the
\* row, whatever came of it; without customer or row something raises.
RestartDone ==
    LET c == tick.cust IN
    /\ tick # NULL /\ ResumeControl(Poller)
    /\ \/ /\ Present(c) /\ row[c] # NULL
          /\ cooling' = cooling \cup {c}
          /\ Advance(tick.todo, tick.due, tick.expired)
       \/ /\ ~Present(c) \/ row[c] = NULL
          /\ tick' = NULL
          /\ UNCHANGED cooling
    /\ UNCHANGED spared

\* now is that of the tick's start, so time passes between ticks.
CooldownPasses(c) ==
    /\ tick = NULL /\ c \in cooling \cup spared
    /\ cooling' = cooling \ {c}
    /\ spared' = spared \ {c}
    /\ UNCHANGED <<vars, tick>>

-----------------------------------------------------------------------------
(* The rest of the program.  A row that is removed takes its stamp along.  *)

Unstamp ==
    /\ cooling' = {c \in cooling : row'[c] # NULL}
    /\ spared' = {c \in spared : row'[c] # NULL}

SystemRequest(t, c) ==
    /\ Alone => \A u \in Operators : task[u] # NULL => Cust(u) # c
    /\ Request(t, c)
    /\ UNCHANGED <<tick, cooling, spared>>

SystemStep(t) == Step(t) /\ Unstamp /\ UNCHANGED tick

RestartCompose == ComposeControl(Poller) /\ UNCHANGED <<tick, cooling, spared>>

Loaded(c) == (CheckHealth(c) \/ UpdateCustomer(c)) /\ UNCHANGED <<tick, cooling, spared>>

\* A tick that dies does not stamp the row it has restarted.
SystemCrash ==
    /\ \/ Crash
       \/ "crash" \in Faults /\ tick # NULL /\ (\A t \in Tasks : task[t] = NULL) /\ UNCHANGED vars
    /\ tick' = NULL
    /\ spared' = {c \in spared : ~Restarting(c)}
    /\ UNCHANGED cooling

TickStep == Wake \/ Answers \/ RestartUnreachable \/ RestartCompose \/ RestartDone

SystemNext ==
    \/ \E t \in Operators, c \in Customers : SystemRequest(t, c)
    \/ \E t \in Operators : SystemStep(t)
    \/ \E c \in Customers : Loaded(c) \/ CooldownPasses(c)
    \/ TickStep
    \/ SystemCrash

SystemSpec == SystemInit /\ [][SystemNext]_allVars

\* As in DeployLifecycle; the poll loop wakes every minute, each of its awaited
\* calls has a timeout, and time passes, also between ticks.
FairSystem ==
    /\ SystemSpec
    /\ \A t \in Operators : WF_allVars(SystemStep(t))
    /\ WF_allVars(TickStep)
    /\ \A c \in Customers : SF_allVars(CooldownPasses(c))

-----------------------------------------------------------------------------
(* Properties *)

\* A customer that does not come up is not restarted in a tight loop: between
\* two automatic restarts of it a cooldown passes, whatever came of the first
\* and whatever requests did to the customer meanwhile, unless the appliance
\* died during the first.
RestartsAreSpaced ==
    [][\A c \in Customers : ~Restarting(c) /\ Restarting(c)' => c \notin spared]_allVars

\* A restart that falls into a removal does not bring back the containers that
\* the removal has taken down.
Deleting(c) == ~Present(c) \/ \E t \in Operators : InFlight(t, c, "delete")
DeletedStaysDeleted ==
    [][\A c \in Customers : Deleting(c) /\ stack[c] = NULL => stack'[c] = NULL]_allVars

\* A customer whose containers are down while its row says running or failed
\* is restarted, unless another is removed meanwhile, which may end each tick
\* before its turn.
Unserved(c) ==
    row[c] # NULL /\ row[c].status # "stopped" /\ stack[c] # NULL /\ ~stack[c].started
Removing(d) == \E t \in Operators : InFlight(t, d, "delete") \/ InFlight(t, d, "reinstall")
UnservedIsRestarted ==
    \A c \in Customers :
        Unserved(c) ~> \/ ~Unserved(c) \/ Restarting(c)
                       \/ \E d \in Customers \ {c} : Removing(d)

\* A customer shown as deploying has a request's task working on it: neither the
\* except block of deploy_customer, nor a reinstall whose removal half fails, nor
\* a restart of the scheduler in between leaves the status behind for good.
DeployingIsWorkedOn ==
    \A c \in Customers : customer[c] = "deploying" =>
        \E t \in Operators, op \in {"create", "redeploy", "reinstall"} : InFlight(t, c, op)

\* The task of an accepted delete ends with the customer gone, whatever compose
\* and DNS refuse to remove and whatever the scheduler restarts meanwhile.
DeleteIsNotGivenUp ==
    [][\A t \in Operators, c \in Customers :
          InFlight(t, c, "delete") /\ ~InFlight(t, c, "delete")' => ~Present(c)']_allVars

\* Containers that the operator has stopped are only started by an operation
\* of the operator.
StoppedIsLeftAlone ==
    [][\A c \in Customers :
          (row[c] # NULL /\ row[c].status = "stopped" /\ stack[c] # NULL /\ ~stack[c].started) =>
              \/ stack'[c] = NULL \/ ~stack'[c].started
              \/ \E t \in Operators : task[t] # NULL /\ Cust(t) = c]_allVars

=============================================================================
