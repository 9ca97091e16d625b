------------------------- MODULE AutoRestart_proofs -------------------------
(***************************************************************************)
(* Theorems of AutoRestart: the scheduler's restarts do nothing that the   *)
(* requests and background tasks of DeployLifecycle could not do, so its   *)
(* theorems hold beside them; and two automatic restarts of a customer are *)
(* a cooldown apart.                                                       *)
(***************************************************************************)
EXTENDS AutoRestart, DeployLifecycleOutside_proofs

-----------------------------------------------------------------------------
(* Every step of the system is one of DeployLifecycle, or leaves its       *)
(* variables alone.                                                        *)

Typed ==
    /\ tick \in Tick \cup {NULL}
    /\ cooling \subseteq Customers /\ spared \subseteq Customers

\* The loop comes to a row it has not come to, or ends.
LEMMA AdvanceTyped ==
    ASSUME NEW todo \in SUBSET Customers, NEW due \in SUBSET Customers,
           NEW expired \in BOOLEAN, Advance(todo, due, expired)
    PROVE  tick' \in Tick \cup {NULL}
  <1>1. CASE tick' = NULL
    BY <1>1
  <1>2. ASSUME NEW c \in todo, NEW rest \in SUBSET (todo \ {c}),
               tick' = [cust |-> c, todo |-> rest, due |-> due \cap rest, expired |-> expired]
        PROVE  tick' \in Tick
    BY <1>2 DEF Tick
  <1>3. QED
    BY <1>1, <1>2 DEF Advance

\* The parts of a tick in progress.
LEMMA TickParts ==
    ASSUME Typed, tick # NULL
    PROVE  /\ tick.cust \in Customers /\ tick.todo \in SUBSET Customers
           /\ tick.due \in SUBSET Customers /\ tick.expired \in BOOLEAN
  BY DEF Typed, Tick

\* A step of the system keeps the types of the scheduler's variables.
LEMMA TypedStep == Typed /\ [SystemNext]_allVars => Typed'
  <1> SUFFICES ASSUME Typed, [SystemNext]_allVars PROVE Typed'
    OBVIOUS
  <1>1. CASE UNCHANGED <<tick, cooling, spared>>
    BY <1>1 DEF Typed
  <1>2. ASSUME NEW t \in Operators, SystemStep(t) PROVE Typed'
    BY <1>2 DEF SystemStep, Unstamp, Typed
  <1>3. ASSUME NEW c \in Customers, CooldownPasses(c) PROVE Typed'
    BY <1>3 DEF CooldownPasses, Typed
  <1>4. CASE Wake
    <2>1. Advance({c \in Customers : row[c] # NULL},
                  {c \in {d \in Customers : row[d] # NULL} : Due(c)}, FALSE)
      BY <1>4 DEF Wake
    <2>2. tick' \in Tick \cup {NULL}
      BY <2>1, AdvanceTyped
    <2>3. QED
      BY <1>4, <2>2 DEF Wake, Typed
  <1>5. CASE Answers
    BY <1>5, TickParts, AdvanceTyped DEF Answers, Asking, Typed
  <1>6. CASE RestartUnreachable
    <2>1. tick # NULL
      BY <1>6 DEF RestartUnreachable, Asking
    <2>2. [tick EXCEPT !.expired = TRUE] \in Tick
      BY <2>1 DEF Typed, Tick
    <2>3. QED
      BY <1>6, <2>1, <2>2, TickParts DEF RestartUnreachable, Typed
  <1>7. CASE RestartDone
    BY <1>7, TickParts, AdvanceTyped DEF RestartDone, Typed
  <1>8. CASE SystemCrash
    BY <1>8 DEF SystemCrash, Typed
  <1>9. QED
    BY <1>1, <1>2, <1>3, <1>4, <1>5, <1>6, <1>7, <1>8
       DEF SystemNext, SystemRequest, Loaded, TickStep, RestartCompose, allVars

\* What the step is for DeployLifecycle.
LEMMA StepMaps == Typed /\ [SystemNext]_allVars => [Next]_vars
  <1> SUFFICES ASSUME Typed, [SystemNext]_allVars PROVE [Next]_vars
    OBVIOUS
  <1>0. Poller \in Tasks
    BY PollerAssumption
  <1>1. ASSUME NEW t \in Operators, NEW c \in Customers, SystemRequest(t, c) PROVE Next
    BY <1>1 DEF SystemRequest, Operators, Next
  <1>2. ASSUME NEW t \in Operators, SystemStep(t) PROVE Next
    BY <1>2 DEF SystemStep, Operators, Next
  <1>3. ASSUME NEW c \in Customers, Loaded(c) PROVE Next
    BY <1>3 DEF Loaded, Next
  <1>4. CASE RestartUnreachable
    <2>1. tick.cust \in Customers
      BY <1>4, TickParts DEF RestartUnreachable, Asking
    <2>2. Request(Poller, tick.cust) \/ UNCHANGED vars
      BY <1>4 DEF RestartUnreachable, Request
    <2>3. QED
      BY <1>0, <2>1, <2>2 DEF Next
  <1>5. CASE RestartCompose \/ RestartDone
    <2>1. Step(Poller)
      BY <1>5 DEF RestartCompose, RestartDone, Step
    <2>2. QED
      BY <1>0, <2>1 DEF Next
  <1>6. CASE SystemCrash
    BY <1>6 DEF SystemCrash, Next
  <1>7. CASE Wake \/ Answers
    BY <1>7 DEF Wake, Answers
  <1>8. ASSUME NEW c \in Customers, CooldownPasses(c) PROVE UNCHANGED vars
    BY <1>8 DEF CooldownPasses
  <1>9. QED
    BY <1>1, <1>2, <1>3, <1>4, <1>5, <1>6, <1>7, <1>8
       DEF SystemNext, TickStep, allVars

LEMMA TypedAlways == SystemSpec => []Typed
  <1>1. SystemInit => Typed
    BY DEF SystemInit, Typed
  <1>2. QED
    BY <1>1, TypedStep, PTL DEF SystemSpec

\* The scheduler beside the requests is an instance of DeployLifecycle: its
\* restart is a request like the others, and the rest of its tick is outside.
THEOREM ImplementsLifecycle == SystemSpec => Spec
  <1>1. SystemInit => Init
    BY DEF SystemInit
  <1>2. QED
    BY <1>1, StepMaps, TypedAlways, PTL DEF SystemSpec, Spec

\* Type correctness of the whole.
THEOREM SystemTypeCorrect == SystemSpec => []SystemTypeOK
  <1>1. TypeOK /\ Typed => SystemTypeOK
    BY DEF Typed, SystemTypeOK
  <1>2. QED
    BY <1>1, ImplementsLifecycle, TypeCorrect, TypedAlways, PTL

\* No restart of the scheduler leaves a row without its customer.
THEOREM RestartsKeepRows == SystemSpec => []RowHasCustomer
  BY ImplementsLifecycle, RowAlwaysHasCustomer, PTL

-----------------------------------------------------------------------------
(* Spacing.  The cooldown is stamped only after the restart, so between    *)
(* the two the invariant relies on the tick that restarts: it has left the *)
(* customer behind (NotAgain), the rows that it still has to come to were  *)
(* due when it loaded them (DueIsSpared), and whoever was restarted is     *)
(* stamped or is being restarted (Stamped).  A row that goes takes its     *)
(* stamp along and the next row of the customer is another one (HasRow).   *)

Stamped == \A c \in spared : c \in cooling \/ Restarting(c)
HasRow == \A c \in spared : row[c] # NULL
Owned == task[Poller] # NULL => tick # NULL /\ Cust(Poller) = tick.cust
NotAgain == tick # NULL => tick.cust \notin tick.todo
DueIsSpared == tick # NULL /\ ~tick.expired => tick.due \cap spared = {}
AskedIsSpared == Asking => tick.cust \notin spared

SpacedInv == Stamped /\ HasRow /\ Owned /\ NotAgain /\ DueIsSpared /\ AskedIsSpared

\* The tick goes on with a customer that was not restarted lately, other than
\* those it has left behind.
LEMMA AdvanceSpares ==
    ASSUME NEW todo \in SUBSET Customers, NEW due \in SUBSET Customers,
           NEW expired \in BOOLEAN, NEW recent,
           ~expired => due \cap recent = {},
           expired => \A c \in todo : c \in recent => c \in cooling,
           Advance(todo, due, expired)
    PROVE  \/ tick' = NULL
           \/ /\ tick' # NULL /\ tick'.cust \notin tick'.todo /\ tick'.cust \notin recent
              /\ ~tick'.expired => tick'.due \cap recent = {}
  <1>1. CASE tick' = NULL
    BY <1>1
  <1>2. ASSUME NEW c \in todo, NEW rest \in SUBSET (todo \ {c}),
               IF expired THEN Due(c) ELSE c \in due,
               tick' = [cust |-> c, todo |-> rest, due |-> due \cap rest, expired |-> expired]
        PROVE  /\ tick' # NULL /\ tick'.cust \notin tick'.todo /\ tick'.cust \notin recent
               /\ ~tick'.expired => tick'.due \cap recent = {}
    <2>1. tick' \in Tick
      BY <1>2 DEF Tick
    <2>2. c \notin recent
      BY <1>2 DEF Due
    <2>3. QED
      BY <1>2, <2>1, <2>2, RecordsAssumption
  <1>3. QED
    BY <1>1, <1>2 DEF Advance

\* A step of a task moves that task alone.
LEMMA StepMoves ==
    ASSUME NEW t \in Tasks, Step(t)
    PROVE  \E r : task' = [task EXCEPT ![t] = r]
  <1>p. ASSUME NEW rows, NEW dirs, Prepare(t, rows, dirs)
        PROVE  \E r : task' = [task EXCEPT ![t] = r]
    <2>1. CASE BreaksOff(t, rows, dirs)
      BY <2>1, Zenon DEF BreaksOff
    <2>2. QED
      BY <1>p, <2>1 DEF Prepare, Go
  <1>1. CASE DeployStep(t)
    BY <1>1, <1>p DEF DeployStep, BeginDeploy, DownForRedeploy, ResumeAfterDown, UpSucceeds, UpFails,
       ResumeAfterUp, CreateProxyHost, ResumeAfterProxy, AfterProxy, Record, Break, LogFails, CreateDnsRecord,
       ResumeAfterDns, RollbackDown, RollbackFiles, Go, End
  <1>2. CASE UndeployStep(t)
    BY <1>2, <1>p DEF UndeployStep, BeginUndeploy, DeleteWithoutRow, DownForUndeploy, ResumeUndeploy, RemoveDns,
       Undeployed, Abort, DeleteProxyHost, ResumeAfterProxyDelete, DeleteDnsRecord,
       FinishUndeploy, Go, End
  <1>3. CASE ComposeControl(t) \/ ResumeControl(t)
    BY <1>3 DEF ComposeControl, ResumeControl, End
  <1>4. QED
    BY <1>1, <1>2, <1>3, NoRefusal, PollerAssumption DEF Step

\* What other tasks do leaves the restart in progress alone.
LEMMA OthersSpare ==
    ASSUME Typed, SpacedInv, task'[Poller] = task[Poller], tick' = tick,
           \/ UNCHANGED <<cooling, spared>> /\ \A c \in Customers : row[c] # NULL => row'[c] # NULL
           \/ Unstamp
    PROVE  SpacedInv'
  <1>1. Stamped'
    BY DEF SpacedInv, Stamped, Restarting, Cust, Unstamp
  <1>2. HasRow'
    BY DEF SpacedInv, HasRow, Unstamp, Typed
  <1>3. Owned' /\ NotAgain'
    BY DEF SpacedInv, Owned, NotAgain, Cust
  <1>4. spared' \subseteq spared
    BY DEF Unstamp
  <1>5. DueIsSpared' /\ AskedIsSpared'
    BY <1>4 DEF SpacedInv, DueIsSpared, AskedIsSpared, Asking
  <1>6. QED
    BY <1>1, <1>2, <1>3, <1>5 DEF SpacedInv

\* The tick begins to restart the customer that it asked.
LEMMA RestartSpaced ==
    ASSUME TypeInv, Typed, SpacedInv, RestartUnreachable
    PROVE  SpacedInv' /\ \A c \in Customers : ~Restarting(c) /\ Restarting(c)' => c \notin spared
  <1> DEFINE c == tick.cust
  <1>1. tick # NULL /\ task[Poller] = NULL /\ c \in Customers /\ c \notin spared /\ c \notin tick.todo
    BY TickParts DEF RestartUnreachable, Asking, SpacedInv, AskedIsSpared, NotAgain
  <1>2. CASE tick' = NULL /\ UNCHANGED <<vars, cooling, spared>>
    BY <1>1, <1>2 DEF SpacedInv, Stamped, HasRow, Owned, NotAgain, DueIsSpared, AskedIsSpared, Asking,
       Restarting, Cust, vars
  <1>3. CASE /\ row[c] # NULL /\ Control(Poller, c)
             /\ tick' = [tick EXCEPT !.expired = TRUE]
             /\ spared' = spared \cup {c} /\ UNCHANGED cooling
    <2>1. PICK op \in {"stop", "start", "restart"}, w \in SUBSET {"row", "customer"} :
             task' = [task EXCEPT ![Poller] = [NewTask(op, c, "control") EXCEPT !.writes = w]]
      <3> DEFINE writes(op) == {x \in {"row", "customer"} :
                            \/ x = "row" /\ row[c].status # RowStatusAfter(op)
                            \/ x = "customer" /\ customer[c] # CustomerStatusAfter(op)}
      <3>1. \E op \in {"stop", "start", "restart"} :
              task' = [task EXCEPT ![Poller] = [NewTask(op, c, "control") EXCEPT !.writes = writes(op)]]
        BY <1>3 DEF Control
      <3>2. \A op : writes(op) \in SUBSET {"row", "customer"}
        OBVIOUS
      <3> HIDE DEF writes
      <3>3. QED
        BY <3>1, <3>2
    <2> DEFINE r == [NewTask(op, c, "control") EXCEPT !.writes = w]
    <2>2. r \in Task /\ r.cust = c
      BY <1>1 DEF NewTask, Task, Pcs, ControlPcs, Operations
    <2> HIDE DEF r
    <2>3. task'[Poller] = r /\ r # NULL
      BY <2>1, <2>2, PollerAssumption, RecordsAssumption DEF TypeInv, TypeOK, r
    <2>4. tick' \in Tick /\ tick'.cust = c /\ tick'.todo = tick.todo /\ tick'.expired
      BY <1>1, <1>3 DEF Typed, Tick
    <2>5. tick' # NULL /\ row' = row
      BY <1>3, <2>4, RecordsAssumption DEF Control
    <2>6. Stamped'
      BY <1>1, <1>3, <2>2, <2>3 DEF SpacedInv, Stamped, Restarting, Cust
    <2>7. HasRow' /\ Owned' /\ NotAgain' /\ DueIsSpared' /\ AskedIsSpared'
      BY <1>1, <1>3, <2>2, <2>3, <2>4, <2>5
         DEF SpacedInv, HasRow, Owned, NotAgain, DueIsSpared, AskedIsSpared, Asking, Cust
    <2>8. \A d \in Customers : Restarting(d)' => d = c
      BY <2>2, <2>3 DEF Restarting, Cust
    <2>9. QED
      BY <1>1, <2>6, <2>7, <2>8 DEF SpacedInv
  <1>4. QED
    BY <1>2, <1>3 DEF RestartUnreachable

\* The restart ends: its customer is stamped, or its row was gone and with it
\* the customer's place among those restarted lately.
LEMMA DoneSpaced ==
    ASSUME TypeInv, RowHasCustomer, Typed, SpacedInv, RestartDone
    PROVE  SpacedInv' /\ task'[Poller] = NULL
  <1> DEFINE c == tick.cust
  <1>1. tick # NULL /\ task[Poller] # NULL /\ Cust(Poller) = c /\ c \in Customers /\ c \notin tick.todo
    BY TickParts DEF RestartDone, ResumeControl, At, SpacedInv, Owned, NotAgain
  <1>2. task'[Poller] = NULL
    BY PollerAssumption DEF RestartDone, ResumeControl, End, TypeInv, TypeOK
  <1>3. \A d \in Customers : row[d] # NULL => row'[d] # NULL
    <2>1. row' = row \/ (row[c] # NULL /\ row' = [row EXCEPT ![c].status = RowStatusAfter(task[Poller].op)])
      BY <1>1 DEF RestartDone, ResumeControl
    <2>2. RowStatusAfter(task[Poller].op) \in DeploymentStatuses
      BY DEF RowStatusAfter, DeploymentStatuses
    <2>3. QED
      BY <1>1, <2>1, <2>2, StatusKeepsRow
  <1>4. spared' = spared /\ HasRow'
    BY <1>3 DEF RestartDone, SpacedInv, HasRow, Typed
  <1>5. \A d \in spared : d \in cooling \/ d = c
    BY <1>1 DEF SpacedInv, Stamped, Restarting
  <1>6. CASE row[c] # NULL /\ cooling' = cooling \cup {c} /\ Advance(tick.todo, tick.due, tick.expired)
    <2>1. \A d \in tick.todo : d \in spared => d \in cooling
      BY <1>1, <1>5
    <2>2. \/ tick' = NULL
          \/ /\ tick' # NULL /\ tick'.cust \notin tick'.todo /\ tick'.cust \notin spared
             /\ ~tick'.expired => tick'.due \cap spared = {}
      BY <1>1, <1>6, <2>1, AdvanceSpares, TickParts DEF SpacedInv, DueIsSpared
    <2>3. QED
      BY <1>2, <1>4, <1>5, <1>6, <2>2
         DEF SpacedInv, Stamped, Owned, NotAgain, DueIsSpared, AskedIsSpared, Asking
  <1>7. CASE (~Present(c) \/ row[c] = NULL) /\ tick' = NULL /\ UNCHANGED cooling
    <2>1. c \notin spared
      BY <1>1, <1>7 DEF SpacedInv, HasRow, RowHasCustomer
    <2>2. QED
      BY <1>2, <1>4, <1>5, <1>7, <2>1
         DEF SpacedInv, Stamped, Owned, NotAgain, DueIsSpared, AskedIsSpared, Asking
  <1>8. QED
    BY <1>2, <1>6, <1>7 DEF RestartDone

\* The tick goes on without a restart, or starts.
LEMMA WakeSpaced ==
    ASSUME Typed, SpacedInv, Wake \/ Answers
    PROVE  SpacedInv'
  <1>1. task[Poller] = NULL /\ UNCHANGED <<vars, cooling, spared>>
    BY DEF Wake, Answers, Asking, SpacedInv, Owned
  <1>2. \A d \in spared : d \in cooling
    BY <1>1 DEF SpacedInv, Stamped, Restarting
  <1> DEFINE Goes == \/ tick' = NULL
                     \/ /\ tick' # NULL /\ tick'.cust \notin tick'.todo /\ tick'.cust \notin spared
                        /\ ~tick'.expired => tick'.due \cap spared = {}
  <1>3. ASSUME Wake PROVE Goes
    <2> DEFINE rows == {c \in Customers : row[c] # NULL}
               due == {c \in rows : Due(c)}
    <2>1. Advance(rows, due, FALSE)
      BY <1>3 DEF Wake
    <2>2. due \cap spared = {} /\ rows \in SUBSET Customers /\ due \in SUBSET Customers
      BY <1>2 DEF Due
    <2> HIDE DEF rows, due
    <2>3. QED
      BY <2>1, <2>2, AdvanceSpares
  <1>4. ASSUME Answers PROVE Goes
    BY <1>2, <1>4, AdvanceSpares, TickParts DEF Answers, Asking, SpacedInv, DueIsSpared
  <1>5. Goes
    BY <1>3, <1>4
  <1>6. QED
    BY <1>1, <1>5
       DEF SpacedInv, Stamped, HasRow, Owned, NotAgain, DueIsSpared, AskedIsSpared, Asking, vars,
           Restarting, Cust
\* Every step keeps the invariant, and no restart begins within a cooldown of
\* the last.
LEMMA SpacedStep ==
    ASSUME TypeInv, RowHasCustomer, Typed, SpacedInv, [SystemNext]_allVars
    PROVE  SpacedInv' /\ \A c \in Customers : ~Restarting(c) /\ Restarting(c)' => c \notin spared
  <1> DEFINE Kept == SpacedInv' /\ \A c \in Customers : Restarting(c)' => Restarting(c)
  <1>0. ASSUME task'[Poller] = task[Poller], tick' = tick,
               \/ UNCHANGED <<cooling, spared>> /\ \A c \in Customers : row[c] # NULL => row'[c] # NULL
               \/ Unstamp
        PROVE  Kept
    BY <1>0, OthersSpare DEF Restarting, Cust
  <1>1. ASSUME NEW t \in Operators, NEW c \in Customers, SystemRequest(t, c) PROVE Kept
    <2>1. \E r : task' = [task EXCEPT ![t] = r]
      BY <1>1 DEF SystemRequest, Request, Create, ManualDeploy, Delete, Control
    <2>2. task'[Poller] = task[Poller] /\ row' = row
      BY <1>1, <2>1, PollerAssumption
         DEF SystemRequest, Request, Create, ManualDeploy, Delete, Control, Operators, TypeInv, TypeOK
    <2>3. QED
      BY <1>0, <1>1, <2>2 DEF SystemRequest
  <1>2. ASSUME NEW t \in Operators, SystemStep(t) PROVE Kept
    <2>1. \E r : task' = [task EXCEPT ![t] = r]
      BY <1>2, StepMoves DEF SystemStep, Operators
    <2>2. task'[Poller] = task[Poller]
      BY <2>1, PollerAssumption DEF Operators, TypeInv, TypeOK
    <2>3. QED
      BY <1>0, <1>2, <2>2 DEF SystemStep
  <1>3. ASSUME NEW c \in Customers, Loaded(c) PROVE Kept
    <2>1. CASE CheckHealth(c)
      <3>1. \E s \in DeploymentStatuses : row' = [row EXCEPT ![c].status = s]
        BY <2>1 DEF CheckHealth, DeploymentStatuses
      <3>2. \A d \in Customers : row[d] # NULL => row'[d] # NULL
        BY <2>1, <3>1, StatusKeepsRow DEF CheckHealth
      <3>3. QED
        BY <1>0, <1>3, <2>1, <3>2 DEF Loaded, CheckHealth
    <2>2. CASE UpdateCustomer(c)
      BY <1>0, <1>3, <2>2 DEF Loaded, UpdateCustomer
    <2>3. QED
      BY <1>3, <2>1, <2>2 DEF Loaded
  <1>4. ASSUME NEW c \in Customers, CooldownPasses(c) PROVE Kept
    <2>1. UNCHANGED <<vars, tick>> /\ tick = NULL /\ spared' = spared \ {c} /\ cooling' = cooling \ {c}
      BY <1>4 DEF CooldownPasses
    <2>2. QED
      BY <2>1 DEF SpacedInv, Stamped, HasRow, Owned, NotAgain, DueIsSpared, AskedIsSpared, Asking,
         Restarting, Cust, vars
  <1>5. ASSUME Wake \/ Answers PROVE Kept
    BY <1>5, WakeSpaced DEF Wake, Answers, Restarting, Cust, vars
  <1>6. ASSUME RestartCompose PROVE Kept
    <2>1. task[Poller] # NULL /\ UNCHANGED <<row, tick, cooling, spared>>
      BY <1>6 DEF RestartCompose, ComposeControl, At
    <2>2. PICK ok \in BOOLEAN :
             task' = [task EXCEPT ![Poller] = [task[Poller] EXCEPT !.pc = "controlled", !.ok = ok]]
      BY <1>6 DEF RestartCompose, ComposeControl
    <2> DEFINE r == [task[Poller] EXCEPT !.pc = "controlled", !.ok = ok]
    <2>3. task[Poller] \in Task
      BY <2>1, PollerAssumption DEF TypeInv, TypeOK
    <2>4. r \in Task /\ r.cust = task[Poller].cust
      BY <2>3 DEF Task, Pcs, ControlPcs
    <2> HIDE DEF r
    <2>5. task'[Poller] = r
      BY <2>2, PollerAssumption DEF TypeInv, TypeOK, r
    <2>6. task'[Poller] # NULL /\ Cust(Poller)' = Cust(Poller)
      BY <2>4, <2>5, RecordsAssumption DEF Cust
    <2>7. QED
      BY <2>1, <2>6
         DEF SpacedInv, Stamped, HasRow, Owned, NotAgain, DueIsSpared, AskedIsSpared, Asking, Restarting
  <1>7. ASSUME RestartDone PROVE Kept
    BY <1>7, DoneSpaced DEF Restarting
  <1>8. ASSUME UNCHANGED allVars PROVE Kept
    BY <1>0, <1>8 DEF allVars, vars
  <1>9. ASSUME SystemCrash PROVE Kept
    <2>1. task' = [t \in Tasks |-> NULL] /\ row' = row
      BY <1>9 DEF SystemCrash, Crash, vars, TypeInv, TypeOK
    <2>2. task'[Poller] = NULL
      BY <2>1, PollerAssumption
    <2>3. tick' = NULL /\ cooling' = cooling /\ spared' = {c \in spared : ~Restarting(c)}
      BY <1>9 DEF SystemCrash
    <2>4. QED
      BY <2>1, <2>2, <2>3
         DEF SpacedInv, Stamped, HasRow, Owned, NotAgain, DueIsSpared, AskedIsSpared, Asking, Restarting
  <1>10. QED
    BY <1>1, <1>2, <1>3, <1>4, <1>5, <1>6, <1>7, <1>8, <1>9, RestartSpaced
       DEF SystemNext, TickStep

\* Two automatic restarts of a customer are a cooldown apart, whatever the
\* requests do to it and to the others meanwhile, unless the appliance died
\* between the first and its stamp.
THEOREM RestartsAlwaysSpaced == SystemSpec => RestartsAreSpaced
  <1>1. SystemInit => SpacedInv
    BY PollerAssumption
       DEF SystemInit, Init, SpacedInv, Stamped, HasRow, Owned, NotAgain, DueIsSpared, AskedIsSpared, Asking
  <1>2. TypeInv /\ RowHasCustomer /\ Typed /\ SpacedInv /\ [SystemNext]_allVars => SpacedInv'
    BY SpacedStep
  <1>3. TypeInv /\ RowHasCustomer /\ Typed /\ SpacedInv /\ [SystemNext]_allVars =>
           [\A c \in Customers : ~Restarting(c) /\ Restarting(c)' => c \notin spared]_allVars
    BY SpacedStep
  <1>4. QED
    BY <1>1, <1>2, <1>3, ImplementsLifecycle, TypeAlways, RowAlwaysHasCustomer, TypedAlways, PTL
       DEF SystemSpec, RestartsAreSpaced
-----------------------------------------------------------------------------
(* Deletions.  A request hits a customer only when no other request's task *)
(* works on it (Apart), so a customer has one of them at most (OneEach)    *)
(* and is there as long as it has one (Attended): the task that removes    *)
(* the customer ends with the same step.  A task fits its operation (Fit): *)
(* a deletion never gets to compose_up, nor does the scheduler's restart.  *)

Apart == Alone \/ \A t, u \in Operators : t = u

OneEach ==
    \A t, u \in Operators : task[t] # NULL /\ task[u] # NULL /\ Cust(t) = Cust(u) => t = u
Attended == \A t \in Operators : task[t] # NULL => Present(Cust(t))

PollerRestarts == task[Poller] # NULL => task[Poller].op = "restart"

Roles == PollerRestarts /\ \A t \in Tasks : task[t] # NULL => Fit(task[t])
LoneInv == OneEach /\ Attended /\ Roles

\* A task removes its customer with its last step only.
LEMMA StepAttends ==
    ASSUME TypeInv, NEW t \in Tasks, NEW c \in Customers, c = Cust(t), Present(c), Step(t)
    PROVE  Present(c)' \/ task'[t] = NULL
  <1>e. End(t) => task'[t] = NULL
    BY DEF End, TypeInv, TypeOK
  <1>k. customer' = customer => Present(c)'
    BY DEF Present
  <1>w. ASSUME NEW s \in Statuses, customer' = [customer EXCEPT ![c] = s] PROVE Present(c)'
    BY <1>w DEF Present, Statuses, TypeInv, TypeOK
  <1>p. ASSUME NEW rows, NEW dirs, Prepare(t, rows, dirs) PROVE Present(c)'
    BY <1>p, <1>w DEF Prepare, Statuses
  <1>1. CASE BeginDeploy(t)
    BY <1>1, <1>e, <1>p DEF BeginDeploy
  <1>2. CASE ResumeAfterUp(t) \/ ResumeAfterProxy(t) \/ ResumeAfterDns(t)
    BY <1>2, <1>k, <1>e DEF ResumeAfterUp, ResumeAfterProxy, ResumeAfterDns, AfterProxy, LogFails, Break, Record, Write
  <1>3. CASE RollbackFiles(t) \/ DeleteWithoutRow(t) \/ ResumeControl(t)
    BY <1>3, <1>e DEF RollbackFiles, DeleteWithoutRow, ResumeControl
  <1>4. CASE Undeployed(t)
    BY <1>4, <1>e, <1>p DEF Undeployed
  <1>5. QED
    BY <1>1, <1>2, <1>3, <1>4, <1>e, <1>k, NoRefusal, PollerAssumption
       DEF Step, DeployStep, UndeployStep, DownForRedeploy, ResumeAfterDown, UpSucceeds, UpFails,
           CreateProxyHost, CreateDnsRecord, RollbackDown, BeginUndeploy, DownForUndeploy,
           ResumeUndeploy, DeleteProxyHost, ResumeAfterProxyDelete, DeleteDnsRecord, FinishUndeploy,
           RemoveDns, Abort, ComposeControl

\* Only compose_up makes containers where there are none.
LEMMA StepStacks ==
    ASSUME TypeInv, NEW t \in Tasks, NEW c \in Customers, c = Cust(t), stack[c] = NULL, Step(t)
    PROVE  stack'[c] = NULL \/ task[t].pc = "up"
  <1>k. stack' = stack => stack'[c] = NULL
    OBVIOUS
  <1>1. CASE DownForRedeploy(t) \/ RollbackDown(t) \/ DownForUndeploy(t)
    BY <1>1 DEF DownForRedeploy, RollbackDown, DownForUndeploy, AfterDown, TypeInv, TypeOK
  <1>2. CASE UpSucceeds(t) \/ UpFails(t)
    BY <1>2 DEF UpSucceeds, UpFails, At
  <1>3. CASE ComposeControl(t)
    <2>1. PICK s \in Stack \cup {NULL}, ok \in BOOLEAN :
             ComposeCall(c, task[t].op, s, ok) /\ stack' = [stack EXCEPT ![c] = s]
      BY <1>3 DEF ComposeControl
    <2>2. s = NULL
      BY <2>1 DEF ComposeCall
    <2>3. QED
      BY <2>1, <2>2 DEF TypeInv, TypeOK
  <1>4. CASE BeginDeploy(t)
    BY <1>4, <1>k DEF BeginDeploy, Prepare, outside
  <1>5. CASE ResumeAfterUp(t) \/ ResumeAfterProxy(t) \/ ResumeAfterDns(t)
    BY <1>5, <1>k DEF ResumeAfterUp, ResumeAfterProxy, ResumeAfterDns, AfterProxy, LogFails, Break, Record, Write, outside
  <1>6. CASE Undeployed(t)
    BY <1>6, <1>k DEF Undeployed, Prepare, outside
  <1>7. QED
    BY <1>k, <1>1, <1>2, <1>3, <1>4, <1>5, <1>6, NoRefusal, PollerAssumption
       DEF Step, DeployStep, UndeployStep, ResumeAfterDown, CreateProxyHost, CreateDnsRecord, RollbackFiles,
           BeginUndeploy, DeleteWithoutRow, ResumeUndeploy, DeleteProxyHost, ResumeAfterProxyDelete,
           DeleteDnsRecord, FinishUndeploy, RemoveDns, Abort, ResumeControl, outside

\* A step of a task, of a request or of the scheduler, keeps the invariant.
LEMMA LoneStep ==
    ASSUME TypeInv, LoneInv, NEW t \in Tasks, Step(t)
    PROVE  LoneInv'
  <1>1. task[t] # NULL /\ Fit(task[t])
    BY StepInFlight, PollerAssumption DEF LoneInv, Roles
  <1>2. PICK r : /\ task' = [task EXCEPT ![t] = r]
                 /\ r # NULL => r.cust = task[t].cust /\ r.op = task[t].op /\ Fit(r)
    BY <1>1, StepProceeds, PollerAssumption DEF Proceeds
  <1>3. task'[t] = r /\ \A u \in Tasks \ {t} : task'[u] = task[u]
    BY <1>2 DEF TypeInv, TypeOK
  <1>4. OneEach' /\ Roles'
    BY <1>1, <1>2, <1>3, PollerAssumption DEF LoneInv, OneEach, Roles, PollerRestarts, Operators, Cust
  <1>5. PICK c \in Customers : c = Cust(t)
    BY <1>1 DEF TypeInv, TypeOK, Task, Cust
  <1>6. Elsewhere(t)
    BY <1>1, StepElsewhere, PollerAssumption
  <1>7. ASSUME NEW u \in Operators, task'[u] # NULL PROVE Present(Cust(u))'
    <2>1. task[u] # NULL /\ Cust(u)' = Cust(u) /\ Cust(u) \in Customers /\ Present(Cust(u))
      BY <1>1, <1>2, <1>3, <1>7 DEF LoneInv, Attended, Operators, Cust, TypeInv, TypeOK, Task
    <2>2. PICK d \in Customers : d = Cust(u)
      BY <2>1
    <2>3. CASE d # c
      <3>1. customer'[d] = customer[d]
        BY <1>5, <1>6, <2>3 DEF Elsewhere, Same
      <3>2. QED
        BY <2>1, <2>2, <3>1 DEF Present
    <2>4. CASE d = c /\ t \in Operators
      <3>1. u = t
        BY <1>1, <1>5, <2>1, <2>2, <2>4 DEF LoneInv, OneEach
      <3>2. Present(c)'
        BY <1>5, <1>7, <2>1, <2>2, <2>4, <3>1, StepAttends
      <3>3. QED
        BY <2>1, <2>2, <2>4, <3>2 DEF Present
    <2>5. CASE d = c /\ t = Poller
      <3>1. task[t].op = "restart" /\ task[t].pc \in ControlPcs
        BY <1>1, <2>5 DEF LoneInv, Roles, PollerRestarts, Fit
      <3>2. ComposeControl(t) \/ ResumeControl(t)
        BY <3>1, NoRefusal, PollerAssumption DEF Step, DeployStep, UndeployStep, BeginDeploy, ControlPcs,
           DownForRedeploy, ResumeAfterDown, UpSucceeds, UpFails, ResumeAfterUp, CreateProxyHost,
           ResumeAfterProxy, CreateDnsRecord, ResumeAfterDns, RollbackDown, RollbackFiles,
           BeginUndeploy, DeleteWithoutRow, DownForUndeploy, ResumeUndeploy, DeleteProxyHost,
           ResumeAfterProxyDelete, DeleteDnsRecord, FinishUndeploy, At
      <3>3. customer' = customer \/ customer' = [customer EXCEPT ![c] = "active"]
        BY <1>5, <3>1, <3>2 DEF ComposeControl, ResumeControl, CustomerStatusAfter
      <3>4. QED
        BY <2>1, <2>2, <2>5, <3>3 DEF Present, TypeInv, TypeOK
    <2>6. QED
      BY <2>3, <2>4, <2>5 DEF Operators
  <1>8. QED
    BY <1>4, <1>7 DEF LoneInv, Attended

\* A request for a customer on which no request's task works.
LEMMA RequestLone ==
    ASSUME Apart, TypeInv, LoneInv, NEW t \in Operators, NEW c \in Customers, SystemRequest(t, c)
    PROVE  LoneInv'
  <1>0. /\ t \in Tasks /\ t # Poller /\ task[t] = NULL
        /\ \A u \in Operators : task[u] # NULL => Cust(u) # c
    BY DEF Apart, SystemRequest, Operators, Request, Create, ManualDeploy, Delete, Control, Free
  <1>1. PICK r : task' = [task EXCEPT ![t] = r] /\ r.cust = c /\ Fit(r)
    <2>1. CASE Create(t, c) \/ ManualDeploy(t, c) \/ Delete(t, c)
      <3>1. PICK op \in {"create", "redeploy", "reinstall", "delete"} :
               task' = [task EXCEPT ![t] = NewTask(op, c, "queued")]
        BY <2>1 DEF Create, ManualDeploy, Delete
      <3>2. PICK r : r = NewTask(op, c, "queued")
        OBVIOUS
      <3>3. r.cust = c /\ r.op = op /\ r.pc = "queued"
        BY <3>2 DEF NewTask
      <3>4. Fit(r)
        BY <3>3 DEF Fit, DeployPcs, ControlPcs
      <3>5. QED
        BY <3>1, <3>2, <3>3, <3>4
    <2>2. CASE Control(t, c)
      <3>0. PICK op \in {"stop", "start", "restart"} :
               \E w : task' = [task EXCEPT ![t] = [NewTask(op, c, "control") EXCEPT !.writes = w]]
        BY <2>2 DEF Control
      <3>1. PICK w : task' = [task EXCEPT ![t] = [NewTask(op, c, "control") EXCEPT !.writes = w]]
        BY <3>0
      <3>2. PICK r : r = [NewTask(op, c, "control") EXCEPT !.writes = w]
        OBVIOUS
      <3>3. r.cust = c /\ r.op = op /\ r.pc = "control" /\ r.port = NULL
        BY <3>2 DEF NewTask
      <3>4. Fit(r)
        BY <3>3 DEF Fit, ControlPcs
      <3>5. QED
        BY <3>1, <3>2, <3>3, <3>4
    <2>3. QED
      BY <2>1, <2>2 DEF SystemRequest, Request
  <1>2. task'[t] = r /\ \A u \in Tasks \ {t} : task'[u] = task[u]
    BY <1>0, <1>1 DEF TypeInv, TypeOK
  <1>3. OneEach' /\ Roles'
    BY <1>0, <1>1, <1>2, PollerAssumption DEF LoneInv, OneEach, Roles, PollerRestarts, Operators, Cust
  <1>4. /\ Present(c)'
        /\ \A d \in Customers \ {c} : customer'[d] = customer[d]
    BY DEF SystemRequest, Request, Create, ManualDeploy, Delete, Control, Present, TypeInv, TypeOK
  <1>5. ASSUME NEW u \in Operators, task'[u] # NULL PROVE Present(Cust(u))'
    <2>1. CASE u = t
      BY <1>1, <1>2, <1>4, <2>1 DEF Present, Cust
    <2>2. CASE u # t
      <3>1. task[u] # NULL /\ Cust(u)' = Cust(u) /\ Cust(u) \in Customers \ {c} /\ Present(Cust(u))
        BY <1>0, <1>2, <1>5, <2>2 DEF LoneInv, Attended, Operators, Cust, TypeInv, TypeOK, Task
      <3>2. QED
        BY <1>4, <3>1 DEF Present
    <2>3. QED
      BY <2>1, <2>2
  <1>6. QED
    BY <1>3, <1>5 DEF LoneInv, Attended
\* The scheduler begins to restart a customer.
LEMMA RestartLone ==
    ASSUME TypeInv, Typed, LoneInv, RestartUnreachable
    PROVE  LoneInv'
  <1>1. CASE UNCHANGED vars
    BY <1>1 DEF LoneInv, OneEach, Attended, Roles, PollerRestarts, Cust, Present, vars
  <1>2. ASSUME NEW c, Control(Poller, c), task'[Poller].op = "restart" PROVE LoneInv'
    <2>1. PICK op \in {"stop", "start", "restart"} :
             \E w : task' = [task EXCEPT ![Poller] = [NewTask(op, c, "control") EXCEPT !.writes = w]]
      BY <1>2 DEF Control
    <2>2. PICK w : task' = [task EXCEPT ![Poller] = [NewTask(op, c, "control") EXCEPT !.writes = w]]
      BY <2>1
    <2>3. PICK r : r = [NewTask(op, c, "control") EXCEPT !.writes = w]
      OBVIOUS
    <2>4. r.op = op /\ r.pc = "control" /\ r.port = NULL
      BY <2>3 DEF NewTask
    <2>5. Fit(r)
      BY <2>4 DEF Fit, ControlPcs
    <2>6. task'[Poller] = r /\ \A u \in Tasks \ {Poller} : task'[u] = task[u]
      BY <2>2, <2>3, PollerAssumption DEF TypeInv, TypeOK
    <2>7. customer' = customer
      BY <1>2 DEF Control
    <2>8. QED
      BY <1>2, <2>5, <2>6, <2>7
         DEF LoneInv, OneEach, Attended, Roles, PollerRestarts, Operators, Cust, Present
  <1>3. QED
    BY <1>1, <1>2 DEF RestartUnreachable

\* Every step of the system keeps the invariant.
LEMMA LoneSystem ==
    ASSUME Apart, TypeInv, Typed, LoneInv, [SystemNext]_allVars
    PROVE  LoneInv'
  <1>0. Poller \in Tasks
    BY PollerAssumption
  <1>1. ASSUME NEW t \in Operators, SystemStep(t) PROVE LoneInv'
    BY <1>1, LoneStep DEF SystemStep, Operators
  <1>2. CASE RestartCompose \/ RestartDone
    BY <1>0, <1>2, LoneStep DEF RestartCompose, RestartDone, Step
  <1>3. ASSUME NEW c \in Customers, Loaded(c) PROVE LoneInv'
    <2>1. task' = task /\ \A d \in Customers : Present(d) => Present(d)'
      BY <1>3, ManualStatusesAssumption
         DEF Loaded, CheckHealth, UpdateCustomer, Present, Statuses, TypeInv, TypeOK
    <2>2. ASSUME NEW u \in Operators, task'[u] # NULL PROVE Present(Cust(u))'
      <3>1. Cust(u) \in Customers /\ Present(Cust(u)) /\ Cust(u)' = Cust(u)
        BY <2>1, <2>2 DEF LoneInv, Attended, Operators, Cust, TypeInv, TypeOK, Task
      <3>2. PICK d \in Customers : d = Cust(u)
        BY <3>1
      <3>3. Present(d)'
        BY <2>1, <3>1, <3>2
      <3>4. QED
        BY <3>1, <3>2, <3>3 DEF Present
    <2>3. QED
      BY <2>1, <2>2 DEF LoneInv, OneEach, Attended, Roles, PollerRestarts, Cust
  <1>4. CASE SystemCrash
    <2>1. CASE Crash
      BY <2>1, <1>0 DEF Crash, LoneInv, OneEach, Attended, Roles, PollerRestarts, Operators
    <2>2. CASE UNCHANGED vars
      BY <2>2 DEF LoneInv, OneEach, Attended, Roles, PollerRestarts, Cust, Present, vars
    <2>3. QED
      BY <1>4, <2>1, <2>2 DEF SystemCrash
  <1>5. CASE UNCHANGED vars
    BY <1>5 DEF LoneInv, OneEach, Attended, Roles, PollerRestarts, Cust, Present, vars
  <1>6. QED
    BY <1>1, <1>2, <1>3, <1>4, <1>5, RequestLone, RestartLone
       DEF SystemNext, TickStep, Wake, Answers, CooldownPasses, allVars

LEMMA LoneAlways ==
    ASSUME Apart
    PROVE  SystemSpec => []LoneInv
  <1>1. SystemInit => LoneInv
    BY PollerAssumption
       DEF SystemInit, Init, LoneInv, OneEach, Attended, Roles, PollerRestarts, Operators
  <1>2. TypeInv /\ Typed /\ LoneInv /\ [SystemNext]_allVars => LoneInv'
    BY LoneSystem
  <1>3. QED
    BY <1>1, <1>2, ImplementsLifecycle, TypeAlways, TypedAlways, PTL DEF SystemSpec

\* No step makes containers for a customer that is being deleted.
LEMMA DeletingStep ==
    ASSUME TypeInv, Typed, LoneInv, [SystemNext]_allVars,
           NEW c \in Customers, Deleting(c), stack[c] = NULL
    PROVE  stack'[c] = NULL
  <1>1. ASSUME NEW t \in Tasks, Step(t) PROVE stack'[c] = NULL
    <2>1. task[t] # NULL /\ Fit(task[t])
      BY <1>1, StepInFlight, PollerAssumption DEF LoneInv, Roles
    <2>2. CASE Cust(t) # c
      BY <1>1, <2>1, <2>2, StepElsewhere, PollerAssumption DEF Elsewhere, Same
    <2>3. CASE Cust(t) = c /\ task[t].pc = "up"
      <3>1. t # Poller
        BY <2>1, <2>3 DEF LoneInv, Roles, PollerRestarts, Fit, ControlPcs
      <3>2. t \in Operators /\ Present(c)
        BY <2>1, <2>3, <3>1 DEF Operators, LoneInv, Attended
      <3>3. PICK u \in Operators : InFlight(u, c, "delete")
        BY <3>2 DEF Deleting
      <3>4. u = t
        BY <2>1, <2>3, <3>2, <3>3 DEF InFlight, LoneInv, OneEach
      <3>5. QED
        BY <2>1, <2>3, <3>3, <3>4 DEF InFlight, Fit, UndeployPcs
    <2>4. CASE Cust(t) = c /\ task[t].pc # "up"
      BY <1>1, <2>4, StepStacks
    <2>5. QED
      BY <2>2, <2>3, <2>4
  <1>2. ASSUME NEW t \in Operators, SystemStep(t) PROVE stack'[c] = NULL
    BY <1>1, <1>2 DEF SystemStep, Operators
  <1>3. CASE RestartCompose \/ RestartDone
    BY <1>1, <1>3, PollerAssumption DEF RestartCompose, RestartDone, Step
  <1>4. ASSUME NEW t \in Operators, NEW d \in Customers, SystemRequest(t, d) PROVE stack' = stack
    BY <1>4 DEF SystemRequest, Request, Create, ManualDeploy, Delete, Control, outside
  <1>5. ASSUME NEW d \in Customers, Loaded(d) \/ CooldownPasses(d) PROVE stack' = stack
    BY <1>5 DEF Loaded, CheckHealth, UpdateCustomer, CooldownPasses, outside, vars
  <1>6. Wake \/ Answers \/ RestartUnreachable \/ SystemCrash \/ UNCHANGED allVars => stack' = stack
    BY DEF Wake, Answers, RestartUnreachable, Control, SystemCrash, Crash, outside, vars, allVars
  <1>7. QED
    BY <1>2, <1>3, <1>4, <1>5, <1>6 DEF SystemNext, TickStep

\* Whatever fails, and whether or not the appliance dies, the scheduler brings
\* back no containers that a deletion has taken down, and nothing brings back
\* those of a deleted customer before it is created again: compose restart
\* makes no containers, and only a deployment gets to compose_up.  Requests that
\* overlap on one customer are ruled out: a deployment that resumes beside a
\* deletion does bring them back.
THEOREM DeletedAlwaysStaysDeleted ==
    ASSUME Alone \/ \A t, u \in Operators : t = u
    PROVE  SystemSpec => DeletedStaysDeleted
  <1>0. Apart
    BY DEF Apart
  <1>1. TypeInv /\ Typed /\ LoneInv /\ [SystemNext]_allVars =>
           [\A c \in Customers : Deleting(c) /\ stack[c] = NULL => stack'[c] = NULL]_allVars
    BY DeletingStep
  <1>2. QED
    BY <1>0, <1>1, LoneAlways, ImplementsLifecycle, TypeAlways, TypedAlways, PTL
       DEF SystemSpec, DeletedStaysDeleted

\* The scheduler does not separate a datastore key from its data either.
THEOREM RestartsKeepKeys ==
    ASSUME "rmtree" \notin Faults, "torn" \notin Faults
    PROVE  SystemSpec => []KeyFitsData
  BY ImplementsLifecycle, KeyAlwaysFits, PTL

-----------------------------------------------------------------------------
(* Deployments and deletions end with their work done.  With one request   *)
(* at a time beside the scheduler, no commit of a deployment is refused    *)
(* (Steady): its port is in no other row, because the scheduler's restart  *)
(* has none to record (SolePort), and its customer is there, because       *)
(* nobody else removes it (Attended).  For the same reason the row that an *)
(* undeployment found is there until it removes it.                        *)

Steady(t) ==
    task[t] # NULL => ~task[t].broken /\ (task[t].pc \in UndeployPcs => row[Cust(t)] # NULL)
WorkInv == UniqueInv /\ (\A t \in Operators : Steady(t)) /\ DeployingIsWorkedOn

\* What the theorems are about.
OneByOne ==
    /\ \A t, u \in Operators : t = u
    /\ "crash" \notin Faults /\ "deploying" \notin ManualStatuses

\* A task of customer c goes on unbroken, or ends with the customer in another
\* status than deploying, and gone if it was to be deleted.
Concludes(t, c) ==
    /\ \E r : /\ task' = [task EXCEPT ![t] = r]
              /\ r # NULL => /\ r.cust = c /\ r.op = task[t].op /\ ~r.broken
                             /\ r.pc \in UndeployPcs => row'[c] # NULL
              /\ r = NULL => customer'[c] # "deploying" /\ (task[t].op = "delete" => ~Present(c)')
    /\ customer'[c] = "deploying" => customer[c] = "deploying" \/ task[t].op \in Deployments

\* What is known of a request's task when it runs.
Running(t, c) ==
    /\ c = Cust(t) /\ c \in Customers /\ task[t] \in Task /\ task[t] # NULL
    /\ Fit(task[t]) /\ Present(c) /\ ~task[t].broken
    /\ task[t].pc \in UndeployPcs => row[c] # NULL
    /\ customer[c] = "deploying" => task[t].op \in Deployments
    /\ task[t].pc \in {"upped", "npmed", "dnsed"} =>
          \A d \in Customers \ {c} : row[d] # NULL => row[d].port # task[t].port

\* A step of the task that replaces its record by r.
LEMMA MoveConcludes ==
    ASSUME NEW t \in Tasks, NEW c, Running(t, c), NEW r \in Task, task' = [task EXCEPT ![t] = r],
           r.cust = c, r.op = task[t].op, ~r.broken, customer' = customer, row' = row,
           r.pc \in UndeployPcs => row[c] # NULL
    PROVE  Concludes(t, c)
  <1>1. r # NULL
    BY TaskAssumption
  <1>2. QED
    BY <1>1 DEF Concludes

\* Go moves the task to another position.
LEMMA GoConcludes ==
    ASSUME NEW t \in Tasks, NEW c, Running(t, c), NEW pc \in Pcs, Go(t, pc),
           customer' = customer, row' = row, pc \in UndeployPcs => row[c] # NULL
    PROVE  Concludes(t, c)
  <1> DEFINE r == [task[t] EXCEPT !.pc = pc]
  <1>1. r \in Task /\ r.cust = c /\ r.op = task[t].op /\ ~r.broken /\ r.pc = pc
    BY DEF Running, Task, Cust
  <1>2. task' = [task EXCEPT ![t] = r]
    BY DEF Go
  <1>3. QED
    BY <1>1, <1>2, MoveConcludes

\* Prepare goes on with the deployment.
LEMMA PrepareConcludes ==
    ASSUME TypeInv, NEW t \in Tasks, NEW c, Running(t, c), task[t].op \in Deployments,
           NEW rows \in [Customers -> Row \cup {NULL}], NEW dirs, Prepare(t, rows, dirs)
    PROVE  Concludes(t, c)
  <1>1. ASSUME NEW r \in Task, task' = [task EXCEPT ![t] = r],
               r.cust = c, r.op = task[t].op, ~r.broken, r.pc \notin UndeployPcs
        PROVE  Concludes(t, c)
    <2>1. r # NULL
      BY TaskAssumption
    <2>2. QED
      BY <1>1, <2>1 DEF Concludes
  <1>2. ASSUME NEW p \in PortsFor(c, rows), NEW pc \in {"down", "up"}, NEW had \in BOOLEAN, NEW data \in BOOLEAN,
               task' = [task EXCEPT ![t] = [@ EXCEPT !.pc = pc, !.port = p, !.hadRow = had, !.made = TRUE,
                                                     !.hadData = data]]
        PROVE  Concludes(t, c)
    <2> DEFINE r == [task[t] EXCEPT !.pc = pc, !.port = p, !.hadRow = had, !.made = TRUE, !.hadData = data]
    <2>1. p \in Ports
      BY PortsForType DEF Running
    <2>2. r \in Task /\ r.cust = c /\ r.op = task[t].op /\ ~r.broken /\ r.pc = pc
      BY <2>1 DEF Running, Task, Cust, Pcs, DeployPcs
    <2>3. QED
      BY <1>1, <1>2, <2>2 DEF UndeployPcs
  <1>3. ASSUME Go(t, "undo") PROVE Concludes(t, c)
    <2> DEFINE r == [task[t] EXCEPT !.pc = "undo"]
    <2>1. r \in Task /\ r.cust = c /\ r.op = task[t].op /\ ~r.broken /\ r.pc = "undo"
      BY DEF Running, Task, Cust, Pcs, DeployPcs
    <2>2. QED
      BY <1>1, <1>3, <2>1 DEF Go, UndeployPcs
  <1>4. ASSUME NEW p \in PortsFor(c, rows),
               task' = [task EXCEPT ![t] = [@ EXCEPT
                            !.pc = IF rows[c] # NULL THEN "down" ELSE "up",
                            !.port = p, !.hadRow = rows[c] # NULL, !.made = TRUE,
                            !.hadData = dirs[c].data # NULL]]
        PROVE  Concludes(t, c)
    <2>1. PICK pc \in {"down", "up"} : pc = IF rows[c] # NULL THEN "down" ELSE "up"
      OBVIOUS
    <2>2. PICK had \in BOOLEAN : had = (rows[c] # NULL)
      OBVIOUS
    <2>3. PICK data \in BOOLEAN : data = (dirs[c].data # NULL)
      OBVIOUS
    <2>4. QED
      BY <1>2, <1>4, <2>1, <2>2, <2>3
  <1>5. CASE BreaksOff(t, rows, dirs)
    <2>1. PICK r \in Task : /\ task' = [task EXCEPT ![t] = r]
                            /\ r.op = task[t].op /\ r.cust = Cust(t) /\ r.pc = "undo" /\ ~r.broken
      BY <1>5, BreaksOffShape, PollerAssumption DEF Running, Cust
    <2>2. QED
      BY <1>1, <2>1 DEF Running, UndeployPcs
  <1>6. QED
    BY <1>3, <1>4, <1>5 DEF Prepare, Running

\* The commit of a deployment goes through and ends the task.
LEMMA RecordConcludes ==
    ASSUME TypeInv, NEW t \in Tasks, NEW c, Running(t, c), task[t].pc \in {"upped", "npmed", "dnsed"},
           NEW proxy, Record(t, proxy)
    PROVE  Concludes(t, c)
  <1>1. customer' = [customer EXCEPT ![c] = "active"] /\ End(t)
    BY DEF Record, Write, Conflict, Running
  <1>2. customer'[c] = "active" /\ task[t].op # "delete"
    BY <1>1 DEF TypeInv, TypeOK, Running, Fit, UndeployPcs
  <1>3. QED
    BY <1>1, <1>2 DEF Concludes, End

\* After the proxy step the task waits for DNS, or records the deployment.
LEMMA AfterProxyConcludes ==
    ASSUME TypeInv, NEW t \in Tasks, NEW c, Running(t, c), task[t].pc \in {"upped", "npmed"},
           NEW proxy \in BOOLEAN, AfterProxy(t, proxy)
    PROVE  Concludes(t, c)
  <1>1. ASSUME task' = [task EXCEPT ![t] = [@ EXCEPT !.pc = "dns", !.proxy = proxy]],
               customer' = customer, row' = row
        PROVE  Concludes(t, c)
    <2> DEFINE r == [task[t] EXCEPT !.pc = "dns", !.proxy = proxy]
    <2>1. r \in Task /\ r.cust = c /\ r.op = task[t].op /\ ~r.broken /\ r.pc = "dns"
      BY DEF Running, Task, Cust, Pcs, DeployPcs
    <2>2. QED
      BY <1>1, <2>1, MoveConcludes DEF UndeployPcs
  <1>2. QED
    BY <1>1, RecordConcludes DEF AfterProxy

\* Every step of a deployment.
LEMMA DeployConcludes ==
    ASSUME TypeInv, NEW t \in Tasks, NEW c, Running(t, c), DeployStep(t)
    PROVE  Concludes(t, c)
  <1>g. ASSUME NEW pc \in DeployPcs, Go(t, pc), customer' = customer, row' = row PROVE Concludes(t, c)
    BY <1>g, GoConcludes DEF Pcs, DeployPcs, UndeployPcs
  <1>l. ~LogFails(t)
    BY DEF LogFails, CanLog, Running
  <1>1. CASE BeginDeploy(t)
    <2>1. task[t].op \in Deployments /\ Prepare(t, row, files)
      BY <1>1 DEF BeginDeploy, Deployments, Running
    <2>2. QED
      BY <2>1, PrepareConcludes DEF TypeInv, TypeOK
  <1>2. CASE DownForRedeploy(t) \/ UpSucceeds(t) \/ UpFails(t) \/ CreateDnsRecord(t) \/ RollbackDown(t)
    BY <1>2, <1>g DEF DownForRedeploy, UpSucceeds, UpFails, CreateDnsRecord, RollbackDown, DeployPcs
  <1>3. CASE ResumeAfterDown(t)
    <2>1. /\ task' = [task EXCEPT ![t] = [@ EXCEPT !.pc = "up", !.broken = FALSE]]
          /\ customer' = customer /\ row' = row
      BY <1>3 DEF ResumeAfterDown, Running
    <2> DEFINE r == [task[t] EXCEPT !.pc = "up", !.broken = FALSE]
    <2>2. r \in Task /\ r.cust = c /\ r.op = task[t].op /\ ~r.broken /\ r.pc = "up"
      BY DEF Running, Task, Cust, Pcs, DeployPcs
    <2>3. QED
      BY <2>1, <2>2, MoveConcludes DEF UndeployPcs
  <1>4. CASE ResumeAfterUp(t)
    <2>1. CASE Go(t, "undo") /\ customer' = customer /\ row' = row
      BY <1>g, <2>1 DEF DeployPcs
    <2>2. CASE Go(t, "npm") /\ customer' = customer /\ row' = row
      BY <1>g, <2>2 DEF DeployPcs
    <2>3. ASSUME task[t].hadRow => row[c] # NULL, AfterProxy(t, task[t].hadRow /\ row[c].npm)
          PROVE  Concludes(t, c)
      <3>1. (task[t].hadRow /\ row[c].npm) \in BOOLEAN
        OBVIOUS
      <3>2. task[t].pc = "upped"
        BY <1>4 DEF ResumeAfterUp, At
      <3>3. QED
        BY <2>3, <3>1, <3>2, AfterProxyConcludes
    <2>4. QED
      BY <1>4, <1>l, <2>1, <2>2, <2>3 DEF ResumeAfterUp, Running
  <1>5. CASE CreateProxyHost(t)
    <2>1. PICK told \in BOOLEAN :
             task' = [task EXCEPT ![t] = [@ EXCEPT !.pc = "npmed", !.proxy = told]]
      BY <1>5 DEF CreateProxyHost
    <2> DEFINE r == [task[t] EXCEPT !.pc = "npmed", !.proxy = told]
    <2>2. r \in Task /\ r.cust = c /\ r.op = task[t].op /\ ~r.broken /\ r.pc = "npmed"
      BY DEF Running, Task, Cust, Pcs, DeployPcs
    <2>3. QED
      BY <1>5, <2>1, <2>2, MoveConcludes DEF CreateProxyHost, UndeployPcs
  <1>6. CASE ResumeAfterProxy(t)
    <2>1. task[t].pc = "npmed" /\ task[t].proxy \in BOOLEAN
      BY <1>6 DEF ResumeAfterProxy, At, Running, Task
    <2>2. QED
      BY <1>6, <1>l, <2>1, AfterProxyConcludes DEF ResumeAfterProxy
  <1>7. CASE ResumeAfterDns(t)
    BY <1>7, <1>l, RecordConcludes DEF ResumeAfterDns, At
  <1>8. CASE RollbackFiles(t)
    <2>1. customer' = [customer EXCEPT ![c] = "error"] /\ End(t) /\ task[t].pc = "undone"
      BY <1>8 DEF RollbackFiles, Running, At
    <2>2. customer'[c] = "error" /\ task[t].op # "delete"
      BY <2>1 DEF TypeInv, TypeOK, Running, Fit, UndeployPcs
    <2>3. QED
      BY <2>1, <2>2 DEF Concludes, End
  <1>9. QED
    BY <1>1, <1>2, <1>3, <1>4, <1>5, <1>6, <1>7, <1>8 DEF DeployStep

\* Every step of an undeployment.
LEMMA UndeployConcludes ==
    ASSUME TypeInv, NEW t \in Tasks, NEW c, Running(t, c), UndeployStep(t)
    PROVE  Concludes(t, c)
  <1>g. ASSUME NEW pc \in UndeployPcs, row[c] # NULL, Go(t, pc), customer' = customer, row' = row
        PROVE  Concludes(t, c)
    BY <1>g, GoConcludes DEF Pcs
  <1>1. CASE BeginUndeploy(t)
    BY <1>1, <1>g DEF BeginUndeploy, Running, UndeployPcs
  <1>d. ASSUME task[t].op = "delete", customer' = [customer EXCEPT ![c] = "absent"], End(t)
        PROVE  Concludes(t, c)
    <2>1. customer'[c] = "absent"
      BY <1>d DEF TypeInv, TypeOK, Running
    <2>2. QED
      BY <1>d, <2>1 DEF Concludes, End, Present
  <1>2. CASE DeleteWithoutRow(t)
    BY <1>2, <1>d DEF DeleteWithoutRow, Running
  <1>3. CASE task[t].pc \in UndeployPcs /\ Undeployed(t)
    <2>1. CASE task[t].op = "delete"
      BY <1>3, <1>d, <2>1 DEF Undeployed, Running
    <2>2. CASE task[t].op # "delete"
      <3> DEFINE rows == [row EXCEPT ![c] = NULL]
      <3>1. PICK dirs : task[t].op = "reinstall" /\ Prepare(t, rows, dirs)
        BY <1>3, <2>2 DEF Undeployed, Running
      <3>2. rows \in [Customers -> Row \cup {NULL}]
        BY DEF TypeInv, TypeOK
      <3>3. QED
        BY <3>1, <3>2, PrepareConcludes DEF Deployments
    <2>3. QED
      BY <2>1, <2>2
  <1>4. CASE DownForUndeploy(t) \/ DeleteProxyHost(t) \/ DeleteDnsRecord(t)
    BY <1>4, <1>g DEF DownForUndeploy, DeleteProxyHost, DeleteDnsRecord, At, Running, UndeployPcs
  <1>5. CASE ResumeUndeploy(t) \/ ResumeAfterProxyDelete(t) \/ FinishUndeploy(t)
    <2>1. task[t].pc \in UndeployPcs /\ row[c] # NULL
      BY <1>5 DEF ResumeUndeploy, ResumeAfterProxyDelete, FinishUndeploy, At, Running, UndeployPcs
    <2>2. ASSUME Go(t, "uNpm") \/ Go(t, "uDns"), customer' = customer, row' = row PROVE Concludes(t, c)
      BY <1>g, <2>1, <2>2 DEF UndeployPcs
    <2>3. QED
      BY <1>3, <1>5, <2>1, <2>2
         DEF ResumeUndeploy, ResumeAfterProxyDelete, FinishUndeploy, RemoveDns, Abort, Running
  <1>6. QED
    BY <1>1, <1>2, <1>4, <1>5 DEF UndeployStep

\* start, stop and restart.
LEMMA ControlConcludes ==
    ASSUME TypeInv, NEW t \in Tasks, NEW c, Running(t, c), ComposeControl(t) \/ ResumeControl(t)
    PROVE  Concludes(t, c)
  <1>1. task[t].pc \in ControlPcs /\ task[t].op \notin Deployments \cup {"delete"}
    BY DEF ComposeControl, ResumeControl, At, ControlPcs, Running, Fit, Deployments, DeployPcs, UndeployPcs
  <1>2. CASE ComposeControl(t)
    <2>1. PICK ok \in BOOLEAN :
             task' = [task EXCEPT ![t] = [@ EXCEPT !.pc = "controlled", !.ok = ok]]
      BY <1>2 DEF ComposeControl
    <2> DEFINE r == [task[t] EXCEPT !.pc = "controlled", !.ok = ok]
    <2>2. r \in Task /\ r.cust = c /\ r.op = task[t].op /\ ~r.broken /\ r.pc = "controlled"
      BY DEF Running, Task, Cust, Pcs, ControlPcs
    <2>3. QED
      BY <1>2, <2>1, <2>2, MoveConcludes DEF ComposeControl, UndeployPcs
  <1>3. CASE ResumeControl(t)
    <2>1. customer[c] # "deploying"
      BY <1>1 DEF Running
    <2>2. customer'[c] # "deploying" /\ End(t)
      BY <1>3, <2>1 DEF ResumeControl, CustomerStatusAfter, Running, TypeInv, TypeOK
    <2>3. QED
      BY <1>1, <2>2 DEF Concludes, End
  <1>4. QED
    BY <1>2, <1>3
\* A step of a request's task keeps the invariant.
LEMMA OperatorWorks ==
    ASSUME OneByOne, TypeInv, LoneInv, WorkInv, UniqueInv', NEW t \in Operators, Step(t)
    PROVE  /\ WorkInv'
           /\ \A c \in Customers :
                 InFlight(t, c, "delete") /\ ~InFlight(t, c, "delete")' => ~Present(c)'
  <1>0. t \in Tasks /\ task[t] # NULL /\ \A u \in Operators : u = t
    BY StepInFlight, PollerAssumption DEF Operators, OneByOne
  <1>1. PICK c \in Customers : c = Cust(t)
    BY <1>0 DEF TypeInv, TypeOK, Task, Cust
  <1>2. Running(t, c)
    <2>1. task[t] \in Task /\ Fit(task[t]) /\ Present(c) /\ Steady(t)
      BY <1>0, <1>1 DEF TypeInv, TypeOK, LoneInv, Roles, Attended, WorkInv
    <2>2. customer[c] = "deploying" => task[t].op \in Deployments
      BY <1>0 DEF WorkInv, DeployingIsWorkedOn, InFlight, Deployments
    <2>3. task[t].pc \in WithPort => task[t].port # NULL
      BY <1>0, PortsAssumption DEF TypeInv, PortKnown, Ports
    <2>4. task[t].pc \in WithPort =>
             \A d \in Customers \ {c} : row[d] # NULL => row[d].port # task[t].port
      BY <1>0, <1>1, <2>3 DEF WorkInv, UniqueInv, TaskPort, Cust
    <2>5. QED
      BY <1>0, <1>1, <2>1, <2>2, <2>4 DEF Running, Steady, WithPort
  <1>3. Concludes(t, c)
    BY <1>0, <1>2, DeployConcludes, UndeployConcludes, ControlConcludes, NoRefusal, PollerAssumption DEF Step
  <1>4. PICK r : /\ task' = [task EXCEPT ![t] = r]
                 /\ r # NULL => /\ r.cust = c /\ r.op = task[t].op /\ ~r.broken
                                /\ r.pc \in UndeployPcs => row'[c] # NULL
                 /\ r = NULL => customer'[c] # "deploying" /\ (task[t].op = "delete" => ~Present(c)')
    BY <1>3 DEF Concludes
  <1>5. task'[t] = r
    BY <1>0, <1>4 DEF TypeInv, TypeOK
  <1>6. \A u \in Operators : Steady(u)'
    BY <1>0, <1>4, <1>5 DEF Steady, Cust
  <1>7. ASSUME NEW d \in Customers, customer'[d] = "deploying"
        PROVE  \E u \in Operators, op \in Deployments : InFlight(u, d, op)'
    <2>1. CASE d = c
      <3>1. customer[c] = "deploying" \/ task[t].op \in Deployments
        BY <1>3, <1>7, <2>1 DEF Concludes
      <3>2. task[t].op \in Deployments
        BY <1>2, <3>1 DEF Running
      <3>3. r # NULL
        BY <1>4, <1>7, <2>1
      <3>4. InFlight(t, d, r.op)' /\ r.op \in Deployments
        BY <1>4, <1>5, <2>1, <3>2, <3>3 DEF InFlight, Cust
      <3>5. QED
        BY <3>4
    <2>2. CASE d # c
      <3>1. customer[d] = "deploying"
        BY <1>0, <1>1, <1>7, <2>2, StepElsewhere, PollerAssumption DEF Elsewhere, Same
      <3>2. PICK u \in Operators : task[u] # NULL /\ Cust(u) = d
        BY <3>1 DEF WorkInv, DeployingIsWorkedOn, InFlight
      <3>3. QED
        BY <1>0, <1>1, <2>2, <3>2
    <2>3. QED
      BY <2>1, <2>2
  <1>8. DeployingIsWorkedOn'
    BY <1>7 DEF DeployingIsWorkedOn, Deployments
  <1>9. ASSUME NEW d \in Customers, InFlight(t, d, "delete"), ~InFlight(t, d, "delete")'
        PROVE  ~Present(d)'
    <2>1. d = c /\ task[t].op = "delete"
      BY <1>1, <1>9 DEF InFlight
    <2>2. r = NULL
      BY <1>4, <1>5, <1>9, <2>1 DEF InFlight, Cust
    <2>3. ~Present(c)'
      BY <1>4, <2>1, <2>2
    <2>4. QED
      BY <2>1, <2>3 DEF Present
  <1>10. QED
    BY <1>6, <1>8, <1>9 DEF WorkInv

\* So does what others do, which leaves the request's task alone, removes no
\* row and shows no customer as deploying.
LEMMA OthersWork ==
    ASSUME TypeInv, WorkInv, UniqueInv', \A t \in Operators : task'[t] = task[t],
           \A c \in Customers : row[c] # NULL => row'[c] # NULL,
           \A c \in Customers : customer'[c] = "deploying" => customer[c] = "deploying"
    PROVE  WorkInv' /\ \A t \in Operators, c \in Customers : InFlight(t, c, "delete")' = InFlight(t, c, "delete")
  <1>1. ASSUME NEW t \in Operators PROVE Steady(t)'
    <2>1. task[t] # NULL => Cust(t) \in Customers
      BY DEF Operators, TypeInv, TypeOK, Task, Cust
    <2>2. QED
      BY <2>1 DEF WorkInv, Steady, Cust
  <1>2. DeployingIsWorkedOn'
    <2>1. ASSUME NEW c \in Customers, customer'[c] = "deploying"
          PROVE  \E t \in Operators, op \in Deployments : InFlight(t, c, op)'
      <3>1. PICK t \in Operators, op \in Deployments : InFlight(t, c, op)
        BY <2>1 DEF WorkInv, DeployingIsWorkedOn, Deployments
      <3>2. InFlight(t, c, op)'
        BY <3>1 DEF InFlight, Cust
      <3>3. QED
        BY <3>2
    <2>2. QED
      BY <2>1 DEF DeployingIsWorkedOn, Deployments
  <1>3. QED
    BY <1>1, <1>2 DEF WorkInv, InFlight, Cust

\* A step of the scheduler's restart.
LEMMA PollerWorks ==
    ASSUME TypeInv, LoneInv, WorkInv, UniqueInv', Step(Poller)
    PROVE  WorkInv' /\ \A t \in Operators, c \in Customers : InFlight(t, c, "delete")' = InFlight(t, c, "delete")
  <1>0. Poller \in Tasks /\ task[Poller] # NULL
    BY PollerAssumption, StepInFlight
  <1>1. PICK c \in Customers : c = Cust(Poller)
    BY <1>0 DEF TypeInv, TypeOK, Task, Cust
  <1>2. task[Poller].op = "restart" /\ task[Poller].pc \in ControlPcs
    BY <1>0 DEF LoneInv, Roles, PollerRestarts, Fit
  <1>3. ComposeControl(Poller) \/ ResumeControl(Poller)
    BY <1>2, NoRefusal, PollerAssumption DEF Step, DeployStep, UndeployStep, BeginDeploy, ControlPcs,
       DownForRedeploy, ResumeAfterDown, UpSucceeds, UpFails, ResumeAfterUp, CreateProxyHost,
       ResumeAfterProxy, CreateDnsRecord, ResumeAfterDns, RollbackDown, RollbackFiles,
       BeginUndeploy, DeleteWithoutRow, DownForUndeploy, ResumeUndeploy, DeleteProxyHost,
       ResumeAfterProxyDelete, DeleteDnsRecord, FinishUndeploy, At
  <1>4. \A t \in Operators : task'[t] = task[t]
    <2>1. \E r : task' = [task EXCEPT ![Poller] = r]
      BY <1>0, StepMoves
    <2>2. QED
      BY <2>1, <1>0 DEF Operators, TypeInv, TypeOK
  <1>5. \A d \in Customers : row[d] # NULL => row'[d] # NULL
    <2>1. row' = row \/ (row[c] # NULL /\ row' = [row EXCEPT ![c].status = "running"])
      BY <1>1, <1>2, <1>3 DEF ComposeControl, ResumeControl, RowStatusAfter
    <2>2. "running" \in DeploymentStatuses
      BY DEF DeploymentStatuses
    <2>3. QED
      BY <2>1, <2>2, StatusKeepsRow
  <1>6. \A d \in Customers : customer'[d] = "deploying" => customer[d] = "deploying"
    <2>1. customer' = customer \/ customer' = [customer EXCEPT ![c] = "active"]
      BY <1>1, <1>2, <1>3 DEF ComposeControl, ResumeControl, CustomerStatusAfter
    <2>2. QED
      BY <2>1 DEF TypeInv, TypeOK
  <1>7. QED
    BY <1>4, <1>5, <1>6, OthersWork

\* A request that is taken: the status deploying comes with a task.
LEMMA RequestWorks ==
    ASSUME OneByOne, TypeInv, WorkInv, UniqueInv', NEW t \in Operators, NEW c \in Customers, Request(t, c)
    PROVE  WorkInv' /\ \A u \in Operators, d \in Customers : ~InFlight(u, d, "delete")
  <1>0. t \in Tasks /\ task[t] = NULL /\ \A u \in Operators : u = t
    BY DEF Operators, OneByOne, Request, Create, ManualDeploy, Delete, Control, Free
  <1>1. \A d \in Customers : customer[d] # "deploying"
    BY <1>0 DEF WorkInv, DeployingIsWorkedOn, InFlight
  <1>2. PICK r : /\ task' = [task EXCEPT ![t] = r]
                 /\ r.cust = c /\ r.pc \in {"queued", "control"} /\ ~r.broken
                 /\ (r.op \in Deployments /\ r # NULL) \/ customer'[c] # "deploying"
    <2>1. CASE Create(t, c) \/ ManualDeploy(t, c) \/ Delete(t, c)
      <3>1. PICK op \in Deployments \cup {"delete"} :
               /\ task' = [task EXCEPT ![t] = NewTask(op, c, "queued")]
               /\ op \in Deployments \/ customer' = [customer EXCEPT ![c] = "inactive"]
        BY <2>1 DEF Create, ManualDeploy, Delete, Deployments
      <3>2. PICK r : r = NewTask(op, c, "queued")
        OBVIOUS
      <3>3. r.cust = c /\ r.op = op /\ r.pc = "queued" /\ ~r.broken
        BY <3>2 DEF NewTask
      <3>4. op \in Deployments \/ customer'[c] # "deploying"
        BY <3>1 DEF TypeInv, TypeOK
      <3>5. r \in Task
        BY <3>2 DEF NewTask, Task, Pcs, DeployPcs, Operations, Deployments
      <3>6. QED
        BY <3>1, <3>2, <3>3, <3>4, <3>5, TaskAssumption
    <2>2. CASE Control(t, c)
      <3>1. PICK op, w : task' = [task EXCEPT ![t] = [NewTask(op, c, "control") EXCEPT !.writes = w]]
        BY <2>2 DEF Control
      <3>2. PICK r : r = [NewTask(op, c, "control") EXCEPT !.writes = w]
        OBVIOUS
      <3>3. r.cust = c /\ r.pc = "control" /\ ~r.broken
        BY <3>2 DEF NewTask
      <3>4. customer'[c] # "deploying"
        BY <1>1, <2>2 DEF Control
      <3>5. QED
        BY <3>1, <3>2, <3>3, <3>4
    <2>3. QED
      BY <2>1, <2>2 DEF Request
  <1>3. task'[t] = r
    BY <1>0, <1>2 DEF TypeInv, TypeOK
  <1>4. \A u \in Operators : Steady(u)'
    BY <1>0, <1>2, <1>3 DEF Steady, UndeployPcs
  <1>5. ASSUME NEW d \in Customers, customer'[d] = "deploying"
        PROVE  \E u \in Operators, op \in Deployments : InFlight(u, d, op)'
    <2>1. customer'[d] # customer[d]
      BY <1>1, <1>5
    <2>2. d = c
      BY <2>1 DEF Request, Create, ManualDeploy, Delete, Control, TypeInv, TypeOK
    <2>3. r # NULL /\ r.op \in Deployments
      BY <1>2, <1>5, <2>2
    <2>4. InFlight(t, d, r.op)'
      BY <1>2, <1>3, <2>2, <2>3 DEF InFlight, Cust
    <2>5. QED
      BY <2>3, <2>4
  <1>6. DeployingIsWorkedOn'
    BY <1>5 DEF DeployingIsWorkedOn, Deployments
  <1>7. QED
    BY <1>0, <1>4, <1>6 DEF WorkInv, InFlight

\* Every step of the system keeps the invariant, and ends no deletion before
\* its customer is gone.
LEMMA WorkStep ==
    ASSUME OneByOne, TypeInv, Typed, LoneInv, WorkInv, [SystemNext]_allVars
    PROVE  /\ WorkInv'
           /\ \A t \in Operators, c \in Customers :
                 InFlight(t, c, "delete") /\ ~InFlight(t, c, "delete")' => ~Present(c)'
  <1>1. UniqueInv'
    <2>1. SolePort
      BY DEF OneByOne, LoneInv, Roles, PollerRestarts, Fit, Operators, SolePort
    <2>2. QED
      BY <2>1, UniqueStep, StepMaps, PollerAssumption DEF WorkInv
  <1>2. ASSUME NEW t \in Operators, NEW c \in Customers, SystemRequest(t, c)
        PROVE  WorkInv' /\ \A u \in Operators, d \in Customers : ~InFlight(u, d, "delete")
    BY <1>1, <1>2, RequestWorks DEF SystemRequest
  <1>3. ASSUME NEW t \in Operators, SystemStep(t)
        PROVE  /\ WorkInv'
               /\ \A c \in Customers :
                     InFlight(t, c, "delete") /\ ~InFlight(t, c, "delete")' => ~Present(c)'
    BY <1>1, <1>3, OperatorWorks DEF SystemStep
  <1> DEFINE Kept == /\ WorkInv'
                     /\ \A t \in Operators, c \in Customers :
                           InFlight(t, c, "delete")' = InFlight(t, c, "delete")
  <1>4. ASSUME RestartCompose \/ RestartDone PROVE Kept
    BY <1>1, <1>4, PollerWorks DEF RestartCompose, RestartDone, Step
  <1>5. ASSUME UNCHANGED <<customer, row, task>> PROVE Kept
    BY <1>1, <1>5, OthersWork
  <1>6. ASSUME NEW c \in Customers, Loaded(c) PROVE Kept
    <2>1. CASE CheckHealth(c)
      <3>1. \E st \in DeploymentStatuses : row' = [row EXCEPT ![c].status = st]
        BY <2>1 DEF CheckHealth, DeploymentStatuses
      <3>2. \A d \in Customers : row[d] # NULL => row'[d] # NULL
        BY <2>1, <3>1, StatusKeepsRow DEF CheckHealth
      <3>3. \A d \in Customers : customer'[d] = "deploying" => customer[d] = "deploying"
        BY <2>1 DEF CheckHealth, TypeInv, TypeOK
      <3>4. QED
        BY <1>1, <2>1, <3>2, <3>3, OthersWork DEF CheckHealth
    <2>2. CASE UpdateCustomer(c)
      <3>1. \A d \in Customers : customer'[d] = "deploying" => customer[d] = "deploying"
        BY <2>2 DEF UpdateCustomer, OneByOne, TypeInv, TypeOK
      <3>2. QED
        BY <1>1, <2>2, <3>1, OthersWork DEF UpdateCustomer
    <2>3. QED
      BY <1>6, <2>1, <2>2 DEF Loaded
  <1>7. ASSUME NEW c, Control(Poller, c) PROVE Kept
    <2>1. customer' = customer /\ row' = row /\ \E r : task' = [task EXCEPT ![Poller] = r]
      BY <1>7 DEF Control
    <2>2. \A t \in Operators : task'[t] = task[t]
      BY <2>1, PollerAssumption DEF Operators, TypeInv, TypeOK
    <2>3. QED
      BY <1>1, <2>1, <2>2, OthersWork
  <1>8. SystemCrash => UNCHANGED <<customer, row, task>>
    BY DEF SystemCrash, Crash, OneByOne, vars
  <1>9. \A t \in Operators : task[t] # NULL => \A u \in Operators : u = t
    BY DEF OneByOne
  <1>10. QED
    BY <1>2, <1>3, <1>4, <1>5, <1>6, <1>7, <1>8, <1>9
       DEF SystemNext, TickStep, Wake, Answers, RestartUnreachable, CooldownPasses, allVars, vars, OneByOne

LEMMA WorkAlways ==
    ASSUME OneByOne
    PROVE  SystemSpec => []WorkInv
  <1>0. Apart
    BY DEF Apart, OneByOne
  <1>1. SystemInit => WorkInv
    <2>1. Init => \A t \in Operators : task[t] = NULL
      BY DEF Init, Operators
    <2>2. Init => UniqueInv /\ DeployingIsWorkedOn
      BY DEF Init, UniqueInv, RowsDiffer, TaskPort, DeployingIsWorkedOn
    <2>3. QED
      BY <2>1, <2>2 DEF SystemInit, WorkInv, Steady
  <1>2. TypeInv /\ Typed /\ LoneInv /\ WorkInv /\ [SystemNext]_allVars => WorkInv'
    BY WorkStep
  <1>3. QED
    BY <1>0, <1>1, <1>2, LoneAlways, ImplementsLifecycle, TypeAlways, TypedAlways, PTL DEF SystemSpec

\* Whatever docker, NPM, DNS and the file system refuse, and whatever the
\* scheduler restarts and the operator asks for in between, a customer shown as
\* deploying has a task that works on it.  A death of the appliance, a status
\* written by hand and a second request beside the first are ruled out, and so is,
\* with PollerAssumption, a commit that sqlite refuses for want of disk space: each
\* of them leaves the status behind.
THEOREM DeployingIsAlwaysWorkedOn ==
    ASSUME \A t, u \in Operators : t = u, "crash" \notin Faults, "deploying" \notin ManualStatuses
    PROVE  SystemSpec => []DeployingIsWorkedOn
  <1>0. OneByOne
    BY DEF OneByOne
  <1>1. WorkInv => DeployingIsWorkedOn
    BY DEF WorkInv
  <1>2. QED
    BY <1>0, <1>1, WorkAlways, PTL

\* In the same world an accepted deletion is carried out: its task does not end
\* before the customer is gone.
THEOREM DeleteNeverGivenUp ==
    ASSUME \A t, u \in Operators : t = u, "crash" \notin Faults, "deploying" \notin ManualStatuses
    PROVE  SystemSpec => DeleteIsNotGivenUp
  <1>0. OneByOne /\ Apart
    BY DEF OneByOne, Apart
  <1>1. TypeInv /\ Typed /\ LoneInv /\ WorkInv /\ [SystemNext]_allVars =>
           [\A t \in Operators, c \in Customers :
               InFlight(t, c, "delete") /\ ~InFlight(t, c, "delete")' => ~Present(c)']_allVars
    BY <1>0, WorkStep
  <1>2. QED
    BY <1>0, <1>1, WorkAlways, LoneAlways, ImplementsLifecycle, TypeAlways, TypedAlways, PTL
       DEF SystemSpec, DeleteIsNotGivenUp

\* The scheduler's restart does not make a redeployment lose the data it found, in
\* the world in which none does without it: it makes no containers, and moves none
\* to another port.
THEOREM RestartsKeepData ==
    ASSUME \A t, u \in Operators : t = u,
           Faults \cap {"write", "up", "down", "crash"} = {}
    PROVE  SystemSpec => KeepDataSurvives
  <1>0. Apart /\ Compliant
    BY PollerAssumption DEF Apart, Compliant
  <1>1. LoneInv => SoleWorker
    BY DEF LoneInv, Roles, PollerRestarts, Operators, SoleWorker, Worker, Controls
  <1>2. SystemInit => DataInv
    BY DEF SystemInit, Init, DataInv, DataKept, Placed, Housed, Worker, UniqueInv, RowsDiffer, TaskPort
  <1>3. TypeInv /\ TypeInv' /\ Typed /\ LoneInv /\ DataInv /\ [SystemNext]_allVars => DataInv'
    BY <1>0, <1>1, DataStep, StepMaps
  <1>4. TypeInv /\ Typed /\ LoneInv /\ DataInv /\ [SystemNext]_allVars =>
           [\A t \in Tasks : LET c == Cust(t) IN
              task[t] # NULL /\ task[t].op = "redeploy" /\ task[t].hadData /\ files[c].data # NULL
                  => files'[c].data # NULL]_vars
    BY <1>0, <1>1, DataIsKept, StepMaps
  <1>5. QED
    BY <1>0, <1>2, <1>3, <1>4, LoneAlways, ImplementsLifecycle, TypeAlways, TypedAlways, PTL
       DEF SystemSpec, KeepDataSurvives
=============================================================================
