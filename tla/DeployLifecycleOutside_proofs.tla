-------------------- MODULE DeployLifecycleOutside_proofs --------------------
(***************************************************************************)
(* Theorems about what the database says and what there is outside it: a   *)
(* customer shown as active has containers that compose started on its     *)
(* port, no two customers hold one port, a failed first deployment or a    *)
(* deletion leaves no containers, files, proxy host or DNS record, and the *)
(* module implements CustomerContract.                                     *)
(***************************************************************************)
EXTENDS DeployLifecycleRows_proofs

-----------------------------------------------------------------------------
(* An active customer was started.  This holds when requests do not        *)
(* overlap on one customer, docker's name filter finds the customer's own  *)
(* containers only, the operator writes no status by hand, docker does     *)
(* what start, stop and restart ask for, removals of a directory run to    *)
(* their end, sqlite refuses no commit for reasons of its own and the      *)
(* appliance does not die.  Everything else may fail, the containers may   *)
(* run or not, and other customers may do anything meanwhile.              *)

\* compose has started the containers.
Runs(c) == stack[c] # NULL /\ stack[c].started

\* Containers are on the port of the row.
PortsAgree(c) == row[c] # NULL /\ stack[c] # NULL => stack[c].port = row[c].port

\* No two customers' relays were started on one port.
UpDiffer ==
    \A c, d \in Customers : Runs(c) /\ Runs(d) /\ stack[c].port = stack[d].port => c = d

AsRecorded(c) ==
    /\ row[c] # NULL /\ row[c].status = "running"
    /\ stack[c] = [port |-> row[c].port, started |-> TRUE]

\* The statuses of a row and of its customer go together.
InStep(c) ==
    \/ row[c].status = "running" /\ customer[c] = "active"
    \/ row[c].status = "stopped" /\ customer[c] = "inactive"
    \/ row[c].status = "failed" /\ customer[c] = "error"

\* A compose file is that of a recorded deployment with containers.
FilesAgree(c) ==
    files[c].port # NULL =>
        row[c] # NULL /\ stack[c] # NULL /\ files[c].port = row[c].port

\* A customer that no task works on.
Rests(c) ==
    /\ customer[c] = "active" => AsRecorded(c)
    /\ FilesAgree(c)
    /\ files[c].port # NULL => InStep(c) /\ (customer[c] = "inactive" => ~Runs(c))

\* What a start, stop or restart that has not resumed will write: both
\* statuses, or none because they already said what the call will make true; a
\* health check may have found containers that do not run since.
WillWrite(c, r) ==
    files[c].port # NULL =>
        \/ r.writes = {"row", "customer"}
        \/ r.writes = {} /\ (IF r.op = "stop" THEN ~Runs(c) ELSE customer[c] \in {"active", "error"})

\* What it writes after a compose call that reported success.
Writes(c, r) ==
    /\ files[c].port # NULL /\ FilesAgree(c) /\ InStep(c)
    /\ Runs(c) <=> r.op # "stop"
    /\ \/ r.writes = {"row", "customer"}
       \/ /\ r.writes = {}
          /\ customer[c] = "active" => Runs(c)
          /\ customer[c] = "inactive" => ~Runs(c)

Later == {"upped", "npm", "npmed", "dns", "dnsed"}

\* A customer that task r works on.
Works(c, r) ==
    /\ Present(c)
    /\ r.pc = "queued" => FilesAgree(c) /\ r.op \notin {"stop", "start", "restart"}
    /\ r.pc \in WithPort => files[c].port = r.port /\ r.made
    /\ r.pc \in Later => stack[c] = [port |-> r.port, started |-> TRUE]
    /\ r.pc \in {"undo", "undone"} => (~r.made => files[c].port = NULL) /\ (r.broken => row[c] = NULL)
    /\ r.pc \notin {"undo", "undone"} => ~r.broken
    /\ r.pc \in UndeployPcs \cup ControlPcs => row[c] # NULL
    /\ r.pc \in ControlPcs => r.op \in {"stop", "start", "restart"}
    /\ r.pc = "control" => Rests(c) /\ WillWrite(c, r)
    /\ r.pc = "controlled" => IF r.ok THEN Writes(c, r) ELSE Rests(c)

\* An active customer has a row throughout.
ActiveHasRow(c) == customer[c] = "active" => row[c] # NULL

Sound(c) ==
    /\ PortsAgree(c) /\ ActiveHasRow(c)
    /\ ~Busy(c) => Rests(c)
    /\ \A t \in Tasks : task[t] # NULL /\ task[t].cust = c => Works(c, task[t])
SoundInv == \A c \in Customers : Sound(c)

AllInv == TypeInv /\ PortInv /\ RowsDiffer /\ UpDiffer /\ SoundInv

\* The settings that the theorem is about.
Gentle ==
    /\ Overlap = FALSE /\ ManualStatuses = {}
    /\ "control" \notin Faults /\ "rmtree" \notin Faults /\ "crash" \notin Faults
    /\ "db" \notin Faults
    /\ \A c \in Customers : Prefixed[c] = {c}

\* What a task knows about its customer.
LEMMA Context ==
    ASSUME AllInv, NEW t \in Tasks, task[t] # NULL, NEW c \in Customers, c = Cust(t)
    PROVE  /\ task[t].cust = c /\ task[t] \in Task
           /\ row[c] \in Row \cup {NULL} /\ files[c] \in Dir /\ stack[c] \in Stack \cup {NULL}
           /\ PortsAgree(c) /\ ActiveHasRow(c) /\ Works(c, task[t]) /\ RowKnown(t)
           /\ task[t].pc \in WithPort => task[t].port \in Ports
  BY DEF AllInv, TypeInv, PortKnown, PortInv, SoundInv, Sound, TypeOK, Task, Cust

-----------------------------------------------------------------------------
(* A step of a task changes nothing of other customers.                    *)

Same(d) ==
    customer'[d] = customer[d] /\ row'[d] = row[d] /\ files'[d] = files[d] /\ stack'[d] = stack[d]
Elsewhere(t) == \A d \in Customers \ {Cust(t)} : Same(d)

\* The first step of deploy_customer, with the rows and directories before it.
LEMMA PrepareElsewhere ==
    ASSUME TypeInv, NEW t \in Tasks, NEW rows, NEW dirs, Prepare(t, rows, dirs),
           \A d \in Customers \ {Cust(t)} : rows[d] = row[d] /\ dirs[d] = files[d],
           dirs \in [Customers -> Dir]
    PROVE  Elsewhere(t)
  <1>1. customer' = [customer EXCEPT ![Cust(t)] = "deploying"] /\ row' = rows /\ stack' = stack
    BY DEF Prepare, outside
  <1>2. files' = dirs \/ \E f : files' = [dirs EXCEPT ![Cust(t)] = f]
    BY Zenon DEF Prepare, BreaksOff
  <1>3. QED
    BY <1>1, <1>2 DEF Elsewhere, Same, TypeInv, TypeOK

\* The commit of a deployment.
LEMMA RecordElsewhere ==
    ASSUME TypeInv, NEW t \in Tasks, NEW proxy, Record(t, proxy)
    PROVE  Elsewhere(t)
  BY DEF Record, Write, Elsewhere, Same, outside, TypeInv, TypeOK

\* The last step of an undeployment.
LEMMA UndeployedElsewhere ==
    ASSUME TypeInv, NEW t \in Tasks, Cust(t) \in Customers, Undeployed(t)
    PROVE  Elsewhere(t)
  <1> DEFINE c == Cust(t)
             rows == [row EXCEPT ![c] = NULL]
             dirs(f) == [files EXCEPT ![c] = f]
  <1>1. PICK f \in AfterRmtree(files[c]) :
           \/ /\ customer' = customer \/ customer' = [customer EXCEPT ![c] = "absent"]
              /\ row' = row \/ row' = rows
              /\ files' = dirs(f)
              /\ stack' = stack
           \/ Prepare(t, rows, dirs(f))
    BY DEF Undeployed, outside
  <1>2. f \in Dir
    BY RmtreeType DEF TypeInv, TypeOK
  <1>3. dirs(f) \in [Customers -> Dir]
    BY <1>2 DEF TypeInv, TypeOK
  <1>4. \A d \in Customers \ {c} : rows[d] = row[d] /\ dirs(f)[d] = files[d]
    BY DEF TypeInv, TypeOK
  <1>5. CASE Prepare(t, rows, dirs(f))
    BY <1>3, <1>4, <1>5, PrepareElsewhere
  <1>6. CASE /\ customer' = customer \/ customer' = [customer EXCEPT ![c] = "absent"]
             /\ row' = row \/ row' = rows
             /\ files' = dirs(f)
             /\ stack' = stack
    BY <1>6 DEF Elsewhere, Same, TypeInv, TypeOK
  <1>7. QED
    BY <1>1, <1>5, <1>6

\* Every step of every task.
LEMMA StepElsewhere ==
    ASSUME "db" \notin Faults, TypeInv, NEW t \in Tasks, task[t] # NULL, Step(t)
    PROVE  Elsewhere(t)
  <1>0. Cust(t) \in Customers
    BY DEF TypeInv, TypeOK, Task, Cust
  <1>u. UNCHANGED <<customer, row, files, outside>> => Elsewhere(t)
    BY DEF Elsewhere, Same, outside
  <1>1. CASE BeginDeploy(t)
    BY <1>1, <1>u, PrepareElsewhere DEF BeginDeploy, TypeInv, TypeOK
  <1>2. CASE DownForRedeploy(t) \/ RollbackDown(t) \/ DownForUndeploy(t) \/ ComposeControl(t)
    BY <1>2 DEF DownForRedeploy, RollbackDown, DownForUndeploy, ComposeControl,
                Elsewhere, Same, TypeInv, TypeOK
  <1>3. CASE UpSucceeds(t) \/ UpFails(t)
    <2>1. customer' = customer /\ row' = row
      BY <1>3 DEF UpSucceeds, UpFails
    <2>2. files' = files \/ \E f : files' = [files EXCEPT ![Cust(t)] = f]
      BY <1>3 DEF UpSucceeds, UpFails
    <2>3. stack' = stack \/ \E s : stack' = [stack EXCEPT ![Cust(t)] = s]
      BY <1>3 DEF UpSucceeds, UpFails
    <2>4. QED
      BY <2>1, <2>2, <2>3 DEF Elsewhere, Same, TypeInv, TypeOK
  <1>4. CASE ResumeAfterUp(t) \/ ResumeAfterProxy(t) \/ ResumeAfterDns(t)
    BY <1>4, <1>u, RecordElsewhere DEF ResumeAfterUp, ResumeAfterProxy, ResumeAfterDns, AfterProxy, LogFails
  <1>5. CASE CreateProxyHost(t) \/ CreateDnsRecord(t) \/ DeleteProxyHost(t) \/ DeleteDnsRecord(t)
    BY <1>5 DEF CreateProxyHost, CreateDnsRecord, DeleteProxyHost, DeleteDnsRecord, Elsewhere, Same
  <1>6. CASE RollbackFiles(t)
    <2>1. /\ row' = row /\ stack' = stack
          /\ customer' = customer \/ customer' = [customer EXCEPT ![Cust(t)] = "error"]
          /\ \E f : files' = [files EXCEPT ![Cust(t)] = f]
      BY <1>6 DEF RollbackFiles, outside
    <2>2. QED
      BY <2>1 DEF Elsewhere, Same, TypeInv, TypeOK
  <1>7. CASE DeleteWithoutRow(t)
    BY <1>7 DEF DeleteWithoutRow, Elsewhere, Same, outside, TypeInv, TypeOK
  <1>8. CASE Undeployed(t)
    BY <1>0, <1>8, UndeployedElsewhere
  <1>9. CASE ResumeControl(t)
    <2>1. /\ files' = files /\ stack' = stack
          /\ customer' = customer \/ \E s : customer' = [customer EXCEPT ![Cust(t)] = s]
          /\ row' = row \/ \E s : row' = [row EXCEPT ![Cust(t)] = s]
      BY <1>9 DEF ResumeControl, outside
    <2>2. QED
      BY <2>1 DEF Elsewhere, Same, TypeInv, TypeOK
  <1>10. QED
    BY <1>u, <1>1, <1>2, <1>3, <1>4, <1>5, <1>6, <1>7, <1>8, <1>9, NoRefusal
       DEF Step, DeployStep, UndeployStep, ResumeAfterDown, BeginUndeploy, ResumeUndeploy,
           ResumeAfterProxyDelete, FinishUndeploy, RemoveDns, Abort

-----------------------------------------------------------------------------
(* Relays that run are on different ports: docker refuses to bind a port   *)
(* that another one holds.                                                 *)

\* If the customer's containers run after the step, they did so before on the
\* same port, or no other relay holds their port.
Binds(t) ==
    LET c == Cust(t) IN
    stack'[c] # NULL /\ stack'[c].started =>
        \/ Runs(c) /\ stack'[c].port = stack[c].port
        \/ ~BoundByOther(c, stack'[c].port)

LEMMA StepBinds ==
    ASSUME "db" \notin Faults, TypeInv, NEW t \in Tasks, task[t] # NULL, Step(t)
    PROVE  Binds(t)
  <1> DEFINE c == Cust(t)
  <1>0. c \in Customers /\ stack[c] \in Stack \cup {NULL} /\ files[c] \in Dir
    BY DEF TypeInv, TypeOK, Task, Cust
  <1>s. stack' = stack => Binds(t)
    BY DEF Binds, Runs
  <1>1. CASE DownForRedeploy(t) \/ RollbackDown(t) \/ DownForUndeploy(t)
    BY <1>1 DEF DownForRedeploy, RollbackDown, DownForUndeploy, AfterDown, Binds, Runs, TypeInv, TypeOK
  <1>2. CASE UpSucceeds(t)
    <2>1. stack'[c] = [port |-> files[c].port, started |-> TRUE] /\ ~BoundByOther(c, files[c].port)
      BY <1>0, <1>2 DEF UpSucceeds, TypeInv, TypeOK
    <2>2. QED
      BY <2>1 DEF Binds
  <1>3. CASE UpFails(t) /\ stack' # stack
    <2> DEFINE p == files[c].port
               taken == BoundByOther(c, p)
    <2>1. PICK s \in {stack[c]} \cup [port : {p}, started : IF taken THEN {FALSE} ELSE BOOLEAN] :
             stack' = [stack EXCEPT ![c] = s]
      BY <1>3 DEF UpFails
    <2>2. stack'[c] = s
      BY <1>0, <2>1 DEF TypeInv, TypeOK
    <2>3. s # stack[c] => s.port = p /\ (taken => s.started = FALSE)
      OBVIOUS
    <2>4. QED
      BY <2>2, <2>3 DEF Binds, Runs
  <1>4. CASE ComposeControl(t)
    <2>1. PICK s \in Stack \cup {NULL}, ok \in BOOLEAN :
             ComposeCall(c, task[t].op, s, ok) /\ stack' = [stack EXCEPT ![c] = s]
      BY <1>4 DEF ComposeControl
    <2>2. stack'[c] = s
      BY <1>0, <2>1 DEF TypeInv, TypeOK
    <2>3. CASE s = stack[c] \/ s = NULL
      BY <2>2, <2>3 DEF Binds, Runs
    <2>4. CASE stack[c] # NULL /\ s # stack[c] /\ s # NULL
      <3>1. PICK up \in BOOLEAN :
               /\ s = [stack[c] EXCEPT !.started = up]
               /\ up => ~BoundByOther(c, stack[c].port) \/ stack[c].started
        BY <2>1, <2>4 DEF ComposeCall
      <3>2. s.port = stack[c].port /\ s.started = up
        BY <1>0, <2>4, <3>1 DEF Stack
      <3>3. QED
        BY <2>2, <2>4, <3>1, <3>2 DEF Binds, Runs
    <2>5. QED
      BY <2>1, <2>3, <2>4 DEF ComposeCall
  <1>5. CASE BeginDeploy(t)
    BY <1>5, <1>s DEF BeginDeploy, Prepare, outside
  <1>6. CASE ResumeAfterUp(t) \/ ResumeAfterProxy(t) \/ ResumeAfterDns(t)
    BY <1>6, <1>s DEF ResumeAfterUp, ResumeAfterProxy, ResumeAfterDns, AfterProxy, LogFails, Record, outside
  <1>7. CASE Undeployed(t)
    BY <1>7, <1>s DEF Undeployed, Prepare, outside
  <1>8. QED
    BY <1>s, <1>1, <1>2, <1>3, <1>4, <1>5, <1>6, <1>7, NoRefusal
       DEF Step, DeployStep, UndeployStep, ResumeAfterDown, CreateProxyHost, CreateDnsRecord, RollbackFiles,
           BeginUndeploy, DeleteWithoutRow, ResumeUndeploy, DeleteProxyHost, ResumeAfterProxyDelete,
           DeleteDnsRecord, FinishUndeploy, RemoveDns, Abort, ResumeControl, outside

LEMMA UpStep ==
    ASSUME "db" \notin Faults, TypeInv, UpDiffer, NEW t \in Tasks, task[t] # NULL, Step(t)
    PROVE  UpDiffer'
  <1>0. PICK c \in Customers : c = Cust(t)
    BY DEF TypeInv, TypeOK, Task, Cust
  <1>1. Elsewhere(t) /\ Binds(t)
    BY StepElsewhere, StepBinds
  <1>2. ASSUME NEW d \in Customers \ {c}, Runs(c)', Runs(d)', stack'[c].port = stack'[d].port
        PROVE  FALSE
    <2>1. Runs(d) /\ stack'[d] = stack[d]
      BY <1>0, <1>1, <1>2 DEF Elsewhere, Same, Runs
    <2>2. CASE Runs(c) /\ stack'[c].port = stack[c].port
      BY <1>1, <1>2, <2>1, <2>2 DEF UpDiffer
    <2>3. CASE ~BoundByOther(c, stack'[c].port)
      BY <1>2, <2>1, <2>3 DEF BoundByOther, Runs
    <2>4. stack'[c] # NULL /\ stack'[c].started
      BY <1>2 DEF Runs
    <2>5. QED
      BY <1>0, <1>1, <2>2, <2>3, <2>4 DEF Binds
  <1>3. ASSUME NEW d \in Customers \ {c}, NEW e \in Customers \ {c}, Runs(d)', Runs(e)',
               stack'[d].port = stack'[e].port
        PROVE  d = e
    BY <1>0, <1>1, <1>3 DEF Elsewhere, Same, Runs, UpDiffer
  <1>4. ASSUME NEW d \in Customers, NEW e \in Customers, Runs(d)', Runs(e)',
               stack'[d].port = stack'[e].port
        PROVE  d = e
    BY <1>2, <1>3, <1>4
  <1>5. QED
    BY <1>4 DEF UpDiffer

-----------------------------------------------------------------------------
(* Rows have different ports, however many tasks run: the commit that      *)
(* inserts a row is refused when another row has its port.                 *)

LEMMA RowsDifferStep ==
    ASSUME "db" \notin Faults, TypeInv, RowsDiffer, NEW t \in Tasks, task[t] # NULL, Step(t)
    PROVE  RowsDiffer'
  <1> DEFINE c == Cust(t)
             rows == [row EXCEPT ![c] = NULL]
  <1>0. c \in Customers
    BY DEF TypeInv, TypeOK, Task, Cust
  <1>s. row' = row => RowsDiffer'
    BY DEF RowsDiffer
  <1>r. row' = rows => RowsDiffer'
    BY DEF RowsDiffer, TypeInv, TypeOK
  <1>1. ASSUME NEW proxy, Record(t, proxy) PROVE RowsDiffer'
    <2>1. CASE /\ \A d \in Customers \ {c} : row[d] # NULL => row[d].port # task[t].port
               /\ row' = [row EXCEPT ![c] =
                            [port |-> task[t].port, npm |-> proxy, status |-> "running"]]
      <3>1. /\ row'[c].port = task[t].port
            /\ \A d \in Customers \ {c} : row'[d] = row[d]
        BY <1>0, <2>1 DEF TypeInv, TypeOK
      <3>2. QED
        BY <2>1, <3>1 DEF RowsDiffer
    <2>2. QED
      BY <1>1, <1>s, <2>1 DEF Record, Conflict, Write
  <1>2. CASE ResumeControl(t)
    <2>1. CASE row[c] # NULL /\ row' = [row EXCEPT ![c].status = RowStatusAfter(task[t].op)]
      <3>1. Shrinks(row')
        BY <1>0, <2>1, StatusShrinks
      <3>2. QED
        BY <3>1, ShrinkDiffers
    <2>2. QED
      BY <1>2, <1>s, <2>1 DEF ResumeControl
  <1>3. CASE Undeployed(t)
    BY <1>3, <1>s, <1>r DEF Undeployed, Prepare
  <1>4. CASE DeployStep(t)
    BY <1>4, <1>s, <1>1
       DEF DeployStep, BeginDeploy, Prepare, DownForRedeploy, ResumeAfterDown, UpSucceeds, UpFails, ResumeAfterUp,
           CreateProxyHost, ResumeAfterProxy, CreateDnsRecord, ResumeAfterDns, RollbackDown,
           RollbackFiles, AfterProxy, LogFails
  <1>5. CASE UndeployStep(t)
    BY <1>5, <1>s, <1>3
       DEF UndeployStep, BeginUndeploy, DeleteWithoutRow, DownForUndeploy, ResumeUndeploy,
           DeleteProxyHost, ResumeAfterProxyDelete, DeleteDnsRecord, FinishUndeploy, RemoveDns, Abort
  <1>6. QED
    BY <1>s, <1>2, <1>4, <1>5, NoRefusal DEF Step, ComposeControl

-----------------------------------------------------------------------------
(* A step of a task keeps the invariant of its own customer.               *)

\* r is what the step makes of the task, NULL when it ends.
After(t, c, r) ==
    /\ task' = [task EXCEPT ![t] = r]
    /\ r # NULL => r.cust = c
    /\ PortsAgree(c)' /\ ActiveHasRow(c)'
    /\ IF r = NULL THEN Rests(c)' ELSE Works(c, r)'
Serves(t, c) == \E r : After(t, c, r)

\* The first step of deploy_customer: the status says deploying, and the
\* directory gets the port the task goes on with.
LEMMA PrepareServes ==
    ASSUME AllInv, NEW t \in Tasks, task[t] # NULL, NEW c \in Customers, c = Cust(t),
           NEW rows \in [Customers -> Row \cup {NULL}], NEW dirs \in [Customers -> Dir],
           ~task[t].broken, rows[c] \in {row[c], NULL},
           dirs[c].port # NULL => rows[c] # NULL, "db" \notin Faults,
           Prepare(t, rows, dirs)
    PROVE  Serves(t, c)
  <1> DEFINE next(p) == [task[t] EXCEPT
                           !.pc = IF rows[c] # NULL THEN "down" ELSE "up",
                           !.port = p, !.hadRow = rows[c] # NULL, !.made = TRUE,
                           !.hadData = dirs[c].data # NULL]
             halt == [task[t] EXCEPT !.pc = "undo"]
  <1>0. /\ task[t] \in Task /\ task[t].cust = c
        /\ PortsAgree(c)
    BY Context
  <1>1. /\ customer'[c] = "deploying" /\ row'[c] = rows[c] /\ stack'[c] = stack[c]
    BY DEF Prepare, outside, AllInv, TypeInv, TypeOK
  <1>2. PortsAgree(c)' /\ ActiveHasRow(c)' /\ Present(c)'
    BY <1>0, <1>1 DEF PortsAgree, ActiveHasRow, Present
  <1>3. ASSUME NEW p \in PortsFor(c, rows), NEW k,
               files' = [dirs EXCEPT ![c] = [@ EXCEPT !.port = p, !.key = k]],
               task' = [task EXCEPT ![t] = next(p)]
        PROVE  Serves(t, c)
    <2>1. PICK r : r = next(p)
      OBVIOUS
    <2>2. /\ r.cust = c /\ r.port = p /\ r.made /\ ~r.broken
          /\ r.pc \in {"down", "up"}
      BY <1>0, <2>1 DEF Task
    <2>3. r # NULL
      <3>1. p \in Ports
        BY PortsForType
      <3>2. r \in Task
        BY <1>0, <2>1, <3>1 DEF Task, Pcs, DeployPcs
      <3>3. QED
        BY <3>2, TaskAssumption
    <2>4. files'[c].port = p
      BY <1>3 DEF Dir
    <2>5. Works(c, r)'
      BY <1>2, <2>2, <2>4 DEF Works, Later, UndeployPcs, ControlPcs
    <2>6. After(t, c, r)
      BY <1>2, <1>3, <2>1, <2>2, <2>3, <2>5 DEF After
    <2>7. QED
      BY <2>6 DEF Serves
  <1>4. ASSUME PortsFor(c, rows) = {}, files' = dirs, task' = [task EXCEPT ![t] = halt]
        PROVE  Serves(t, c)
    <2>1. rows[c] = NULL
      BY <1>4 DEF PortsFor
    <2>2. PICK r : r = halt
      OBVIOUS
    <2>3. r.cust = c /\ r.pc = "undo" /\ ~r.broken /\ r # NULL
      BY <1>0, <2>2, TaskAssumption DEF Task, Pcs, DeployPcs
    <2>4. Works(c, r)'
      BY <1>2, <1>4, <2>1, <2>3 DEF Works, WithPort, Later, UndeployPcs, ControlPcs
    <2>5. After(t, c, r)
      BY <1>2, <1>4, <2>2, <2>3, <2>4 DEF After
    <2>6. QED
      BY <2>5 DEF Serves
  <1>5. CASE BreaksOff(t, rows, dirs)
    <2>1. PICK r \in Task :
             /\ task' = [task EXCEPT ![t] = r]
             /\ r.cust = task[t].cust /\ r.pc = "undo" /\ r.made /\ ~r.broken
      BY <1>5, BreaksOffShape DEF AllInv
    <2>2. r.cust = c /\ r # NULL
      BY <1>0, <2>1, TaskAssumption
    <2>3. Works(c, r)'
      BY <1>2, <2>1 DEF Works, WithPort, Later, UndeployPcs, ControlPcs
    <2>4. After(t, c, r)
      BY <1>2, <2>1, <2>2, <2>3 DEF After
    <2>5. QED
      BY <2>4 DEF Serves
  <1>6. QED
    BY <1>3, <1>4, <1>5 DEF Prepare, Go

\* The commit of a deployment: the customer is active, its row says running,
\* and the containers that compose_up started are on the port of the row.
LEMMA RecordServes ==
    ASSUME AllInv, NEW t \in Tasks, task[t] # NULL, NEW c \in Customers, c = Cust(t),
           task[t].pc \in Later, NEW proxy \in BOOLEAN, Record(t, proxy)
    PROVE  Serves(t, c)
  <1> DEFINE halt == [task[t] EXCEPT !.pc = "undo", !.broken = TRUE]
             ro == [port |-> task[t].port, npm |-> proxy, status |-> "running"]
             st == [port |-> task[t].port, started |-> TRUE]
  <1>0. /\ task[t] \in Task /\ task[t].cust = c /\ RowKnown(t) /\ task[t].port \in Ports
        /\ PortsAgree(c) /\ ActiveHasRow(c) /\ Works(c, task[t]) /\ task[t].pc \in WithPort
    BY Context DEF Later, WithPort
  <1>1. /\ Present(c) /\ files[c].port = task[t].port /\ task[t].made
        /\ stack[c] = st
    BY <1>0 DEF Works, Later
  <1>2. files'[c] = files[c] /\ stack'[c] = stack[c]
    BY DEF Record, outside
  <1>3. ASSUME row' = [row EXCEPT ![c] = ro], customer' = [customer EXCEPT ![c] = "active"],
               task' = [task EXCEPT ![t] = NULL]
        PROVE  Serves(t, c)
    <2>1. row'[c] = ro /\ customer'[c] = "active"
      BY <1>3 DEF AllInv, TypeInv, TypeOK
    <2>2. row'[c] # NULL /\ st # NULL
      <3>1. ro \in Row /\ st \in Stack
        BY <1>0 DEF Row, DeploymentStatuses, Stack
      <3>2. QED
        BY <2>1, <3>1, RowAssumption, StackAssumption
    <2>3. PortsAgree(c)' /\ ActiveHasRow(c)' /\ Rests(c)'
      BY <1>1, <1>2, <2>1, <2>2 DEF PortsAgree, ActiveHasRow, Rests, AsRecorded, FilesAgree, InStep
    <2>4. QED
      BY <1>3, <2>3 DEF After, Serves
  <1>4. ASSUME NEW d \in Customers \ {c}, row[d] # NULL, row[d].port = task[t].port,
               task' = [task EXCEPT ![t] = halt], row' = row, customer' = customer
        PROVE  Serves(t, c)
    <2>1. row[c] = NULL
      BY <1>0, <1>4 DEF RowKnown, AllInv, RowsDiffer
    <2>2. PICK r : r = halt
      OBVIOUS
    <2>3. r.cust = c /\ r.pc = "undo" /\ r.made = task[t].made /\ r # NULL
      BY <1>0, <2>2, TaskAssumption DEF Task, Pcs, DeployPcs
    <2>4. Works(c, r)'
      BY <1>1, <1>2, <1>4, <2>1, <2>3 DEF Works, Present, WithPort, Later, UndeployPcs, ControlPcs
    <2>5. PortsAgree(c)' /\ ActiveHasRow(c)'
      BY <1>0, <1>2, <1>4 DEF PortsAgree, ActiveHasRow
    <2>6. After(t, c, r)
      BY <1>4, <2>2, <2>3, <2>4, <2>5 DEF After
    <2>7. QED
      BY <2>6 DEF Serves
  <1>5. QED
    BY <1>3, <1>4 DEF Record, Conflict, Write, Break, End

\* A step that only moves the task on.
LEMMA MoveServes ==
    ASSUME AllInv, NEW t \in Tasks, task[t] # NULL, NEW c \in Customers, c = Cust(t),
           Same(c), NEW r \in Task, task' = [task EXCEPT ![t] = r], r.cust = c, Works(c, r)
    PROVE  Serves(t, c)
  <1>1. PortsAgree(c) /\ ActiveHasRow(c) /\ r # NULL
    BY Context, TaskAssumption
  <1>2. PortsAgree(c)' /\ ActiveHasRow(c)'
    BY <1>1 DEF Same, PortsAgree, ActiveHasRow
  <1>3. Runs(c)' <=> Runs(c)
    BY DEF Same, Runs
  <1>4. (FilesAgree(c)' <=> FilesAgree(c)) /\ (InStep(c)' <=> InStep(c)) /\ (Present(c)' <=> Present(c))
    BY DEF Same, FilesAgree, InStep, Present
  <1>5. (Rests(c)' <=> Rests(c)) /\ (WillWrite(c, r)' <=> WillWrite(c, r)) /\ (Writes(c, r)' <=> Writes(c, r))
    BY <1>3, <1>4 DEF Same, Rests, AsRecorded, WillWrite, Writes
  <1>6. Works(c, r)'
    BY <1>4, <1>5 DEF Same, Works
  <1>7. After(t, c, r)
    BY <1>1, <1>2, <1>6 DEF After
  <1>8. QED
    BY <1>7 DEF Serves

\* The step after the proxy host waits for DNS or commits.
LEMMA AfterProxyServes ==
    ASSUME AllInv, NEW t \in Tasks, task[t] # NULL, NEW c \in Customers, c = Cust(t),
           task[t].pc \in Later, NEW proxy \in BOOLEAN, AfterProxy(t, proxy)
    PROVE  Serves(t, c)
  <1>1. CASE Record(t, proxy)
    BY <1>1, RecordServes
  <1>2. CASE /\ task' = [task EXCEPT ![t] = [@ EXCEPT !.pc = "dns", !.proxy = proxy]]
             /\ UNCHANGED <<customer, row, files, outside>>
    <2>1. PICK r : r = [task[t] EXCEPT !.pc = "dns", !.proxy = proxy]
      OBVIOUS
    <2>2. task[t] \in Task /\ task[t].cust = c /\ Works(c, task[t])
      BY Context
    <2>3. /\ r \in Task /\ r.cust = c /\ r.pc = "dns" /\ r.port = task[t].port
          /\ r.made = task[t].made /\ r.broken = task[t].broken
      BY <2>1, <2>2 DEF Task, Pcs, DeployPcs
    <2>4. Works(c, r)
      BY <2>2, <2>3 DEF Works, WithPort, Later, UndeployPcs, ControlPcs
    <2>5. Same(c)
      BY <1>2 DEF Same, outside
    <2>6. QED
      BY <1>2, <2>1, <2>3, <2>4, <2>5, MoveServes
  <1>3. QED
    BY <1>1, <1>2 DEF AfterProxy

\* compose up, and the steps after it.
LEMMA UpServes ==
    ASSUME AllInv, NEW t \in Tasks, task[t] # NULL, NEW c \in Customers, c = Cust(t),
           UpSucceeds(t) \/ UpFails(t)
    PROVE  Serves(t, c)
  <1> DEFINE p == files[c].port
             st == [port |-> p, started |-> TRUE]
  <1>0. /\ task[t] \in Task /\ task[t].cust = c /\ files[c] \in Dir /\ RowKnown(t)
        /\ PortsAgree(c) /\ ActiveHasRow(c) /\ Works(c, task[t])
        /\ task[t].pc = "up" /\ task[t].pc \in WithPort /\ task[t].port \in Ports
    BY Context DEF UpSucceeds, UpFails, At, WithPort
  <1>1. p = task[t].port /\ p \in Ports /\ p # NULL /\ task[t].made /\ ~task[t].broken /\ Present(c)
    BY <1>0, PortsAssumption DEF Works, Ports
  <1>2. row[c] # NULL => row[c].port = p
    BY <1>0, <1>1 DEF RowKnown
  <1>3. customer' = customer /\ row' = row /\ Present(c)' /\ ActiveHasRow(c)'
    BY <1>0, <1>1 DEF UpSucceeds, UpFails, ActiveHasRow, Present
  <1>4. files'[c].port = p
    <2>1. files' = files \/ \E d : files' = [files EXCEPT ![c].data = d]
      BY DEF UpSucceeds, UpFails
    <2>2. QED
      BY <1>0, <2>1 DEF Dir, AllInv, TypeInv, TypeOK
  <1>5. CASE UpSucceeds(t)
    <2>1. PICK r : r = [task[t] EXCEPT !.pc = "upped"]
      OBVIOUS
    <2>2. /\ r # NULL /\ r.cust = c /\ r.pc = "upped" /\ r.port = p
          /\ r.made /\ ~r.broken
      BY <1>0, <1>1, <2>1, TaskAssumption DEF Task, Pcs, DeployPcs
    <2>3. stack'[c] = st
      BY <1>5 DEF UpSucceeds, AllInv, TypeInv, TypeOK
    <2>4. PortsAgree(c)'
      BY <1>2, <1>3, <2>3 DEF PortsAgree
    <2>5. Works(c, r)'
      BY <1>3, <1>4, <2>2, <2>3 DEF Works, UndeployPcs, ControlPcs
    <2>6. After(t, c, r)
      BY <1>3, <1>5, <2>1, <2>2, <2>4, <2>5 DEF After, UpSucceeds, Go
    <2>7. QED
      BY <2>6 DEF Serves
  <1>6. CASE UpFails(t)
    <2>1. PICK r : r = [task[t] EXCEPT !.pc = "undo"]
      OBVIOUS
    <2>2. /\ r # NULL /\ r.cust = c /\ r.pc = "undo" /\ r.made /\ ~r.broken
      BY <1>0, <1>1, <2>1, TaskAssumption DEF Task, Pcs, DeployPcs
    <2>3. stack'[c] = stack[c] \/ stack'[c].port = p
      <3>1. PICK s \in {stack[c]} \cup [port : {p}, started : BOOLEAN] : stack' = [stack EXCEPT ![c] = s]
        BY <1>1, <1>6 DEF UpFails
      <3>2. QED
        BY <3>1 DEF AllInv, TypeInv, TypeOK
    <2>4. PortsAgree(c)'
      BY <1>0, <1>2, <1>3, <2>3 DEF PortsAgree
    <2>5. Works(c, r)'
      BY <1>3, <2>2 DEF Works, WithPort, Later, UndeployPcs, ControlPcs
    <2>6. After(t, c, r)
      BY <1>3, <1>6, <2>1, <2>2, <2>4, <2>5 DEF After, UpFails, Go
    <2>7. QED
      BY <2>6 DEF Serves
  <1>7. QED
    BY <1>5, <1>6

\* compose down removes the containers, or leaves them.
LEMMA DownServes ==
    ASSUME AllInv, NEW t \in Tasks, task[t] # NULL, NEW c \in Customers, c = Cust(t),
           DownForRedeploy(t) \/ RollbackDown(t) \/ DownForUndeploy(t)
    PROVE  Serves(t, c)
  <1>0. /\ task[t] \in Task /\ task[t].cust = c
        /\ PortsAgree(c) /\ ActiveHasRow(c) /\ Works(c, task[t])
        /\ task[t].pc \in {"down", "undo", "uDown"}
    BY Context DEF DownForRedeploy, RollbackDown, DownForUndeploy, At
  <1>1. /\ customer' = customer /\ row' = row /\ files' = files
        /\ stack'[c] = stack[c] \/ stack'[c] = NULL
    BY DEF DownForRedeploy, RollbackDown, DownForUndeploy, AfterDown, AllInv, TypeInv, TypeOK
  <1>2. PICK r : task' = [task EXCEPT ![t] = r] /\ r =
          [task[t] EXCEPT !.pc = IF task[t].pc = "down" THEN "downed"
                                 ELSE IF task[t].pc = "undo" THEN "undone" ELSE "uDowned"]
    BY DEF DownForRedeploy, RollbackDown, DownForUndeploy, At, Go
  <1>3. /\ r # NULL /\ r.cust = c /\ r.port = task[t].port
        /\ r.made = task[t].made /\ r.broken = task[t].broken
        /\ r.pc = IF task[t].pc = "down" THEN "downed"
                  ELSE IF task[t].pc = "undo" THEN "undone" ELSE "uDowned"
    BY <1>0, <1>2, TaskAssumption DEF Task, Pcs, DeployPcs, UndeployPcs
  <1>4. PortsAgree(c)' /\ ActiveHasRow(c)' /\ Present(c)'
    BY <1>0, <1>1 DEF PortsAgree, ActiveHasRow, Present, Works
  <1>5. Works(c, r)'
    BY <1>0, <1>1, <1>3, <1>4 DEF Works, WithPort, Later, UndeployPcs, ControlPcs
  <1>6. After(t, c, r)
    BY <1>2, <1>3, <1>4, <1>5 DEF After
  <1>7. QED
    BY <1>6 DEF Serves

\* A task that ends and leaves the customer as it is, or without a compose
\* file and not active.
LEMMA EndServes ==
    ASSUME AllInv, NEW t \in Tasks, task[t] # NULL, NEW c \in Customers, c = Cust(t),
           End(t), PortsAgree(c)', ActiveHasRow(c)', Rests(c)'
    PROVE  Serves(t, c)
  <1>1. After(t, c, NULL)
    BY DEF After, End
  <1>2. QED
    BY <1>1 DEF Serves

\* Every step of a deployment.
LEMMA DeployServes ==
    ASSUME AllInv, Gentle, NEW t \in Tasks, task[t] # NULL, NEW c \in Customers, c = Cust(t),
           DeployStep(t)
    PROVE  Serves(t, c)
  <1>0. /\ task[t] \in Task /\ task[t].cust = c /\ RowKnown(t)
        /\ row[c] \in Row \cup {NULL} /\ files[c] \in Dir
        /\ PortsAgree(c) /\ ActiveHasRow(c) /\ Works(c, task[t]) /\ Present(c)
    BY Context DEF Works
  <1>s. UNCHANGED <<customer, row, files, outside>> => Same(c)
    BY DEF Same, outside
  <1>l. task[t].pc \notin {"undo", "undone"} => CanLog(t) /\ ~LogFails(t)
    BY <1>0 DEF Works, CanLog, LogFails
  <1>1. CASE BeginDeploy(t)
    <2>1. Prepare(t, row, files)
      BY <1>0, <1>1 DEF BeginDeploy
    <2>2. task[t].pc = "queued"
      BY <1>1 DEF BeginDeploy, At
    <2>3. ~task[t].broken /\ (files[c].port # NULL => row[c] # NULL)
      BY <1>0, <2>2 DEF Works, FilesAgree
    <2>4. row \in [Customers -> Row \cup {NULL}] /\ files \in [Customers -> Dir]
      BY DEF AllInv, TypeInv, TypeOK
    <2>5. QED
      BY <2>1, <2>3, <2>4, PrepareServes DEF Gentle
  <1>2. CASE DownForRedeploy(t) \/ RollbackDown(t)
    BY <1>2, DownServes
  <1>3. CASE ResumeAfterDown(t)
    <2>1. PICK broken \in BOOLEAN :
             /\ broken => ~Present(c)
             /\ task' = [task EXCEPT ![t] = [@ EXCEPT !.pc = "up", !.broken = broken]]
      BY <1>3 DEF ResumeAfterDown
    <2>2. PICK r : r = [task[t] EXCEPT !.pc = "up", !.broken = broken]
      OBVIOUS
    <2>3. task[t].pc = "downed" /\ ~broken
      BY <1>0, <1>3, <2>1 DEF ResumeAfterDown, At
    <2>4. /\ r \in Task /\ r.cust = c /\ r.pc = "up" /\ r.port = task[t].port
          /\ r.made = task[t].made /\ ~r.broken
      BY <1>0, <2>2, <2>3 DEF Task, Pcs, DeployPcs
    <2>5. Works(c, r)
      BY <1>0, <2>3, <2>4 DEF Works, WithPort, Later, UndeployPcs, ControlPcs
    <2>6. QED
      BY <1>3, <1>s, <2>1, <2>2, <2>4, <2>5, MoveServes DEF ResumeAfterDown
  <1>4. CASE UpSucceeds(t) \/ UpFails(t)
    BY <1>4, UpServes
  <1>5. CASE ResumeAfterUp(t)
    <2>1. task[t].pc = "upped" /\ task[t].pc \in Later /\ task[t].pc \in WithPort
      BY <1>5 DEF ResumeAfterUp, At, Later, WithPort
    <2>2. task[t].hadRow => row[c] # NULL
      BY <1>0, <2>1 DEF RowKnown
    <2>3. (task[t].hadRow /\ row[c].npm) \in BOOLEAN
      <3>1. task[t].hadRow \in BOOLEAN
        BY <1>0 DEF Task
      <3>2. task[t].hadRow => row[c].npm \in BOOLEAN
        BY <1>0, <2>2 DEF Row
      <3>3. QED
        BY <3>1, <3>2
    <2>4. CASE Go(t, "npm") /\ UNCHANGED <<customer, row, files, outside>>
      <3>1. PICK r : r = [task[t] EXCEPT !.pc = "npm"]
        OBVIOUS
      <3>2. /\ r \in Task /\ r.cust = c /\ r.pc = "npm" /\ r.port = task[t].port
            /\ r.made = task[t].made /\ r.broken = task[t].broken
        BY <1>0, <3>1 DEF Task, Pcs, DeployPcs
      <3>3. Works(c, r)
        BY <1>0, <2>1, <3>2 DEF Works, WithPort, Later, UndeployPcs, ControlPcs
      <3>4. QED
        BY <1>s, <2>4, <3>1, <3>2, <3>3, MoveServes DEF Go
    <2>5. CASE AfterProxy(t, task[t].hadRow /\ row[c].npm)
      BY <2>1, <2>3, <2>5, AfterProxyServes
    <2>6. QED
      BY <1>5, <1>l, <2>1, <2>2, <2>4, <2>5 DEF ResumeAfterUp
  <1>6. CASE CreateProxyHost(t)
    <2>1. PICK told \in BOOLEAN :
             task' = [task EXCEPT ![t] = [@ EXCEPT !.pc = "npmed", !.proxy = told]]
      BY <1>6 DEF CreateProxyHost
    <2>2. PICK r : r = [task[t] EXCEPT !.pc = "npmed", !.proxy = told]
      OBVIOUS
    <2>3. /\ r \in Task /\ r.cust = c /\ r.pc = "npmed" /\ r.port = task[t].port
          /\ r.made = task[t].made /\ r.broken = task[t].broken /\ task[t].pc = "npm"
      BY <1>0, <1>6, <2>2 DEF Task, Pcs, DeployPcs, CreateProxyHost, At
    <2>4. Works(c, r)
      BY <1>0, <2>3 DEF Works, WithPort, Later, UndeployPcs, ControlPcs
    <2>5. Same(c)
      BY <1>6 DEF CreateProxyHost, Same
    <2>6. QED
      BY <2>1, <2>2, <2>3, <2>4, <2>5, MoveServes
  <1>7. CASE ResumeAfterProxy(t)
    <2>1. task[t].pc = "npmed" /\ task[t].pc \in Later /\ task[t].proxy \in BOOLEAN
      BY <1>0, <1>7 DEF ResumeAfterProxy, At, Later, Task
    <2>2. QED
      BY <1>7, <1>l, <2>1, AfterProxyServes DEF ResumeAfterProxy
  <1>8. CASE CreateDnsRecord(t)
    <2>1. PICK r : r = [task[t] EXCEPT !.pc = "dnsed"]
      OBVIOUS
    <2>2. /\ r \in Task /\ r.cust = c /\ r.pc = "dnsed" /\ r.port = task[t].port
          /\ r.made = task[t].made /\ r.broken = task[t].broken /\ task[t].pc = "dns"
      BY <1>0, <1>8, <2>1 DEF Task, Pcs, DeployPcs, CreateDnsRecord, At
    <2>3. Works(c, r)
      BY <1>0, <2>2 DEF Works, WithPort, Later, UndeployPcs, ControlPcs
    <2>4. Same(c) /\ task' = [task EXCEPT ![t] = r]
      BY <1>8, <2>1 DEF CreateDnsRecord, Same, Go
    <2>5. QED
      BY <2>2, <2>3, <2>4, MoveServes
  <1>9. CASE ResumeAfterDns(t)
    <2>1. task[t].pc = "dnsed" /\ task[t].pc \in Later /\ task[t].proxy \in BOOLEAN
      BY <1>0, <1>9 DEF ResumeAfterDns, At, Later, Task
    <2>2. QED
      BY <1>9, <1>l, <2>1, RecordServes DEF ResumeAfterDns
  <1>10. CASE RollbackFiles(t)
    <2>1. task[t].pc = "undone" /\ row' = row /\ stack' = stack /\ End(t)
      BY <1>10 DEF RollbackFiles, At, outside
    <2>2. files'[c].port = NULL
      <3>1. PICK f \in IF task[t].made THEN AfterRmtree(files[c]) ELSE {files[c]} :
               files' = [files EXCEPT ![c] = f]
        BY <1>10 DEF RollbackFiles
      <3>2. f.port = NULL
        BY <1>0, <2>1 DEF Works, AfterRmtree, NoDir, Gentle
      <3>3. QED
        BY <3>1, <3>2 DEF AllInv, TypeInv, TypeOK
    <2>3. customer'[c] # "active"
      <3>1. CASE task[t].broken
        BY <1>0, <1>10, <2>1, <3>1 DEF RollbackFiles, Works, ActiveHasRow
      <3>2. CASE ~task[t].broken
        BY <1>0, <1>10, <3>2 DEF RollbackFiles, AllInv, TypeInv, TypeOK
      <3>3. QED
        BY <3>1, <3>2
    <2>4. PortsAgree(c)' /\ ActiveHasRow(c)' /\ Rests(c)'
      BY <1>0, <2>1, <2>2, <2>3 DEF PortsAgree, ActiveHasRow, Rests, FilesAgree
    <2>5. QED
      BY <2>1, <2>4, EndServes
  <1>11. QED
    BY <1>1, <1>2, <1>3, <1>4, <1>5, <1>6, <1>7, <1>8, <1>9, <1>10 DEF DeployStep

\* The last step of an undeployment removes directory and row; a reinstall
\* goes on with the first step of a deployment.
LEMMA UndeployedServes ==
    ASSUME AllInv, Gentle, NEW t \in Tasks, task[t] # NULL, NEW c \in Customers, c = Cust(t),
           task[t].pc \in UndeployPcs, Undeployed(t)
    PROVE  Serves(t, c)
  <1> DEFINE dirs == [files EXCEPT ![c] = NoDir]
             rows == [row EXCEPT ![c] = NULL]
  <1>0. /\ task[t] \in Task /\ task[t].cust = c /\ PortsAgree(c) /\ ActiveHasRow(c)
        /\ row[c] # NULL /\ ~task[t].broken
    BY Context DEF Works, UndeployPcs
  <1>1. AfterRmtree(files[c]) = {NoDir}
    BY DEF AfterRmtree, Gentle
  <1>2. CASE Prepare(t, rows, dirs)
    <2>1. dirs \in [Customers -> Dir] /\ rows \in [Customers -> Row \cup {NULL}]
      BY DEF NoDir, Dir, AllInv, TypeInv, TypeOK
    <2>2. rows[c] = NULL /\ dirs[c].port = NULL
      BY DEF NoDir, AllInv, TypeInv, TypeOK
    <2>3. QED
      BY <1>0, <1>2, <2>1, <2>2, PrepareServes DEF Gentle
  <1>3. CASE /\ customer' = [customer EXCEPT ![c] = "absent"]
             /\ row' = rows /\ files' = dirs /\ End(t)
    <2>1. customer'[c] = "absent" /\ row'[c] = NULL /\ files'[c].port = NULL
      BY <1>3 DEF NoDir, AllInv, TypeInv, TypeOK
    <2>2. PortsAgree(c)' /\ ActiveHasRow(c)' /\ Rests(c)'
      BY <2>1 DEF PortsAgree, ActiveHasRow, Rests, FilesAgree
    <2>3. QED
      BY <1>3, <2>2, EndServes
  <1>4. QED
    BY <1>0, <1>1, <1>2, <1>3 DEF Undeployed

\* Every step of an undeployment.
LEMMA UndeployServes ==
    ASSUME AllInv, Gentle, NEW t \in Tasks, task[t] # NULL, NEW c \in Customers, c = Cust(t),
           UndeployStep(t)
    PROVE  Serves(t, c)
  <1>0. /\ task[t] \in Task /\ task[t].cust = c
        /\ row[c] \in Row \cup {NULL} /\ files[c] \in Dir
        /\ PortsAgree(c) /\ ActiveHasRow(c) /\ Works(c, task[t]) /\ Present(c)
    BY Context DEF Works
  <1>g. ASSUME NEW pc \in UndeployPcs, Go(t, pc), Same(c), row[c] # NULL, ~task[t].broken
        PROVE  Serves(t, c)
    <2>1. PICK r : r = [task[t] EXCEPT !.pc = pc]
      OBVIOUS
    <2>2. r \in Task /\ r.cust = c /\ r.pc = pc /\ r.broken = task[t].broken
      BY <1>0, <1>g, <2>1 DEF Task, Pcs
    <2>3. Works(c, r)
      BY <1>0, <1>g, <2>2 DEF Works, WithPort, Later, UndeployPcs, ControlPcs
    <2>4. QED
      BY <1>g, <2>1, <2>2, <2>3, MoveServes DEF Go
  <1>s. UNCHANGED <<customer, row, files, outside>> => Same(c)
    BY DEF Same, outside
  <1>p. task[t].pc \in UndeployPcs => row[c] # NULL /\ ~task[t].broken
    BY <1>0 DEF Works, UndeployPcs
  <1>d. task[t].pc \in UndeployPcs /\ RemoveDns(t) => Serves(t, c)
    BY <1>g, <1>s, <1>p, UndeployedServes DEF RemoveDns, UndeployPcs
  <1>1. CASE BeginUndeploy(t)
    <2>1. task[t].pc = "queued" /\ ~task[t].broken /\ row[c] # NULL
      BY <1>0, <1>1 DEF BeginUndeploy, At, Works
    <2>2. QED
      BY <1>1, <1>g, <1>s, <2>1 DEF BeginUndeploy, UndeployPcs
  <1>2. CASE DeleteWithoutRow(t)
    <2>1. /\ customer'[c] = "absent" /\ row' = row /\ files' = files /\ row[c] = NULL
          /\ files[c].port = NULL /\ End(t)
      BY <1>0, <1>2 DEF DeleteWithoutRow, At, Works, FilesAgree, AllInv, TypeInv, TypeOK
    <2>2. PortsAgree(c)' /\ ActiveHasRow(c)' /\ Rests(c)'
      BY <2>1 DEF PortsAgree, ActiveHasRow, Rests, FilesAgree
    <2>3. QED
      BY <2>1, <2>2, EndServes
  <1>3. CASE DownForUndeploy(t)
    BY <1>3, DownServes
  <1>4. CASE ResumeUndeploy(t)
    <2>1. task[t].pc \in UndeployPcs
      BY <1>4 DEF ResumeUndeploy, At, UndeployPcs
    <2>2. QED
      BY <1>0, <1>4, <1>g, <1>s, <1>p, <1>d, <2>1 DEF ResumeUndeploy, Abort, UndeployPcs
  <1>5. CASE DeleteProxyHost(t)
    <2>1. task[t].pc \in UndeployPcs /\ Same(c) /\ Go(t, "uNpmed")
      BY <1>5 DEF DeleteProxyHost, At, UndeployPcs, Same
    <2>2. QED
      BY <1>g, <1>p, <2>1 DEF UndeployPcs
  <1>6. CASE ResumeAfterProxyDelete(t)
    <2>1. task[t].pc \in UndeployPcs
      BY <1>6 DEF ResumeAfterProxyDelete, At, UndeployPcs
    <2>2. QED
      BY <1>0, <1>6, <1>d, <2>1 DEF ResumeAfterProxyDelete, Abort
  <1>7. CASE DeleteDnsRecord(t)
    <2>1. task[t].pc \in UndeployPcs /\ Same(c) /\ Go(t, "uDnsed")
      BY <1>7 DEF DeleteDnsRecord, At, UndeployPcs, Same
    <2>2. QED
      BY <1>g, <1>p, <2>1 DEF UndeployPcs
  <1>8. CASE FinishUndeploy(t)
    BY <1>8, UndeployedServes DEF FinishUndeploy, At, UndeployPcs
  <1>9. QED
    BY <1>1, <1>2, <1>3, <1>4, <1>5, <1>6, <1>7, <1>8 DEF UndeployStep

\* The compose call of start, stop or restart.  A relay that ran can be
\* started again, as no other relay has its port.
LEMMA ComposeServes ==
    ASSUME AllInv, Gentle, NEW t \in Tasks, task[t] # NULL, NEW c \in Customers, c = Cust(t),
           ComposeControl(t)
    PROVE  Serves(t, c)
  <1>0. /\ task[t] \in Task /\ task[t].cust = c
        /\ row[c] \in Row \cup {NULL} /\ files[c] \in Dir /\ stack[c] \in Stack \cup {NULL}
        /\ PortsAgree(c) /\ ActiveHasRow(c) /\ Works(c, task[t]) /\ Present(c)
        /\ task[t].pc = "control" /\ row[c] # NULL /\ ~task[t].broken
        /\ task[t].op \in {"stop", "start", "restart"} /\ Rests(c) /\ WillWrite(c, task[t])
    BY Context DEF Works, ComposeControl, At, ControlPcs
  <1>1. PICK s \in Stack \cup {NULL}, ok \in BOOLEAN :
           /\ ComposeCall(c, task[t].op, s, ok)
           /\ stack' = [stack EXCEPT ![c] = s]
           /\ task' = [task EXCEPT ![t] = [@ EXCEPT !.pc = "controlled", !.ok = ok]]
    BY DEF ComposeControl
  <1>2. PICK r : r = [task[t] EXCEPT !.pc = "controlled", !.ok = ok]
    OBVIOUS
  <1>3. /\ r # NULL /\ r.cust = c /\ r.pc = "controlled" /\ r.ok = ok
        /\ r.op = task[t].op /\ r.writes = task[t].writes /\ r.broken = task[t].broken
    BY <1>0, <1>2, TaskAssumption DEF Task, Pcs, ControlPcs
  <1>4. /\ customer' = customer /\ row' = row /\ files' = files
        /\ stack'[c] = s
    BY <1>1 DEF ComposeControl, AllInv, TypeInv, TypeOK
  <1>5. s # NULL => stack[c] # NULL /\ s.port = stack[c].port
    BY <1>0, <1>1, StackAssumption DEF ComposeCall, Stack
  <1>6. PortsAgree(c)' /\ ActiveHasRow(c)' /\ Present(c)'
    BY <1>0, <1>4, <1>5 DEF PortsAgree, ActiveHasRow, Present
  <1>7. CASE s = stack[c] /\ ~ok
    <2>1. Rests(c)'
      BY <1>0, <1>4, <1>7 DEF Rests, AsRecorded, FilesAgree, InStep, Runs
    <2>2. Works(c, r)'
      BY <1>0, <1>3, <1>4, <1>6, <1>7, <2>1 DEF Works, WithPort, Later, UndeployPcs, ControlPcs
    <2>3. After(t, c, r)
      BY <1>1, <1>2, <1>3, <1>6, <2>2 DEF After
    <2>4. QED
      BY <2>3 DEF Serves
  <1>8. CASE files[c].port # NULL /\ stack[c] # NULL /\ ~(s = stack[c] /\ ~ok)
    <2>1. PICK up \in BOOLEAN :
             /\ s = [stack[c] EXCEPT !.started = up]
             /\ \/ task[t].op = "stop" /\ ~up /\ ok
                \/ task[t].op # "stop" /\ up /\ ok
                \/ task[t].op # "stop" /\ ~up /\ ~ok /\ BoundByOther(c, stack[c].port)
      BY <1>1, <1>8 DEF ComposeCall, Gentle
    <2>2. s.started = up /\ s # NULL
      BY <1>0, <1>8, <2>1, StackAssumption DEF Stack
    <2>3. InStep(c) /\ FilesAgree(c) /\ (customer[c] = "inactive" => ~Runs(c))
      BY <1>0, <1>8 DEF Rests
    <2>4. InStep(c)' /\ FilesAgree(c)' /\ (Runs(c)' <=> up)
      BY <1>4, <1>5, <2>2, <2>3 DEF InStep, FilesAgree, Runs
    <2>5. ASSUME ok PROVE Writes(c, r)'
      <3>1. Runs(c)' <=> r.op # "stop"
        BY <1>3, <2>1, <2>4, <2>5
      <3>2. \/ r.writes = {"row", "customer"}
            \/ /\ r.writes = {}
               /\ customer'[c] = "active" => Runs(c)'
               /\ customer'[c] = "inactive" => ~Runs(c)'
        <4>1. CASE r.op = "stop"
          <5>1. ASSUME ~Runs(c) PROVE customer[c] # "active"
            BY <1>0, <1>8, <5>1 DEF Rests, AsRecorded, Runs
          <5>2. QED
            BY <1>0, <1>3, <1>4, <1>8, <3>1, <4>1, <5>1 DEF WillWrite
        <4>2. CASE r.op # "stop"
          BY <1>0, <1>3, <1>4, <1>8, <3>1, <4>2 DEF WillWrite
        <4>3. QED
          BY <4>1, <4>2
      <3>3. QED
        BY <1>4, <1>8, <2>4, <3>1, <3>2 DEF Writes
    <2>6. ASSUME ~ok PROVE Rests(c)'
      <3>1. ~up /\ BoundByOther(c, stack[c].port)
        BY <2>1, <2>6
      <3>2. ~Runs(c)
        BY <1>8, <3>1 DEF BoundByOther, Runs, UpDiffer, AllInv
      <3>3. customer[c] # "active"
        BY <1>0, <1>8, <3>2 DEF Rests, AsRecorded, Runs
      <3>4. QED
        BY <1>4, <2>4, <3>1, <3>3 DEF Rests
    <2>7. Works(c, r)'
      BY <1>0, <1>3, <1>4, <1>6, <2>5, <2>6 DEF Works, WithPort, Later, UndeployPcs, ControlPcs
    <2>8. After(t, c, r)
      BY <1>1, <1>2, <1>3, <1>6, <2>7 DEF After
    <2>9. QED
      BY <2>8 DEF Serves
  <1>9. QED
    BY <1>0, <1>1, <1>7, <1>8 DEF ComposeCall, Rests, FilesAgree

\* The commit after the compose call writes both statuses, or finds them as
\* they should be.
LEMMA ControlServes ==
    ASSUME AllInv, NEW t \in Tasks, task[t] # NULL, NEW c \in Customers, c = Cust(t),
           ResumeControl(t)
    PROVE  Serves(t, c)
  <1> DEFINE op == task[t].op
             w == task[t].writes
  <1>0. /\ task[t] \in Task /\ task[t].cust = c
        /\ row[c] \in Row \cup {NULL} /\ stack[c] \in Stack \cup {NULL}
        /\ PortsAgree(c) /\ ActiveHasRow(c) /\ Works(c, task[t]) /\ Present(c)
        /\ row[c] # NULL /\ op \in {"stop", "start", "restart"}
        /\ IF task[t].ok THEN Writes(c, task[t]) ELSE Rests(c)
    BY Context DEF Works, ResumeControl, At, ControlPcs
  <1>1. End(t) /\ files' = files /\ stack' = stack /\ (Runs(c)' <=> Runs(c))
    BY DEF ResumeControl, outside, Runs
  <1>2. CASE ~task[t].ok \/ w = {}
    <2>1. row' = row /\ customer' = customer
      BY <1>0, <1>2 DEF ResumeControl
    <2>2. Rests(c)
      <3>1. CASE ~task[t].ok
        BY <1>0, <3>1
      <3>2. CASE task[t].ok /\ w = {}
        <4>1. /\ FilesAgree(c) /\ InStep(c) /\ stack[c] # NULL
              /\ customer[c] = "active" => Runs(c)
              /\ customer[c] = "inactive" => ~Runs(c)
          BY <1>0, <3>2 DEF Writes, FilesAgree
        <4>2. customer[c] = "active" => stack[c] = [port |-> row[c].port, started |-> TRUE]
          BY <1>0, <4>1 DEF Runs, PortsAgree, Stack
        <4>3. QED
          BY <1>0, <4>1, <4>2 DEF Rests, AsRecorded, InStep
      <3>3. QED
        BY <1>2, <3>1, <3>2
    <2>3. PortsAgree(c)' /\ ActiveHasRow(c)' /\ Rests(c)'
      BY <1>0, <1>1, <2>1, <2>2 DEF PortsAgree, ActiveHasRow, Rests, AsRecorded, FilesAgree, InStep
    <2>4. QED
      BY <1>1, <2>3, EndServes
  <1>3. CASE task[t].ok /\ w # {}
    <2>1. w = {"row", "customer"} /\ FilesAgree(c) /\ stack[c] # NULL /\ (Runs(c) <=> op # "stop")
      BY <1>0, <1>3 DEF Writes, FilesAgree
    <2>2. /\ row' = [row EXCEPT ![c].status = RowStatusAfter(op)]
          /\ customer' = [customer EXCEPT ![c] = CustomerStatusAfter(op)]
      BY <1>0, <1>3, <2>1 DEF ResumeControl
    <2>3. row[c] \in Row
      BY <1>0
    <2>4. /\ row'[c] = [row[c] EXCEPT !.status = RowStatusAfter(op)]
          /\ customer'[c] = CustomerStatusAfter(op)
      BY <2>2 DEF AllInv, TypeInv, TypeOK
    <2>5. row'[c].port = row[c].port /\ row'[c].status = RowStatusAfter(op) /\ row'[c] # NULL
      <3>1. [row[c] EXCEPT !.status = RowStatusAfter(op)] \in Row
        BY <2>3 DEF Row, RowStatusAfter, DeploymentStatuses
      <3>2. QED
        BY <2>3, <2>4, <3>1, RowAssumption DEF Row
    <2>6. InStep(c)'
      BY <2>4, <2>5 DEF InStep, RowStatusAfter, CustomerStatusAfter
    <2>7. FilesAgree(c)' /\ PortsAgree(c)' /\ ActiveHasRow(c)'
      BY <1>0, <1>1, <2>1, <2>5 DEF FilesAgree, PortsAgree, ActiveHasRow
    <2>8. customer'[c] = "inactive" => ~Runs(c)'
      BY <1>1, <2>1, <2>4 DEF CustomerStatusAfter
    <2>9. customer'[c] = "active" => AsRecorded(c)'
      <3>1. ASSUME customer'[c] = "active" PROVE AsRecorded(c)'
        <4>1. op # "stop"
          BY <2>4, <3>1 DEF CustomerStatusAfter
        <4>2. stack[c] \in Stack /\ stack[c].started /\ stack[c].port = row[c].port
          BY <1>0, <2>1, <4>1 DEF Runs, PortsAgree
        <4>3. stack[c] = [port |-> row[c].port, started |-> TRUE]
          BY <4>2 DEF Stack
        <4>4. row'[c].status = "running"
          BY <2>5, <4>1 DEF RowStatusAfter
        <4>5. QED
          BY <1>1, <2>5, <4>3, <4>4 DEF AsRecorded
      <3>2. QED
        BY <3>1
    <2>10. Rests(c)'
      BY <2>6, <2>7, <2>8, <2>9 DEF Rests
    <2>11. QED
      BY <1>1, <2>7, <2>10, EndServes
  <1>4. QED
    BY <1>2, <1>3

-----------------------------------------------------------------------------
(* Every step of the system keeps the invariant.                           *)

\* It is kept for a customer of which nothing changes, its tasks included.
LEMMA SoundSame ==
    ASSUME SoundInv, NEW d \in Customers, Same(d), ~Busy(d)' => ~Busy(d),
           \A u \in Tasks : task'[u] # NULL /\ task'[u].cust = d => task'[u] = task[u]
    PROVE  Sound(d)'
  <1>1. PortsAgree(d)' /\ ActiveHasRow(d)'
    BY DEF SoundInv, Sound, Same, PortsAgree, ActiveHasRow
  <1>2. /\ Runs(d)' <=> Runs(d)
        /\ FilesAgree(d)' <=> FilesAgree(d)
        /\ InStep(d)' <=> InStep(d)
        /\ Present(d)' <=> Present(d)
    BY DEF Same, Runs, FilesAgree, InStep, Present
  <1>3. Rests(d)' <=> Rests(d)
    BY <1>2 DEF Same, Rests, AsRecorded
  <1>4. ASSUME NEW u \in Tasks, task'[u] # NULL, task'[u].cust = d PROVE Works(d, task[u])'
    <2>1. Works(d, task[u]) /\ task'[u] = task[u]
      BY <1>4 DEF SoundInv, Sound
    <2>2. (WillWrite(d, task[u])' <=> WillWrite(d, task[u])) /\ (Writes(d, task[u])' <=> Writes(d, task[u]))
      BY <1>2, <2>1 DEF Same, WillWrite, Writes
    <2>3. QED
      BY <1>2, <1>3, <2>1, <2>2 DEF Same, Works
  <1>5. QED
    BY <1>1, <1>3, <1>4 DEF SoundInv, Sound

\* A step of a task keeps it for all customers.
LEMMA StepServes ==
    ASSUME AllInv, Gentle, NEW t \in Tasks, Step(t)
    PROVE  SoundInv'
  <1>1. task[t] # NULL
    BY NoRefusal DEF Gentle, Step, DeployStep, UndeployStep, ComposeControl, ResumeControl, BeginDeploy,
           DownForRedeploy, ResumeAfterDown, UpSucceeds, UpFails, ResumeAfterUp, CreateProxyHost,
           ResumeAfterProxy, CreateDnsRecord, ResumeAfterDns, RollbackDown, RollbackFiles,
           BeginUndeploy, DeleteWithoutRow, DownForUndeploy, ResumeUndeploy, DeleteProxyHost,
           ResumeAfterProxyDelete, DeleteDnsRecord, FinishUndeploy, At
  <1>2. PICK c \in Customers : c = Cust(t)
    BY <1>1 DEF AllInv, TypeInv, TypeOK, Task, Cust
  <1>3. Elsewhere(t)
    BY <1>1, StepElsewhere DEF AllInv, Gentle
  <1>4. Serves(t, c)
    BY <1>1, <1>2, DeployServes, UndeployServes, ComposeServes, ControlServes, NoRefusal DEF Step, Gentle
  <1>5. PICK r : After(t, c, r)
    BY <1>4 DEF Serves
  <1>6. /\ task'[t] = r
        /\ \A u \in Tasks \ {t} : task'[u] = task[u]
    BY <1>5 DEF After, AllInv, TypeInv, TypeOK
  <1>7. \A u \in Tasks \ {t} : task[u] # NULL => task[u].cust # c
    BY <1>1, <1>2 DEF AllInv, PortInv, OneTaskEach, Cust
  <1>8. Sound(c)'
    <2>1. ASSUME ~Busy(c)' PROVE r = NULL
      BY <1>5, <1>6, <2>1 DEF Busy, After
    <2>2. ASSUME NEW u \in Tasks, task'[u] # NULL, task'[u].cust = c PROVE u = t /\ r # NULL
      BY <1>6, <1>7, <2>2
    <2>3. ASSUME NEW u \in Tasks, task'[u] # NULL, task'[u].cust = c PROVE Works(c, task[u])'
      <3>1. Works(c, r)' /\ task'[u] = r
        BY <1>5, <1>6, <2>2, <2>3 DEF After
      <3>2. QED
        BY <3>1
    <2>4. QED
      BY <1>5, <2>1, <2>3 DEF After, Sound
  <1>9. ASSUME NEW d \in Customers, d # c PROVE Sound(d)'
    <2>1. Same(d)
      BY <1>2, <1>3, <1>9 DEF Elsewhere
    <2>2. \A u \in Tasks : task'[u] # NULL /\ task'[u].cust = d => task'[u] = task[u]
      BY <1>5, <1>6, <1>9 DEF After
    <2>3. ~Busy(d)' => ~Busy(d)
      BY <1>1, <1>2, <1>6, <1>9 DEF Busy, Cust
    <2>4. QED
      BY <2>1, <2>2, <2>3, SoundSame DEF AllInv
  <1>10. QED
    BY <1>8, <1>9 DEF SoundInv

\* The handlers run up to their first await only when no task works on the
\* customer, so they find it at rest.
LEMMA RequestServes ==
    ASSUME AllInv, Gentle, NEW t \in Tasks, NEW c \in Customers, Request(t, c)
    PROVE  SoundInv'
  <1>1. task[t] = NULL /\ ~Busy(c) /\ Rests(c) /\ PortsAgree(c) /\ ActiveHasRow(c)
    BY DEF Request, Create, ManualDeploy, Delete, Control, Free, Gentle, AllInv, SoundInv, Sound
  <1>2. row' = row /\ files' = files /\ stack' = stack
    BY DEF Request, Create, ManualDeploy, Delete, Control, outside
  <1>3. PICK r : task' = [task EXCEPT ![t] = r] /\ r.cust = c /\ r # NULL /\ Works(c, r)' /\ ActiveHasRow(c)'
    <2>1. CASE Create(t, c) \/ ManualDeploy(t, c) \/ Delete(t, c)
      <3>1. PICK op \in {"create", "redeploy", "reinstall", "delete"} :
               task' = [task EXCEPT ![t] = NewTask(op, c, "queued")]
        BY <2>1 DEF Create, ManualDeploy, Delete
      <3>2. PICK r : r = NewTask(op, c, "queued")
        OBVIOUS
      <3>3. r.cust = c /\ r.pc = "queued" /\ r.op = op /\ ~r.broken
        BY <3>2 DEF NewTask
      <3>4. r # NULL
        <4>1. r \in Task
          BY <3>2 DEF NewTask, Task, Pcs, DeployPcs, Operations
        <4>2. QED
          BY <4>1, TaskAssumption
      <3>5. customer'[c] \in {"deploying", "inactive"}
        BY <2>1 DEF Create, ManualDeploy, Delete, AllInv, TypeInv, TypeOK
      <3>6. Works(c, r)'
        BY <1>1, <1>2, <3>3, <3>5
           DEF Works, Present, Rests, FilesAgree, WithPort, Later, UndeployPcs, ControlPcs
      <3>7. QED
        BY <3>1, <3>2, <3>3, <3>4, <3>5, <3>6 DEF ActiveHasRow
    <2>2. CASE Control(t, c)
      <3> DEFINE writes(op) == {x \in {"row", "customer"} :
                            \/ x = "row" /\ row[c].status # RowStatusAfter(op)
                            \/ x = "customer" /\ customer[c] # CustomerStatusAfter(op)}
      <3>1. PICK op \in {"stop", "start", "restart"} :
              task' = [task EXCEPT ![t] =
                          [NewTask(op, c, "control") EXCEPT !.writes = writes(op)]]
        BY <2>2 DEF Control
      <3>2. PICK r : r = [NewTask(op, c, "control") EXCEPT !.writes = writes(op)]
        OBVIOUS
      <3>3. r.cust = c /\ r.pc = "control" /\ r.op = op /\ ~r.broken /\ r.writes = writes(op)
        BY <3>2 DEF NewTask
      <3>4. r # NULL
        <4>1. writes(op) \in SUBSET {"row", "customer"}
          OBVIOUS
        <4>2. r \in Task
          BY <3>2, <4>1 DEF NewTask, Task, Pcs, ControlPcs, Operations
        <4>3. QED
          BY <4>2, TaskAssumption
      <3>5. customer' = customer /\ Present(c) /\ row[c] # NULL
        BY <2>2 DEF Control
      <3>6. WillWrite(c, r)
        <4>1. ASSUME files[c].port # NULL
              PROVE  /\ writes(op) = {"row", "customer"} \/ writes(op) = {}
                     /\ writes(op) = {} => customer[c] = CustomerStatusAfter(op)
          BY <1>1, <4>1 DEF Rests, InStep, RowStatusAfter, CustomerStatusAfter
        <4>2. QED
          BY <1>1, <3>3, <4>1 DEF WillWrite, Rests, CustomerStatusAfter
      <3>7. WillWrite(c, r)' /\ Rests(c)'
        <4>1. Runs(c)' <=> Runs(c)
          BY <1>2 DEF Runs
        <4>2. QED
          BY <1>1, <1>2, <3>5, <3>6, <4>1 DEF WillWrite, Rests, AsRecorded, FilesAgree, InStep
      <3>8. Works(c, r)'
        BY <1>2, <3>3, <3>5, <3>7
           DEF Works, Present, WithPort, Later, UndeployPcs, ControlPcs
      <3>9. QED
        BY <1>1, <1>2, <3>1, <3>2, <3>3, <3>4, <3>5, <3>8 DEF ActiveHasRow
    <2>3. QED
      BY <2>1, <2>2 DEF Request
  <1>4. task'[t] = r /\ \A u \in Tasks \ {t} : task'[u] = task[u]
    BY <1>3 DEF AllInv, TypeInv, TypeOK
  <1>5. Sound(c)'
    <2>1. Busy(c)' /\ PortsAgree(c)'
      BY <1>1, <1>2, <1>3, <1>4 DEF Busy, PortsAgree
    <2>2. ASSUME NEW u \in Tasks, task'[u] # NULL, task'[u].cust = c PROVE u = t
      BY <1>1, <1>4, <2>2 DEF Busy
    <2>3. ASSUME NEW u \in Tasks, task'[u] # NULL, task'[u].cust = c PROVE Works(c, task[u])'
      <3>1. Works(c, r)' /\ task'[u] = r
        BY <1>3, <1>4, <2>2, <2>3
      <3>2. QED
        BY <3>1
    <2>4. QED
      BY <1>3, <2>1, <2>3 DEF Sound
  <1>6. ASSUME NEW d \in Customers, d # c PROVE Sound(d)'
    <2>1. Same(d)
      <3>1. customer' = customer \/ \E s : customer' = [customer EXCEPT ![c] = s]
        BY DEF Request, Create, ManualDeploy, Delete, Control
      <3>2. QED
        BY <1>2, <1>6, <3>1 DEF Same, AllInv, TypeInv, TypeOK
    <2>2. \A u \in Tasks : task'[u] # NULL /\ task'[u].cust = d => task'[u] = task[u]
      BY <1>3, <1>4, <1>6
    <2>3. ~Busy(d)' => ~Busy(d)
      BY <1>1, <1>4 DEF Busy
    <2>4. QED
      BY <2>1, <2>2, <2>3, SoundSame DEF AllInv
  <1>7. QED
    BY <1>5, <1>6 DEF SoundInv

\* A health check writes what the customer's own containers are like, also
\* while a start, stop or restart waits for docker.
LEMMA HealthServes ==
    ASSUME AllInv, Gentle, NEW c \in Customers, CheckHealth(c)
    PROVE  SoundInv' /\ RowsDiffer'
  <1>p. PICK healthy \in BOOLEAN :
           /\ healthy => \A d \in {e \in Prefixed[c] : stack[e] # NULL} : stack[d].started
           /\ row' = [row EXCEPT ![c].status = IF healthy THEN "running" ELSE "failed"]
           /\ customer' = [customer EXCEPT ![c] = IF healthy THEN "active" ELSE "error"]
    BY DEF CheckHealth
  <1> DEFINE st == IF healthy THEN "running" ELSE "failed"
             cs == IF healthy THEN "active" ELSE "error"
  <1>0. Sound(c) /\ PortsAgree(c)
    BY DEF AllInv, SoundInv, Sound
  <1>1. /\ row[c] # NULL /\ row[c] \in Row /\ stack[c] # NULL /\ stack[c] \in Stack
        /\ row' = [row EXCEPT ![c].status = st]
        /\ customer' = [customer EXCEPT ![c] = cs]
        /\ files' = files /\ stack' = stack /\ task' = task
        /\ healthy => Runs(c)
    <2>1. Prefixed[c] = {c} /\ row[c] # NULL /\ row[c] \in Row \cup {NULL} /\ stack[c] \in Stack \cup {NULL}
      BY DEF CheckHealth, Gentle, AllInv, TypeInv, TypeOK
    <2>2. stack[c] # NULL
      BY <2>1 DEF CheckHealth
    <2>3. healthy => Runs(c)
      BY <1>p, <2>1, <2>2 DEF Runs
    <2>4. files' = files /\ stack' = stack /\ task' = task
      BY DEF CheckHealth, outside
    <2>5. QED
      BY <1>p, <2>1, <2>2, <2>3, <2>4
  <1>2. /\ row'[c] = [row[c] EXCEPT !.status = st] /\ customer'[c] = cs
        /\ \A d \in Customers \ {c} : Same(d)
    BY <1>1 DEF Same, AllInv, TypeInv, TypeOK
  <1>3. row'[c] # NULL /\ row'[c].port = row[c].port /\ row'[c].status = st
    <2>1. [row[c] EXCEPT !.status = st] \in Row
      BY <1>1 DEF Row, DeploymentStatuses
    <2>2. QED
      BY <1>1, <1>2, <2>1, RowAssumption DEF Row
  <1>4. Runs(c)' <=> Runs(c)
    BY <1>1 DEF Runs
  <1>5. PortsAgree(c)' /\ ActiveHasRow(c)' /\ InStep(c)' /\ Present(c)'
    BY <1>0, <1>1, <1>2, <1>3 DEF PortsAgree, ActiveHasRow, InStep, Present
  <1>6. FilesAgree(c)' <=> FilesAgree(c)
    BY <1>1, <1>3 DEF FilesAgree
  <1>7. customer'[c] \in {"active", "error"} /\ (customer'[c] = "active" => healthy /\ Runs(c))
    BY <1>1, <1>2
  <1>8. customer'[c] = "active" => AsRecorded(c)'
    <2>1. ASSUME Runs(c) PROVE stack[c] = [port |-> row[c].port, started |-> TRUE]
      BY <1>0, <1>1, <2>1 DEF Runs, PortsAgree, Stack
    <2>2. QED
      BY <1>1, <1>3, <1>7, <2>1 DEF AsRecorded
  <1>9. Rests(c) => Rests(c)'
    BY <1>2, <1>4, <1>5, <1>6, <1>7, <1>8 DEF Rests
  <1>10. ASSUME NEW r, Works(c, r) PROVE Works(c, r)'
    <2>1. r.pc = "control" => WillWrite(c, r)'
      <3>1. ASSUME r.pc = "control" PROVE WillWrite(c, r)'
        <4>1. Rests(c) /\ WillWrite(c, r)
          BY <1>10, <3>1 DEF Works
        <4>2. QED
          BY <1>1, <1>4, <1>7, <4>1 DEF WillWrite
      <3>2. QED
        BY <3>1
    <2>2. Writes(c, r) => Writes(c, r)'
      BY <1>1, <1>4, <1>5, <1>6, <1>7 DEF Writes
    <2>3. QED
      BY <1>1, <1>3, <1>5, <1>6, <1>9, <1>10, <2>1, <2>2 DEF Works
  <1>11. Sound(c)'
    <2>1. Busy(c)' <=> Busy(c)
      BY <1>1 DEF Busy
    <2>2. ASSUME NEW u \in Tasks, task[u] # NULL, task[u].cust = c PROVE Works(c, task[u])'
      <3>1. PICK r : r = task[u]
        OBVIOUS
      <3>2. Works(c, r)' /\ task'[u] = r
        BY <1>0, <1>1, <1>10, <2>2, <3>1 DEF Sound
      <3>3. QED
        BY <3>2
    <2>3. QED
      BY <1>0, <1>1, <1>5, <1>9, <2>1, <2>2 DEF Sound
  <1>12. ASSUME NEW d \in Customers, d # c PROVE Sound(d)'
    BY <1>1, <1>2, <1>12, SoundSame DEF AllInv, Busy
  <1>13. RowsDiffer'
    BY <1>1, StatusShrinks, ShrinkDiffers DEF AllInv
  <1>14. QED
    BY <1>11, <1>12, <1>13 DEF SoundInv

\* Every step keeps the whole invariant.
LEMMA AllStep ==
    ASSUME Gentle, AllInv, [Next]_vars
    PROVE  AllInv'
  <1>0. TypeInv' /\ PortInv'
    BY TypeStep, PortStep DEF AllInv, Gentle
  <1>1. ASSUME NEW t \in Tasks, NEW c \in Customers, Request(t, c) PROVE AllInv'
    <2>1. row' = row /\ stack' = stack
      BY <1>1 DEF Request, Create, ManualDeploy, Delete, Control, outside
    <2>2. RowsDiffer' /\ UpDiffer'
      BY <2>1 DEF AllInv, RowsDiffer, UpDiffer, Runs
    <2>3. QED
      BY <1>0, <1>1, <2>2, RequestServes DEF AllInv
  <1>2. ASSUME NEW t \in Tasks, Step(t) PROVE AllInv'
    <2>1. task[t] # NULL
      BY <1>2, DeployKnows, UndeployKnows, ControlKnows, RefusedKnows DEF Step, AllInv, PortInv
    <2>2. RowsDiffer' /\ UpDiffer'
      BY <1>2, <2>1, RowsDifferStep, UpStep DEF AllInv, Gentle
    <2>3. QED
      BY <1>0, <1>2, <2>2, StepServes DEF AllInv
  <1>3. ASSUME NEW c \in Customers, CheckHealth(c) PROVE AllInv'
    <2>1. UpDiffer'
      BY <1>3 DEF CheckHealth, outside, AllInv, UpDiffer, Runs
    <2>2. QED
      BY <1>0, <1>3, <2>1, HealthServes DEF AllInv
  <1>4. ASSUME NEW c \in Customers, UpdateCustomer(c) PROVE FALSE
    BY <1>4 DEF UpdateCustomer, Gentle
  <1>5. ~Crash
    BY DEF Crash, Gentle
  <1>6. CASE UNCHANGED vars
    <2>1. /\ \A d \in Customers : Same(d)
          /\ row' = row /\ stack' = stack /\ task' = task
      BY <1>6 DEF vars, Same
    <2>2. \A d \in Customers : Sound(d)'
      BY <2>1, SoundSame DEF AllInv, Busy
    <2>3. QED
      BY <1>0, <2>1, <2>2 DEF AllInv, SoundInv, RowsDiffer, UpDiffer, Runs
  <1>7. QED
    BY <1>1, <1>2, <1>3, <1>4, <1>5, <1>6 DEF Next

\* The invariant holds initially.
LEMMA AllInit == Init => AllInv
  <1> SUFFICES ASSUME Init PROVE AllInv
    OBVIOUS
  <1>1. TypeInv /\ PortInv /\ RowsDiffer /\ UpDiffer
    BY TypeInit DEF Init, PortInv, OneTaskEach, RowKnown, RowsDiffer, UpDiffer, Runs
  <1>2. SoundInv
    BY DEF Init, SoundInv, Sound, PortsAgree, ActiveHasRow, Rests, FilesAgree, NoDir
  <1>3. QED
    BY <1>1, <1>2 DEF AllInv

\* Whatever other customers' deployments, deletions and health checks do
\* meanwhile, whatever docker compose up and down, NPM, DNS and the writing of
\* files fail to do and whether the containers are healthy or not, a customer that
\* is shown as active with nothing in flight has a row that says running, and
\* containers that compose started on the port of that row.
THEOREM ActiveIsAlwaysStarted ==
    ASSUME Overlap = FALSE, ManualStatuses = {},
           "control" \notin Faults, "rmtree" \notin Faults, "crash" \notin Faults,
           "db" \notin Faults, \A c \in Customers : Prefixed[c] = {c}
    PROVE  Spec => []ActiveIsStarted
  <1>0. Gentle
    BY DEF Gentle
  <1>1. AllInv /\ [Next]_vars => AllInv'
    BY <1>0, AllStep
  <1>2. AllInv => ActiveIsStarted
    BY DEF AllInv, SoundInv, Sound, Rests, AsRecorded, Settled, ActiveIsStarted
  <1>3. QED
    BY <1>1, <1>2, AllInit, PTL DEF Spec

\* However many deployments run at a time, whichever ports they picked and however
\* they fail, no two customers without a task hold one port in the table or in a
\* compose file: of two deployments that allocated the same port only one gets its
\* row, and the rollback of the other one takes its compose file away.
THEOREM PortsAreUnique ==
    ASSUME Overlap = FALSE, ManualStatuses = {},
           "control" \notin Faults, "rmtree" \notin Faults, "crash" \notin Faults,
           "db" \notin Faults, \A c \in Customers : Prefixed[c] = {c}
    PROVE  Spec => []OnePortPerCustomer
  <1>0. Gentle
    BY DEF Gentle
  <1>1. AllInv /\ [Next]_vars => AllInv'
    BY <1>0, AllStep
  <1>2. AllInv => OnePortPerCustomer
    <2> SUFFICES ASSUME AllInv, NEW p \in Ports, NEW c \in Customers, NEW d \in Customers,
                        Holds(c, p), Holds(d, p)
                 PROVE  c = d
      BY DEF OnePortPerCustomer
    <2>1. ASSUME NEW e \in Customers, Holds(e, p) PROVE row[e] # NULL /\ row[e].port = p
      <3>1. FilesAgree(e) /\ p # NULL
        BY <2>1, PortsAssumption DEF AllInv, SoundInv, Sound, Rests, Holds, Settled, Ports
      <3>2. QED
        BY <2>1, <3>1 DEF Holds, FilesAgree
    <2>2. QED
      BY <2>1 DEF AllInv, RowsDiffer
  <1>3. QED
    BY <1>1, <1>2, AllInit, PTL DEF Spec

-----------------------------------------------------------------------------
(* Nothing is left behind.  This holds for one handler or task at a time   *)
(* when compose down, rmtree and the deletions at NPM and DNS succeed, no  *)
(* answer of NPM is lost, sqlite refuses no commit for reasons of its own, *)
(* no compose file is cut short and the appliance does not die; writing    *)
(* the files, compose up, the creation of proxy host and record, start,    *)
(* stop and restart may fail.                                              *)

\* A directory without a compose file has nothing in it, and no containers.
Clean(c) == files[c].port = NULL => stack[c] = NULL /\ files[c] = NoDir

\* The row knows of the proxy host.
HostKnown(c) == row[c] # NULL => (npm[c] => row[c].npm)

\* A customer that no task works on.
Tidy(c) == HostKnown(c) /\ Clean(c) /\ (row[c] = NULL => Nothing(c))

Rolling == {"undo", "undone"}
Proxied == {"npmed", "dns", "dnsed"}

\* A deployment: what there is of a first one is what the rollback removes.
TidyDeploy(c, r) ==
    /\ r.hadRow <=> row[c] # NULL
    /\ r.pc \in Proxied => (npm[c] => r.proxy)
    /\ r.pc \notin Proxied => HostKnown(c)
    /\ r.pc = "npm" => ~npm[c]
    /\ r.pc \in {"down", "downed"} => r.hadRow
    /\ ~r.hadRow /\ r.pc \notin Proxied => ~npm[c]
    /\ ~r.hadRow /\ r.pc # "dnsed" => ~dns[c]
    /\ r.pc = "dns" => DnsConfigured
    /\ r.pc \in WithPort => files[c].port # NULL /\ r.made
    /\ r.pc \in Rolling =>
          IF r.made THEN files[c].port = NULL => stack[c] = NULL
                    ELSE files[c] = NoDir /\ stack[c] = NULL
    /\ r.pc = "undone" => stack[c] = NULL

\* An undeployment: what it has done is done.
TidyUndeploy(c, r) ==
    /\ row[c] # NULL
    /\ r.pc \in {"uDown", "uDowned"} => HostKnown(c)
    /\ IF r.pc = "uDown" THEN Clean(c) ELSE stack[c] = NULL
    /\ r.pc \in {"uNpmed", "uDns", "uDnsed"} => ~npm[c]
    /\ r.pc = "uDnsed" => ~dns[c]

\* A customer that task r works on.
TidyTask(c, r) ==
    /\ Present(c) /\ ~r.broken
    /\ r.pc \in {"queued"} \cup UndeployPcs => ~r.hadRow /\ ~r.made
    /\ r.pc \in {"queued"} \cup ControlPcs => Tidy(c)
    /\ r.pc \in WithPort \cup Rolling => TidyDeploy(c, r)
    /\ r.pc \in UndeployPcs => TidyUndeploy(c, r)

Neat(c) ==
    /\ dns[c] => DnsConfigured
    /\ ~Busy(c) => Tidy(c)
    /\ \A t \in Tasks : task[t] # NULL /\ task[t].cust = c => TidyTask(c, task[t])
NeatInv == TypeInv /\ UniqueInv /\ \A c \in Customers : Neat(c)

\* The settings that the theorems are about.
Orderly ==
    /\ OneTask
    /\ "down" \notin Faults /\ "npmLost" \notin Faults /\ "npmDelete" \notin Faults
    /\ "dnsDelete" \notin Faults /\ "rmtree" \notin Faults /\ "crash" \notin Faults
    /\ "db" \notin Faults /\ "torn" \notin Faults

SameAll(d) == Same(d) /\ npm'[d] = npm[d] /\ dns'[d] = dns[d]

\* The customer is the same up to its statuses.
Alike(d) ==
    /\ Present(d) => Present(d)'
    /\ row'[d] = NULL <=> row[d] = NULL
    /\ row[d] # NULL => row'[d].npm = row[d].npm
    /\ files'[d] = files[d] /\ stack'[d] = stack[d] /\ npm'[d] = npm[d] /\ dns'[d] = dns[d]

\* What is left of a customer does not depend on its statuses.
LEMMA AlikeTidy ==
    ASSUME NEW d \in Customers, Alike(d)
    PROVE  /\ HostKnown(d)' <=> HostKnown(d)
           /\ Clean(d)' <=> Clean(d)
           /\ Tidy(d)' <=> Tidy(d)
  <1>1. /\ HostKnown(d)' <=> HostKnown(d)
        /\ Clean(d)' <=> Clean(d)
        /\ Nothing(d)' <=> Nothing(d)
    BY DEF Alike, HostKnown, Clean, Nothing
  <1>2. QED
    BY <1>1 DEF Alike, Tidy

\* The invariant is kept for a customer of which only statuses change.
LEMMA NeatSame ==
    ASSUME NeatInv, NEW d \in Customers, Alike(d), ~Busy(d)' => ~Busy(d),
           \A u \in Tasks : task'[u] # NULL /\ task'[u].cust = d => task'[u] = task[u]
    PROVE  Neat(d)'
  <1>1. ASSUME NEW u \in Tasks, task'[u] # NULL, task'[u].cust = d PROVE TidyTask(d, task[u])'
    <2>1. TidyTask(d, task[u]) /\ task'[u] = task[u]
      BY <1>1 DEF NeatInv, Neat
    <2>2. TidyDeploy(d, task[u])' <=> TidyDeploy(d, task[u])
      BY <2>1, AlikeTidy DEF Alike, TidyDeploy
    <2>3. TidyUndeploy(d, task[u])' <=> TidyUndeploy(d, task[u])
      BY <2>1, AlikeTidy DEF Alike, TidyUndeploy
    <2>4. QED
      BY <2>1, <2>2, <2>3, AlikeTidy DEF Alike, TidyTask
  <1>2. QED
    BY <1>1, AlikeTidy DEF NeatInv, Neat, Alike

\* A step of a task changes nothing of other customers.
LEMMA StepSame ==
    ASSUME "db" \notin Faults, TypeInv, NEW t \in Tasks, task[t] # NULL, Step(t), NEW d \in Customers, d # Cust(t)
    PROVE  SameAll(d)
  <1>1. Same(d)
    BY StepElsewhere DEF Elsewhere
  <1>2. npm' = npm \/ \E x : npm' = [npm EXCEPT ![Cust(t)] = x]
    BY NoRefusal DEF Step, DeployStep, UndeployStep, ComposeControl, ResumeControl, BeginDeploy, Prepare,
           DownForRedeploy, ResumeAfterDown, UpSucceeds, UpFails, ResumeAfterUp, AfterProxy, LogFails, Record, Write,
           CreateProxyHost, ResumeAfterProxy, CreateDnsRecord, ResumeAfterDns, RollbackDown, RollbackFiles,
           BeginUndeploy, DeleteWithoutRow, DownForUndeploy, ResumeUndeploy, Abort, RemoveDns, Undeployed,
           DeleteProxyHost, ResumeAfterProxyDelete, DeleteDnsRecord, FinishUndeploy, outside
  <1>3. dns' = dns \/ \E x : dns' = [dns EXCEPT ![Cust(t)] = x]
    BY NoRefusal DEF Step, DeployStep, UndeployStep, ComposeControl, ResumeControl, BeginDeploy, Prepare,
           DownForRedeploy, ResumeAfterDown, UpSucceeds, UpFails, ResumeAfterUp, AfterProxy, LogFails, Record, Write,
           CreateProxyHost, ResumeAfterProxy, CreateDnsRecord, ResumeAfterDns, RollbackDown, RollbackFiles,
           BeginUndeploy, DeleteWithoutRow, DownForUndeploy, ResumeUndeploy, Abort, RemoveDns, Undeployed,
           DeleteProxyHost, ResumeAfterProxyDelete, DeleteDnsRecord, FinishUndeploy, outside
  <1>4. QED
    BY <1>1, <1>2, <1>3 DEF SameAll, TypeInv, TypeOK

\* What a task knows about its customer.
LEMMA NeatContext ==
    ASSUME NeatInv, NEW t \in Tasks, task[t] # NULL, NEW c \in Customers, c = Cust(t)
    PROVE  /\ task[t].cust = c /\ task[t] \in Task
           /\ row[c] \in Row \cup {NULL} /\ files[c] \in Dir /\ stack[c] \in Stack \cup {NULL}
           /\ npm[c] \in BOOLEAN /\ dns[c] \in BOOLEAN
           /\ TidyTask(c, task[t]) /\ Present(c) /\ ~task[t].broken /\ (dns[c] => DnsConfigured)
           /\ task[t].pc \in WithPort => task[t].port \in Ports
           /\ task[t].port # NULL =>
                 \A d \in Customers \ {c} : row[d] # NULL => row[d].port # task[t].port
  <1>1. /\ task[t].cust = c /\ task[t] \in Task
        /\ row[c] \in Row \cup {NULL} /\ files[c] \in Dir /\ stack[c] \in Stack \cup {NULL}
        /\ npm[c] \in BOOLEAN /\ dns[c] \in BOOLEAN
        /\ task[t].pc \in WithPort => task[t].port \in Ports
    BY DEF NeatInv, TypeInv, PortKnown, TypeOK, Task, Cust
  <1>2. TidyTask(c, task[t]) /\ (dns[c] => DnsConfigured)
    BY <1>1 DEF NeatInv, Neat
  <1>3. Present(c) /\ ~task[t].broken
    BY <1>2 DEF TidyTask
  <1>4. QED
    BY <1>1, <1>2, <1>3 DEF NeatInv, UniqueInv, TaskPort

\* r is what the step makes of the task, NULL when it ends.
Ends(t, c, r) ==
    /\ task' = [task EXCEPT ![t] = r]
    /\ r # NULL => r.cust = c
    /\ dns'[c] => DnsConfigured
    /\ IF r = NULL THEN Tidy(c)' ELSE TidyTask(c, r)'
Tidies(t, c) == \E r : Ends(t, c, r)

\* A step that only moves the task on.
LEMMA MoveTidies ==
    ASSUME NeatInv, NEW t \in Tasks, task[t] # NULL, NEW c \in Customers, c = Cust(t),
           SameAll(c), NEW r \in Task, task' = [task EXCEPT ![t] = r], r.cust = c, TidyTask(c, r)
    PROVE  Tidies(t, c)
  <1>1. r # NULL /\ (dns[c] => DnsConfigured)
    BY NeatContext, TaskAssumption
  <1>2. /\ HostKnown(c)' <=> HostKnown(c)
        /\ Clean(c)' <=> Clean(c)
        /\ Nothing(c)' <=> Nothing(c)
        /\ Present(c)' <=> Present(c)
    BY DEF SameAll, Same, HostKnown, Clean, Nothing, Present
  <1>3. Tidy(c)' <=> Tidy(c)
    BY <1>2 DEF SameAll, Same, Tidy
  <1>4. TidyDeploy(c, r)' <=> TidyDeploy(c, r)
    BY <1>2 DEF SameAll, Same, TidyDeploy
  <1>5. TidyUndeploy(c, r)' <=> TidyUndeploy(c, r)
    BY <1>2 DEF SameAll, Same, TidyUndeploy
  <1>6. TidyTask(c, r)'
    BY <1>2, <1>3, <1>4, <1>5 DEF TidyTask
  <1>7. Ends(t, c, r)
    BY <1>1, <1>6 DEF Ends, SameAll
  <1>8. QED
    BY <1>7 DEF Tidies

\* A task that ends.
LEMMA EndTidies ==
    ASSUME NEW t \in Tasks, NEW c \in Customers, End(t), dns'[c] => DnsConfigured, Tidy(c)'
    PROVE  Tidies(t, c)
  <1>1. Ends(t, c, NULL)
    BY DEF Ends, End
  <1>2. QED
    BY <1>1 DEF Tidies

\* The first step of deploy_customer, for a customer with a row that knows of
\* the proxy host, or one without a row and with nothing else.
LEMMA PrepareTidies ==
    ASSUME NeatInv, Orderly, NEW t \in Tasks, task[t] # NULL, NEW c \in Customers, c = Cust(t),
           NEW rows \in [Customers -> Row \cup {NULL}], NEW dirs \in [Customers -> Dir],
           ~task[t].hadRow, ~task[t].made,
           rows[c] # NULL => (npm[c] => rows[c].npm),
           dirs[c].port = NULL => stack[c] = NULL,
           rows[c] = NULL => dirs[c] = NoDir /\ stack[c] = NULL /\ ~npm[c] /\ ~dns[c],
           Prepare(t, rows, dirs)
    PROVE  Tidies(t, c)
  <1> DEFINE next(p) == [task[t] EXCEPT
                           !.pc = IF rows[c] # NULL THEN "down" ELSE "up",
                           !.port = p, !.hadRow = rows[c] # NULL, !.made = TRUE,
                           !.hadData = dirs[c].data # NULL]
             halt == [task[t] EXCEPT !.pc = "undo"]
  <1>0. /\ task[t] \in Task /\ task[t].cust = c /\ ~task[t].broken
        /\ dns[c] => DnsConfigured
    BY NeatContext
  <1>1. /\ row'[c] = rows[c] /\ stack'[c] = stack[c] /\ npm'[c] = npm[c] /\ dns'[c] = dns[c]
        /\ Present(c)'
    BY DEF Prepare, outside, Present, NeatInv, TypeInv, TypeOK
  <1>2. HostKnown(c)' /\ (dns'[c] => DnsConfigured)
    BY <1>0, <1>1 DEF HostKnown
  <1>3. ASSUME NEW p \in PortsFor(c, rows), NEW k,
               files' = [dirs EXCEPT ![c] = [@ EXCEPT !.port = p, !.key = k]],
               task' = [task EXCEPT ![t] = next(p)]
        PROVE  Tidies(t, c)
    <2>1. PICK r : r = next(p)
      OBVIOUS
    <2>2. p \in Ports /\ p # NULL
      BY PortsForType, PortsAssumption DEF Ports
    <2>3. /\ r.cust = c /\ r.made /\ ~r.broken
          /\ r.hadRow <=> rows[c] # NULL
          /\ r.pc \in {"down", "up"} /\ (r.pc = "down" => rows[c] # NULL)
      BY <1>0, <2>1 DEF Task
    <2>4. r # NULL
      <3>1. r \in Task
        BY <1>0, <2>1, <2>2 DEF Task, Pcs, DeployPcs
      <3>2. QED
        BY <3>1, TaskAssumption
    <2>5. files'[c].port = p
      BY <1>3 DEF Dir
    <2>6. TidyDeploy(c, r)'
      BY <1>1, <1>2, <2>2, <2>3, <2>5 DEF TidyDeploy, Proxied, Rolling
    <2>7. TidyTask(c, r)'
      BY <1>1, <2>3, <2>6 DEF TidyTask, UndeployPcs, ControlPcs
    <2>8. Ends(t, c, r)
      BY <1>2, <1>3, <2>1, <2>3, <2>4, <2>7 DEF Ends
    <2>9. QED
      BY <2>8 DEF Tidies
  <1>4. ASSUME PortsFor(c, rows) = {}, files' = dirs, task' = [task EXCEPT ![t] = halt]
        PROVE  Tidies(t, c)
    <2>1. rows[c] = NULL
      BY <1>4 DEF PortsFor
    <2>2. PICK r : r = halt
      OBVIOUS
    <2>3. r.cust = c /\ r.pc = "undo" /\ ~r.broken /\ ~r.made /\ ~r.hadRow /\ r # NULL
      BY <1>0, <2>2, TaskAssumption DEF Task, Pcs, DeployPcs
    <2>4. TidyDeploy(c, r)'
      BY <1>1, <1>2, <1>4, <2>1, <2>3 DEF TidyDeploy, Proxied, Rolling, WithPort
    <2>5. TidyTask(c, r)'
      BY <1>1, <2>3, <2>4 DEF TidyTask, UndeployPcs, ControlPcs
    <2>6. Ends(t, c, r)
      BY <1>2, <1>4, <2>2, <2>3, <2>5 DEF Ends
    <2>7. QED
      BY <2>6 DEF Tidies
  <1>5. CASE \E p \in PortsFor(c, rows), k \in KeysFor(dirs[c]) :
               /\ files' = [dirs EXCEPT ![c] = [@ EXCEPT !.port = p, !.key = k]]
               /\ task' = [task EXCEPT ![t] = next(p)]
    BY <1>3, <1>5
  <1>6. CASE PortsFor(c, rows) = {} /\ files' = dirs /\ Go(t, "undo")
    BY <1>4, <1>6 DEF Go
  <1>7. CASE BreaksOff(t, rows, dirs)
    <2>1. PICK r \in Task, p \in PortsFor(c, rows), k \in KeysFor(dirs[c]) :
             /\ task' = [task EXCEPT ![t] = r]
             /\ r.cust = task[t].cust /\ r.pc = "undo" /\ r.made /\ ~r.broken
             /\ r.hadRow <=> rows[c] # NULL
             /\ \E f \in HalfWritten(dirs[c], p, k) : files' = [dirs EXCEPT ![c] = f]
      BY <1>7, BreaksOffShape DEF NeatInv, Orderly
    <2>2. r.cust = c /\ r # NULL
      BY <1>0, <2>1, TaskAssumption
    <2>3. PICK f \in HalfWritten(dirs[c], p, k) : files' = [dirs EXCEPT ![c] = f]
      BY <2>1
    <2>4. p # NULL
      BY PortsForType, PortsAssumption DEF Ports
    <2>5. f.port = NULL => stack[c] = NULL
      <3>1. dirs[c] \in Dir
        OBVIOUS
      <3>2. f \in {dirs[c], [dirs[c] EXCEPT !.port = p], [dirs[c] EXCEPT !.port = p, !.key = k]}
        BY DEF HalfWritten, Orderly
      <3>3. f.port \in {dirs[c].port, p}
        BY <3>1, <3>2 DEF Dir
      <3>4. QED
        BY <2>4, <3>3
    <2>6. files'[c].port = NULL => stack'[c] = NULL
      BY <1>1, <2>3, <2>5
    <2>7. TidyDeploy(c, r)'
      BY <1>1, <1>2, <2>1, <2>6 DEF TidyDeploy, Proxied, Rolling, WithPort
    <2>8. TidyTask(c, r)'
      BY <1>1, <2>1, <2>7 DEF TidyTask, UndeployPcs, ControlPcs
    <2>9. Ends(t, c, r)
      BY <1>2, <2>1, <2>2, <2>8 DEF Ends
    <2>10. QED
      BY <2>9 DEF Tidies
  <1> HIDE DEF halt
  <1>8. QED
    BY <1>5, <1>6, <1>7 DEF Prepare

\* The commit of a deployment: no other row has the port, so it succeeds.
LEMMA RecordTidies ==
    ASSUME NeatInv, NEW t \in Tasks, task[t] # NULL, NEW c \in Customers, c = Cust(t),
           task[t].pc \in WithPort, NEW proxy \in BOOLEAN, npm[c] => proxy, Record(t, proxy)
    PROVE  Tidies(t, c)
  <1> DEFINE ro == [port |-> task[t].port, npm |-> proxy, status |-> "running"]
  <1>0. /\ task[t].cust = c /\ TidyTask(c, task[t]) /\ (dns[c] => DnsConfigured)
        /\ task[t].port \in Ports
        /\ task[t].port # NULL =>
              \A d \in Customers \ {c} : row[d] # NULL => row[d].port # task[t].port
    BY NeatContext
  <1>1. files[c].port # NULL
    BY <1>0 DEF TidyTask, TidyDeploy
  <1>2. task[t].port # NULL
    BY <1>0, PortsAssumption DEF Ports
  <1>3. /\ row' = [row EXCEPT ![c] = ro] /\ End(t)
        /\ files' = files /\ stack' = stack /\ npm' = npm /\ dns' = dns
    BY <1>0, <1>2 DEF Record, Conflict, Write, outside
  <1>4. row'[c] = ro /\ row'[c] # NULL
    <2>1. ro \in Row
      BY <1>0 DEF Row, DeploymentStatuses
    <2>2. QED
      BY <1>3, <2>1, RowAssumption DEF NeatInv, TypeInv, TypeOK
  <1>5. Tidy(c)'
    BY <1>1, <1>3, <1>4 DEF Tidy, HostKnown, Clean
  <1>6. QED
    BY <1>0, <1>3, <1>5, EndTidies

\* The step after the proxy host waits for DNS or commits.
LEMMA AfterProxyTidies ==
    ASSUME NeatInv, NEW t \in Tasks, task[t] # NULL, NEW c \in Customers, c = Cust(t),
           task[t].pc \in {"upped", "npmed"}, NEW proxy \in BOOLEAN, npm[c] => proxy, AfterProxy(t, proxy)
    PROVE  Tidies(t, c)
  <1>1. CASE Record(t, proxy)
    BY <1>1, RecordTidies DEF WithPort
  <1>2. CASE /\ DnsConfigured /\ ~task[t].hadRow
             /\ task' = [task EXCEPT ![t] = [@ EXCEPT !.pc = "dns", !.proxy = proxy]]
             /\ UNCHANGED <<customer, row, files, outside>>
    <2>1. PICK r : r = [task[t] EXCEPT !.pc = "dns", !.proxy = proxy]
      OBVIOUS
    <2>2. task[t] \in Task /\ task[t].cust = c /\ TidyTask(c, task[t]) /\ Present(c)
      BY NeatContext
    <2>3. /\ r \in Task /\ r.cust = c /\ r.pc = "dns" /\ r.proxy = proxy /\ r.hadRow = task[t].hadRow
          /\ r.made = task[t].made /\ r.broken = task[t].broken
      BY <2>1, <2>2 DEF Task, Pcs, DeployPcs
    <2>4. TidyDeploy(c, task[t]) /\ ~task[t].broken
      BY <2>2 DEF TidyTask, WithPort
    <2>5. TidyDeploy(c, r)
      BY <1>2, <2>3, <2>4 DEF TidyDeploy, WithPort, Rolling, Proxied
    <2>6. TidyTask(c, r)
      BY <2>2, <2>3, <2>4, <2>5 DEF TidyTask, UndeployPcs, ControlPcs
    <2>7. SameAll(c)
      BY <1>2 DEF Same, SameAll, outside
    <2>8. QED
      BY <1>2, <2>1, <2>3, <2>6, <2>7, MoveTidies
  <1>3. QED
    BY <1>1, <1>2 DEF AfterProxy

\* The rollback leaves no directory and no containers, and after a first
\* deployment nothing at all.
LEMMA RollbackTidies ==
    ASSUME NeatInv, Orderly, NEW t \in Tasks, task[t] # NULL, NEW c \in Customers, c = Cust(t),
           RollbackFiles(t)
    PROVE  /\ Tidies(t, c) /\ customer'[c] = "error"
           /\ ~task[t].hadRow => Nothing(c)'
           /\ files'[c] = NoDir
  <1>0. /\ TidyTask(c, task[t]) /\ task[t].pc = "undone" /\ (dns[c] => DnsConfigured)
        /\ Present(c) /\ ~task[t].broken
    BY NeatContext DEF RollbackFiles, At
  <1>1. TidyDeploy(c, task[t])
    BY <1>0 DEF TidyTask, Rolling
  <1>2. row' = row /\ stack' = stack /\ npm' = npm /\ dns' = dns /\ End(t) /\ customer'[c] = "error"
    BY <1>0 DEF RollbackFiles, outside, NeatInv, TypeInv, TypeOK
  <1>3. files'[c] = NoDir
    <2>1. PICK f \in IF task[t].made THEN AfterRmtree(files[c]) ELSE {files[c]} :
             files' = [files EXCEPT ![c] = f]
      BY DEF RollbackFiles
    <2>2. f = NoDir
      BY <1>0, <1>1 DEF TidyDeploy, Rolling, AfterRmtree, Orderly
    <2>3. QED
      BY <2>1, <2>2 DEF NeatInv, TypeInv, TypeOK
  <1>4. HostKnown(c)' /\ stack'[c] = NULL
    BY <1>0, <1>1, <1>2 DEF TidyDeploy, Proxied, HostKnown
  <1>5. row[c] = NULL => ~npm'[c] /\ ~dns'[c]
    BY <1>0, <1>1, <1>2 DEF TidyDeploy, Proxied
  <1>6. Tidy(c)'
    BY <1>2, <1>3, <1>4, <1>5 DEF Tidy, Clean, Nothing
  <1>7. ~task[t].hadRow => Nothing(c)'
    BY <1>1, <1>3, <1>4, <1>5 DEF Nothing, TidyDeploy
  <1>8. dns'[c] => DnsConfigured
    BY <1>0, <1>2
  <1>9. QED
    BY <1>2, <1>3, <1>6, <1>7, <1>8, EndTidies

\* Every step of a deployment.
LEMMA DeployTidies ==
    ASSUME NeatInv, Orderly, NEW t \in Tasks, task[t] # NULL, NEW c \in Customers, c = Cust(t),
           DeployStep(t)
    PROVE  Tidies(t, c)
  <1>0. /\ task[t] \in Task /\ task[t].cust = c
        /\ row[c] \in Row \cup {NULL} /\ files[c] \in Dir /\ npm[c] \in BOOLEAN /\ dns[c] \in BOOLEAN
        /\ TidyTask(c, task[t]) /\ Present(c) /\ ~task[t].broken /\ (dns[c] => DnsConfigured)
        /\ task[t].pc \in WithPort => task[t].port \in Ports
    BY NeatContext
  <1>s. UNCHANGED <<customer, row, files, outside>> => SameAll(c)
    BY DEF Same, SameAll, outside
  <1>l. ~LogFails(t)
    BY <1>0 DEF CanLog, LogFails
  <1>d. task[t].pc \in WithPort \cup Rolling => TidyDeploy(c, task[t])
    BY <1>0 DEF TidyTask
  <1>1. CASE BeginDeploy(t)
    <2>1. Prepare(t, row, files)
      BY <1>0, <1>1 DEF BeginDeploy
    <2>2. task[t].pc = "queued"
      BY <1>1 DEF BeginDeploy, At
    <2>3. ~task[t].hadRow /\ ~task[t].made /\ Tidy(c)
      BY <1>0, <2>2 DEF TidyTask
    <2>4. /\ row[c] # NULL => (npm[c] => row[c].npm)
          /\ row[c] = NULL => files[c] = NoDir /\ stack[c] = NULL /\ ~npm[c] /\ ~dns[c]
          /\ files[c].port = NULL => stack[c] = NULL
      BY <2>3 DEF Tidy, HostKnown, Nothing, Clean
    <2>5. row \in [Customers -> Row \cup {NULL}] /\ files \in [Customers -> Dir]
      BY DEF NeatInv, TypeInv, TypeOK
    <2>6. QED
      BY <2>1, <2>3, <2>4, <2>5, PrepareTidies
  <1>2. CASE DownForRedeploy(t)
    <2>1. PICK r : r = [task[t] EXCEPT !.pc = "downed"]
      OBVIOUS
    <2>2. /\ r # NULL /\ r.cust = c /\ r.pc = "downed" /\ r.hadRow = task[t].hadRow
          /\ r.made = task[t].made /\ r.broken = task[t].broken /\ task[t].pc = "down"
      BY <1>0, <1>2, <2>1, TaskAssumption DEF Task, Pcs, DeployPcs, DownForRedeploy, At
    <2>3. /\ customer' = customer /\ row' = row /\ files' = files /\ npm' = npm /\ dns' = dns
          /\ task' = [task EXCEPT ![t] = r]
      BY <1>2, <2>1 DEF DownForRedeploy, Go
    <2>4. TidyDeploy(c, r)'
      BY <1>d, <2>2, <2>3 DEF TidyDeploy, HostKnown, WithPort, Rolling, Proxied
    <2>5. TidyTask(c, r)'
      BY <1>0, <2>2, <2>3, <2>4 DEF TidyTask, Present, UndeployPcs, ControlPcs
    <2>6. Ends(t, c, r)
      BY <1>0, <2>2, <2>3, <2>5 DEF Ends
    <2>7. QED
      BY <2>6 DEF Tidies
  <1>3. CASE ResumeAfterDown(t)
    <2>1. PICK broken \in BOOLEAN :
             /\ broken => ~Present(c)
             /\ task' = [task EXCEPT ![t] = [@ EXCEPT !.pc = "up", !.broken = broken]]
      BY <1>3 DEF ResumeAfterDown
    <2>2. PICK r : r = [task[t] EXCEPT !.pc = "up", !.broken = broken]
      OBVIOUS
    <2>3. task[t].pc = "downed" /\ ~broken
      BY <1>0, <1>3, <2>1 DEF ResumeAfterDown, At
    <2>4. /\ r \in Task /\ r.cust = c /\ r.pc = "up" /\ r.hadRow = task[t].hadRow
          /\ r.made = task[t].made /\ ~r.broken
      BY <1>0, <2>2, <2>3 DEF Task, Pcs, DeployPcs
    <2>5. TidyDeploy(c, r)
      BY <1>d, <2>3, <2>4 DEF TidyDeploy, WithPort, Rolling, Proxied
    <2>6. TidyTask(c, r)
      BY <1>0, <2>4, <2>5 DEF TidyTask, UndeployPcs, ControlPcs
    <2>7. QED
      BY <1>3, <1>s, <2>1, <2>2, <2>4, <2>6, MoveTidies DEF ResumeAfterDown
  <1>4. CASE UpSucceeds(t) \/ UpFails(t)
    <2>1. PICK r : /\ task' = [task EXCEPT ![t] = r]
                   /\ r = [task[t] EXCEPT !.pc = IF UpSucceeds(t) THEN "upped" ELSE "undo"]
      BY <1>4 DEF UpSucceeds, UpFails, Go
    <2>2. /\ r # NULL /\ r.cust = c /\ r.pc \in {"upped", "undo"} /\ r.hadRow = task[t].hadRow
          /\ r.made = task[t].made /\ r.broken = task[t].broken /\ task[t].pc = "up"
      BY <1>0, <1>4, <2>1, TaskAssumption DEF Task, Pcs, DeployPcs, UpSucceeds, UpFails, At
    <2>3. /\ customer' = customer /\ row' = row /\ npm' = npm /\ dns' = dns
          /\ files' = files \/ \E d : files' = [files EXCEPT ![c].data = d]
      BY <1>4 DEF UpSucceeds, UpFails
    <2>4. files'[c].port = files[c].port
      BY <1>0, <2>3 DEF Dir, NeatInv, TypeInv, TypeOK
    <2>5. TidyDeploy(c, r)'
      BY <1>d, <2>2, <2>3, <2>4 DEF TidyDeploy, HostKnown, WithPort, Rolling, Proxied
    <2>6. TidyTask(c, r)'
      BY <1>0, <2>2, <2>3, <2>5 DEF TidyTask, Present, UndeployPcs, ControlPcs
    <2>7. Ends(t, c, r)
      BY <1>0, <2>1, <2>2, <2>3, <2>6 DEF Ends
    <2>8. QED
      BY <2>7 DEF Tidies
  <1>5. CASE ResumeAfterUp(t)
    <2> DEFINE proxy == task[t].hadRow /\ row[c].npm
    <2>1. task[t].pc = "upped" /\ TidyDeploy(c, task[t])
      BY <1>5, <1>d DEF ResumeAfterUp, At, WithPort
    <2>2. /\ task[t].hadRow <=> row[c] # NULL
          /\ HostKnown(c) /\ (~task[t].hadRow => ~npm[c])
      BY <2>1 DEF TidyDeploy, Proxied
    <2>3. proxy \in BOOLEAN
      <3>1. task[t].hadRow \in BOOLEAN
        BY <1>0 DEF Task
      <3>2. task[t].hadRow => row[c].npm \in BOOLEAN
        BY <1>0, <2>2 DEF Row
      <3>3. QED
        BY <3>1, <3>2
    <2>4. npm[c] => proxy
      BY <2>2 DEF HostKnown
    <2>5. CASE ~proxy /\ Go(t, "npm") /\ UNCHANGED <<customer, row, files, outside>>
      <3>1. PICK r : r = [task[t] EXCEPT !.pc = "npm"]
        OBVIOUS
      <3>2. /\ r \in Task /\ r.cust = c /\ r.pc = "npm" /\ r.hadRow = task[t].hadRow
            /\ r.made = task[t].made /\ r.broken = task[t].broken
        BY <1>0, <3>1 DEF Task, Pcs, DeployPcs
      <3>3. ~npm[c]
        BY <2>4, <2>5
      <3>4. TidyDeploy(c, r)
        BY <2>1, <3>2, <3>3 DEF TidyDeploy, WithPort, Rolling, Proxied
      <3>5. TidyTask(c, r)
        BY <1>0, <3>2, <3>4 DEF TidyTask, UndeployPcs, ControlPcs
      <3>6. QED
        BY <1>s, <2>5, <3>1, <3>2, <3>5, MoveTidies DEF Go
    <2>6. CASE AfterProxy(t, proxy)
      BY <2>1, <2>3, <2>4, <2>6, AfterProxyTidies
    <2>7. QED
      BY <1>5, <1>l, <2>2, <2>5, <2>6 DEF ResumeAfterUp
  <1>6. CASE CreateProxyHost(t)
    <2>1. PICK made \in BOOLEAN, told \in BOOLEAN :
             /\ made => told
             /\ npm' = [npm EXCEPT ![c] = @ \/ made]
             /\ task' = [task EXCEPT ![t] = [@ EXCEPT !.pc = "npmed", !.proxy = told]]
      BY <1>6 DEF CreateProxyHost, Orderly
    <2>2. PICK r : r = [task[t] EXCEPT !.pc = "npmed", !.proxy = told]
      OBVIOUS
    <2>3. /\ r # NULL /\ r.cust = c /\ r.pc = "npmed" /\ r.hadRow = task[t].hadRow /\ r.proxy = told
          /\ r.made = task[t].made /\ r.broken = task[t].broken /\ task[t].pc = "npm"
      BY <1>0, <1>6, <2>2, TaskAssumption DEF Task, Pcs, DeployPcs, CreateProxyHost, At
    <2>4. customer' = customer /\ row' = row /\ files' = files /\ stack' = stack /\ dns' = dns
      BY <1>6 DEF CreateProxyHost
    <2>5. TidyDeploy(c, task[t])
      BY <1>d, <2>3 DEF WithPort
    <2>6. npm'[c] => told
      <3>1. ~npm[c]
        BY <2>3, <2>5 DEF TidyDeploy
      <3>2. QED
        BY <2>1, <3>1 DEF NeatInv, TypeInv, TypeOK
    <2>7. TidyDeploy(c, r)'
      BY <2>3, <2>4, <2>5, <2>6 DEF TidyDeploy, WithPort, Rolling, Proxied
    <2>8. TidyTask(c, r)'
      BY <1>0, <2>3, <2>4, <2>7 DEF TidyTask, Present, UndeployPcs, ControlPcs
    <2>9. Ends(t, c, r)
      BY <1>0, <2>1, <2>2, <2>3, <2>4, <2>8 DEF Ends
    <2>10. QED
      BY <2>9 DEF Tidies
  <1>7. CASE ResumeAfterProxy(t)
    <2>1. task[t].pc = "npmed" /\ task[t].proxy \in BOOLEAN
      BY <1>0, <1>7 DEF ResumeAfterProxy, At, Task
    <2>2. npm[c] => task[t].proxy
      BY <1>d, <2>1 DEF TidyDeploy, WithPort, Proxied
    <2>3. QED
      BY <1>7, <1>l, <2>1, <2>2, AfterProxyTidies DEF ResumeAfterProxy
  <1>8. CASE CreateDnsRecord(t)
    <2>1. PICK r : r = [task[t] EXCEPT !.pc = "dnsed"]
      OBVIOUS
    <2>2. /\ r # NULL /\ r.cust = c /\ r.pc = "dnsed" /\ r.hadRow = task[t].hadRow
          /\ r.proxy = task[t].proxy
          /\ r.made = task[t].made /\ r.broken = task[t].broken /\ task[t].pc = "dns"
      BY <1>0, <1>8, <2>1, TaskAssumption DEF Task, Pcs, DeployPcs, CreateDnsRecord, At
    <2>3. /\ customer' = customer /\ row' = row /\ files' = files /\ stack' = stack /\ npm' = npm
          /\ task' = [task EXCEPT ![t] = r]
      BY <1>8, <2>1 DEF CreateDnsRecord, Go
    <2>4. TidyDeploy(c, r)' /\ DnsConfigured
      BY <1>d, <2>2, <2>3 DEF TidyDeploy, WithPort, Rolling, Proxied
    <2>5. TidyTask(c, r)'
      BY <1>0, <2>2, <2>3, <2>4 DEF TidyTask, Present, UndeployPcs, ControlPcs
    <2>6. Ends(t, c, r)
      BY <2>2, <2>3, <2>4, <2>5 DEF Ends
    <2>7. QED
      BY <2>6 DEF Tidies
  <1>9. CASE ResumeAfterDns(t)
    <2>1. task[t].pc = "dnsed" /\ task[t].pc \in WithPort /\ task[t].proxy \in BOOLEAN
      BY <1>0, <1>9 DEF ResumeAfterDns, At, WithPort, Task
    <2>2. npm[c] => task[t].proxy
      BY <1>d, <2>1 DEF TidyDeploy, Proxied
    <2>3. QED
      BY <1>9, <1>l, <2>1, <2>2, RecordTidies DEF ResumeAfterDns
  <1>10. CASE RollbackDown(t)
    <2>1. PICK r : r = [task[t] EXCEPT !.pc = "undone"]
      OBVIOUS
    <2>2. /\ r # NULL /\ r.cust = c /\ r.pc = "undone" /\ r.hadRow = task[t].hadRow
          /\ r.made = task[t].made /\ r.broken = task[t].broken /\ task[t].pc = "undo"
      BY <1>0, <1>10, <2>1, TaskAssumption DEF Task, Pcs, DeployPcs, RollbackDown, At
    <2>3. /\ customer' = customer /\ row' = row /\ files' = files /\ npm' = npm /\ dns' = dns
          /\ task' = [task EXCEPT ![t] = r]
      BY <1>10, <2>1 DEF RollbackDown, Go
    <2>4. TidyDeploy(c, task[t])
      BY <1>d, <2>2 DEF Rolling
    <2>5. stack'[c] = NULL
      <3>1. AfterDown(c) = {NULL}
        BY <2>2, <2>4 DEF AfterDown, TidyDeploy, Rolling, Orderly
      <3>2. QED
        BY <1>10, <3>1 DEF RollbackDown, NeatInv, TypeInv, TypeOK
    <2>6. TidyDeploy(c, r)'
      BY <2>2, <2>3, <2>4, <2>5 DEF TidyDeploy, HostKnown, WithPort, Rolling, Proxied
    <2>7. TidyTask(c, r)'
      BY <1>0, <2>2, <2>3, <2>6 DEF TidyTask, Present, UndeployPcs, ControlPcs
    <2>8. Ends(t, c, r)
      BY <1>0, <2>2, <2>3, <2>7 DEF Ends
    <2>9. QED
      BY <2>8 DEF Tidies
  <1>11. CASE RollbackFiles(t)
    BY <1>11, RollbackTidies
  <1>12. QED
    BY <1>1, <1>2, <1>3, <1>4, <1>5, <1>6, <1>7, <1>8, <1>9, <1>10, <1>11 DEF DeployStep

\* The last step of an undeployment, when containers, proxy host and record
\* are gone: directory and row go, so nothing is left for the customer's
\* deletion or for the deployment that a reinstall goes on with.
LEMMA UndeployedTidies ==
    ASSUME NeatInv, Orderly, NEW t \in Tasks, task[t] # NULL, NEW c \in Customers, c = Cust(t),
           task[t].pc \in UndeployPcs, stack[c] = NULL, ~npm[c], ~dns[c], Undeployed(t)
    PROVE  Tidies(t, c)
  <1> DEFINE dirs == [files EXCEPT ![c] = NoDir]
             rows == [row EXCEPT ![c] = NULL]
  <1>0. row[c] # NULL /\ ~task[t].hadRow /\ ~task[t].made
    BY NeatContext DEF TidyTask, TidyUndeploy
  <1>1. AfterRmtree(files[c]) = {NoDir}
    BY DEF AfterRmtree, Orderly
  <1>2. CASE Prepare(t, rows, dirs)
    <2>1. dirs \in [Customers -> Dir] /\ rows \in [Customers -> Row \cup {NULL}]
      BY DEF NoDir, Dir, NeatInv, TypeInv, TypeOK
    <2>2. rows[c] = NULL /\ dirs[c] = NoDir
      BY DEF NeatInv, TypeInv, TypeOK
    <2>3. QED
      BY <1>0, <1>2, <2>1, <2>2, PrepareTidies
  <1>3. CASE row' = rows /\ files' = dirs /\ End(t) /\ UNCHANGED outside
    <2>1. row'[c] = NULL /\ files'[c] = NoDir /\ stack'[c] = NULL /\ ~npm'[c] /\ ~dns'[c]
      BY <1>3 DEF outside, NeatInv, TypeInv, TypeOK
    <2>2. Tidy(c)'
      BY <2>1 DEF Tidy, HostKnown, Clean, Nothing
    <2>3. QED
      BY <1>3, <2>1, <2>2, EndTidies
  <1>4. QED
    BY <1>0, <1>1, <1>2, <1>3 DEF Undeployed

\* Every step of an undeployment.
LEMMA UndeployTidies ==
    ASSUME NeatInv, Orderly, NEW t \in Tasks, task[t] # NULL, NEW c \in Customers, c = Cust(t),
           UndeployStep(t)
    PROVE  Tidies(t, c)
  <1>0. /\ task[t] \in Task /\ task[t].cust = c /\ npm[c] \in BOOLEAN /\ dns[c] \in BOOLEAN
        /\ TidyTask(c, task[t]) /\ Present(c) /\ ~task[t].broken /\ (dns[c] => DnsConfigured)
    BY NeatContext
  <1>g. ASSUME NEW pc \in UndeployPcs, Go(t, pc), customer' = customer, row' = row, dns'[c] => DnsConfigured,
               task[t].pc \in {"queued"} \cup UndeployPcs,
               NEW r, r = [task[t] EXCEPT !.pc = pc], TidyUndeploy(c, r)'
        PROVE  Tidies(t, c)
    <2>1. ~task[t].hadRow /\ ~task[t].made
      BY <1>0, <1>g DEF TidyTask
    <2>2. /\ r \in Task /\ r # NULL /\ r.cust = c /\ r.pc = pc /\ ~r.hadRow /\ ~r.made /\ ~r.broken
      BY <1>0, <1>g, <2>1, TaskAssumption DEF Task, Pcs
    <2>3. TidyTask(c, r)'
      BY <1>0, <1>g, <2>2 DEF TidyTask, Present, WithPort, Rolling, UndeployPcs, ControlPcs
    <2>4. Ends(t, c, r)
      BY <1>g, <2>2, <2>3 DEF Ends, Go
    <2>5. QED
      BY <2>4 DEF Tidies
  <1>t. ASSUME NEW pc \in UndeployPcs PROVE [task[t] EXCEPT !.pc = pc].pc = pc
    BY <1>0 DEF Task
  <1>u. task[t].pc \in UndeployPcs => TidyUndeploy(c, task[t])
    BY <1>0 DEF TidyTask
  <1>d. ASSUME task[t].pc \in {"uDowned", "uNpmed"}, ~npm[c], RemoveDns(t) PROVE Tidies(t, c)
    <2>1. task[t].pc \in UndeployPcs /\ stack[c] = NULL /\ row[c] # NULL
      BY <1>d, <1>u DEF UndeployPcs, TidyUndeploy
    <2>2. CASE Undeployed(t) /\ ~DnsConfigured
      BY <1>0, <1>d, <2>1, <2>2, UndeployedTidies
    <2>3. CASE Go(t, "uDns") /\ UNCHANGED <<customer, row, files, outside>>
      <3>1. PICK r : r = [task[t] EXCEPT !.pc = "uDns"]
        OBVIOUS
      <3>2. r.pc = "uDns"
        BY <1>t, <3>1 DEF UndeployPcs
      <3>3. TidyUndeploy(c, r)'
        BY <1>d, <2>1, <2>3, <3>2 DEF TidyUndeploy, outside
      <3>4. dns'[c] => DnsConfigured
        BY <1>0, <2>3 DEF outside
      <3>5. QED
        BY <1>g, <2>1, <2>3, <3>1, <3>3, <3>4 DEF UndeployPcs
    <2>4. QED
      BY <1>d, <2>2, <2>3 DEF RemoveDns
  <1>1. CASE BeginUndeploy(t)
    <2>1. task[t].pc = "queued" /\ row[c] # NULL /\ Tidy(c)
      BY <1>0, <1>1 DEF BeginUndeploy, At, TidyTask
    <2>2. PICK r : r = [task[t] EXCEPT !.pc = "uDown"]
      OBVIOUS
    <2>3. r.pc = "uDown"
      BY <1>t, <2>2 DEF UndeployPcs
    <2>4. customer' = customer /\ row' = row /\ files' = files /\ stack' = stack /\ npm' = npm /\ dns' = dns
      BY <1>1 DEF BeginUndeploy, outside
    <2>5. HostKnown(c)' /\ Clean(c)'
      BY <2>1, <2>4 DEF Tidy, HostKnown, Clean
    <2>6. TidyUndeploy(c, r)'
      BY <2>1, <2>3, <2>4, <2>5 DEF TidyUndeploy
    <2>7. QED
      BY <1>0, <1>1, <1>g, <2>1, <2>2, <2>4, <2>6 DEF BeginUndeploy, UndeployPcs
  <1>2. CASE DeleteWithoutRow(t)
    <2>1. Tidy(c) /\ End(t)
      BY <1>0, <1>2 DEF DeleteWithoutRow, At, TidyTask
    <2>2. row' = row /\ files' = files /\ stack' = stack /\ npm' = npm /\ dns' = dns
      BY <1>2 DEF DeleteWithoutRow, outside
    <2>3. Tidy(c)'
      BY <2>1, <2>2 DEF Tidy, HostKnown, Clean, Nothing
    <2>4. QED
      BY <1>0, <2>1, <2>2, <2>3, EndTidies
  <1>3. CASE DownForUndeploy(t)
    <2>1. TidyUndeploy(c, task[t]) /\ task[t].pc = "uDown"
      BY <1>3, <1>u DEF DownForUndeploy, At, UndeployPcs
    <2>2. AfterDown(c) = {NULL}
      BY <2>1 DEF AfterDown, TidyUndeploy, Clean, Orderly
    <2>3. /\ customer' = customer /\ row' = row /\ files' = files /\ npm' = npm /\ dns' = dns
          /\ stack'[c] = NULL
      BY <1>3, <2>2 DEF DownForUndeploy, NeatInv, TypeInv, TypeOK
    <2>4. PICK r : r = [task[t] EXCEPT !.pc = "uDowned"]
      OBVIOUS
    <2>5. r.pc = "uDowned"
      BY <1>t, <2>4 DEF UndeployPcs
    <2>6. HostKnown(c)'
      BY <2>1, <2>3 DEF TidyUndeploy, HostKnown
    <2>7. TidyUndeploy(c, r)'
      BY <2>1, <2>3, <2>5, <2>6 DEF TidyUndeploy
    <2>8. QED
      BY <1>0, <1>3, <1>g, <2>1, <2>3, <2>4, <2>7 DEF DownForUndeploy, UndeployPcs
  <1>4. CASE ResumeUndeploy(t)
    <2>1. TidyUndeploy(c, task[t]) /\ task[t].pc = "uDowned"
      BY <1>4, <1>u DEF ResumeUndeploy, At, UndeployPcs
    <2>2. row[c] # NULL /\ stack[c] = NULL /\ HostKnown(c)
      BY <2>1 DEF TidyUndeploy
    <2>3. CASE Go(t, "uNpm") /\ UNCHANGED <<customer, row, files, outside>>
      <3>1. PICK r : r = [task[t] EXCEPT !.pc = "uNpm"]
        OBVIOUS
      <3>2. r.pc = "uNpm"
        BY <1>t, <3>1 DEF UndeployPcs
      <3>3. TidyUndeploy(c, r)'
        BY <2>2, <2>3, <3>2 DEF TidyUndeploy, outside
      <3>4. dns'[c] => DnsConfigured
        BY <1>0, <2>3 DEF outside
      <3>5. QED
        BY <1>g, <2>1, <2>3, <3>1, <3>3, <3>4 DEF UndeployPcs
    <2>4. CASE ~row[c].npm /\ RemoveDns(t)
      BY <1>d, <2>1, <2>2, <2>4 DEF HostKnown
    <2>5. QED
      BY <1>0, <1>4, <2>2, <2>3, <2>4 DEF ResumeUndeploy, Abort
  <1>5. CASE DeleteProxyHost(t)
    <2>1. TidyUndeploy(c, task[t]) /\ task[t].pc = "uNpm"
      BY <1>5, <1>u DEF DeleteProxyHost, At, UndeployPcs
    <2>2. /\ customer' = customer /\ row' = row /\ files' = files /\ stack' = stack /\ dns' = dns
          /\ ~npm'[c]
      BY <1>5 DEF DeleteProxyHost, Orderly, NeatInv, TypeInv, TypeOK
    <2>3. PICK r : r = [task[t] EXCEPT !.pc = "uNpmed"]
      OBVIOUS
    <2>4. r.pc = "uNpmed"
      BY <1>t, <2>3 DEF UndeployPcs
    <2>5. TidyUndeploy(c, r)'
      BY <2>1, <2>2, <2>4 DEF TidyUndeploy
    <2>6. QED
      BY <1>0, <1>5, <1>g, <2>1, <2>2, <2>3, <2>5 DEF DeleteProxyHost, UndeployPcs
  <1>6. CASE ResumeAfterProxyDelete(t)
    <2>1. TidyUndeploy(c, task[t]) /\ task[t].pc = "uNpmed"
      BY <1>6, <1>u DEF ResumeAfterProxyDelete, At, UndeployPcs
    <2>2. ~npm[c]
      BY <2>1 DEF TidyUndeploy
    <2>3. QED
      BY <1>0, <1>6, <1>d, <2>1, <2>2 DEF ResumeAfterProxyDelete, Abort
  <1>7. CASE DeleteDnsRecord(t)
    <2>1. TidyUndeploy(c, task[t]) /\ task[t].pc = "uDns"
      BY <1>7, <1>u DEF DeleteDnsRecord, At, UndeployPcs
    <2>2. /\ customer' = customer /\ row' = row /\ files' = files /\ stack' = stack /\ npm' = npm
          /\ ~dns'[c]
      BY <1>7 DEF DeleteDnsRecord, Orderly, NeatInv, TypeInv, TypeOK
    <2>3. PICK r : r = [task[t] EXCEPT !.pc = "uDnsed"]
      OBVIOUS
    <2>4. r.pc = "uDnsed"
      BY <1>t, <2>3 DEF UndeployPcs
    <2>5. TidyUndeploy(c, r)'
      BY <2>1, <2>2, <2>4 DEF TidyUndeploy
    <2>6. QED
      BY <1>7, <1>g, <2>1, <2>2, <2>3, <2>5 DEF DeleteDnsRecord, UndeployPcs
  <1>8. CASE FinishUndeploy(t)
    <2>1. TidyUndeploy(c, task[t]) /\ task[t].pc = "uDnsed"
      BY <1>8, <1>u DEF FinishUndeploy, At, UndeployPcs
    <2>2. stack[c] = NULL /\ ~npm[c] /\ ~dns[c] /\ task[t].pc \in UndeployPcs
      BY <2>1 DEF TidyUndeploy, UndeployPcs
    <2>3. QED
      BY <1>8, <2>2, UndeployedTidies DEF FinishUndeploy
  <1>9. QED
    BY <1>1, <1>2, <1>3, <1>4, <1>5, <1>6, <1>7, <1>8 DEF UndeployStep

\* Start, stop and restart create and remove nothing.
LEMMA ControlTidies ==
    ASSUME NeatInv, NEW t \in Tasks, task[t] # NULL, NEW c \in Customers, c = Cust(t),
           ComposeControl(t) \/ ResumeControl(t)
    PROVE  Tidies(t, c)
  <1>0. /\ task[t] \in Task /\ task[t].cust = c /\ row[c] \in Row \cup {NULL}
        /\ TidyTask(c, task[t]) /\ Present(c) /\ ~task[t].broken /\ (dns[c] => DnsConfigured)
    BY NeatContext
  <1>1. Tidy(c)
    BY <1>0 DEF TidyTask, ComposeControl, ResumeControl, At, ControlPcs
  <1>2. CASE ComposeControl(t)
    <2>1. PICK s \in Stack \cup {NULL}, ok \in BOOLEAN :
             /\ ComposeCall(c, task[t].op, s, ok)
             /\ stack' = [stack EXCEPT ![c] = s]
             /\ task' = [task EXCEPT ![t] = [@ EXCEPT !.pc = "controlled", !.ok = ok]]
      BY <1>2 DEF ComposeControl
    <2>2. /\ customer' = customer /\ row' = row /\ files' = files /\ npm' = npm /\ dns' = dns
          /\ stack'[c] = s
      BY <1>2, <2>1 DEF ComposeControl, NeatInv, TypeInv, TypeOK
    <2>3. files[c].port = NULL => s = stack[c]
      BY <2>1 DEF ComposeCall
    <2>4. HostKnown(c)' /\ Clean(c)'
      BY <1>1, <2>2, <2>3 DEF Tidy, HostKnown, Clean
    <2>5. row[c] = NULL => Nothing(c)'
      BY <1>1, <2>2, <2>3 DEF Tidy, Nothing, NoDir
    <2>6. Tidy(c)'
      BY <2>2, <2>4, <2>5 DEF Tidy
    <2>7. PICK r : r = [task[t] EXCEPT !.pc = "controlled", !.ok = ok]
      OBVIOUS
    <2>8. r # NULL /\ r.cust = c /\ r.pc = "controlled" /\ ~r.broken
      BY <1>0, <2>7, TaskAssumption DEF Task, Pcs, ControlPcs
    <2>9. TidyTask(c, r)'
      BY <1>0, <2>2, <2>6, <2>8 DEF TidyTask, Present, WithPort, Rolling, UndeployPcs, ControlPcs
    <2>10. Ends(t, c, r)
      BY <1>0, <2>1, <2>2, <2>7, <2>8, <2>9 DEF Ends
    <2>11. QED
      BY <2>10 DEF Tidies
  <1>3. CASE ResumeControl(t)
    <2>1. /\ files' = files /\ stack' = stack /\ npm' = npm /\ dns' = dns /\ End(t)
          /\ row' = row \/ (row[c] # NULL /\ row' = [row EXCEPT ![c].status = RowStatusAfter(task[t].op)])
      BY <1>3 DEF ResumeControl, outside
    <2>2. /\ row'[c] = NULL <=> row[c] = NULL
          /\ row[c] # NULL => row'[c].npm = row[c].npm
      <3>1. CASE row' = row
        BY <3>1
      <3>2. CASE row[c] # NULL /\ row' = [row EXCEPT ![c].status = RowStatusAfter(task[t].op)]
        <4>1. row'[c] = [row[c] EXCEPT !.status = RowStatusAfter(task[t].op)]
          BY <3>2 DEF NeatInv, TypeInv, TypeOK
        <4>2. row'[c] \in Row
          BY <1>0, <3>2, <4>1 DEF Row, RowStatusAfter, DeploymentStatuses
        <4>3. QED
          BY <1>0, <3>2, <4>1, <4>2, RowAssumption DEF Row
      <3>3. QED
        BY <2>1, <3>1, <3>2
    <2>3. HostKnown(c)' /\ Clean(c)' /\ (row[c] = NULL => Nothing(c)')
      BY <1>1, <2>1, <2>2 DEF Tidy, HostKnown, Clean, Nothing
    <2>4. Tidy(c)'
      BY <2>2, <2>3 DEF Tidy
    <2>5. QED
      BY <1>0, <2>1, <2>4, EndTidies
  <1>4. QED
    BY <1>2, <1>3

\* A step of a task keeps the invariant for all customers.
LEMMA StepTidies ==
    ASSUME NeatInv, Orderly, NEW t \in Tasks, task[t] # NULL, Step(t)
    PROVE  \A d \in Customers : Neat(d)'
  <1>1. PICK c \in Customers : c = Cust(t)
    BY DEF NeatInv, TypeInv, TypeOK, Task, Cust
  <1>2. Tidies(t, c)
    BY <1>1, DeployTidies, UndeployTidies, ControlTidies, NoRefusal DEF Step, Orderly
  <1>3. PICK r : Ends(t, c, r)
    BY <1>2 DEF Tidies
  <1>4. /\ task'[t] = r
        /\ \A u \in Tasks : u = t
    BY <1>3 DEF Ends, Orderly, OneTask, NeatInv, TypeInv, TypeOK
  <1>5. Neat(c)'
    <2>1. ASSUME ~Busy(c)' PROVE Tidy(c)'
      <3>1. r = NULL
        BY <1>3, <1>4, <2>1 DEF Busy, Ends
      <3>2. QED
        BY <1>3, <3>1 DEF Ends
    <2>2. ASSUME NEW u \in Tasks, task'[u] # NULL, task'[u].cust = c PROVE TidyTask(c, task[u])'
      <3>1. TidyTask(c, r)' /\ task'[u] = r
        BY <1>3, <1>4, <2>2 DEF Ends
      <3>2. QED
        BY <3>1
    <2>3. QED
      BY <1>3, <2>1, <2>2 DEF Ends, Neat
  <1>6. ASSUME NEW d \in Customers, d # c PROVE Neat(d)'
    <2>1. SameAll(d)
      BY <1>1, <1>6, StepSame DEF NeatInv, Orderly
    <2>2. Alike(d)
      BY <2>1 DEF SameAll, Same, Alike, Present
    <2>3. ~Busy(d)
      BY <1>1, <1>4, <1>6 DEF Busy, Cust
    <2>4. \A u \in Tasks : task'[u] # NULL /\ task'[u].cust = d => task'[u] = task[u]
      BY <1>3, <1>4, <1>6 DEF Ends
    <2>5. QED
      BY <2>2, <2>3, <2>4, NeatSame
  <1>7. QED
    BY <1>5, <1>6

\* A handler up to its first await finds the customer tidy and leaves it so.
LEMMA RequestTidies ==
    ASSUME NeatInv, Orderly, NEW t \in Tasks, NEW c \in Customers, Request(t, c)
    PROVE  \A d \in Customers : Neat(d)'
  <1>1. task[t] = NULL /\ \A u \in Tasks : u = t
    BY DEF Request, Create, ManualDeploy, Delete, Control, Free, Orderly, OneTask
  <1>2. ~Busy(c) /\ Tidy(c) /\ (dns[c] => DnsConfigured)
    BY <1>1 DEF Busy, NeatInv, Neat
  <1>3. row' = row /\ files' = files /\ stack' = stack /\ npm' = npm /\ dns' = dns
    BY DEF Request, Create, ManualDeploy, Delete, Control, outside
  <1>4. PICK r : /\ task' = [task EXCEPT ![t] = r]
                 /\ r.cust = c /\ r.pc \in {"queued", "control"} /\ ~r.broken /\ ~r.hadRow /\ ~r.made
    <2>1. CASE Create(t, c) \/ ManualDeploy(t, c) \/ Delete(t, c)
      <3>1. PICK op : task' = [task EXCEPT ![t] = NewTask(op, c, "queued")]
        BY <2>1 DEF Create, ManualDeploy, Delete
      <3>2. PICK r : r = NewTask(op, c, "queued")
        OBVIOUS
      <3>3. r.cust = c /\ r.pc = "queued" /\ ~r.broken /\ ~r.hadRow /\ ~r.made
        BY <3>2 DEF NewTask
      <3>4. QED
        BY <3>1, <3>2, <3>3
    <2>2. CASE Control(t, c)
      <3>1. PICK op, w : task' = [task EXCEPT ![t] = [NewTask(op, c, "control") EXCEPT !.writes = w]]
        BY <2>2 DEF Control
      <3>2. PICK r : r = [NewTask(op, c, "control") EXCEPT !.writes = w]
        OBVIOUS
      <3>3. r.cust = c /\ r.pc = "control" /\ ~r.broken /\ ~r.hadRow /\ ~r.made
        BY <3>2 DEF NewTask
      <3>4. QED
        BY <3>1, <3>2, <3>3
    <2>3. QED
      BY <2>1, <2>2 DEF Request
  <1>5. task'[t] = r
    BY <1>4 DEF NeatInv, TypeInv, TypeOK
  <1>6. /\ Present(c)'
        /\ \A d \in Customers \ {c} : customer'[d] = customer[d]
    BY DEF Request, Create, ManualDeploy, Delete, Control, Present, NeatInv, TypeInv, TypeOK
  <1>7. HostKnown(c)' /\ Clean(c)' /\ (row[c] = NULL => Nothing(c)')
    BY <1>2, <1>3 DEF Tidy, HostKnown, Clean, Nothing
  <1>8. Tidy(c)'
    BY <1>3, <1>7 DEF Tidy
  <1>9. TidyTask(c, r)'
    BY <1>4, <1>6, <1>8 DEF TidyTask, WithPort, Rolling, UndeployPcs, ControlPcs
  <1>10. Neat(c)'
    <2>1. ASSUME NEW u \in Tasks PROVE TidyTask(c, task[u])'
      <3>1. TidyTask(c, r)' /\ task'[u] = r
        BY <1>1, <1>5, <1>9
      <3>2. QED
        BY <3>1
    <2>2. QED
      BY <1>2, <1>3, <1>8, <2>1 DEF Neat
  <1>11. ASSUME NEW d \in Customers, d # c PROVE Neat(d)'
    <2>1. Alike(d)
      BY <1>3, <1>6, <1>11 DEF Alike, Present
    <2>2. ~Busy(d) /\ \A u \in Tasks : task'[u].cust # d
      BY <1>1, <1>4, <1>5, <1>11 DEF Busy
    <2>3. QED
      BY <2>1, <2>2, NeatSame
  <1>12. QED
    BY <1>10, <1>11

\* A health check and the operator write statuses only.
LEMMA StatusTidies ==
    ASSUME NeatInv, NEW c \in Customers, CheckHealth(c) \/ UpdateCustomer(c)
    PROVE  \A d \in Customers : Neat(d)'
  <1>1. /\ task' = task /\ files' = files /\ stack' = stack /\ npm' = npm /\ dns' = dns
        /\ Present(c) => Present(c)'
        /\ \A d \in Customers \ {c} : customer'[d] = customer[d]
    BY ManualStatusesAssumption
       DEF CheckHealth, UpdateCustomer, outside, Present, Statuses, NeatInv, TypeInv, TypeOK
  <1>2. \/ row' = row /\ Present(c)
        \/ /\ row[c] # NULL
           /\ \E st \in {"running", "failed"} : row' = [row EXCEPT ![c].status = st]
    BY DEF CheckHealth, UpdateCustomer
  <1>3. Alike(c)
    <2>1. CASE row' = row
      BY <1>1, <2>1 DEF Alike
    <2>2. ASSUME row[c] # NULL, NEW st \in {"running", "failed"}, row' = [row EXCEPT ![c].status = st]
          PROVE  row'[c] # NULL /\ row'[c].npm = row[c].npm
      <3>1. row[c] \in Row /\ row'[c] = [row[c] EXCEPT !.status = st]
        BY <2>2 DEF NeatInv, TypeInv, TypeOK
      <3>2. row'[c] \in Row
        BY <3>1 DEF Row, DeploymentStatuses
      <3>3. QED
        BY <3>1, <3>2, RowAssumption DEF Row
    <2>3. QED
      BY <1>1, <1>2, <2>1, <2>2 DEF Alike
  <1>4. ASSUME NEW d \in Customers \ {c} PROVE Alike(d)
    BY <1>1, <1>2 DEF Alike, Present, NeatInv, TypeInv, TypeOK
  <1>5. ASSUME NEW d \in Customers PROVE Neat(d)'
    <2>1. Alike(d)
      BY <1>3, <1>4
    <2>2. Busy(d)' <=> Busy(d)
      BY <1>1 DEF Busy
    <2>3. QED
      BY <1>1, <2>1, <2>2, NeatSame
  <1>6. QED
    BY <1>5

\* Every step keeps the invariant.
LEMMA NeatStep ==
    ASSUME Orderly, NeatInv, [Next]_vars
    PROVE  NeatInv'
  <1>0. TypeInv' /\ UniqueInv'
    <2>1. SolePort /\ "db" \notin Faults
      BY DEF Orderly, OneTask, SolePort
    <2>2. QED
      BY <2>1, TypeStep, UniqueStep DEF NeatInv
  <1>1. ASSUME NEW t \in Tasks, NEW c \in Customers, Request(t, c) PROVE \A d \in Customers : Neat(d)'
    BY <1>1, RequestTidies
  <1>2. ASSUME NEW t \in Tasks, Step(t) PROVE \A d \in Customers : Neat(d)'
    <2>1. task[t] # NULL
      BY <1>2, NoRefusal DEF Orderly, Step, DeployStep, UndeployStep, ComposeControl, ResumeControl, BeginDeploy,
           DownForRedeploy, ResumeAfterDown, UpSucceeds, UpFails, ResumeAfterUp, CreateProxyHost,
           ResumeAfterProxy, CreateDnsRecord, ResumeAfterDns, RollbackDown, RollbackFiles,
           BeginUndeploy, DeleteWithoutRow, DownForUndeploy, ResumeUndeploy, DeleteProxyHost,
           ResumeAfterProxyDelete, DeleteDnsRecord, FinishUndeploy, At
    <2>2. QED
      BY <1>2, <2>1, StepTidies
  <1>3. ASSUME NEW c \in Customers, CheckHealth(c) \/ UpdateCustomer(c)
        PROVE  \A d \in Customers : Neat(d)'
    BY <1>3, StatusTidies
  <1>4. ~Crash
    BY DEF Crash, Orderly
  <1>5. ASSUME UNCHANGED vars PROVE \A d \in Customers : Neat(d)'
    <2>1. ASSUME NEW d \in Customers PROVE Neat(d)'
      <3>1. task' = task /\ Alike(d) /\ (Busy(d)' <=> Busy(d))
        BY <1>5 DEF vars, Alike, Present, Busy
      <3>2. QED
        BY <3>1, NeatSame
    <2>2. QED
      BY <2>1
  <1>6. \A d \in Customers : Neat(d)'
    BY <1>1, <1>2, <1>3, <1>4, <1>5 DEF Next
  <1>7. QED
    BY <1>0, <1>6 DEF NeatInv

\* The invariant holds initially.
LEMMA NeatInit == Init => NeatInv
  <1> SUFFICES ASSUME Init PROVE NeatInv
    OBVIOUS
  <1>1. TypeInv /\ UniqueInv
    BY TypeInit DEF Init, UniqueInv, RowsDiffer, TaskPort
  <1>2. \A c \in Customers : Neat(c)
    BY DEF Init, Neat, Tidy, HostKnown, Clean, Nothing
  <1>3. QED
    BY <1>1, <1>2 DEF NeatInv

\* Whichever file cannot be written, and whatever compose up, NPM and DNS refuse to
\* create, a first deployment that fails leaves no containers, no files, no proxy host and no record, and shows
\* the error.
THEOREM RollbackAlwaysComplete ==
    ASSUME \A t, u \in Tasks : t = u,
           "down" \notin Faults, "npmLost" \notin Faults, "npmDelete" \notin Faults,
           "dnsDelete" \notin Faults, "rmtree" \notin Faults, "crash" \notin Faults,
           "db" \notin Faults, "torn" \notin Faults
    PROVE  Spec => RollbackIsComplete
  <1>0. Orderly
    BY DEF Orderly, OneTask
  <1>1. NeatInv /\ [Next]_vars => NeatInv'
    BY <1>0, NeatStep
  <1>2. ASSUME NeatInv, Next, NEW t \in Tasks, NEW c \in Customers,
               At(t, "undone"), Cust(t) = c, ~task[t].hadRow, task'[t] = NULL
        PROVE  customer'[c] = "error" /\ Nothing(c)'
    <2>1. task[t] # NULL /\ task[t].pc = "undone" /\ \A u \in Tasks : u = t
      BY <1>0, <1>2 DEF At, Orderly, OneTask
    <2>2. ~\E u \in Tasks, d \in Customers : Request(u, d)
      BY <2>1 DEF Request, Create, ManualDeploy, Delete, Control, Free
    <2>3. ~\E d \in Customers : CheckHealth(d) \/ UpdateCustomer(d)
      BY <1>2, <2>1 DEF CheckHealth, UpdateCustomer
    <2>4. Step(t)
      BY <1>0, <1>2, <2>1, <2>2, <2>3 DEF Next, Crash, Orderly
    <2>5. RollbackFiles(t)
      BY <1>0, <2>1, <2>4, NoRefusal DEF Orderly, Step, DeployStep, UndeployStep, ComposeControl, ResumeControl, BeginDeploy,
           DownForRedeploy, ResumeAfterDown, UpSucceeds, UpFails, ResumeAfterUp, CreateProxyHost,
           ResumeAfterProxy, CreateDnsRecord, ResumeAfterDns, RollbackDown,
           BeginUndeploy, DeleteWithoutRow, DownForUndeploy, ResumeUndeploy, DeleteProxyHost,
           ResumeAfterProxyDelete, DeleteDnsRecord, FinishUndeploy, At
    <2>6. QED
      BY <1>0, <1>2, <2>1, <2>5, RollbackTidies
  <1>3. NeatInv /\ [Next]_vars =>
           [\A t \in Tasks, c \in Customers :
              At(t, "undone") /\ Cust(t) = c /\ ~task[t].hadRow /\ task'[t] = NULL =>
                  customer'[c] = "error" /\ Nothing(c)']_vars
    BY <1>2
  <1>4. QED
    BY <1>1, <1>3, NeatInit, PTL DEF Spec, RollbackIsComplete

\* Whatever happened to a customer before, once it is deleted there are no
\* containers, no files, no proxy host and no record of it.
THEOREM DeletedAlwaysLeavesNothing ==
    ASSUME \A t, u \in Tasks : t = u,
           "down" \notin Faults, "npmLost" \notin Faults, "npmDelete" \notin Faults,
           "dnsDelete" \notin Faults, "rmtree" \notin Faults, "crash" \notin Faults,
           "db" \notin Faults, "torn" \notin Faults
    PROVE  Spec => []DeletedLeavesNothing
  <1>0. Orderly
    BY DEF Orderly, OneTask
  <1>1. NeatInv /\ [Next]_vars => NeatInv'
    BY <1>0, NeatStep
  <1>2. NeatInv /\ RowHasCustomer => DeletedLeavesNothing
    BY DEF NeatInv, Neat, Tidy, RowHasCustomer, Settled, DeletedLeavesNothing
  <1>3. QED
    BY <1>1, <1>2, NeatInit, RowAlwaysHasCustomer, PTL DEF Spec

-----------------------------------------------------------------------------
(* What a task is about decides where it can be.                           *)

Fit(r) ==
    /\ r.op \in {"create", "redeploy"} => r.pc \in DeployPcs
    /\ r.op = "reinstall" => r.pc \notin ControlPcs
    /\ r.op = "delete" => r.pc \in UndeployPcs \cup {"queued"}
    /\ r.op \in {"stop", "start", "restart"} => r.pc \in ControlPcs /\ r.port = NULL

\* A task goes on with what it is about, or ends.
Proceeds(t) ==
    \E r : /\ task' = [task EXCEPT ![t] = r]
           /\ r # NULL => r.cust = task[t].cust /\ r.op = task[t].op /\ Fit(r)

\* A step of task t that replaces its record by r.
LEMMA MoveProceeds ==
    ASSUME TypeInv, NEW t \in Tasks, task[t] # NULL, Fit(task[t]),
           NEW r, task' = [task EXCEPT ![t] = r],
           r.cust = task[t].cust, r.op = task[t].op, r.port = task[t].port,
           \/ task[t].pc \in DeployPcs \ {"queued"} /\ r.pc \in DeployPcs
           \/ task[t].pc \in UndeployPcs /\ r.pc \in UndeployPcs
           \/ task[t].pc \in ControlPcs /\ r.pc \in ControlPcs
    PROVE  Proceeds(t)
  <1>1. Fit(r)
    BY DEF Fit, DeployPcs, UndeployPcs, ControlPcs
  <1>2. QED
    BY <1>1 DEF Proceeds

\* Go moves the task to another position.
LEMMA GoProceeds ==
    ASSUME TypeInv, NEW t \in Tasks, task[t] # NULL, Fit(task[t]), NEW pc, Go(t, pc),
           \/ task[t].pc \in DeployPcs \ {"queued"} /\ pc \in DeployPcs
           \/ task[t].pc \in UndeployPcs /\ pc \in UndeployPcs
    PROVE  Proceeds(t)
  <1> DEFINE r == [task[t] EXCEPT !.pc = pc]
  <1>1. task[t] \in Task
    BY DEF TypeInv, TypeOK
  <1>2. r.cust = task[t].cust /\ r.op = task[t].op /\ r.port = task[t].port /\ r.pc = pc
    BY <1>1 DEF Task
  <1>3. task' = [task EXCEPT ![t] = r]
    BY DEF Go
  <1>4. QED
    BY <1>2, <1>3, MoveProceeds

\* End forgets the task.
LEMMA EndProceeds ==
    ASSUME NEW t \in Tasks, End(t)
    PROVE  Proceeds(t)
  BY DEF Proceeds, End

\* LogFails sends a deployment to roll back.
LEMMA LogFailsProceeds ==
    ASSUME TypeInv, NEW t \in Tasks, task[t] # NULL, Fit(task[t]),
           task[t].pc \in DeployPcs \ {"queued"}, LogFails(t)
    PROVE  Proceeds(t)
  <1> DEFINE r == [task[t] EXCEPT !.pc = "undo", !.broken = TRUE]
  <1>1. task[t] \in Task
    BY DEF TypeInv, TypeOK
  <1>2. r.cust = task[t].cust /\ r.op = task[t].op /\ r.port = task[t].port /\ r.pc = "undo"
    BY <1>1 DEF Task
  <1>3. task' = [task EXCEPT ![t] = r]
    BY DEF LogFails, Break
  <1>4. QED
    BY <1>2, <1>3, MoveProceeds DEF DeployPcs

\* Prepare goes on with a deployment.
LEMMA PrepareProceeds ==
    ASSUME TypeInv, NEW t \in Tasks, task[t] # NULL, task[t].op \in {"create", "redeploy", "reinstall"},
           NEW rows \in [Customers -> Row \cup {NULL}], NEW dirs, Prepare(t, rows, dirs)
    PROVE  Proceeds(t)
  <1>1. task[t] \in Task
    BY DEF TypeInv, TypeOK
  <1>2. CASE \E p \in PortsFor(Cust(t), rows) :
                task' = [task EXCEPT ![t] = [@ EXCEPT
                            !.pc = IF rows[Cust(t)] # NULL THEN "down" ELSE "up",
                            !.port = p, !.hadRow = rows[Cust(t)] # NULL, !.made = TRUE,
                            !.hadData = dirs[Cust(t)].data # NULL]]
    <2>1. PICK p \in PortsFor(Cust(t), rows) :
             task' = [task EXCEPT ![t] = [@ EXCEPT
                         !.pc = IF rows[Cust(t)] # NULL THEN "down" ELSE "up",
                         !.port = p, !.hadRow = rows[Cust(t)] # NULL, !.made = TRUE,
                         !.hadData = dirs[Cust(t)].data # NULL]]
      BY <1>2
    <2>2. PICK r : r = [task[t] EXCEPT
                          !.pc = IF rows[Cust(t)] # NULL THEN "down" ELSE "up",
                          !.port = p, !.hadRow = rows[Cust(t)] # NULL, !.made = TRUE,
                          !.hadData = dirs[Cust(t)].data # NULL]
      OBVIOUS
    <2>3. r.cust = task[t].cust /\ r.op = task[t].op /\ r.pc \in {"down", "up"}
      BY <1>1, <2>2 DEF Task
    <2>4. Fit(r)
      BY <2>3 DEF Fit, DeployPcs, ControlPcs
    <2>5. QED
      BY <2>1, <2>2, <2>3, <2>4 DEF Proceeds
  <1>3. ASSUME Go(t, "undo") PROVE Proceeds(t)
    <2> DEFINE r == [task[t] EXCEPT !.pc = "undo"]
    <2>1. r.cust = task[t].cust /\ r.op = task[t].op /\ r.pc = "undo"
      BY <1>1 DEF Task
    <2>2. Fit(r)
      BY <2>1 DEF Fit, DeployPcs, ControlPcs
    <2>3. QED
      BY <1>3, <2>1, <2>2 DEF Proceeds, Go
  <1>4. ASSUME BreaksOff(t, rows, dirs) PROVE Proceeds(t)
    <2>1. PICK r \in Task : /\ task' = [task EXCEPT ![t] = r]
                            /\ r.op = task[t].op /\ r.cust = task[t].cust /\ r.pc = "undo"
      BY <1>4, BreaksOffShape
    <2>2. Fit(r)
      BY <2>1 DEF Fit, DeployPcs, ControlPcs
    <2>3. QED
      BY <2>1, <2>2 DEF Proceeds
  <1>5. QED
    BY <1>2, <1>3, <1>4 DEF Prepare

\* After the proxy step the task waits for DNS, or records the deployment.
LEMMA RecordProceeds ==
    ASSUME TypeInv, NEW t \in Tasks, task[t] # NULL, Fit(task[t]),
           task[t].pc \in DeployPcs \ {"queued"}, NEW proxy, Record(t, proxy) \/ AfterProxy(t, proxy)
    PROVE  Proceeds(t)
  <1>1. task[t] \in Task
    BY DEF TypeInv, TypeOK
  <1>2. CASE End(t)
    BY <1>2, EndProceeds
  <1>3. CASE task' = [task EXCEPT ![t] = [@ EXCEPT !.pc = "undo", !.broken = TRUE]]
    <2> DEFINE r == [task[t] EXCEPT !.pc = "undo", !.broken = TRUE]
    <2>1. r.cust = task[t].cust /\ r.op = task[t].op /\ r.port = task[t].port /\ r.pc = "undo"
      BY <1>1 DEF Task
    <2>2. QED
      BY <1>3, <2>1, MoveProceeds DEF DeployPcs
  <1>4. CASE task' = [task EXCEPT ![t] = [@ EXCEPT !.pc = "dns", !.proxy = proxy]]
    <2> DEFINE r == [task[t] EXCEPT !.pc = "dns", !.proxy = proxy]
    <2>1. r.cust = task[t].cust /\ r.op = task[t].op /\ r.port = task[t].port /\ r.pc = "dns"
      BY <1>1 DEF Task
    <2>2. QED
      BY <1>4, <2>1, MoveProceeds DEF DeployPcs
  <1>5. QED
    BY <1>2, <1>3, <1>4 DEF Record, Break, AfterProxy

\* Every step of every task goes on with what the task is about.
LEMMA StepProceeds ==
    ASSUME "db" \notin Faults, TypeInv, NEW t \in Tasks, task[t] # NULL, Fit(task[t]), Step(t)
    PROVE  Proceeds(t)
  <1>0. task[t] \in Task
    BY DEF TypeInv, TypeOK
  <1>d. ASSUME NEW pc \in DeployPcs, task[t].pc \in DeployPcs \ {"queued"}, Go(t, pc) PROVE Proceeds(t)
    BY <1>d, GoProceeds
  <1>u. ASSUME NEW pc \in UndeployPcs, task[t].pc \in UndeployPcs, Go(t, pc) PROVE Proceeds(t)
    BY <1>u, GoProceeds
  <1>e. End(t) => Proceeds(t)
    BY EndProceeds
  <1>1. CASE BeginDeploy(t)
    <2>1. task[t].op \in {"create", "redeploy", "reinstall"}
      BY <1>1 DEF BeginDeploy
    <2>2. QED
      BY <1>1, <1>e, <2>1, PrepareProceeds DEF BeginDeploy, TypeInv, TypeOK
  <1>2. CASE DownForRedeploy(t) \/ UpSucceeds(t) \/ UpFails(t) \/ CreateDnsRecord(t) \/ RollbackDown(t)
    BY <1>2, <1>d DEF DownForRedeploy, UpSucceeds, UpFails, CreateDnsRecord, RollbackDown, At, DeployPcs
  <1>3. CASE ResumeAfterDown(t)
    <2>1. PICK broken \in BOOLEAN :
             task' = [task EXCEPT ![t] = [@ EXCEPT !.pc = "up", !.broken = broken]]
      BY <1>3 DEF ResumeAfterDown
    <2> DEFINE r == [task[t] EXCEPT !.pc = "up", !.broken = broken]
    <2>2. r.cust = task[t].cust /\ r.op = task[t].op /\ r.port = task[t].port /\ r.pc = "up"
      BY <1>0 DEF Task
    <2>3. QED
      BY <1>3, <2>1, <2>2, MoveProceeds DEF ResumeAfterDown, At, DeployPcs
  <1>4. CASE ResumeAfterUp(t)
    <2>1. task[t].pc \in DeployPcs \ {"queued"}
      BY <1>4 DEF ResumeAfterUp, At, DeployPcs
    <2>2. ASSUME Go(t, "undo") \/ Go(t, "npm") PROVE Proceeds(t)
      BY <1>d, <2>1, <2>2 DEF DeployPcs
    <2>3. QED
      BY <1>4, <2>1, <2>2, LogFailsProceeds, RecordProceeds DEF ResumeAfterUp
  <1>5. CASE CreateProxyHost(t)
    <2>1. PICK told \in BOOLEAN :
             task' = [task EXCEPT ![t] = [@ EXCEPT !.pc = "npmed", !.proxy = told]]
      BY <1>5 DEF CreateProxyHost
    <2> DEFINE r == [task[t] EXCEPT !.pc = "npmed", !.proxy = told]
    <2>2. r.cust = task[t].cust /\ r.op = task[t].op /\ r.port = task[t].port /\ r.pc = "npmed"
      BY <1>0 DEF Task
    <2>3. QED
      BY <1>5, <2>1, <2>2, MoveProceeds DEF CreateProxyHost, At, DeployPcs
  <1>6. CASE ResumeAfterProxy(t) \/ ResumeAfterDns(t)
    <2>1. task[t].pc \in DeployPcs \ {"queued"}
      BY <1>6 DEF ResumeAfterProxy, ResumeAfterDns, At, DeployPcs
    <2>2. QED
      BY <1>6, <2>1, LogFailsProceeds, RecordProceeds DEF ResumeAfterProxy, ResumeAfterDns
  <1>7. CASE RollbackFiles(t) \/ DeleteWithoutRow(t) \/ ResumeControl(t)
    BY <1>7, <1>e DEF RollbackFiles, DeleteWithoutRow, ResumeControl
  <1>8. CASE BeginUndeploy(t)
    <2> DEFINE r == [task[t] EXCEPT !.pc = "uDown"]
    <2>1. r.cust = task[t].cust /\ r.op = task[t].op /\ r.pc = "uDown"
      BY <1>0 DEF Task
    <2>2. Fit(r)
      BY <1>8, <2>1 DEF BeginUndeploy, Fit, UndeployPcs, ControlPcs
    <2>3. QED
      BY <1>8, <2>1, <2>2 DEF BeginUndeploy, Go, Proceeds
  <1>9. CASE DownForUndeploy(t) \/ DeleteProxyHost(t) \/ DeleteDnsRecord(t)
    BY <1>9, <1>u DEF DownForUndeploy, DeleteProxyHost, DeleteDnsRecord, At, UndeployPcs
  <1>10. CASE Undeployed(t)
    <2>1. [row EXCEPT ![Cust(t)] = NULL] \in [Customers -> Row \cup {NULL}]
      BY DEF TypeInv, TypeOK
    <2>2. QED
      BY <1>10, <1>e, <2>1, PrepareProceeds DEF Undeployed
  <1>11. CASE ResumeUndeploy(t) \/ ResumeAfterProxyDelete(t) \/ FinishUndeploy(t)
    <2>1. ASSUME Go(t, "uNpm") \/ Go(t, "uDns") PROVE Proceeds(t)
      BY <1>u, <1>11, <2>1 DEF ResumeUndeploy, ResumeAfterProxyDelete, FinishUndeploy, At, UndeployPcs
    <2>2. QED
      BY <1>e, <1>10, <1>11, <2>1 DEF ResumeUndeploy, ResumeAfterProxyDelete, FinishUndeploy, RemoveDns, Abort
  <1>12. CASE ComposeControl(t)
    <2>1. PICK ok \in BOOLEAN :
             task' = [task EXCEPT ![t] = [@ EXCEPT !.pc = "controlled", !.ok = ok]]
      BY <1>12 DEF ComposeControl
    <2> DEFINE r == [task[t] EXCEPT !.pc = "controlled", !.ok = ok]
    <2>2. r.cust = task[t].cust /\ r.op = task[t].op /\ r.port = task[t].port /\ r.pc = "controlled"
      BY <1>0 DEF Task
    <2>3. QED
      BY <1>12, <2>1, <2>2, MoveProceeds DEF ComposeControl, At, ControlPcs
  <1>13. QED
    BY <1>1, <1>2, <1>3, <1>4, <1>5, <1>6, <1>7, <1>8, <1>9, <1>10, <1>11, <1>12, NoRefusal
       DEF Step, DeployStep, UndeployStep

\* A task that steps is in flight.
LEMMA StepInFlight ==
    ASSUME "db" \notin Faults, NEW t \in Tasks, Step(t)
    PROVE  task[t] # NULL
  BY NoRefusal DEF Step, DeployStep, UndeployStep, ComposeControl, ResumeControl, BeginDeploy,
         DownForRedeploy, ResumeAfterDown, UpSucceeds, UpFails, ResumeAfterUp, CreateProxyHost,
         ResumeAfterProxy, CreateDnsRecord, ResumeAfterDns, RollbackDown, RollbackFiles,
         BeginUndeploy, DeleteWithoutRow, DownForUndeploy, ResumeUndeploy, DeleteProxyHost,
         ResumeAfterProxyDelete, DeleteDnsRecord, FinishUndeploy, At
-----------------------------------------------------------------------------
(* The API keeps its promise.  DeployLifecycle implements CustomerContract *)
(* with one handler or task at a time, under the settings of both parts    *)
(* above: what they prove of a customer at rest is all that the contract   *)
(* says of it.  In addition (Aim), a first deployment and one that follows *)
(* an undeployment have no row yet, so only a redeployment can fail and    *)
(* leave a customer with its port; and a stop, start or restart only fails *)
(* for want of a compose file.                                             *)

Controls == {"stop", "start", "restart"}

Deployments == {"create", "redeploy", "reinstall"}

\* A task that is to have no row, because its deployment begins from nothing.
Anew(r) == r.op = "create" \/ (r.op = "reinstall" /\ r.pc \in DeployPcs \ {"queued"})
Aim(c, r) ==
    /\ Anew(r) => row[c] = NULL
    /\ r.pc = "controlled" /\ ~r.ok => files[c].port = NULL
Aims == \A t \in Tasks : task[t] # NULL => Fit(task[t]) /\ Aim(task[t].cust, task[t])
PromiseInv == AllInv /\ NeatInv /\ RowHasCustomer /\ Aims

\* What there is of a customer that no deployment or deletion works on.
Upright(c) ==
    /\ row[c] = NULL => ShapeOf(c) = "nothing" /\ stack[c] = NULL
    /\ row[c] # NULL /\ files[c].port = NULL => ShapeOf(c) = "stripped" /\ stack[c] = NULL
    /\ row[c] # NULL /\ files[c].port # NULL =>
          /\ stack[c] # NULL /\ stack[c].port = row[c].port /\ files[c].port = row[c].port
          /\ ShapeOf(c) = IF stack[c].started THEN "started" ELSE "halted"

\* A customer at rest, or under a stop, start or restart, has one of the shapes.
LEMMA ShapeFits == PromiseInv => \A c \in Customers : ~Changing(c) => Upright(c)
  <1> SUFFICES ASSUME PromiseInv, NEW c \in Customers, ~Changing(c) PROVE Upright(c)
    OBVIOUS
  <1>1. /\ row[c] \in Row \cup {NULL} /\ files[c] \in Dir /\ stack[c] \in Stack \cup {NULL}
        /\ PortsAgree(c)
    BY DEF PromiseInv, AllInv, TypeInv, TypeOK, SoundInv, Sound
  <1>2. Tidy(c) /\ FilesAgree(c)
    <2>1. CASE ~Busy(c)
      BY <2>1 DEF PromiseInv, AllInv, NeatInv, Neat, SoundInv, Sound, Rests
    <2>2. CASE Busy(c)
      <3>1. PICK t \in Tasks : task[t] # NULL /\ task[t].cust = c
        BY <2>2 DEF Busy
      <3>2. task[t] \in Task /\ Fit(task[t]) /\ Works(c, task[t]) /\ TidyTask(c, task[t])
        BY <3>1 DEF PromiseInv, Aims, AllInv, TypeInv, TypeOK, SoundInv, Sound, NeatInv, Neat
      <3>3. task[t].op \in Controls
        BY <3>1, <3>2 DEF Changing, InFlight, Cust, Task, Operations, Controls
      <3>4. task[t].pc \in ControlPcs
        BY <3>2, <3>3 DEF Fit, Controls
      <3>5. FilesAgree(c)
        BY <3>2, <3>4 DEF Works, Rests, Writes, ControlPcs
      <3>6. QED
        BY <3>2, <3>4, <3>5 DEF TidyTask
    <2>3. QED
      BY <2>1, <2>2
  <1>3. CASE row[c] = NULL
    BY <1>2, <1>3 DEF Tidy, Nothing, ShapeOf, Upright
  <1>4. CASE row[c] # NULL /\ files[c].port = NULL
    BY <1>2, <1>4 DEF Tidy, Clean, ShapeOf, Upright
  <1>5. CASE row[c] # NULL /\ files[c].port # NULL
    <2>1. /\ stack[c] \in Stack /\ stack[c].port = row[c].port /\ files[c].port = row[c].port
          /\ files[c] # NoDir
      BY <1>1, <1>2, <1>5 DEF FilesAgree, PortsAgree, NoDir
    <2>2. stack[c] = [port |-> row[c].port, started |-> stack[c].started] /\ stack[c].started \in BOOLEAN
      BY <2>1 DEF Stack
    <2>3. ASSUME NEW up \in BOOLEAN PROVE Stands(c, up) <=> stack[c].started = up
      <3>1. [port |-> row[c].port, started |-> up].started = up
        OBVIOUS
      <3>2. QED
        BY <1>5, <2>1, <2>2, <3>1 DEF Stands
    <2>4. (Stands(c, TRUE) <=> stack[c].started) /\ (Stands(c, FALSE) <=> ~stack[c].started)
      BY <2>2, <2>3
    <2>5. stack[c] # NULL
      BY <2>1, StackAssumption
    <2>6. QED
      BY <1>5, <2>1, <2>3, <2>4, <2>5 DEF ShapeOf, Upright
  <1>6. QED
    BY <1>3, <1>4, <1>5

\* The same of the next state.
LEMMA ShapeFitsNext == PromiseInv' => (\A c \in Customers : ~Changing(c) => Upright(c))'
  BY ShapeFits, PTL

\* The one task says which request is being worked on, and for whom.
Named ==
    \A t \in Tasks, d \in Customers :
        IF task[t] # NULL /\ task[t].cust = d
        THEN RequestOf(d) = task[t].op /\ (Changing(d) <=> task[t].op \notin Controls)
        ELSE RequestOf(d) = NULL /\ ~Changing(d)

LEMMA TaskIsNamed == TypeInv /\ OneTask => Named
  <1> SUFFICES ASSUME TypeInv, OneTask, NEW t \in Tasks, NEW d \in Customers
               PROVE  IF task[t] # NULL /\ task[t].cust = d
                      THEN RequestOf(d) = task[t].op /\ (Changing(d) <=> task[t].op \notin Controls)
                      ELSE RequestOf(d) = NULL /\ ~Changing(d)
    BY DEF Named
  <1>1. \A u \in Tasks : u = t
    BY DEF OneTask
  <1>2. CASE task[t] # NULL /\ task[t].cust = d
    <2>1. task[t].op \in Operations
      BY <1>2 DEF TypeInv, TypeOK, Task
    <2>2. Busy(d)
      BY <1>2 DEF Busy
    <2>3. \A op \in Operations : (\E u \in Tasks : InFlight(u, d, op)) <=> op = task[t].op
      BY <1>1, <1>2 DEF InFlight, Cust
    <2>4. RequestOf(d) = task[t].op
      BY <2>1, <2>2, <2>3 DEF RequestOf
    <2>5. Changing(d) <=> task[t].op \notin Controls
      BY <1>1, <1>2, <2>1 DEF Changing, InFlight, Cust, Operations, Controls
    <2>6. QED
      BY <1>2, <2>4, <2>5
  <1>3. CASE ~(task[t] # NULL /\ task[t].cust = d)
    <2>1. ~Busy(d) /\ ~Changing(d)
      BY <1>1, <1>3 DEF Busy, Changing, InFlight, Cust
    <2>2. QED
      BY <1>3, <2>1 DEF RequestOf
  <1>4. QED
    BY <1>2, <1>3

\* The same of the next state.
LEMMA TaskIsNamedNext == TypeInv' /\ OneTask => Named'
  <1>1. OneTask => OneTask'
    BY DEF OneTask
  <1>2. QED
    BY <1>1, TaskIsNamed, PTL

\* A customer that no task works on before or after looks the same.
LEMMA LooksSame ==
    ASSUME Named, Named', NEW t \in Tasks, NEW d \in Customers, SameAll(d),
           task[t] # NULL => task[t].cust # d, task'[t] # NULL => task'[t].cust # d
    PROVE  /\ customer'[d] = customer[d] /\ PortOf(d)' = PortOf(d)
           /\ RequestOf(d)' = RequestOf(d) /\ ShapeOf(d)' = ShapeOf(d)
  <1>1. RequestOf(d) = NULL /\ ~Changing(d)
    BY DEF Named
  <1>2. RequestOf(d)' = NULL /\ ~Changing(d)'
    BY DEF Named
  <1>3. /\ Nothing(d)' <=> Nothing(d)
        /\ Stands(d, TRUE)' <=> Stands(d, TRUE)
        /\ Stands(d, FALSE)' <=> Stands(d, FALSE)
    BY DEF SameAll, Same, Nothing, Stands
  <1>4. ShapeOf(d)' = ShapeOf(d)
    BY <1>1, <1>2, <1>3 DEF SameAll, Same, ShapeOf
  <1>5. QED
    BY <1>1, <1>2, <1>4 DEF SameAll, Same, PortOf

\* What the contract sees.
PortView == [c \in Customers |-> PortOf(c)]
RequestView == [c \in Customers |-> RequestOf(c)]
ShapeView == [c \in Customers |-> ShapeOf(c)]

\* All customers but c look the same, and c has status s, port p, request q and shape h.
Shows(c, s, p, q, h) ==
    /\ customer' = [customer EXCEPT ![c] = s]
    /\ PortView' = [PortView EXCEPT ![c] = p]
    /\ RequestView' = [RequestView EXCEPT ![c] = q]
    /\ ShapeView' = [ShapeView EXCEPT ![c] = h]

LEMMA ViewStep ==
    ASSUME TypeInv, TypeInv', NEW c \in Customers, NEW s, NEW p, NEW q, NEW h,
           customer'[c] = s, PortOf(c)' = p, RequestOf(c)' = q, ShapeOf(c)' = h,
           \A d \in Customers \ {c} :
              /\ customer'[d] = customer[d] /\ PortOf(d)' = PortOf(d)
              /\ RequestOf(d)' = RequestOf(d) /\ ShapeOf(d)' = ShapeOf(d)
    PROVE  Shows(c, s, p, q, h)
  <1>1. customer' = [customer EXCEPT ![c] = s]
    BY DEF TypeInv, TypeOK
  <1>2. PortView' = [PortView EXCEPT ![c] = p]
    BY DEF PortView
  <1>3. RequestView' = [RequestView EXCEPT ![c] = q]
    BY DEF RequestView
  <1>4. ShapeView' = [ShapeView EXCEPT ![c] = h]
    BY DEF ShapeView
  <1>5. QED
    BY <1>1, <1>2, <1>3, <1>4 DEF Shows

\* Task t goes on for customer c, with what it is about.
Stays(t, c) == \E r \in Task : task' = [task EXCEPT ![t] = r] /\ Aim(c, r)'

\* What a step of a deployment or of a deletion shows of its customer: it goes
\* on, begins to deploy, or ends in one of three ways.
GoesOn(t, c) == Stays(t, c) /\ customer'[c] = customer[c] /\ row'[c] = row[c]
Begins(t, c) ==
    /\ Stays(t, c) /\ task[t].op \in Deployments /\ customer'[c] = "deploying"
    /\ row'[c] = row[c] \/ (task[t].op = "reinstall" /\ row'[c] = NULL)
Succeeds(t, c) ==
    /\ End(t) /\ task[t].op \in Deployments /\ customer'[c] = "active"
    /\ row[c] # NULL => task[t].op = "redeploy" /\ row[c].port = task[t].port
    /\ task[t].port \in Ports /\ row'[c] # NULL /\ row'[c].port = task[t].port
    /\ stack'[c] # NULL /\ stack'[c].started /\ files'[c].port # NULL
    /\ \A d \in Customers \ {c} : row[d] # NULL => row[d].port # task[t].port
GivesUp(t, c) ==
    /\ End(t) /\ task[t].op \in Deployments /\ customer'[c] = "error"
    /\ row'[c] = row[c] /\ files'[c].port = NULL
Removes(t, c) ==
    End(t) /\ task[t].op = "delete" /\ customer'[c] = "absent" /\ row'[c] = NULL
Plays(t, c) ==
    GoesOn(t, c) \/ Begins(t, c) \/ Succeeds(t, c) \/ GivesUp(t, c) \/ Removes(t, c)

\* A step of a deployment or deletion that moves the task on and nothing more.
LEMMA MovePlays ==
    ASSUME PromiseInv, NEW t \in Tasks, task[t] # NULL, NEW c \in Customers, c = Cust(t),
           customer' = customer, row' = row, NEW r \in Task, task' = [task EXCEPT ![t] = r],
           r.op = task[t].op, r.pc # "controlled",
           r.pc \in DeployPcs \ {"queued"} => task[t].pc \in DeployPcs \ {"queued"}
    PROVE  Plays(t, c)
  <1>1. Aim(c, task[t])
    BY DEF PromiseInv, Aims, Cust
  <1>2. Aim(c, r)'
    BY <1>1 DEF Aim, Anew
  <1>3. QED
    BY <1>2 DEF Plays, GoesOn, Stays

LEMMA GoPlays ==
    ASSUME PromiseInv, NEW t \in Tasks, task[t] # NULL, NEW c \in Customers, c = Cust(t),
           customer' = customer, row' = row, NEW pc \in Pcs, Go(t, pc),
           \/ pc \in UndeployPcs
           \/ pc \in DeployPcs \ {"queued"} /\ task[t].pc \in DeployPcs \ {"queued"}
    PROVE  Plays(t, c)
  <1>1. PICK r : r = [task[t] EXCEPT !.pc = pc]
    OBVIOUS
  <1>2. task[t] \in Task
    BY DEF PromiseInv, AllInv, TypeInv, TypeOK
  <1>3. r \in Task /\ r.op = task[t].op /\ r.pc = pc
    BY <1>1, <1>2 DEF Task
  <1>4. task' = [task EXCEPT ![t] = r]
    BY <1>1 DEF Go
  <1>5. QED
    BY <1>3, <1>4, MovePlays DEF UndeployPcs, DeployPcs

\* The first step of deploy_customer.
LEMMA PreparePlays ==
    ASSUME PromiseInv, NEW t \in Tasks, task[t] # NULL, NEW c \in Customers, c = Cust(t),
           NEW rows \in [Customers -> Row \cup {NULL}], NEW dirs, Prepare(t, rows, dirs),
           task[t].op \in Deployments, task[t].op # "redeploy" => rows[c] = NULL,
           rows[c] = row[c] \/ (task[t].op = "reinstall" /\ rows[c] = NULL)
    PROVE  Plays(t, c)
  <1>1. task[t] \in Task
    BY DEF PromiseInv, AllInv, TypeInv, TypeOK
  <1>2. customer'[c] = "deploying" /\ row' = rows
    BY DEF Prepare, PromiseInv, AllInv, TypeInv, TypeOK
  <1>3. ASSUME NEW r \in Task, task' = [task EXCEPT ![t] = r], r.op = task[t].op, r.pc # "controlled"
        PROVE  Plays(t, c)
    <2>1. Aim(c, r)'
      BY <1>2, <1>3 DEF Aim, Anew, Deployments
    <2>2. Begins(t, c)
      BY <1>2, <1>3, <2>1 DEF Begins, Stays
    <2>3. QED
      BY <2>2 DEF Plays
  <1>4. CASE Go(t, "undo")
    <2>1. PICK r : r = [task[t] EXCEPT !.pc = "undo"]
      OBVIOUS
    <2>2. r \in Task /\ r.op = task[t].op /\ r.pc = "undo"
      BY <1>1, <2>1 DEF Task, Pcs, DeployPcs
    <2>3. QED
      BY <1>3, <1>4, <2>1, <2>2 DEF Go
  <1>5. CASE \E p \in PortsFor(c, rows) :
                task' = [task EXCEPT ![t] = [@ EXCEPT
                            !.pc = IF rows[c] # NULL THEN "down" ELSE "up",
                            !.port = p, !.hadRow = rows[c] # NULL, !.made = TRUE,
                            !.hadData = dirs[c].data # NULL]]
    <2>1. PICK p \in PortsFor(c, rows) :
             task' = [task EXCEPT ![t] = [@ EXCEPT
                         !.pc = IF rows[c] # NULL THEN "down" ELSE "up",
                         !.port = p, !.hadRow = rows[c] # NULL, !.made = TRUE,
                            !.hadData = dirs[c].data # NULL]]
      BY <1>5
    <2>2. PICK r : r = [task[t] EXCEPT
                          !.pc = IF rows[c] # NULL THEN "down" ELSE "up",
                          !.port = p, !.hadRow = rows[c] # NULL, !.made = TRUE,
                            !.hadData = dirs[c].data # NULL]
      OBVIOUS
    <2>3. p \in Ports
      BY PortsForType
    <2>4. r \in Task /\ r.op = task[t].op /\ r.pc \in {"down", "up"}
      BY <1>1, <2>2, <2>3 DEF Task, Pcs, DeployPcs
    <2>5. QED
      BY <1>3, <2>1, <2>2, <2>4
  <1>6. CASE BreaksOff(t, rows, dirs)
    <2>1. PICK r \in Task : task' = [task EXCEPT ![t] = r] /\ r.op = task[t].op /\ r.pc = "undo"
      BY <1>6, BreaksOffShape DEF PromiseInv, AllInv
    <2>2. QED
      BY <1>3, <2>1
  <1>7. QED
    BY <1>4, <1>5, <1>6 DEF Prepare

\* What a task of a deployment knows.
LEMMA DeployKnowsAll ==
    ASSUME PromiseInv, Orderly, NEW t \in Tasks, task[t] # NULL, NEW c \in Customers, c = Cust(t)
    PROVE  /\ task[t] \in Task /\ Present(c) /\ ~task[t].broken /\ ~LogFails(t)
           /\ TidyTask(c, task[t]) /\ Works(c, task[t]) /\ Fit(task[t]) /\ Aim(c, task[t])
           /\ task[t].pc \in DeployPcs \ {"queued"} => task[t].op \in Deployments
           /\ task[t].pc \in UndeployPcs => task[t].op \in {"reinstall", "delete"}
  <1>1. /\ task[t] \in Task /\ Present(c) /\ ~task[t].broken
        /\ TidyTask(c, task[t]) /\ Works(c, task[t])
    BY NeatContext, Context DEF PromiseInv
  <1>2. ~LogFails(t)
    BY <1>1 DEF LogFails, CanLog
  <1>3. Fit(task[t]) /\ Aim(c, task[t])
    BY DEF PromiseInv, Aims, Cust
  <1>4. task[t].op \in Operations
    BY <1>1 DEF Task
  <1>5. task[t].pc \in DeployPcs \ {"queued"} => task[t].op \in Deployments
    BY <1>3, <1>4 DEF Fit, Operations, Deployments, DeployPcs, UndeployPcs, ControlPcs
  <1>6. task[t].pc \in UndeployPcs => task[t].op \in {"reinstall", "delete"}
    BY <1>3, <1>4 DEF Fit, Operations, DeployPcs, UndeployPcs, ControlPcs
  <1>7. QED
    BY <1>1, <1>2, <1>3, <1>5, <1>6

\* The commit of a deployment: no other row has the port, the files and the
\* running containers are on it.
LEMMA RecordPlays ==
    ASSUME PromiseInv, Orderly, NEW t \in Tasks, task[t] # NULL, NEW c \in Customers, c = Cust(t),
           task[t].pc \in {"upped", "npmed", "dnsed"}, NEW proxy \in BOOLEAN, Record(t, proxy)
    PROVE  Plays(t, c)
  <1> DEFINE ro == [port |-> task[t].port, npm |-> proxy, status |-> "running"]
  <1>0. /\ Works(c, task[t]) /\ TidyTask(c, task[t]) /\ Aim(c, task[t]) /\ task[t] \in Task
        /\ task[t].op \in Deployments
    BY DeployKnowsAll DEF DeployPcs
  <1>1. /\ task[t].port \in Ports /\ RowKnown(t)
        /\ \A d \in Customers \ {c} : row[d] # NULL => row[d].port # task[t].port
    BY NeatContext, Context, PortsAssumption DEF PromiseInv, WithPort, Ports
  <1>2. /\ row' = [row EXCEPT ![c] = ro] /\ customer' = [customer EXCEPT ![c] = "active"]
        /\ End(t) /\ files' = files /\ stack' = stack
    BY <1>1 DEF Record, Conflict, Write, outside
  <1>3. customer'[c] = "active" /\ row'[c] = ro
    BY <1>2 DEF PromiseInv, AllInv, TypeInv, TypeOK
  <1>4. ro \in Row /\ ro.port = task[t].port
    BY <1>1 DEF Row, DeploymentStatuses
  <1>5. row'[c] # NULL /\ row'[c].port = task[t].port
    BY <1>3, <1>4, RowAssumption
  <1>6. files'[c].port = task[t].port /\ stack'[c] = [port |-> task[t].port, started |-> TRUE]
    BY <1>0, <1>2 DEF Works, WithPort, Later
  <1>7. files'[c].port # NULL /\ stack'[c] # NULL /\ stack'[c].started
    <2>1. PICK s : s = [port |-> task[t].port, started |-> TRUE]
      OBVIOUS
    <2>2. s \in Stack /\ s.started
      BY <1>1, <2>1 DEF Stack
    <2>3. task[t].port # NULL
      BY <1>1, PortsAssumption DEF Ports
    <2>4. QED
      BY <1>6, <2>1, <2>2, <2>3, StackAssumption
  <1>8. ASSUME row[c] # NULL PROVE task[t].op = "redeploy" /\ row[c].port = task[t].port
    <2>1. task[t].op \notin {"create", "reinstall"}
      BY <1>0, <1>8 DEF Aim, Anew, DeployPcs
    <2>2. task[t].hadRow
      BY <1>0, <1>8 DEF TidyTask, TidyDeploy, WithPort
    <2>3. QED
      BY <1>0, <1>1, <2>1, <2>2 DEF RowKnown, WithPort, Deployments, Cust
  <1>9. Succeeds(t, c)
    BY <1>0, <1>1, <1>2, <1>3, <1>5, <1>7, <1>8 DEF Succeeds
  <1>10. QED
    BY <1>9 DEF Plays

\* The step after the proxy host waits for DNS or commits.
LEMMA AfterProxyPlays ==
    ASSUME PromiseInv, Orderly, NEW t \in Tasks, task[t] # NULL, NEW c \in Customers, c = Cust(t),
           task[t].pc \in {"upped", "npmed"}, NEW proxy \in BOOLEAN, AfterProxy(t, proxy)
    PROVE  Plays(t, c)
  <1>1. CASE Record(t, proxy)
    BY <1>1, RecordPlays
  <1>2. CASE /\ task' = [task EXCEPT ![t] = [@ EXCEPT !.pc = "dns", !.proxy = proxy]]
             /\ UNCHANGED <<customer, row, files, outside>>
    <2>1. PICK r : r = [task[t] EXCEPT !.pc = "dns", !.proxy = proxy]
      OBVIOUS
    <2>2. task[t] \in Task
      BY DeployKnowsAll
    <2>3. r \in Task /\ r.op = task[t].op /\ r.pc = "dns"
      BY <2>1, <2>2 DEF Task, Pcs, DeployPcs
    <2>4. QED
      BY <1>2, <2>1, <2>3, MovePlays DEF DeployPcs
  <1>3. QED
    BY <1>1, <1>2 DEF AfterProxy

\* Every step of a deployment.
LEMMA DeployPlays ==
    ASSUME PromiseInv, Orderly, NEW t \in Tasks, task[t] # NULL, NEW c \in Customers, c = Cust(t),
           DeployStep(t)
    PROVE  Plays(t, c)
  <1>0. /\ task[t] \in Task /\ Present(c) /\ ~LogFails(t) /\ TidyTask(c, task[t])
        /\ Fit(task[t]) /\ Aim(c, task[t])
        /\ task[t].pc \in DeployPcs \ {"queued"} => task[t].op \in Deployments
    BY DeployKnowsAll
  <1>g. ASSUME customer' = customer, row' = row, NEW pc \in DeployPcs \ {"queued"}, Go(t, pc),
               task[t].pc \in DeployPcs \ {"queued"}
        PROVE  Plays(t, c)
    BY <1>g, GoPlays DEF Pcs
  <1>1. CASE BeginDeploy(t)
    <2>1. Prepare(t, row, files) /\ task[t].op \in Deployments
      BY <1>0, <1>1 DEF BeginDeploy, Deployments
    <2>2. task[t].op # "redeploy" => row[c] = NULL
      BY <1>0, <1>1 DEF BeginDeploy, Aim, Anew
    <2>3. row \in [Customers -> Row \cup {NULL}]
      BY DEF PromiseInv, AllInv, TypeInv, TypeOK
    <2>4. QED
      BY <2>1, <2>2, <2>3, PreparePlays
  <1>2. CASE DownForRedeploy(t) \/ UpSucceeds(t) \/ UpFails(t) \/ CreateDnsRecord(t) \/ RollbackDown(t)
    BY <1>2, <1>g DEF DownForRedeploy, UpSucceeds, UpFails, CreateDnsRecord, RollbackDown, At, DeployPcs
  <1>3. CASE ResumeAfterDown(t)
    <2>1. PICK broken \in BOOLEAN :
             task' = [task EXCEPT ![t] = [@ EXCEPT !.pc = "up", !.broken = broken]]
      BY <1>3 DEF ResumeAfterDown
    <2>2. PICK r : r = [task[t] EXCEPT !.pc = "up", !.broken = broken]
      OBVIOUS
    <2>3. r \in Task /\ r.op = task[t].op /\ r.pc = "up"
      BY <1>0, <2>2 DEF Task, Pcs, DeployPcs
    <2>4. QED
      BY <1>3, <2>1, <2>2, <2>3, MovePlays DEF ResumeAfterDown, At, DeployPcs
  <1>4. CASE ResumeAfterUp(t)
    <2> DEFINE proxy == task[t].hadRow /\ row[c].npm
    <2>1. task[t].pc = "upped"
      BY <1>4 DEF ResumeAfterUp, At
    <2>2. task[t].hadRow <=> row[c] # NULL
      BY <1>0, <2>1 DEF TidyTask, TidyDeploy, WithPort
    <2>3. proxy \in BOOLEAN
      <3>1. row[c] \in Row \cup {NULL} /\ task[t].hadRow \in BOOLEAN
        BY <1>0 DEF PromiseInv, AllInv, TypeInv, TypeOK, Task
      <3>2. QED
        BY <2>2, <3>1 DEF Row
    <2>4. CASE Go(t, "npm") /\ UNCHANGED <<customer, row, files, outside>>
      BY <1>g, <2>1, <2>4 DEF DeployPcs
    <2>5. CASE AfterProxy(t, proxy)
      BY <2>1, <2>3, <2>5, AfterProxyPlays
    <2>6. QED
      BY <1>0, <1>4, <2>2, <2>4, <2>5 DEF ResumeAfterUp
  <1>5. CASE CreateProxyHost(t)
    <2>1. PICK told \in BOOLEAN :
             task' = [task EXCEPT ![t] = [@ EXCEPT !.pc = "npmed", !.proxy = told]]
      BY <1>5 DEF CreateProxyHost
    <2>2. PICK r : r = [task[t] EXCEPT !.pc = "npmed", !.proxy = told]
      OBVIOUS
    <2>3. r \in Task /\ r.op = task[t].op /\ r.pc = "npmed"
      BY <1>0, <2>2 DEF Task, Pcs, DeployPcs
    <2>4. QED
      BY <1>5, <2>1, <2>2, <2>3, MovePlays DEF CreateProxyHost, At, DeployPcs
  <1>6. CASE ResumeAfterProxy(t)
    <2>1. task[t].pc = "npmed" /\ task[t].proxy \in BOOLEAN
      BY <1>0, <1>6 DEF ResumeAfterProxy, At, Task
    <2>2. QED
      BY <1>0, <1>6, <2>1, AfterProxyPlays DEF ResumeAfterProxy
  <1>7. CASE ResumeAfterDns(t)
    <2>1. task[t].pc = "dnsed" /\ task[t].proxy \in BOOLEAN
      BY <1>0, <1>7 DEF ResumeAfterDns, At, Task
    <2>2. QED
      BY <1>0, <1>7, <2>1, RecordPlays DEF ResumeAfterDns
  <1>8. CASE RollbackFiles(t)
    <2>1. customer'[c] = "error" /\ files'[c] = NoDir
      BY <1>8, RollbackTidies DEF PromiseInv
    <2>2. row' = row /\ End(t) /\ task[t].op \in Deployments
      BY <1>0, <1>8 DEF RollbackFiles, At, DeployPcs
    <2>3. GivesUp(t, c)
      BY <2>1, <2>2 DEF GivesUp, NoDir
    <2>4. QED
      BY <2>3 DEF Plays
  <1>9. QED
    BY <1>1, <1>2, <1>3, <1>4, <1>5, <1>6, <1>7, <1>8 DEF DeployStep

\* The last step of an undeployment: the deletion is done, or the
\* reinstallation begins to deploy without a row.
LEMMA UndeployedPlays ==
    ASSUME PromiseInv, Orderly, NEW t \in Tasks, task[t] # NULL, NEW c \in Customers, c = Cust(t),
           row[c] # NULL, Undeployed(t)
    PROVE  Plays(t, c)
  <1> DEFINE rows == [row EXCEPT ![c] = NULL]
             dirs(f) == [files EXCEPT ![c] = f]
  <1>1. rows \in [Customers -> Row \cup {NULL}] /\ rows[c] = NULL
    BY DEF PromiseInv, AllInv, TypeInv, TypeOK
  <1>2. PICK f :
           \/ /\ task[t].op = "delete" /\ End(t)
              /\ customer' = [customer EXCEPT ![c] = "absent"] /\ row' = rows
           \/ task[t].op = "reinstall" /\ Prepare(t, rows, dirs(f))
    BY DEF Undeployed
  <1>3. CASE /\ task[t].op = "delete" /\ End(t)
             /\ customer' = [customer EXCEPT ![c] = "absent"] /\ row' = rows
    BY <1>1, <1>3 DEF Plays, Removes, PromiseInv, AllInv, TypeInv, TypeOK
  <1>4. CASE task[t].op = "reinstall" /\ Prepare(t, rows, dirs(f))
    BY <1>1, <1>4, PreparePlays DEF Deployments
  <1>5. QED
    BY <1>2, <1>3, <1>4

\* Every step of an undeployment.
LEMMA UndeployPlays ==
    ASSUME PromiseInv, Orderly, NEW t \in Tasks, task[t] # NULL, NEW c \in Customers, c = Cust(t),
           UndeployStep(t)
    PROVE  Plays(t, c)
  <1>0. /\ task[t] \in Task /\ Present(c) /\ TidyTask(c, task[t])
    BY DeployKnowsAll
  <1>g. ASSUME customer' = customer, row' = row, NEW pc \in UndeployPcs, Go(t, pc)
        PROVE  Plays(t, c)
    BY <1>g, GoPlays DEF Pcs
  <1>r. task[t].pc \in UndeployPcs => row[c] # NULL
    BY <1>0 DEF TidyTask, TidyUndeploy
  <1>1. CASE BeginUndeploy(t) \/ DownForUndeploy(t) \/ DeleteProxyHost(t) \/ DeleteDnsRecord(t)
    BY <1>1, <1>g DEF BeginUndeploy, DownForUndeploy, DeleteProxyHost, DeleteDnsRecord, UndeployPcs
  <1>2. CASE DeleteWithoutRow(t)
    BY <1>2 DEF DeleteWithoutRow, Plays, Removes, PromiseInv, AllInv, TypeInv, TypeOK
  <1>3. CASE ResumeUndeploy(t) \/ ResumeAfterProxyDelete(t) \/ FinishUndeploy(t)
    <2>1. row[c] # NULL
      BY <1>3, <1>r DEF ResumeUndeploy, ResumeAfterProxyDelete, FinishUndeploy, At, UndeployPcs
    <2>2. \/ Go(t, "uNpm") /\ UNCHANGED <<customer, row>>
          \/ Go(t, "uDns") /\ UNCHANGED <<customer, row>>
          \/ Undeployed(t)
      BY <1>0, <1>3, <2>1 DEF ResumeUndeploy, ResumeAfterProxyDelete, FinishUndeploy, Abort, RemoveDns
    <2>3. QED
      BY <1>g, <2>1, <2>2, UndeployedPlays DEF UndeployPcs
  <1>4. QED
    BY <1>1, <1>2, <1>3 DEF UndeployStep

\* The settings of both parts.
Settings == Gentle /\ Orderly

\* A customer that looks the same is no change to the contract.
LEMMA ViewSame ==
    ASSUME TypeInv, NEW c \in Customers,
           Shows(c, customer[c], PortOf(c), RequestOf(c), ShapeOf(c))
    PROVE  Promise!vars' = Promise!vars
  <1>1. customer' = customer
    BY DEF Shows, TypeInv, TypeOK
  <1>2. PortView' = PortView
    BY DEF Shows, PortView
  <1>3. RequestView' = RequestView
    BY DEF Shows, RequestView
  <1>4. ShapeView' = ShapeView
    BY DEF Shows, ShapeView
  <1>5. QED
    BY <1>1, <1>2, <1>3, <1>4 DEF PortView, RequestView, ShapeView, Promise!vars

\* The step of a task shows in the contract what it does to the customer,
\* another customer looks the same.
LEMMA StepShows ==
    ASSUME TypeInv, TypeInv', Named, Named', NEW t \in Tasks, task[t] # NULL,
           NEW c \in Customers, c = Cust(t), Proceeds(t),
           \A d \in Customers \ {c} : SameAll(d),
           NEW s, NEW p, NEW q, NEW h,
           customer'[c] = s, PortOf(c)' = p, RequestOf(c)' = q, ShapeOf(c)' = h
    PROVE  Shows(c, s, p, q, h)
  <1>1. PICK r : task' = [task EXCEPT ![t] = r] /\ (r # NULL => r.cust = c)
    BY DEF Proceeds, Cust
  <1>2. task'[t] = r
    BY <1>1 DEF TypeInv, TypeOK
  <1>3. ASSUME NEW d \in Customers \ {c}
        PROVE  /\ customer'[d] = customer[d] /\ PortOf(d)' = PortOf(d)
               /\ RequestOf(d)' = RequestOf(d) /\ ShapeOf(d)' = ShapeOf(d)
    BY <1>1, <1>2, LooksSame DEF Cust
  <1>4. QED
    BY <1>3, ViewStep

\* A task that stays is about the same request, one that ends about none.
LEMMA StepNames ==
    ASSUME TypeInv, TypeInv', Named, Named', NEW t \in Tasks, task[t] # NULL,
           NEW c \in Customers, c = Cust(t), Proceeds(t)
    PROVE  /\ Stays(t, c) => /\ RequestOf(c)' = task[t].op
                             /\ Changing(c)' <=> task[t].op \notin Controls
           /\ End(t) => RequestOf(c)' = NULL /\ ~Changing(c)'
  <1>1. PICK r : /\ task' = [task EXCEPT ![t] = r]
                 /\ r # NULL => r.cust = c /\ r.op = task[t].op
    BY DEF Proceeds, Cust
  <1>2. task'[t] = r
    BY <1>1 DEF TypeInv, TypeOK
  <1>3. ASSUME Stays(t, c)
        PROVE  RequestOf(c)' = task[t].op /\ (Changing(c)' <=> task[t].op \notin Controls)
    <2>1. PICK x \in Task : task' = [task EXCEPT ![t] = x]
      BY <1>3 DEF Stays
    <2>2. r # NULL
      BY <1>2, <2>1, TaskAssumption DEF TypeInv, TypeOK
    <2>3. QED
      BY <1>1, <1>2, <2>2 DEF Named
  <1>4. ASSUME End(t) PROVE RequestOf(c)' = NULL /\ ~Changing(c)'
    <2>1. task'[t] = NULL
      BY <1>4 DEF End, TypeInv, TypeOK
    <2>2. QED
      BY <2>1 DEF Named
  <1>5. QED
    BY <1>3, <1>4

\* What the step of a deployment or deletion shows is a step of the contract.
LEMMA PlayIsPromised ==
    ASSUME PromiseInv, PromiseInv', Named, Named', NEW t \in Tasks, task[t] # NULL,
           NEW c \in Customers, c = Cust(t), task[t].op \notin Controls, Plays(t, c), Proceeds(t),
           \A d \in Customers \ {c} : SameAll(d)
    PROVE  [Promise!Next]_(Promise!vars)
  <1>0. /\ RequestOf(c) = task[t].op /\ Changing(c) /\ ShapeOf(c) = "changing"
        /\ task[t] \in Task /\ task[t].cust = c
        /\ TypeInv /\ TypeInv'
    BY DEF Named, ShapeOf, Cust, PromiseInv, AllInv, TypeInv, TypeOK
  <1>1. ASSUME NEW s, NEW p, NEW q, NEW h,
               customer'[c] = s, PortOf(c)' = p, RequestOf(c)' = q, ShapeOf(c)' = h
        PROVE  Shows(c, s, p, q, h)
    BY <1>0, <1>1, StepShows
  <1>2. ASSUME Stays(t, c) PROVE RequestOf(c)' = task[t].op /\ ShapeOf(c)' = "changing"
    BY <1>0, <1>2, StepNames DEF ShapeOf
  <1>3. ASSUME End(t) PROVE RequestOf(c)' = NULL /\ Upright(c)'
    BY <1>0, <1>3, StepNames, ShapeFitsNext
  <1>4. CASE GoesOn(t, c)
    <2>1. Shows(c, customer[c], PortOf(c), RequestOf(c), ShapeOf(c))
      <3>1. customer'[c] = customer[c] /\ PortOf(c)' = PortOf(c)
        BY <1>4 DEF GoesOn, PortOf
      <3>2. QED
        BY <1>0, <1>1, <1>2, <1>4, <3>1 DEF GoesOn
    <2>2. Promise!vars' = Promise!vars
      BY <1>0, <2>1, ViewSame
    <2>3. QED
      BY <2>2
  <1>5. CASE Begins(t, c)
    <2>1. PICK p : PortOf(c)' = p
      OBVIOUS
    <2>2. Shows(c, "deploying", p, task[t].op, "changing")
      BY <1>1, <1>2, <1>5, <2>1 DEF Begins
    <2>3. p = PortOf(c) \/ (task[t].op = "reinstall" /\ p = NULL)
      BY <1>5, <2>1 DEF Begins, PortOf
    <2>4. Promise!Begin(c)
      BY <1>0, <1>5, <2>2, <2>3 DEF Shows, PortView, RequestView, ShapeView, Begins,
           Deployments, Promise!Begin, Promise!Deployments
    <2>5. QED
      BY <2>4 DEF Promise!Next
  <1>6. CASE Succeeds(t, c)
    <2>1. PICK p \in Ports : p = task[t].port
      BY <1>6 DEF Succeeds
    <2>2. /\ customer'[c] = "active" /\ PortOf(c)' = p /\ RequestOf(c)' = NULL
          /\ ShapeOf(c)' = "started"
      BY <1>3, <1>6, <2>1 DEF Succeeds, PortOf, Upright
    <2>3. Shows(c, "active", p, NULL, "started")
      BY <1>1, <2>2
    <2>4. PortOf(c) # NULL => p = PortOf(c) /\ task[t].op = "redeploy"
      BY <1>6, <2>1 DEF Succeeds, PortOf
    <2>5. \A d \in Customers \ {c} : PortOf(d) # p
      BY <1>6, <2>1, PortsAssumption DEF Succeeds, PortOf, Ports
    <2>6. Promise!Deployed(c)
      BY <1>0, <1>6, <2>3, <2>4, <2>5 DEF Shows, PortView, RequestView, ShapeView, Succeeds,
           Deployments, Promise!Deployed, Promise!Deployments, Promise!Becomes, Promise!Answered
    <2>7. QED
      BY <2>6 DEF Promise!Next
  <1>7. CASE GivesUp(t, c)
    <2>1. PICK h : h = IF PortOf(c) = NULL THEN "nothing" ELSE "stripped"
      OBVIOUS
    <2>2. row[c] = NULL <=> PortOf(c) = NULL
      <3>1. row[c] \in Row \cup {NULL}
        BY <1>0 DEF TypeInv, TypeOK
      <3>2. QED
        BY <3>1, PortsAssumption DEF PortOf, Row, Ports
    <2>3. /\ customer'[c] = "error" /\ PortOf(c)' = PortOf(c) /\ RequestOf(c)' = NULL
          /\ ShapeOf(c)' = h
      BY <1>3, <1>7, <2>1, <2>2 DEF GivesUp, PortOf, Upright
    <2>4. Shows(c, "error", PortOf(c), NULL, h)
      BY <1>1, <2>3
    <2>5. Promise!Failed(c)
      BY <1>0, <1>7, <2>1, <2>4 DEF Shows, PortView, RequestView, ShapeView, GivesUp,
           Deployments, Promise!Failed, Promise!Deployments, Promise!Becomes, Promise!Answered
    <2>6. QED
      BY <2>5 DEF Promise!Next
  <1>8. CASE Removes(t, c)
    <2>1. /\ customer'[c] = "absent" /\ PortOf(c)' = NULL /\ RequestOf(c)' = NULL
          /\ ShapeOf(c)' = "nothing"
      BY <1>3, <1>8 DEF Removes, PortOf, Upright
    <2>2. Shows(c, "absent", NULL, NULL, "nothing")
      BY <1>1, <2>1
    <2>3. Promise!Deleted(c)
      BY <1>0, <1>8, <2>2 DEF Shows, PortView, RequestView, ShapeView, Removes,
           Promise!Deleted, Promise!Becomes, Promise!Answered
    <2>4. QED
      BY <2>3 DEF Promise!Next
  <1>9. QED
    BY <1>4, <1>5, <1>6, <1>7, <1>8 DEF Plays

\* While no deployment or deletion is at work nobody else's relay is on the
\* port of a customer.
LEMMA PortIsOwn ==
    ASSUME PromiseInv, NEW c \in Customers, row[c] # NULL,
           \A d \in Customers \ {c} : Upright(d)
    PROVE  ~BoundByOther(c, row[c].port)
  <1> SUFFICES ASSUME NEW d \in Customers \ {c}, stack[d] # NULL, stack[d].port = row[c].port
               PROVE  FALSE
    BY DEF BoundByOther
  <1>1. row[d] # NULL /\ stack[d].port = row[d].port
    BY DEF Upright
  <1>2. QED
    BY <1>1 DEF PromiseInv, AllInv, RowsDiffer

\* The compose call of a stop, start or restart does what it is for, or there
\* is no compose file.
Composes(t, c) ==
    /\ Stays(t, c) /\ customer' = customer /\ row' = row /\ files' = files
    /\ \/ files[c].port = NULL /\ stack'[c] = stack[c]
       \/ files[c].port # NULL /\ stack'[c] # NULL /\ (stack'[c].started <=> task[t].op # "stop")

LEMMA ComposePlays ==
    ASSUME PromiseInv, Settings, NEW t \in Tasks, task[t] # NULL, NEW c \in Customers, c = Cust(t),
           Upright(c), \A d \in Customers \ {c} : Upright(d), ComposeControl(t)
    PROVE  Composes(t, c)
  <1>0. /\ task[t] \in Task /\ task[t].pc = "control" /\ row[c] # NULL
        /\ task[t].op \in Controls
    BY DeployKnowsAll DEF Settings, ComposeControl, At, Works, UndeployPcs, ControlPcs, Controls
  <1>1. PICK s \in Stack \cup {NULL}, ok \in BOOLEAN :
           /\ ComposeCall(c, task[t].op, s, ok)
           /\ stack' = [stack EXCEPT ![c] = s]
           /\ task' = [task EXCEPT ![t] = [@ EXCEPT !.pc = "controlled", !.ok = ok]]
    BY DEF ComposeControl
  <1>2. customer' = customer /\ row' = row /\ files' = files /\ stack'[c] = s
    BY <1>1 DEF ComposeControl, PromiseInv, AllInv, TypeInv, TypeOK
  <1>3. \/ files[c].port = NULL /\ s = stack[c]
        \/ files[c].port # NULL /\ s # NULL /\ (s.started <=> task[t].op # "stop") /\ ok
    <2>1. CASE files[c].port = NULL
      BY <1>1, <2>1 DEF ComposeCall
    <2>2. CASE files[c].port # NULL
      <3>1. /\ stack[c] # NULL /\ stack[c].port = row[c].port
            /\ stack[c] \in Stack
        BY <1>0, <2>2 DEF Upright, PromiseInv, AllInv, TypeInv, TypeOK
      <3>2. ~BoundByOther(c, stack[c].port)
        BY <1>0, <3>1, PortIsOwn
      <3>3. PICK up \in BOOLEAN :
               /\ s = [stack[c] EXCEPT !.started = up]
               /\ \/ task[t].op = "stop" /\ ~up /\ ok
                  \/ task[t].op # "stop" /\ up /\ ok
        BY <1>1, <2>2, <3>1, <3>2 DEF ComposeCall, Settings, Gentle
      <3>4. s \in Stack /\ s.started = up
        BY <3>1, <3>3 DEF Stack
      <3>5. QED
        BY <2>2, <3>3, <3>4, StackAssumption
    <2>3. QED
      BY <2>1, <2>2
  <1>4. PICK r : r = [task[t] EXCEPT !.pc = "controlled", !.ok = ok]
    OBVIOUS
  <1>5. r \in Task /\ r.pc = "controlled" /\ r.ok = ok /\ r.op = task[t].op
    BY <1>0, <1>4 DEF Task, Pcs, ControlPcs
  <1>6. ~ok => files'[c].port = NULL
    BY <1>2, <1>3
  <1>7. Aim(c, r)'
    BY <1>0, <1>5, <1>6 DEF Aim, Anew, Controls, DeployPcs
  <1>8. Stays(t, c)
    BY <1>1, <1>4, <1>5, <1>7 DEF Stays
  <1>9. QED
    BY <1>2, <1>3, <1>8 DEF Composes

\* What the compose call shows is the contract's switch, or nothing.
LEMMA ComposeIsPromised ==
    ASSUME PromiseInv, PromiseInv', Named, Named', NEW t \in Tasks, task[t] # NULL,
           NEW c \in Customers, c = Cust(t), task[t].op \in Controls, Composes(t, c), Proceeds(t),
           \A d \in Customers \ {c} : SameAll(d)
    PROVE  [Promise!Next]_(Promise!vars)
  <1>0. /\ RequestOf(c) = task[t].op /\ RequestOf(c)' = task[t].op
        /\ Upright(c) /\ Upright(c)' /\ TypeInv /\ TypeInv'
    <2>1. TypeInv /\ TypeInv' /\ RequestOf(c) = task[t].op /\ ~Changing(c) /\ Upright(c)
      BY ShapeFits DEF Named, Cust, PromiseInv, AllInv
    <2>2. RequestOf(c)' = task[t].op /\ ~Changing(c)'
      BY <2>1, StepNames DEF Composes
    <2>3. QED
      BY <2>1, <2>2, ShapeFitsNext
  <1>1. customer'[c] = customer[c] /\ PortOf(c)' = PortOf(c)
    BY DEF Composes, PortOf
  <1>2. CASE row[c] = NULL \/ files[c].port = NULL
    <2>1. ShapeOf(c)' = ShapeOf(c)
      <3>1. row[c] = NULL => ShapeOf(c) = "nothing" /\ ShapeOf(c)' = "nothing"
        BY <1>0 DEF Upright, Composes
      <3>2. row[c] # NULL => ShapeOf(c) = "stripped" /\ ShapeOf(c)' = "stripped"
        BY <1>0, <1>2 DEF Upright, Composes
      <3>3. QED
        BY <3>1, <3>2
    <2>2. Shows(c, customer[c], PortOf(c), RequestOf(c), ShapeOf(c))
      BY <1>0, <1>1, <2>1, StepShows
    <2>3. QED
      BY <1>0, <2>2, ViewSame
  <1>3. CASE row[c] # NULL /\ files[c].port # NULL
    <2>1. PICK h : h = IF task[t].op = "stop" THEN "halted" ELSE "started"
      OBVIOUS
    <2>2. ShapeOf(c) \in {"started", "halted"}
      BY <1>0, <1>3 DEF Upright
    <2>3. ShapeOf(c)' = h
      BY <1>0, <1>3, <2>1 DEF Upright, Composes
    <2>4. Shows(c, customer[c], PortOf(c), RequestOf(c), h)
      BY <1>0, <1>1, <2>3, StepShows
    <2>5. Promise!Switch(c)
      <3>1. UNCHANGED <<customer, PortView, RequestView>>
        BY <1>0, <2>4 DEF Shows, PortView, RequestView, TypeInv, TypeOK
      <3>2. RequestOf(c) \in Promise!Controls /\ h = Promise!Target(c)
        BY <1>0, <2>1 DEF Controls, Promise!Controls, Promise!Target
      <3>3. QED
        BY <2>2, <2>4, <3>1, <3>2 DEF Shows, PortView, RequestView, ShapeView, Promise!Switch
    <2>6. QED
      BY <2>5 DEF Promise!Next
  <1>4. QED
    BY <1>2, <1>3

\* The statuses after the call, or none without a compose file.
Resolves(t, c) ==
    /\ End(t) /\ row[c] # NULL /\ row'[c] # NULL /\ row'[c].port = row[c].port
    /\ files' = files /\ stack' = stack
    /\ \/ files[c].port = NULL /\ customer'[c] = customer[c]
       \/ /\ files[c].port # NULL /\ (stack[c].started <=> task[t].op # "stop")
          /\ customer'[c] \in {IF task[t].op = "stop" THEN "inactive" ELSE "active", "error"}

LEMMA ResumePlays ==
    ASSUME PromiseInv, Settings, NEW t \in Tasks, task[t] # NULL, NEW c \in Customers, c = Cust(t),
           Upright(c), ResumeControl(t)
    PROVE  Resolves(t, c)
  <1>0. /\ task[t] \in Task /\ task[t].pc = "controlled" /\ row[c] # NULL
        /\ task[t].op \in Controls /\ Works(c, task[t]) /\ Aim(c, task[t]) /\ Present(c)
    BY DeployKnowsAll DEF Settings, ResumeControl, At, Works, UndeployPcs, ControlPcs, Controls
  <1>1. End(t) /\ files' = files /\ stack' = stack
    BY DEF ResumeControl, outside
  <1>2. row'[c] # NULL /\ row'[c].port = row[c].port
    <2>1. \/ row' = row
          \/ row' = [row EXCEPT ![c].status = RowStatusAfter(task[t].op)]
      BY DEF ResumeControl
    <2>2. RowStatusAfter(task[t].op) \in DeploymentStatuses
      BY DEF RowStatusAfter, DeploymentStatuses
    <2>3. row[c] \in Row
      BY <1>0 DEF PromiseInv, AllInv, TypeInv, TypeOK
    <2>4. PICK x : x = [row[c] EXCEPT !.status = RowStatusAfter(task[t].op)]
      OBVIOUS
    <2>5. x \in Row /\ x.port = row[c].port
      BY <2>2, <2>3, <2>4 DEF Row
    <2>6. QED
      BY <1>0, <2>1, <2>4, <2>5, RowAssumption DEF PromiseInv, AllInv, TypeInv, TypeOK
  <1>3. CASE ~task[t].ok
    BY <1>0, <1>1, <1>2, <1>3 DEF ResumeControl, Resolves, Aim
  <1>4. CASE task[t].ok
    <2>1. Writes(c, task[t]) /\ files[c].port # NULL
      BY <1>0, <1>4 DEF Works, Writes
    <2>2. stack[c] # NULL /\ (stack[c].started <=> task[t].op # "stop")
      BY <1>0, <2>1 DEF Writes, Runs, Upright
    <2>3. customer' = IF "customer" \in task[t].writes
                      THEN [customer EXCEPT ![c] = CustomerStatusAfter(task[t].op)] ELSE customer
      BY <1>0, <1>4 DEF ResumeControl, Cust
    <2>4. customer'[c] \in {IF task[t].op = "stop" THEN "inactive" ELSE "active", "error"}
      <3>1. CASE task[t].writes = {"row", "customer"}
        <4>1. customer'[c] = CustomerStatusAfter(task[t].op)
          BY <2>3, <3>1 DEF PromiseInv, AllInv, TypeInv, TypeOK
        <4>2. QED
          BY <4>1 DEF CustomerStatusAfter
      <3>2. CASE task[t].writes = {}
        <4>1. customer'[c] = customer[c] /\ customer[c] \in {"active", "inactive", "error"}
          BY <2>1, <2>3, <3>2 DEF Writes, InStep
        <4>2. /\ customer[c] = "active" => task[t].op # "stop"
              /\ customer[c] = "inactive" => task[t].op = "stop"
          BY <2>1, <3>2 DEF Writes
        <4>3. QED
          BY <4>1, <4>2
      <3>3. QED
        BY <2>1, <3>1, <3>2 DEF Writes
    <2>5. QED
      BY <1>0, <1>1, <1>2, <2>1, <2>2, <2>4 DEF Resolves
  <1>5. QED
    BY <1>3, <1>4

LEMMA AnswerIsPromised ==
    ASSUME PromiseInv, PromiseInv', Named, Named', NEW t \in Tasks, task[t] # NULL,
           NEW c \in Customers, c = Cust(t), task[t].op \in Controls, Resolves(t, c), Proceeds(t),
           \A d \in Customers \ {c} : SameAll(d)
    PROVE  [Promise!Next]_(Promise!vars)
  <1>0. /\ RequestOf(c) = task[t].op /\ RequestOf(c)' = NULL
        /\ Upright(c) /\ Upright(c)' /\ TypeInv /\ TypeInv'
    <2>1. TypeInv /\ TypeInv' /\ RequestOf(c) = task[t].op /\ ~Changing(c) /\ Upright(c)
      BY ShapeFits DEF Named, Cust, PromiseInv, AllInv
    <2>2. RequestOf(c)' = NULL /\ ~Changing(c)'
      BY <2>1, StepNames DEF Resolves
    <2>3. QED
      BY <2>1, <2>2, ShapeFitsNext
  <1>1. PortOf(c)' = PortOf(c)
    BY DEF Resolves, PortOf
  <1>2. ShapeOf(c)' = ShapeOf(c)
    <2>1. CASE files[c].port = NULL
      BY <1>0, <2>1 DEF Resolves, Upright
    <2>2. CASE files[c].port # NULL
      BY <1>0, <2>2 DEF Resolves, Upright
    <2>3. QED
      BY <2>1, <2>2
  <1>3. PICK s : s = customer'[c]
    OBVIOUS
  <1>4. Shows(c, s, PortOf(c), NULL, ShapeOf(c))
    BY <1>0, <1>1, <1>2, <1>3, StepShows
  <1>5. /\ PortView' = PortView /\ ShapeView' = ShapeView
        /\ customer' = [customer EXCEPT ![c] = s]
        /\ RequestView' = [RequestView EXCEPT ![c] = NULL]
    BY <1>4 DEF Shows, PortView, ShapeView
  <1>6. CASE files[c].port = NULL
    <2>1. ShapeOf(c) = "stripped" /\ customer' = customer
      BY <1>0, <1>3, <1>5, <1>6 DEF Upright, Resolves, TypeInv, TypeOK
    <2>2. Promise!Switched(c)
      BY <1>0, <1>5, <2>1 DEF PortView, ShapeView, RequestView, Controls, Promise!Controls,
           Promise!Switched, Promise!Answered
    <2>3. QED
      BY <2>2 DEF Promise!Next
  <1>7. CASE files[c].port # NULL
    <2>1. ShapeOf(c) = IF task[t].op = "stop" THEN "halted" ELSE "started"
      BY <1>0, <1>7 DEF Upright, Resolves
    <2>2. s \in {IF task[t].op = "stop" THEN "inactive" ELSE "active", "error"}
      BY <1>3, <1>7 DEF Resolves
    <2>3. Promise!Switched(c)
      BY <1>0, <1>5, <2>1, <2>2 DEF PortView, ShapeView, RequestView, Controls, Promise!Controls,
           Promise!Target, Promise!Switched, Promise!Answered
    <2>4. QED
      BY <2>3 DEF Promise!Next
  <1>8. QED
    BY <1>6, <1>7

\* While nothing is in flight all customers are upright and nobody is named.
LEMMA IdleIsNamed ==
    ASSUME PromiseInv, OneTask, NEW t \in Tasks, task[t] = NULL
    PROVE  \A d \in Customers : RequestOf(d) = NULL /\ ~Changing(d) /\ Upright(d)
  <1>1. Named
    BY TaskIsNamed DEF PromiseInv, AllInv
  <1>2. \A d \in Customers : RequestOf(d) = NULL /\ ~Changing(d)
    BY <1>1 DEF Named
  <1>3. QED
    BY <1>2, ShapeFits

\* What a request starts: a task of a kind that the customer allows.
Starts(t, c) ==
    \E r \in Task :
        /\ task' = [task EXCEPT ![t] = r] /\ r.cust = c /\ Fit(r)
        /\ r.pc \in {"queued", "control"}
        /\ r.op = "create" <=> ~Present(c)
        /\ r.op \in Controls => row[c] # NULL
        /\ customer' = IF r.op \in Controls THEN customer
                       ELSE [customer EXCEPT ![c] =
                                IF r.op = "delete" THEN "inactive" ELSE "deploying"]

LEMMA RequestStarts ==
    ASSUME TypeInv, TypeInv', NEW t \in Tasks, NEW c \in Customers, Request(t, c)
    PROVE  Starts(t, c)
  <1>1. CASE Create(t, c) \/ ManualDeploy(t, c) \/ Delete(t, c)
    <2>1. PICK op \in {"create", "redeploy", "reinstall", "delete"} :
             /\ task' = [task EXCEPT ![t] = NewTask(op, c, "queued")]
             /\ op = "create" <=> ~Present(c)
             /\ customer' = [customer EXCEPT ![c] = IF op = "delete" THEN "inactive" ELSE "deploying"]
      <3>1. CASE Create(t, c)
        BY <3>1 DEF Create
      <3>2. CASE ManualDeploy(t, c)
        <4>1. PICK op \in {"redeploy", "reinstall"} :
                 task' = [task EXCEPT ![t] = NewTask(op, c, "queued")]
          BY <3>2 DEF ManualDeploy
        <4>2. Present(c) /\ customer' = [customer EXCEPT ![c] = "deploying"]
          BY <3>2 DEF ManualDeploy
        <4>3. CASE op = "redeploy"
          BY <4>1, <4>2, <4>3
        <4>4. CASE op = "reinstall"
          BY <4>1, <4>2, <4>4
        <4>5. QED
          BY <4>3, <4>4
      <3>3. CASE Delete(t, c)
        BY <3>3 DEF Delete
      <3>4. QED
        BY <1>1, <3>1, <3>2, <3>3
    <2>2. PICK r : r = NewTask(op, c, "queued")
      OBVIOUS
    <2>3. r.cust = c /\ r.op = op /\ r.pc = "queued" /\ r # NULL
      <3>1. task'[t] = r
        BY <2>1, <2>2 DEF TypeInv, TypeOK
      <3>2. r.cust = c /\ r.op = op /\ r.pc = "queued"
        BY <2>2 DEF NewTask
      <3>3. r \in Task
        BY <2>1, <2>2 DEF NewTask, Task, Operations, Pcs, DeployPcs
      <3>4. QED
        BY <3>2, <3>3, TaskAssumption
    <2>4. r \in Task
      BY <2>1, <2>2 DEF NewTask, Task, Operations, Pcs, DeployPcs
    <2>5. Fit(r)
      BY <2>1, <2>3 DEF Fit, DeployPcs, UndeployPcs, ControlPcs
    <2>6. op \notin Controls
      BY <2>1 DEF Controls
    <2>7. QED
      BY <2>1, <2>2, <2>3, <2>4, <2>5, <2>6 DEF Starts
  <1>2. CASE Control(t, c)
    <2>1. PICK op \in Controls, w \in SUBSET {"row", "customer"} :
             task' = [task EXCEPT ![t] = [NewTask(op, c, "control") EXCEPT !.writes = w]]
      BY <1>2 DEF Control, Controls
    <2>2. PICK r : r = [NewTask(op, c, "control") EXCEPT !.writes = w]
      OBVIOUS
    <2>3. r.cust = c /\ r.op = op /\ r.pc = "control" /\ r.port = NULL
      BY <2>2 DEF NewTask
    <2>4. r \in Task
      BY <2>1, <2>2 DEF NewTask, Task, Controls, Operations, Pcs, ControlPcs
    <2>5. Fit(r)
      BY <2>1, <2>3 DEF Fit, Controls, ControlPcs
    <2>6. row[c] # NULL /\ Present(c) /\ customer' = customer /\ op # "create"
      BY <1>2, <2>1 DEF Control, Controls
    <2>7. QED
      BY <2>1, <2>2, <2>3, <2>4, <2>5, <2>6 DEF Starts
  <1>3. QED
    BY <1>1, <1>2 DEF Request

\* A request changes nothing but the task and the customer's status.
LEMMA RequestKeeps ==
    ASSUME NEW t \in Tasks, NEW c \in Customers, Request(t, c)
    PROVE  /\ task[t] = NULL
           /\ row' = row /\ files' = files /\ stack' = stack /\ npm' = npm /\ dns' = dns
  BY DEF Request, Create, ManualDeploy, Delete, Control, Free, outside

\* A request is accepted as the contract says.
LEMMA RequestIsPromised ==
    ASSUME PromiseInv, PromiseInv', OneTask, Named', NEW t \in Tasks, NEW c \in Customers,
           Request(t, c)
    PROVE  [Promise!Next]_(Promise!vars)
  <1>0. /\ TypeInv /\ TypeInv' /\ row' = row
        /\ \A d \in Customers : RequestOf(d) = NULL /\ ~Changing(d) /\ Upright(d)
    BY RequestKeeps, IdleIsNamed DEF PromiseInv, AllInv
  <1>1. PICK r \in Task :
           /\ task' = [task EXCEPT ![t] = r] /\ r.cust = c
           /\ r.op = "create" <=> ~Present(c)
           /\ r.op \in Controls => row[c] # NULL
           /\ customer' = IF r.op \in Controls THEN customer
                          ELSE [customer EXCEPT ![c] =
                                   IF r.op = "delete" THEN "inactive" ELSE "deploying"]
    BY <1>0, RequestStarts DEF Starts
  <1>2. task'[t] = r /\ r # NULL /\ r.op \in Operations
    BY <1>0, <1>1, TaskAssumption DEF TypeInv, TypeOK, Task
  <1>3. RequestOf(c)' = r.op /\ (Changing(c)' <=> r.op \notin Controls)
    BY <1>1, <1>2 DEF Named
  <1>4. ASSUME NEW d \in Customers \ {c}
        PROVE  /\ customer'[d] = customer[d] /\ PortOf(d)' = PortOf(d)
               /\ RequestOf(d)' = RequestOf(d) /\ ShapeOf(d)' = ShapeOf(d)
    <2>1. RequestOf(d)' = NULL /\ ~Changing(d)'
      BY <1>1, <1>2 DEF Named
    <2>2. customer'[d] = customer[d]
      BY <1>0, <1>1 DEF TypeInv, TypeOK
    <2>3. PortOf(d)' = PortOf(d) /\ ShapeOf(d)' = ShapeOf(d)
      BY <1>0, <2>1, RequestKeeps DEF PortOf, ShapeOf, Nothing, Stands
    <2>4. QED
      BY <1>0, <2>1, <2>2, <2>3
  <1>5. PortOf(c)' = PortOf(c)
    BY <1>0 DEF PortOf
  <1>6. ASSUME NEW s, NEW h, customer'[c] = s, ShapeOf(c)' = h
        PROVE  Shows(c, s, PortOf(c), r.op, h)
    BY <1>0, <1>3, <1>4, <1>5, <1>6, ViewStep
  <1>7. /\ \A d \in Customers : RequestView[d] = NULL
        /\ r.op = "create" <=> customer[c] = "absent"
        /\ r.op \in Controls => PortView[c] # NULL
        /\ r.op \in Promise!Requests
    <2>1. r.op \in Controls => PortView[c] # NULL
      <3>1. row[c] \in Row \cup {NULL}
        BY <1>0 DEF TypeInv, TypeOK
      <3>2. QED
        BY <1>1, <3>1, PortsAssumption DEF PortView, PortOf, Row, Ports
    <2>2. r.op \in Promise!Requests
      BY <1>2 DEF Operations, Promise!Requests, Promise!Deployments, Promise!Controls
    <2>3. QED
      BY <1>0, <1>1, <2>1, <2>2 DEF RequestView, Present
  <1>8. CASE r.op \in Controls
    <2>1. customer' = customer /\ ShapeOf(c)' = ShapeOf(c)
      BY <1>0, <1>1, <1>3, <1>8, RequestKeeps DEF ShapeOf, Nothing, Stands
    <2>2. Shows(c, customer[c], PortOf(c), r.op, ShapeOf(c))
      BY <1>6, <2>1
    <2>3. /\ customer' = customer /\ PortView' = PortView /\ ShapeView' = ShapeView
          /\ RequestView' = [RequestView EXCEPT ![c] = r.op]
      BY <2>1, <2>2 DEF Shows, PortView, ShapeView
    <2>4. Promise!Accept(c, r.op)
      BY <1>7, <1>8, <2>3 DEF PortView, RequestView, ShapeView, Controls, Promise!Controls,
           Promise!Accept
    <2>5. QED
      BY <1>7, <2>4 DEF Promise!Next
  <1>9. CASE r.op \notin Controls
    <2>1. PICK s : s = IF r.op = "delete" THEN "inactive" ELSE "deploying"
      OBVIOUS
    <2>2. customer'[c] = s /\ ShapeOf(c)' = "changing"
      BY <1>0, <1>1, <1>3, <1>9, <2>1 DEF ShapeOf, TypeInv, TypeOK
    <2>3. Shows(c, s, PortOf(c), r.op, "changing")
      BY <1>6, <2>2
    <2>4. /\ PortView' = PortView
          /\ customer' = [customer EXCEPT ![c] = s]
          /\ ShapeView' = [ShapeView EXCEPT ![c] = "changing"]
          /\ RequestView' = [RequestView EXCEPT ![c] = r.op]
      BY <2>3 DEF Shows, PortView
    <2>5. r.op = "delete" \/ r.op \in Promise!Deployments
      BY <1>2, <1>9 DEF Operations, Controls, Promise!Deployments
    <2>6. Promise!Accept(c, r.op)
      BY <1>7, <1>9, <2>1, <2>4, <2>5 DEF PortView, RequestView, ShapeView, Controls, Promise!Controls,
           Promise!Deployments, Promise!Becomes, Promise!Accept
    <2>7. QED
      BY <1>7, <2>6 DEF Promise!Next
  <1>10. QED
    BY <1>8, <1>9

\* A health check shows what it finds, or may say anything while a deployment
\* or a deletion is at work.
LEMMA HealthIsPromised ==
    ASSUME PromiseInv, PromiseInv', Settings, NEW c \in Customers, CheckHealth(c)
    PROVE  [Promise!Next]_(Promise!vars)
  <1>0. TypeInv /\ task' = task /\ files' = files /\ stack' = stack /\ npm' = npm /\ dns' = dns
    BY DEF CheckHealth, outside, PromiseInv, AllInv
  <1>f. PICK healthy \in BOOLEAN :
           /\ healthy => \A d \in {x \in Prefixed[c] : stack[x] # NULL} : stack[d].started
           /\ row' = [row EXCEPT ![c].status = IF healthy THEN "running" ELSE "failed"]
           /\ customer' = [customer EXCEPT ![c] = IF healthy THEN "active" ELSE "error"]
    BY DEF CheckHealth
  <1> DEFINE st == IF healthy THEN "running" ELSE "failed"
             s == IF healthy THEN "active" ELSE "error"
  <1>1. /\ row[c] # NULL /\ stack[c] # NULL
        /\ row' = [row EXCEPT ![c].status = st] /\ customer' = [customer EXCEPT ![c] = s]
        /\ healthy => stack[c].started
    <2>1. Prefixed[c] = {c}
      BY DEF Settings, Gentle
    <2>2. row[c] # NULL /\ {d \in Prefixed[c] : stack[d] # NULL} # {}
      BY DEF CheckHealth
    <2>3. stack[c] # NULL /\ {d \in Prefixed[c] : stack[d] # NULL} = {c}
      BY <2>1, <2>2
    <2>4. QED
      BY <1>f, <2>2, <2>3
  <1>2. row'[c] # NULL /\ row'[c].port = row[c].port /\ \A d \in Customers \ {c} : row'[d] = row[d]
    <2>1. row[c] \in Row
      BY <1>0, <1>1 DEF TypeInv, TypeOK
    <2>2. PICK x : x = [row[c] EXCEPT !.status = st]
      OBVIOUS
    <2>3. x \in Row /\ x.port = row[c].port
      BY <2>1, <2>2 DEF Row, DeploymentStatuses
    <2>4. QED
      BY <1>0, <1>1, <2>2, <2>3, RowAssumption DEF TypeInv, TypeOK
  <1>3. \A d \in Customers : RequestOf(d)' = RequestOf(d) /\ (Changing(d)' <=> Changing(d))
    BY <1>0 DEF RequestOf, Changing, Busy, InFlight, Cust
  <1>4. \A d \in Customers : PortOf(d)' = PortOf(d)
    BY <1>1, <1>2 DEF PortOf
  <1>5. \A d \in Customers : ShapeOf(d)' = ShapeOf(d)
    BY <1>0, <1>1, <1>2, <1>3 DEF ShapeOf, Nothing, Stands
  <1>6. /\ PortView' = PortView /\ RequestView' = RequestView /\ ShapeView' = ShapeView
    BY <1>3, <1>4, <1>5 DEF PortView, RequestView, ShapeView
  <1>7. PortView[c] # NULL
    BY <1>0, <1>1, PortsAssumption DEF PortView, PortOf, TypeInv, TypeOK, Row, Ports
  <1>8. /\ ShapeView[c] \in {"started", "halted", "changing"}
        /\ ShapeView[c] = "halted" => s = "error"
    <2>1. CASE Changing(c)
      BY <2>1 DEF ShapeView, ShapeOf
    <2>2. CASE ~Changing(c)
      <3>1. Upright(c)
        BY <2>2, ShapeFits
      <3>2. ShapeOf(c) = IF stack[c].started THEN "started" ELSE "halted"
        BY <1>1, <3>1 DEF Upright
      <3>3. QED
        BY <1>1, <3>2 DEF ShapeView
    <2>3. QED
      BY <2>1, <2>2
  <1>9. Promise!Check(c)
    <2>1. s \in {"active", "error"}
      OBVIOUS
    <2>2. QED
      BY <1>1, <1>6, <1>7, <1>8, <2>1 DEF PortView, RequestView, ShapeView, Promise!Check
  <1>10. QED
    BY <1>9 DEF Promise!Next

\* A step of a task is a step of the contract, and keeps the aims.
LEMMA StepPlays ==
    ASSUME PromiseInv, Settings, NEW t \in Tasks, task[t] # NULL, NEW c \in Customers, c = Cust(t),
           Step(t)
    PROVE  IF task[t].op \in Controls THEN Composes(t, c) \/ Resolves(t, c) ELSE Plays(t, c)
  <1>0. Named /\ TypeInv /\ OneTask /\ Fit(task[t])
    BY TaskIsNamed DEF PromiseInv, AllInv, Aims, Settings, Orderly
  <1>1. \A d \in Customers \ {c} : Upright(d)
    BY <1>0, ShapeFits DEF Named, Cust
  <1>2. CASE task[t].op \in Controls
    <2>1. Upright(c) /\ task[t].pc \in ControlPcs
      BY <1>0, <1>2, ShapeFits DEF Named, Cust, Fit, Controls
    <2>2. ComposeControl(t) \/ ResumeControl(t)
      BY <2>1, NoRefusal DEF Settings, Orderly, Step, DeployStep, UndeployStep, BeginDeploy,
         DownForRedeploy, ResumeAfterDown, UpSucceeds, UpFails, ResumeAfterUp, CreateProxyHost,
         ResumeAfterProxy, CreateDnsRecord, ResumeAfterDns, RollbackDown, RollbackFiles,
         BeginUndeploy, DeleteWithoutRow, DownForUndeploy, ResumeUndeploy, DeleteProxyHost,
         ResumeAfterProxyDelete, DeleteDnsRecord, FinishUndeploy, At, ControlPcs
    <2>3. QED
      BY <1>1, <1>2, <2>1, <2>2, ComposePlays, ResumePlays
  <1>3. CASE task[t].op \notin Controls
    <2>1. task[t].pc \notin ControlPcs
      BY <1>3, DeployKnowsAll DEF Works, Controls, Settings
    <2>2. DeployStep(t) \/ UndeployStep(t)
      BY <2>1, NoRefusal DEF Settings, Orderly, Step, ComposeControl, ResumeControl, At, ControlPcs
    <2>3. QED
      BY <1>3, <2>2, DeployPlays, UndeployPlays DEF Settings
  <1>4. QED
    BY <1>2, <1>3

LEMMA StepKeepsAims ==
    ASSUME PromiseInv, TypeInv', Settings, NEW t \in Tasks, Step(t)
    PROVE  Aims'
  <1>0. task[t] # NULL /\ TypeInv /\ \A u \in Tasks : u = t
    BY StepInFlight DEF PromiseInv, AllInv, Settings, Orderly, OneTask
  <1>1. PICK c \in Customers : c = Cust(t)
    BY <1>0 DEF TypeInv, TypeOK, Task, Cust
  <1>2. Proceeds(t)
    BY <1>0, StepProceeds DEF PromiseInv, Aims, Settings, Orderly
  <1>3. PICK r : task' = [task EXCEPT ![t] = r] /\ (r # NULL => r.cust = c /\ Fit(r))
    BY <1>1, <1>2 DEF Proceeds, Cust
  <1>4. task'[t] = r
    BY <1>0, <1>3 DEF TypeInv, TypeOK
  <1>5. Stays(t, c) \/ End(t)
    BY <1>0, <1>1, StepPlays DEF Composes, Resolves, Plays, GoesOn, Begins, Succeeds, GivesUp, Removes
  <1>6. CASE End(t)
    <2>1. task'[t] = NULL
      BY <1>0, <1>6 DEF End, TypeInv, TypeOK
    <2>2. \A u \in Tasks : task'[u] = NULL
      BY <1>0, <2>1
    <2>3. QED
      BY <2>2 DEF Aims
  <1>7. CASE Stays(t, c)
    <2>1. PICK x \in Task : task' = [task EXCEPT ![t] = x] /\ Aim(c, x)'
      BY <1>7 DEF Stays
    <2>2. task'[t] = x /\ x # NULL /\ x = r
      BY <1>0, <1>4, <2>1, TaskAssumption DEF TypeInv, TypeOK
    <2>3. Fit(x) /\ x.cust = c
      BY <1>3, <2>2
    <2>4. ASSUME NEW u \in Tasks PROVE Fit(task[u])' /\ Aim(task[u].cust, task[u])'
      <3>1. task'[u] = x
        BY <1>0, <2>2
      <3>2. QED
        BY <2>1, <2>3, <3>1 DEF Fit, Aim, Anew
    <2>5. QED
      BY <2>4 DEF Aims
  <1>8. QED
    BY <1>5, <1>6, <1>7

\* Requests and health checks keep the aims.
LEMMA OthersKeepAims ==
    ASSUME PromiseInv, TypeInv', Settings, NEW c \in Customers,
           (\E t \in Tasks : Request(t, c)) \/ CheckHealth(c)
    PROVE  Aims'
  <1>0. TypeInv /\ RowHasCustomer /\ Aims
    BY DEF PromiseInv, AllInv
  <1>1. ASSUME NEW t \in Tasks, Request(t, c) PROVE Aims'
    <2>1. PICK r \in Task :
             /\ task' = [task EXCEPT ![t] = r] /\ r.cust = c /\ Fit(r)
             /\ r.pc \in {"queued", "control"} /\ (r.op = "create" => ~Present(c))
      BY <1>0, <1>1, RequestStarts DEF Starts
    <2>2. row' = row /\ \A u \in Tasks : task'[u] = r
      BY <1>0, <1>1, <2>1, RequestKeeps DEF Settings, Orderly, OneTask, TypeInv, TypeOK
    <2>3. Aim(c, r)'
      BY <1>0, <2>1, <2>2 DEF Aim, Anew, DeployPcs, RowHasCustomer
    <2>4. ASSUME NEW u \in Tasks PROVE Fit(task[u])' /\ Aim(task[u].cust, task[u])'
      <3>1. task'[u] = r
        BY <2>2
      <3>2. QED
        BY <2>1, <2>3, <3>1 DEF Fit, Aim, Anew
    <2>5. QED
      BY <2>4 DEF Aims
  <1>2. ASSUME CheckHealth(c) PROVE Aims'
    <2>1. task' = task /\ files' = files
      BY <1>2 DEF CheckHealth, outside
    <2>2. \A d \in Customers : row[d] = NULL => row'[d] = NULL
      <3>1. PICK x : row' = [row EXCEPT ![c] = x]
        BY <1>2 DEF CheckHealth
      <3>2. row[c] # NULL
        BY <1>2 DEF CheckHealth
      <3>3. QED
        BY <1>0, <3>1, <3>2 DEF TypeInv, TypeOK
    <2>3. ASSUME NEW u \in Tasks, task[u] # NULL
          PROVE  Fit(task[u])' /\ Aim(task[u].cust, task[u])'
      <3>1. task[u].cust \in Customers /\ Fit(task[u]) /\ Aim(task[u].cust, task[u])
        BY <1>0, <2>3 DEF TypeInv, TypeOK, Task, Aims
      <3>2. QED
        BY <2>1, <2>2, <3>1 DEF Fit, Aim, Anew
    <2>4. QED
      BY <2>1, <2>3 DEF Aims
  <1>3. QED
    BY <1>1, <1>2

\* The whole invariant is inductive.
LEMMA PromiseStep ==
    ASSUME Settings, PromiseInv, [Next]_vars
    PROVE  PromiseInv'
  <1>1. AllInv' /\ NeatInv' /\ RowHasCustomer'
    BY AllStep, NeatStep, RowStep DEF Settings, PromiseInv, AllInv
  <1>2. Aims'
    <2>1. CASE UNCHANGED vars
      BY <2>1 DEF vars, PromiseInv, Aims, Fit, Aim, Anew
    <2>2. CASE Next
      <3>1. TypeInv' /\ ~Crash /\ \A c \in Customers : ~UpdateCustomer(c)
        BY <1>1 DEF AllInv, Settings, Gentle, Crash, UpdateCustomer
      <3>2. QED
        BY <2>2, <3>1, StepKeepsAims, OthersKeepAims DEF Next
    <2>3. QED
      BY <2>1, <2>2
  <1>3. QED
    BY <1>1, <1>2 DEF PromiseInv

\* Every step is a step of the contract, or shows nothing in it.
LEMMA NextIsPromised ==
    ASSUME Settings, PromiseInv, PromiseInv', [Next]_vars
    PROVE  [Promise!Next]_(Promise!vars)
  <1>0. OneTask /\ Named /\ Named' /\ TypeInv
    BY TaskIsNamed, TaskIsNamedNext DEF Settings, Orderly, PromiseInv, AllInv
  <1>1. ASSUME NEW t \in Tasks, Step(t) PROVE [Promise!Next]_(Promise!vars)
    <2>1. task[t] # NULL
      BY <1>1, StepInFlight DEF Settings, Orderly
    <2>2. PICK c \in Customers : c = Cust(t)
      BY <1>0, <2>1 DEF TypeInv, TypeOK, Task, Cust
    <2>3. Proceeds(t) /\ \A d \in Customers \ {c} : SameAll(d)
      BY <1>0, <1>1, <2>1, <2>2, StepProceeds, StepSame DEF PromiseInv, Aims, Settings, Orderly
    <2>4. QED
      BY <1>0, <1>1, <2>1, <2>2, <2>3, StepPlays, ComposeIsPromised, AnswerIsPromised, PlayIsPromised
  <1>2. CASE UNCHANGED vars
    BY <1>2 DEF vars, Promise!vars, PortOf, RequestOf, ShapeOf, Busy, Changing, InFlight, Cust,
         Nothing, Stands
  <1>3. ~Crash /\ \A c \in Customers : ~UpdateCustomer(c)
    BY DEF Settings, Gentle, Crash, UpdateCustomer
  <1>4. QED
    BY <1>0, <1>1, <1>2, <1>3, RequestIsPromised, HealthIsPromised DEF Next

\* Nothing is there at first.
LEMMA PromiseInit == Init => PromiseInv /\ Promise!Init
  <1> SUFFICES ASSUME Init PROVE PromiseInv /\ Promise!Init
    OBVIOUS
  <1>1. AllInv
    BY AllInit
  <1>2. NeatInv
    BY NeatInit
  <1>3. RowHasCustomer /\ Aims
    BY DEF Init, RowHasCustomer, Aims
  <1>4. \A c \in Customers : PortOf(c) = NULL /\ RequestOf(c) = NULL /\ ShapeOf(c) = "nothing"
    BY DEF Init, PortOf, RequestOf, Busy, ShapeOf, Changing, InFlight, Nothing
  <1>5. QED
    BY <1>1, <1>2, <1>3, <1>4 DEF PromiseInv, Init, Promise!Init

\* With one handler or task at a time every request is answered as the API
\* promises, on whatever history of requests, files that cannot be written,
\* refusals of compose up, NPM and DNS, failed deployments and health checks it
\* meets: the status, the port and what there is on the host agree again when it is
\* through.
THEOREM PromiseIsKept ==
    ASSUME \A t, u \in Tasks : t = u, Overlap = FALSE, ManualStatuses = {},
           Faults \subseteq {"write", "up", "npmRefused", "dnsAdd"},
           \A c \in Customers : Prefixed[c] = {c}
    PROVE  Spec => KeepsPromise
  <1>0. Settings
    BY DEF Settings, Gentle, Orderly, OneTask
  <1>1. PromiseInv /\ [Next]_vars => PromiseInv'
    BY <1>0, PromiseStep
  <1>2. PromiseInv /\ PromiseInv' /\ [Next]_vars => [Promise!Next]_(Promise!vars)
    BY <1>0, NextIsPromised
  <1>3. QED
    BY <1>1, <1>2, PromiseInit, PTL DEF Spec, KeepsPromise, Promise!Spec
-----------------------------------------------------------------------------
(* A redeployment keeps the data unless a file cannot be written, sqlite   *)
(* refuses a commit for reasons of its own, or compose up or down fails.   *)
(* Beside restarts there is one task that deploys or removes something     *)
(* (SoleWorker).  Containers are on the port of their directory and of     *)
(* their row (Placed), and without a row they are those that a first       *)
(* deployment has just started (Housed).  So its port is free when compose *)
(* up comes to it, its commit succeeds, and a deployment is only rolled    *)
(* back before it has written a file, when the range has no port left      *)
(* (Safe).                                                                 *)

Worker(t) == task[t] # NULL /\ task[t].op \notin Controls
SoleWorker == \A t, u \in Tasks : Worker(t) /\ Worker(u) => t = u

Started == {"upped", "npm", "npmed", "dns", "dnsed"}
Placed(c) ==
    stack[c] # NULL =>
        /\ files[c].port = stack[c].port
        /\ row[c] # NULL => row[c].port = stack[c].port
Housed(c) ==
    stack[c] # NULL /\ row[c] = NULL =>
        \E t \in Tasks : Worker(t) /\ task[t].cust = c /\ task[t].pc \in Started
Safe(c, r) ==
    /\ ~r.broken
    /\ r.pc \in {"queued", "undo", "undone"} \cup UndeployPcs => ~r.made
    /\ r.pc \in UndeployPcs \ {"uDown"} => stack[c] = NULL
    /\ r.pc \in WithPort =>
          /\ Present(c) /\ files[c].port = r.port
          /\ r.hadRow <=> row[c] # NULL
          /\ row[c] # NULL => row[c].port = r.port
DataKept ==
    /\ \A c \in Customers : Placed(c) /\ Housed(c)
    /\ \A t \in Tasks : Worker(t) => Safe(task[t].cust, task[t])
DataInv == UniqueInv /\ (\A t \in Tasks : task[t] # NULL => Fit(task[t])) /\ DataKept

\* What the disk, docker and the appliance do not do.
Compliant ==
    /\ "write" \notin Faults /\ "db" \notin Faults
    /\ "up" \notin Faults /\ "down" \notin Faults /\ "crash" \notin Faults

\* So no deployment breaks off before its first await.
LEMMA NoBreakOff == ASSUME Compliant, NEW t, NEW rows, NEW dirs PROVE ~BreaksOff(t, rows, dirs)
  BY Zenon DEF BreaksOff, Compliant

\* A step of worker t, on customer c, that puts r in the place of its record.
Moves(t, c, r) ==
    /\ \A d \in Customers \ {c} : row'[d] = row[d] /\ stack'[d] = stack[d] /\ files'[d] = files[d]
    /\ task' = [task EXCEPT ![t] = r]
    /\ Placed(c)'
    /\ stack'[c] # NULL /\ row'[c] = NULL => r # NULL /\ r.pc \in Started
    /\ r # NULL => r.cust = c /\ r.op = task[t].op /\ Safe(c, r)'

\* Nobody else works on anything, so such a step keeps the invariant.
LEMMA MoveKeeps ==
    ASSUME TypeInv, DataKept, SoleWorker, NEW t \in Tasks, Worker(t), NEW c \in Customers,
           task[t].cust = c, NEW r, Moves(t, c, r)
    PROVE  DataKept'
  <1>1. task'[t] = r /\ \A u \in Tasks \ {t} : task'[u] = task[u] /\ ~Worker(u)
    BY DEF Moves, SoleWorker, TypeInv, TypeOK
  <1>2. ASSUME NEW d \in Customers \ {c} PROVE Placed(d)' /\ Housed(d)'
    <2>1. row'[d] = row[d] /\ stack'[d] = stack[d] /\ files'[d] = files[d]
      BY DEF Moves
    <2>2. Placed(d) /\ Housed(d)
      BY DEF DataKept
    <2>3. ~(stack[d] # NULL /\ row[d] = NULL)
      BY <1>1, <2>2 DEF Housed
    <2>4. QED
      BY <2>1, <2>2, <2>3 DEF Placed, Housed
  <1>3. Placed(c)'
    BY DEF Moves
  <1>4. Housed(c)'
    <2>1. ASSUME stack'[c] # NULL, row'[c] = NULL
          PROVE  task'[t] # NULL /\ task'[t].op \notin Controls /\ task'[t].cust = c /\ task'[t].pc \in Started
      BY <1>1, <2>1 DEF Moves, Worker
    <2>2. QED
      BY <2>1 DEF Housed, Worker
  <1>5. ASSUME NEW u \in Tasks, task'[u] # NULL, task'[u].op \notin Controls
        PROVE  task'[u] = r /\ r.cust = c /\ Safe(c, r)'
    BY <1>1, <1>5 DEF Moves, Worker
  <1>6. \A u \in Tasks : Worker(u)' => Safe(task[u].cust, task[u])'
    BY <1>5 DEF Worker, Safe
  <1>7. QED
    BY <1>2, <1>3, <1>4, <1>6 DEF DataKept

\* What the invariant says of the worker's own customer.
LEMMA WorkerKnows ==
    ASSUME TypeInv, DataInv, SoleWorker, NEW t \in Tasks, Worker(t)
    PROVE  /\ task[t] \in Task /\ task[t] # NULL /\ task[t].cust \in Customers
           /\ Fit(task[t]) /\ Safe(task[t].cust, task[t]) /\ Placed(task[t].cust)
           /\ stack[task[t].cust] # NULL /\ row[task[t].cust] = NULL => task[t].pc \in Started
  <1>1. task[t] \in Task /\ task[t] # NULL
    BY DEF Worker, TypeInv, TypeOK
  <1>2. PICK c \in Customers : c = task[t].cust
    BY <1>1 DEF Task
  <1>3. Fit(task[t]) /\ Safe(c, task[t]) /\ Placed(c) /\ Housed(c)
    BY <1>1, <1>2 DEF DataInv, DataKept
  <1>4. stack[c] # NULL /\ row[c] = NULL => task[t].pc \in Started
    BY <1>3 DEF Housed, SoleWorker
  <1>5. QED
    BY <1>1, <1>2, <1>3, <1>4

\* A step that leaves row and files alone and at most takes containers down
\* moves to a position of which no more is to be known.
LEMMA CarriesOn ==
    ASSUME TypeInv, DataInv, SoleWorker, NEW t \in Tasks, Worker(t), NEW c \in Customers,
           c = task[t].cust, customer' = customer, row' = row, files' = files,
           \A d \in Customers \ {c} : stack'[d] = stack[d], stack'[c] \in {stack[c], NULL},
           NEW r, task' = [task EXCEPT ![t] = r], r.cust = c, r.op = task[t].op, r # NULL,
           r.port = task[t].port, r.hadRow = task[t].hadRow, r.made = task[t].made,
           ~r.broken, r.pc \in WithPort => task[t].pc \in WithPort,
           r.pc \in {"queued", "undo", "undone"} \cup UndeployPcs => ~task[t].made,
           r.pc \in UndeployPcs \ {"uDown"} => stack'[c] = NULL,
           task[t].pc \in Started => r.pc \in Started
    PROVE  DataKept'
  <1>1. /\ Safe(c, task[t]) /\ Placed(c)
        /\ stack[c] # NULL /\ row[c] = NULL => task[t].pc \in Started
    BY WorkerKnows
  <1>2. Safe(c, r)'
    BY <1>1 DEF Safe, Present
  <1>3. Placed(c)'
    BY <1>1 DEF Placed
  <1>4. Moves(t, c, r)
    BY <1>1, <1>2, <1>3 DEF Moves
  <1>5. QED
    BY <1>4, MoveKeeps DEF DataInv

\* Go is such a step.
LEMMA GoCarriesOn ==
    ASSUME TypeInv, DataInv, SoleWorker, NEW t \in Tasks, Worker(t), NEW c \in Customers,
           c = task[t].cust, customer' = customer, row' = row, files' = files,
           \A d \in Customers \ {c} : stack'[d] = stack[d], stack'[c] \in {stack[c], NULL},
           NEW pc \in Pcs, Go(t, pc),
           pc \in WithPort => task[t].pc \in WithPort,
           pc \in {"queued", "undo", "undone"} \cup UndeployPcs => ~task[t].made,
           pc \in UndeployPcs \ {"uDown"} => stack'[c] = NULL,
           task[t].pc \in Started => pc \in Started
    PROVE  DataKept'
  <1>0. PICK r : r = [task[t] EXCEPT !.pc = pc]
    OBVIOUS
  <1>1. task[t] \in Task /\ Safe(c, task[t])
    BY WorkerKnows
  <1>2. /\ r \in Task /\ r.pc = pc /\ r.cust = c /\ r.op = task[t].op /\ r.port = task[t].port
        /\ r.hadRow = task[t].hadRow /\ r.made = task[t].made /\ r.broken = task[t].broken
    BY <1>0, <1>1 DEF Task
  <1>3. r # NULL
    BY <1>2, TaskAssumption
  <1>4. task' = [task EXCEPT ![t] = r]
    BY <1>0 DEF Go
  <1>5. ~r.broken
    BY <1>1, <1>2 DEF Safe
  <1>6. QED
    BY <1>2, <1>3, <1>4, <1>5, CarriesOn

\* So is the end of a task before it has started containers.
LEMMA EndKeeps ==
    ASSUME TypeInv, DataInv, SoleWorker, NEW t \in Tasks, Worker(t), NEW c \in Customers,
           c = task[t].cust, End(t), task[t].pc \notin Started,
           \A d \in Customers \ {c} : row'[d] = row[d] /\ stack'[d] = stack[d] /\ files'[d] = files[d],
           stack'[c] = stack[c],
           stack[c] = NULL \/ (row' = row /\ files' = files)
    PROVE  DataKept'
  <1>1. Placed(c) /\ ~(stack[c] # NULL /\ row[c] = NULL)
    BY WorkerKnows
  <1>2. Placed(c)'
    BY <1>1 DEF Placed
  <1>3. Moves(t, c, NULL)
    BY <1>1, <1>2 DEF Moves, End
  <1>4. QED
    BY <1>3, MoveKeeps DEF DataInv

\* compose_down finds the compose file and takes the containers down.
LEMMA DownTakesAll ==
    ASSUME TypeInv, Compliant, NEW c \in Customers, Placed(c), NEW s \in AfterDown(c)
    PROVE  s = NULL
  BY StackAssumption, PortsAssumption DEF AfterDown, Compliant, Placed, TypeInv, TypeOK, Stack, Ports

\* A deployment gets its port and its directory.
LEMMA PrepareKeeps ==
    ASSUME TypeInv, DataInv, SoleWorker, Compliant, NEW t \in Tasks, Worker(t), NEW c \in Customers,
           c = task[t].cust, ~task[t].made, task[t].pc \notin Started,
           NEW rows, NEW dirs,
           \/ rows = row /\ dirs = files
           \/ /\ stack[c] = NULL /\ rows = [row EXCEPT ![c] = NULL]
              /\ \E f \in Dir : dirs = [files EXCEPT ![c] = f],
           Prepare(t, rows, dirs)
    PROVE  DataKept'
  <1>0. /\ task[t] \in Task /\ task[t] # NULL /\ Placed(c) /\ c = Cust(t)
        /\ ~(stack[c] # NULL /\ row[c] = NULL) /\ ~task[t].broken
    BY WorkerKnows DEF Cust, Safe
  <1>1. row \in [Customers -> Row \cup {NULL}] /\ files \in [Customers -> Dir]
    BY DEF TypeInv, TypeOK
  <1>2. dirs \in [Customers -> Dir] /\ \A d \in Customers \ {c} : dirs[d] = files[d] /\ rows[d] = row[d]
    BY <1>1
  <1>3. stack' = stack /\ row' = rows /\ customer' = [customer EXCEPT ![c] = "deploying"]
    BY <1>0 DEF Prepare, outside
  <1>4. Present(c)'
    BY <1>3 DEF Present, TypeInv, TypeOK
  <1>5. ASSUME NEW p \in PortsFor(c, rows), NEW k,
               files' = [dirs EXCEPT ![c] = [@ EXCEPT !.port = p, !.key = k]],
               task' = [task EXCEPT ![t] = [@ EXCEPT
                            !.pc = IF rows[c] # NULL THEN "down" ELSE "up",
                            !.port = p, !.hadRow = rows[c] # NULL, !.made = TRUE,
                            !.hadData = dirs[c].data # NULL]]
        PROVE  DataKept'
    <2>0. PICK r : r = [task[t] EXCEPT !.pc = IF rows[c] # NULL THEN "down" ELSE "up",
                                       !.port = p, !.hadRow = rows[c] # NULL, !.made = TRUE,
                                       !.hadData = dirs[c].data # NULL]
      OBVIOUS
    <2>1. /\ r.pc \in {"down", "up"} /\ r.port = p /\ (r.hadRow <=> rows[c] # NULL) /\ ~r.broken
          /\ r.cust = c /\ r.op = task[t].op
      BY <1>0, <2>0 DEF Task
    <2>2. files'[c].port = p /\ \A d \in Customers \ {c} : files'[d] = files[d]
      BY <1>2, <1>5 DEF Dir
    <2>3. rows[c] # NULL => rows[c].port = p
      BY <1>5 DEF PortsFor
    <2>4. Safe(c, r)'
      BY <1>3, <1>4, <2>1, <2>2, <2>3 DEF Safe, UndeployPcs
    <2>5. stack[c] # NULL => rows = row /\ row[c] # NULL
      BY <1>0
    <2>6. Placed(c)'
      BY <1>0, <1>3, <2>2, <2>3, <2>5 DEF Placed
    <2>7. task' = [task EXCEPT ![t] = r]
      BY <1>5, <2>0
    <2>8. Moves(t, c, r)
      BY <1>2, <1>3, <2>1, <2>2, <2>4, <2>5, <2>6, <2>7 DEF Moves
    <2>9. QED
      BY <2>8, MoveKeeps DEF DataInv
  <1>6. CASE PortsFor(c, rows) = {} /\ files' = dirs /\ Go(t, "undo")
    <2>0. PICK r : r = [task[t] EXCEPT !.pc = "undo"]
      OBVIOUS
    <2>1. r.pc = "undo" /\ r.cust = c /\ r.op = task[t].op /\ ~r.made /\ ~r.broken
      BY <1>0, <2>0 DEF Task
    <2>2. Safe(c, r)'
      BY <2>1 DEF Safe, UndeployPcs, WithPort
    <2>3. rows[c] = NULL /\ stack[c] = NULL
      BY <1>0, <1>6 DEF PortsFor
    <2>4. task' = [task EXCEPT ![t] = r]
      BY <1>6, <2>0 DEF Go
    <2>5. Moves(t, c, r)
      BY <1>2, <1>3, <1>6, <2>1, <2>2, <2>3, <2>4 DEF Moves, Placed
    <2>6. QED
      BY <2>5, MoveKeeps DEF DataInv
  <1>7. \/ \E p \in PortsFor(c, rows), k \in KeysFor(dirs[c]) :
             /\ files' = [dirs EXCEPT ![c] = [@ EXCEPT !.port = p, !.key = k]]
             /\ task' = [task EXCEPT ![t] = [@ EXCEPT
                            !.pc = IF rows[c] # NULL THEN "down" ELSE "up",
                            !.port = p, !.hadRow = rows[c] # NULL, !.made = TRUE,
                            !.hadData = dirs[c].data # NULL]]
        \/ PortsFor(c, rows) = {} /\ files' = dirs /\ Go(t, "undo")
    BY <1>0, NoBreakOff DEF Prepare
  <1>8. QED
    BY <1>5, <1>6, <1>7

\* The commit succeeds, with the port on which the containers run.
LEMMA RecordKeeps ==
    ASSUME TypeInv, DataInv, SoleWorker, NEW t \in Tasks, Worker(t), task[t].pc \in WithPort,
           NEW proxy \in BOOLEAN, Record(t, proxy)
    PROVE  DataKept'
  <1>0. PICK c \in Customers : c = task[t].cust
    BY WorkerKnows
  <1>1. /\ task[t] \in Task /\ Safe(c, task[t]) /\ Placed(c) /\ c = Cust(t)
        /\ row \in [Customers -> Row \cup {NULL}]
    BY <1>0, WorkerKnows DEF Cust, TypeInv, TypeOK
  <1>2. task[t].port # NULL
    BY PortsAssumption DEF TypeInv, PortKnown, Ports, Worker
  <1>3. \A d \in Customers \ {c} : row[d] # NULL => row[d].port # task[t].port
    BY <1>0, <1>2 DEF DataInv, UniqueInv, TaskPort, Worker
  <1>4. /\ row' = [row EXCEPT ![c] = [port |-> task[t].port, npm |-> proxy, status |-> "running"]]
        /\ End(t) /\ files' = files /\ stack' = stack
    BY <1>1, <1>3 DEF Record, Conflict, Write, outside
  <1>5. row'[c].port = task[t].port /\ row'[c] # NULL
    <2>1. row'[c] = [port |-> task[t].port, npm |-> proxy, status |-> "running"]
      BY <1>1, <1>4
    <2>2. row'[c] \in Row
      BY <2>1 DEF TypeInv, PortKnown, Row, DeploymentStatuses, Worker
    <2>3. QED
      BY <2>1, <2>2, RowAssumption
  <1>6. Placed(c)'
    BY <1>1, <1>4, <1>5 DEF Placed, Safe
  <1>7. Moves(t, c, NULL)
    BY <1>1, <1>4, <1>5, <1>6 DEF Moves, End
  <1>8. QED
    BY <1>0, <1>7, MoveKeeps DEF DataInv

\* So does the step after the proxy host.
LEMMA AfterProxyKeeps ==
    ASSUME TypeInv, DataInv, SoleWorker, NEW t \in Tasks, Worker(t), task[t].pc \in WithPort,
           NEW proxy \in BOOLEAN, AfterProxy(t, proxy)
    PROVE  DataKept'
  <1>0. PICK c \in Customers : c = task[t].cust
    BY WorkerKnows
  <1>1. task[t] \in Task /\ Safe(c, task[t])
    BY <1>0, WorkerKnows
  <1>2. ASSUME task' = [task EXCEPT ![t] = [@ EXCEPT !.pc = "dns", !.proxy = proxy]],
               UNCHANGED <<customer, row, files, outside>>
        PROVE  DataKept'
    <2>0. PICK r : r = [task[t] EXCEPT !.pc = "dns", !.proxy = proxy]
      OBVIOUS
    <2>1. /\ r.pc = "dns" /\ r.cust = c /\ r.op = task[t].op /\ r.port = task[t].port
          /\ r.hadRow = task[t].hadRow /\ r.made = task[t].made /\ r.broken = task[t].broken
      BY <1>0, <1>1, <2>0 DEF Task
    <2>2. r # NULL
      BY <1>1, <2>0, TaskAssumption DEF Task, Pcs, DeployPcs
    <2>3. ~r.broken
      BY <1>1, <2>1 DEF Safe
    <2>4. customer' = customer /\ row' = row /\ files' = files /\ stack' = stack
      BY <1>2 DEF outside
    <2>5. task' = [task EXCEPT ![t] = r]
      BY <1>2, <2>0
    <2>6. r.pc \notin {"queued", "undo", "undone"} \cup UndeployPcs /\ r.pc \in Started
      BY <2>1 DEF UndeployPcs, Started
    <2>7. QED
      BY <1>0, <2>1, <2>2, <2>3, <2>4, <2>5, <2>6, CarriesOn
  <1>3. QED
    BY <1>2, RecordKeeps DEF AfterProxy

\* The port that compose up binds is free: the containers of every other
\* customer are on the port of its row.
LEMMA UpPortIsFree ==
    ASSUME TypeInv, DataInv, SoleWorker, NEW t \in Tasks, Worker(t), NEW c \in Customers,
           c = task[t].cust, task[t].pc = "up"
    PROVE  files[c].port = task[t].port /\ task[t].port \in Ports /\ ~BoundByOther(c, files[c].port)
  <1>1. Safe(c, task[t]) /\ task[t].port \in Ports /\ "up" \in WithPort
    BY WorkerKnows DEF TypeInv, PortKnown, Worker, WithPort
  <1>2. files[c].port = task[t].port /\ task[t].port # NULL
    BY <1>1, PortsAssumption DEF Safe, Ports
  <1>3. ASSUME NEW d \in Customers \ {c}, stack[d] # NULL
        PROVE  stack[d].port # task[t].port
    <2>1. Placed(d) /\ Housed(d) /\ TaskPort(t)
      BY DEF DataInv, DataKept, UniqueInv
    <2>2. row[d] # NULL
      BY <1>3, <2>1 DEF Housed, SoleWorker
    <2>3. QED
      BY <1>2, <1>3, <2>1, <2>2 DEF Placed, TaskPort, Worker
  <1>4. QED
    BY <1>1, <1>2, <1>3 DEF BoundByOther

\* compose_up ends with the containers on that port.
LEMMA UpKeeps ==
    ASSUME TypeInv, DataInv, SoleWorker, Compliant, NEW t \in Tasks, Worker(t),
           UpSucceeds(t) \/ UpFails(t)
    PROVE  DataKept' /\ UpSucceeds(t)
  <1>0. PICK c \in Customers : c = task[t].cust
    BY WorkerKnows
  <1>1. /\ task[t] \in Task /\ Safe(c, task[t]) /\ c = Cust(t) /\ task[t].pc = "up"
        /\ files \in [Customers -> Dir] /\ stack \in [Customers -> Stack \cup {NULL}]
    BY <1>0, WorkerKnows DEF Cust, TypeInv, TypeOK, UpSucceeds, UpFails, At
  <1>2. files[c].port = task[t].port /\ task[t].port \in Ports /\ ~BoundByOther(c, files[c].port)
    BY <1>0, <1>1, UpPortIsFree
  <1>3. UpSucceeds(t)
    BY <1>1, <1>2, PortsAssumption DEF UpFails, Compliant, Ports
  <1>4. PICK r : r = [task[t] EXCEPT !.pc = "upped"]
    OBVIOUS
  <1>5. /\ r.pc = "upped" /\ r.cust = c /\ r.op = task[t].op /\ r.port = task[t].port
        /\ r.hadRow = task[t].hadRow /\ r.broken = task[t].broken /\ r \in Task
    BY <1>0, <1>1, <1>4 DEF Task, Pcs, DeployPcs
  <1>6. /\ stack' = [stack EXCEPT ![c] = [port |-> files[c].port, started |-> TRUE]]
        /\ customer' = customer /\ row' = row /\ task' = [task EXCEPT ![t] = r]
        /\ \E d \in DataAfterUp(c) : files' = [files EXCEPT ![c].data = d]
    BY <1>1, <1>3, <1>4 DEF UpSucceeds, Go
  <1>7. files'[c].port = files[c].port /\ \A d \in Customers \ {c} : files'[d] = files[d]
    BY <1>1, <1>6 DEF Dir
  <1>8. Safe(c, r)'
    BY <1>1, <1>5, <1>6, <1>7 DEF Safe, WithPort, UndeployPcs, Present
  <1>9. stack'[c].port = files[c].port /\ \A d \in Customers \ {c} : stack'[d] = stack[d]
    BY <1>1, <1>6
  <1>10. Placed(c)'
    BY <1>1, <1>2, <1>6, <1>7, <1>9 DEF Placed, Safe, WithPort
  <1>11. r # NULL /\ r.pc \in Started
    BY <1>5, TaskAssumption DEF Started
  <1>12. Moves(t, c, r)
    BY <1>5, <1>6, <1>7, <1>8, <1>9, <1>10, <1>11 DEF Moves
  <1>13. QED
    BY <1>0, <1>3, <1>12, MoveKeeps DEF DataInv

\* The steps of a deployment.
LEMMA DeployKeeps ==
    ASSUME TypeInv, DataInv, SoleWorker, Compliant, NEW t \in Tasks, Worker(t), DeployStep(t)
    PROVE  DataKept'
  <1>0. PICK c \in Customers : c = task[t].cust
    BY WorkerKnows
  <1>1. /\ task[t] \in Task /\ task[t] # NULL /\ Safe(c, task[t]) /\ Placed(c) /\ c = Cust(t)
        /\ stack[c] # NULL /\ row[c] = NULL => task[t].pc \in Started
        /\ stack \in [Customers -> Stack \cup {NULL}]
    BY <1>0, WorkerKnows DEF Cust, TypeInv, TypeOK
  <1>2. task[t].pc \in WithPort => ~LogFails(t)
    BY <1>1 DEF LogFails, CanLog, Safe
  <1>g. ASSUME NEW pc \in DeployPcs \ {"queued", "undo", "undone"}, Go(t, pc), task[t].pc \in WithPort,
               customer' = customer, row' = row, files' = files,
               \A d \in Customers \ {c} : stack'[d] = stack[d], stack'[c] \in {stack[c], NULL},
               task[t].pc \in Started => pc \in Started
        PROVE  DataKept'
    BY <1>0, <1>g, GoCarriesOn DEF Pcs, DeployPcs, UndeployPcs
  <1>3. CASE BeginDeploy(t)
    <2>1. task[t].pc = "queued" /\ ~task[t].made /\ task[t].pc \notin Started
      BY <1>1, <1>3 DEF BeginDeploy, At, Safe, Started
    <2>2. CASE Prepare(t, row, files)
      BY <1>0, <2>1, <2>2, PrepareKeeps DEF Started
    <2>3. CASE End(t) /\ UNCHANGED <<customer, row, files, outside>>
      BY <1>0, <2>1, <2>3, EndKeeps DEF Started, outside
    <2>4. QED
      BY <1>3, <2>2, <2>3 DEF BeginDeploy
  <1>4. CASE DownForRedeploy(t)
    <2>1. PICK s \in AfterDown(c) : stack' = [stack EXCEPT ![c] = s]
      BY <1>1, <1>4 DEF DownForRedeploy
    <2>2. \A d \in Customers \ {c} : stack'[d] = stack[d]
      BY <1>1, <2>1
    <2>3. stack'[c] \in {stack[c], NULL}
      BY <1>1, <2>1 DEF AfterDown
    <2>4. QED
      BY <1>4, <1>g, <2>2, <2>3 DEF DownForRedeploy, At, DeployPcs, WithPort, Started
  <1>5. CASE ResumeAfterDown(t)
    <2>1. task[t].pc = "downed"
      BY <1>5 DEF ResumeAfterDown, At
    <2>2. PICK broken \in BOOLEAN :
             /\ IF broken THEN ~Present(c) ELSE TRUE
             /\ task' = [task EXCEPT ![t] = [@ EXCEPT !.pc = "up", !.broken = broken]]
      BY <1>1, <1>5 DEF ResumeAfterDown
    <2>3. ~broken
      BY <1>1, <2>1, <2>2 DEF Safe, WithPort
    <2>4. PICK r : r = [task[t] EXCEPT !.pc = "up", !.broken = broken]
      OBVIOUS
    <2>5. /\ r.pc = "up" /\ r.cust = c /\ r.op = task[t].op /\ r.port = task[t].port
          /\ r.hadRow = task[t].hadRow /\ r.made = task[t].made /\ ~r.broken /\ r \in Task
      BY <1>0, <1>1, <2>3, <2>4 DEF Task, Pcs, DeployPcs
    <2>6. task' = [task EXCEPT ![t] = r] /\ customer' = customer /\ row' = row /\ files' = files /\ stack' = stack
      BY <1>5, <2>2, <2>4 DEF ResumeAfterDown, outside
    <2>7. r # NULL /\ task[t].pc \in WithPort /\ task[t].pc \notin Started
      BY <2>1, <2>5, TaskAssumption DEF WithPort, Started
    <2>8. r.pc \notin {"queued", "undo", "undone"} \cup UndeployPcs
      BY <2>5 DEF UndeployPcs
    <2>9. QED
      BY <1>0, <2>5, <2>6, <2>7, <2>8, CarriesOn
  <1>6. CASE UpSucceeds(t) \/ UpFails(t)
    BY <1>6, UpKeeps
  <1>7. CASE ResumeAfterUp(t)
    <2>1. task[t].pc = "upped" /\ task[t].pc \in WithPort
      BY <1>7 DEF ResumeAfterUp, At, WithPort
    <2>2. task[t].hadRow <=> row[c] # NULL
      BY <1>1, <2>1 DEF Safe
    <2>3. \/ Go(t, "npm") /\ UNCHANGED <<customer, row, files, outside>>
          \/ AfterProxy(t, task[t].hadRow /\ row[c].npm)
      BY <1>1, <1>2, <1>7, <2>1, <2>2 DEF ResumeAfterUp
    <2>4. CASE Go(t, "npm") /\ UNCHANGED <<customer, row, files, outside>>
      <3>1. "npm" \in DeployPcs \ {"queued", "undo", "undone"} /\ "npm" \in Started
        BY DEF DeployPcs, Started
      <3>2. customer' = customer /\ row' = row /\ files' = files /\ stack' = stack
        BY <2>4 DEF outside
      <3>3. QED
        BY <1>g, <2>1, <2>4, <3>1, <3>2
    <2>5. (task[t].hadRow /\ row[c].npm) \in BOOLEAN
      BY <1>1, <2>2 DEF TypeInv, TypeOK, Row, Task
    <2>6. QED
      BY <2>1, <2>3, <2>4, <2>5, AfterProxyKeeps
  <1>8. CASE CreateProxyHost(t)
    <2>1. task[t].pc = "npm"
      BY <1>8 DEF CreateProxyHost, At
    <2>2. PICK told \in BOOLEAN :
             task' = [task EXCEPT ![t] = [@ EXCEPT !.pc = "npmed", !.proxy = told]]
      BY <1>8 DEF CreateProxyHost
    <2>3. PICK r : r = [task[t] EXCEPT !.pc = "npmed", !.proxy = told]
      OBVIOUS
    <2>4. /\ r.pc = "npmed" /\ r.cust = c /\ r.op = task[t].op /\ r.port = task[t].port
          /\ r.hadRow = task[t].hadRow /\ r.made = task[t].made /\ r.broken = task[t].broken /\ r \in Task
      BY <1>0, <1>1, <2>3 DEF Task, Pcs, DeployPcs
    <2>5. task' = [task EXCEPT ![t] = r] /\ customer' = customer /\ row' = row /\ files' = files /\ stack' = stack
      BY <1>8, <2>2, <2>3 DEF CreateProxyHost
    <2>6. r # NULL /\ task[t].pc \in WithPort /\ r.pc \in Started /\ ~r.broken
      BY <1>1, <2>1, <2>4, TaskAssumption DEF WithPort, Started, Safe
    <2>7. r.pc \notin {"queued", "undo", "undone"} \cup UndeployPcs
      BY <2>4 DEF UndeployPcs
    <2>8. QED
      BY <1>0, <2>4, <2>5, <2>6, <2>7, CarriesOn
  <1>9. CASE ResumeAfterProxy(t)
    <2>1. task[t].pc \in WithPort /\ task[t].proxy \in BOOLEAN
      BY <1>1, <1>9 DEF ResumeAfterProxy, At, WithPort, Task
    <2>2. QED
      BY <1>2, <1>9, <2>1, AfterProxyKeeps DEF ResumeAfterProxy
  <1>10. CASE CreateDnsRecord(t)
    BY <1>10, <1>g DEF CreateDnsRecord, At, WithPort, DeployPcs, Started
  <1>11. CASE ResumeAfterDns(t)
    <2>1. task[t].pc \in WithPort /\ task[t].proxy \in BOOLEAN
      BY <1>1, <1>11 DEF ResumeAfterDns, At, WithPort, Task
    <2>2. QED
      BY <1>2, <1>11, <2>1, RecordKeeps DEF ResumeAfterDns
  <1>12. CASE RollbackDown(t)
    <2>1. task[t].pc = "undo" /\ ~task[t].made
      BY <1>1, <1>12 DEF RollbackDown, At, Safe
    <2>2. PICK s \in AfterDown(c) : stack' = [stack EXCEPT ![c] = s]
      BY <1>1, <1>12 DEF RollbackDown
    <2>3. \A d \in Customers \ {c} : stack'[d] = stack[d]
      BY <1>1, <2>2
    <2>4. stack'[c] \in {stack[c], NULL}
      BY <1>1, <2>2 DEF AfterDown
    <2>5. /\ customer' = customer /\ row' = row /\ files' = files /\ Go(t, "undone")
          /\ "undone" \in Pcs /\ "undone" \notin WithPort \cup UndeployPcs /\ task[t].pc \notin Started
      BY <1>12, <2>1 DEF RollbackDown, Pcs, DeployPcs, WithPort, UndeployPcs, Started
    <2>6. QED
      BY <1>0, <2>1, <2>3, <2>4, <2>5, GoCarriesOn
  <1>13. CASE RollbackFiles(t)
    <2>1. task[t].pc = "undone" /\ ~task[t].made
      BY <1>1, <1>13 DEF RollbackFiles, At, Safe
    <2>2. files' = files
      BY <1>1, <1>13, <2>1 DEF RollbackFiles, TypeInv, TypeOK
    <2>3. QED
      BY <1>0, <1>13, <2>1, <2>2, EndKeeps DEF RollbackFiles, Started, outside
  <1>14. QED
    BY <1>3, <1>4, <1>5, <1>6, <1>7, <1>8, <1>9, <1>10, <1>11, <1>12, <1>13 DEF DeployStep

\* The steps of an undeployment: the directory goes after the containers.
LEMMA UndeployKeeps ==
    ASSUME TypeInv, DataInv, SoleWorker, Compliant, NEW t \in Tasks, Worker(t), UndeployStep(t)
    PROVE  DataKept'
  <1>0. PICK c \in Customers : c = task[t].cust
    BY WorkerKnows
  <1>1. /\ task[t] \in Task /\ task[t] # NULL /\ Safe(c, task[t]) /\ Placed(c) /\ c = Cust(t)
        /\ stack[c] # NULL /\ row[c] = NULL => task[t].pc \in Started
        /\ stack \in [Customers -> Stack \cup {NULL}]
    BY <1>0, WorkerKnows DEF Cust, TypeInv, TypeOK
  <1>2. task[t].pc \in UndeployPcs \cup {"queued"} /\ ~task[t].made /\ task[t].pc \notin Started
    <2>1. task[t].pc \in UndeployPcs \cup {"queued"}
      BY DEF UndeployStep, BeginUndeploy, DeleteWithoutRow, DownForUndeploy, ResumeUndeploy,
         DeleteProxyHost, ResumeAfterProxyDelete, DeleteDnsRecord, FinishUndeploy, At, UndeployPcs
    <2>2. QED
      BY <1>1, <2>1 DEF Safe, UndeployPcs, Started
  <1>g. ASSUME NEW pc \in UndeployPcs, Go(t, pc), pc # "uDown" => stack'[c] = NULL,
               customer' = customer, row' = row, files' = files,
               \A d \in Customers \ {c} : stack'[d] = stack[d], stack'[c] \in {stack[c], NULL}
        PROVE  DataKept'
    <2>1. pc \notin WithPort /\ pc \in Pcs
      BY DEF UndeployPcs, WithPort, Pcs
    <2>2. QED
      BY <1>0, <1>2, <1>g, <2>1, GoCarriesOn
  <1>s. ASSUME NEW pc \in UndeployPcs, Go(t, pc), stack[c] = NULL,
               customer' = customer, row' = row, files' = files, stack' = stack
        PROVE  DataKept'
    BY <1>g, <1>s
  <1>3. CASE BeginUndeploy(t)
    BY <1>3, <1>g DEF BeginUndeploy, UndeployPcs, outside
  <1>4. CASE DeleteWithoutRow(t)
    BY <1>0, <1>2, <1>4, EndKeeps DEF DeleteWithoutRow, outside
  <1>5. CASE DownForUndeploy(t)
    <2>1. PICK s \in AfterDown(c) : stack' = [stack EXCEPT ![c] = s]
      BY <1>1, <1>5 DEF DownForUndeploy
    <2>2. s = NULL
      BY <1>1, <2>1, DownTakesAll
    <2>3. stack'[c] = NULL /\ \A d \in Customers \ {c} : stack'[d] = stack[d]
      BY <1>1, <2>1, <2>2
    <2>4. QED
      BY <1>5, <1>g, <2>3 DEF DownForUndeploy, UndeployPcs
  <1>e. ASSUME stack[c] = NULL, End(t), stack' = stack,
               \A d \in Customers \ {c} : row'[d] = row[d] /\ files'[d] = files[d]
        PROVE  DataKept'
    BY <1>0, <1>2, <1>e, EndKeeps
  <1>u. ASSUME Undeployed(t), stack[c] = NULL PROVE DataKept'
    <2>1. PICK f \in AfterRmtree(files[c]) :
             LET dirs == [files EXCEPT ![c] = f]
                 rows == [row EXCEPT ![c] = NULL]
             IN  \/ End(t) /\ files' = dirs /\ (row' = row \/ row' = rows) /\ stack' = stack
                 \/ Prepare(t, rows, dirs)
      BY <1>1, <1>u DEF Undeployed, outside
    <2>2. f \in Dir /\ files \in [Customers -> Dir] /\ row \in [Customers -> Row \cup {NULL}]
      BY RmtreeType DEF TypeInv, TypeOK
    <2>3. CASE /\ End(t) /\ files' = [files EXCEPT ![c] = f] /\ stack' = stack
               /\ row' = row \/ row' = [row EXCEPT ![c] = NULL]
      BY <1>e, <1>u, <2>2, <2>3
    <2>4. CASE Prepare(t, [row EXCEPT ![c] = NULL], [files EXCEPT ![c] = f])
      BY <1>0, <1>2, <1>u, <2>2, <2>4, PrepareKeeps
    <2>5. QED
      BY <2>1, <2>3, <2>4
  <1>r. ASSUME RemoveDns(t), stack[c] = NULL PROVE DataKept'
    BY <1>u, <1>s, <1>r DEF RemoveDns, UndeployPcs, outside
  <1>a. ASSUME NEW gone, Abort(t, gone), stack[c] = NULL PROVE DataKept'
    BY <1>a, <1>e DEF Abort, outside
  <1>6. CASE ResumeUndeploy(t)
    <2>1. stack[c] = NULL
      BY <1>1, <1>6 DEF ResumeUndeploy, At, Safe, UndeployPcs
    <2>2. \/ \E gone : Abort(t, gone)
          \/ Go(t, "uNpm") /\ UNCHANGED <<customer, row, files, outside>>
          \/ RemoveDns(t)
      BY <1>6 DEF ResumeUndeploy
    <2>3. CASE Go(t, "uNpm") /\ UNCHANGED <<customer, row, files, outside>>
      BY <1>s, <2>1, <2>3 DEF UndeployPcs, outside
    <2>4. QED
      BY <1>a, <1>r, <2>1, <2>2, <2>3
  <1>7. CASE DeleteProxyHost(t)
    BY <1>1, <1>7, <1>s DEF DeleteProxyHost, At, Safe, UndeployPcs
  <1>8. CASE ResumeAfterProxyDelete(t)
    BY <1>1, <1>8, <1>a, <1>r DEF ResumeAfterProxyDelete, At, Safe, UndeployPcs
  <1>9. CASE DeleteDnsRecord(t)
    BY <1>1, <1>9, <1>s DEF DeleteDnsRecord, At, Safe, UndeployPcs
  <1>10. CASE FinishUndeploy(t)
    BY <1>1, <1>10, <1>u DEF FinishUndeploy, At, Safe, UndeployPcs
  <1>11. QED
    BY <1>3, <1>4, <1>5, <1>6, <1>7, <1>8, <1>9, <1>10 DEF UndeployStep

\* What is no work on a customer moves no containers, rows or directories: it
\* writes statuses, switches containers on or off, and begins or ends no work
\* that is not at its beginning.
LEMMA OthersKeep ==
    ASSUME TypeInv, DataInv, files' = files,
           \A c \in Customers : (Present(c) => Present(c)')
               /\ (row[c] = NULL <=> row'[c] = NULL) /\ (row[c] # NULL => row'[c].port = row[c].port)
               /\ (stack'[c] # NULL => stack[c] # NULL /\ stack'[c].port = stack[c].port),
           \A t \in Tasks : Worker(t) => task'[t] = task[t],
           \A t \in Tasks : Worker(t)' => Worker(t) \/ (task'[t].pc = "queued" /\ ~task'[t].made /\ ~task'[t].broken)
    PROVE  DataKept'
  <1>1. ASSUME NEW c \in Customers PROVE Placed(c)' /\ Housed(c)'
    <2>1. Placed(c) /\ Housed(c)
      BY DEF DataInv, DataKept
    <2>2. Placed(c)'
      BY <2>1 DEF Placed
    <2>3. ASSUME stack'[c] # NULL, row'[c] = NULL PROVE Housed(c)'
      <3>1. PICK t \in Tasks : Worker(t) /\ task[t].cust = c /\ task[t].pc \in Started
        BY <2>1, <2>3 DEF Housed
      <3>2. task'[t] = task[t]
        BY <3>1
      <3>3. QED
        BY <3>1, <3>2 DEF Housed, Worker
    <2>4. QED
      BY <2>2, <2>3 DEF Housed
  <1>2. ASSUME NEW t \in Tasks, Worker(t)' PROVE Safe(task[t].cust, task[t])'
    <2>1. CASE Worker(t)
      <3>1. PICK r : r = task[t] /\ r = task'[t]
        BY <2>1
      <3>2. r \in Task /\ r.cust \in Customers
        BY <2>1, <3>1 DEF Worker, TypeInv, TypeOK, Task
      <3>3. PICK c \in Customers : c = r.cust
        BY <3>2
      <3>4. Safe(c, r)
        BY <2>1, <3>1, <3>3 DEF DataInv, DataKept
      <3>5. Safe(c, r)'
        BY <3>4 DEF Safe
      <3>6. QED
        BY <3>1, <3>3, <3>5 DEF Safe
    <2>2. CASE task'[t].pc = "queued" /\ ~task'[t].made /\ ~task'[t].broken
      BY <2>2 DEF Safe, UndeployPcs, WithPort
    <2>3. QED
      BY <1>2, <2>1, <2>2
  <1>3. QED
    BY <1>1, <1>2 DEF DataKept

\* A row whose status is written keeps its port.
LEMMA StatusKeepsRow ==
    ASSUME TypeInv, NEW c \in Customers, row[c] # NULL, NEW s \in DeploymentStatuses, row' = [row EXCEPT ![c].status = s]
    PROVE  \A d \in Customers : /\ row[d] = NULL <=> row'[d] = NULL
                                /\ row[d] # NULL => row'[d].port = row[d].port
  <1>1. row \in [Customers -> Row \cup {NULL}] /\ row[c] \in Row
    BY DEF TypeInv, TypeOK
  <1>2. [row[c] EXCEPT !.status = s] \in Row /\ [row[c] EXCEPT !.status = s].port = row[c].port
    BY <1>1 DEF Row
  <1>3. row'[c] = [row[c] EXCEPT !.status = s] /\ \A d \in Customers \ {c} : row'[d] = row[d]
    BY <1>1
  <1>4. QED
    BY <1>1, <1>2, <1>3, RowAssumption

\* A stop, start or restart is no work in this sense.
LEMMA ControlKeeps ==
    ASSUME TypeInv, DataInv, NEW t \in Tasks, ComposeControl(t) \/ ResumeControl(t)
    PROVE  DataKept'
  <1>0. PICK c \in Customers : c = Cust(t)
    BY DEF ComposeControl, ResumeControl, At, TypeInv, TypeOK, Task, Cust
  <1>1. /\ task[t] # NULL /\ task[t] \in Task /\ task[t].pc \in ControlPcs
        /\ customer \in [Customers -> Statuses \cup {"absent"}]
        /\ row \in [Customers -> Row \cup {NULL}] /\ stack \in [Customers -> Stack \cup {NULL}]
        /\ task \in [Tasks -> Task \cup {NULL}]
    BY DEF ComposeControl, ResumeControl, At, TypeInv, TypeOK, ControlPcs
  <1>2. task[t].op \in Controls
    <2>1. Fit(task[t]) /\ task[t].pc \notin DeployPcs \cup UndeployPcs \cup {"queued"}
      BY <1>1 DEF DataInv, ControlPcs, DeployPcs, UndeployPcs
    <2>2. QED
      BY <1>1, <2>1 DEF Fit, Task, Operations, Controls
  <1>3. CASE ComposeControl(t)
    <2>1. PICK s \in Stack \cup {NULL}, ok \in BOOLEAN :
             /\ ComposeCall(c, task[t].op, s, ok)
             /\ stack' = [stack EXCEPT ![c] = s]
             /\ task' = [task EXCEPT ![t] = [@ EXCEPT !.pc = "controlled", !.ok = ok]]
      BY <1>0, <1>3 DEF ComposeControl
    <2>2. s # NULL => stack[c] # NULL /\ s.port = stack[c].port
      <3>1. ASSUME NEW up, stack[c] # NULL PROVE [stack[c] EXCEPT !.started = up].port = stack[c].port
        BY <1>1, <3>1 DEF Stack
      <3>2. QED
        BY <2>1, <3>1 DEF ComposeCall
    <2>3. \A d \in Customers : stack'[d] # NULL => stack[d] # NULL /\ stack'[d].port = stack[d].port
      BY <1>1, <2>1, <2>2
    <2> DEFINE r == [task[t] EXCEPT !.pc = "controlled", !.ok = ok]
    <2>4. r.op \in Controls
      BY <1>1, <1>2 DEF Task
    <2>5. customer' = customer /\ row' = row /\ files' = files
      BY <1>3 DEF ComposeControl
    <2>6. task' = [task EXCEPT ![t] = r]
      BY <2>1
    <2>7. /\ \A u \in Tasks : Worker(u) => task'[u] = task[u]
          /\ \A u \in Tasks : Worker(u)' => Worker(u)
      BY <1>1, <1>2, <2>4, <2>6 DEF Worker
    <2>8. QED
      BY <2>3, <2>5, <2>7, OthersKeep DEF Present
  <1>4. CASE ResumeControl(t)
    <2>1. task' = [task EXCEPT ![t] = NULL] /\ files' = files /\ stack' = stack
      BY <1>4 DEF ResumeControl, End, outside
    <2>2. /\ \A u \in Tasks : Worker(u) => task'[u] = task[u]
          /\ \A u \in Tasks : Worker(u)' => Worker(u)
      BY <1>1, <1>2, <2>1 DEF Worker
    <2>3. \/ row' = row
          \/ row[c] # NULL /\ row' = [row EXCEPT ![c].status = RowStatusAfter(task[t].op)]
      BY <1>0, <1>4 DEF ResumeControl
    <2>4. \A d \in Customers : (row[d] = NULL <=> row'[d] = NULL) /\ (row[d] # NULL => row'[d].port = row[d].port)
      BY <1>0, <1>1, <2>3, StatusKeepsRow DEF RowStatusAfter, DeploymentStatuses
    <2>5. \/ customer' = customer
          \/ Present(c) /\ customer' = [customer EXCEPT ![c] = CustomerStatusAfter(task[t].op)]
      BY <1>0, <1>4 DEF ResumeControl
    <2>6. \A d \in Customers : Present(d) => Present(d)'
      BY <1>1, <2>5 DEF Present, CustomerStatusAfter
    <2>7. QED
      BY <2>1, <2>2, <2>4, <2>6, OthersKeep
  <1>5. QED
    BY <1>3, <1>4

\* Nor is a health check, a status written by hand, or a request that comes in.
LEMMA ArrivalKeeps ==
    ASSUME TypeInv, DataInv, NEW c \in Customers,
           (\E t \in Tasks : Request(t, c)) \/ CheckHealth(c) \/ UpdateCustomer(c)
    PROVE  DataKept'
  <1>1. /\ customer \in [Customers -> Statuses \cup {"absent"}]
        /\ row \in [Customers -> Row \cup {NULL}] /\ task \in [Tasks -> Task \cup {NULL}]
    BY DEF TypeInv, TypeOK
  <1>2. CASE CheckHealth(c)
    <2>1. /\ files' = files /\ stack' = stack /\ task' = task /\ row[c] # NULL
          /\ \E s \in DeploymentStatuses : row' = [row EXCEPT ![c].status = s]
          /\ \E s \in {"active", "error"} : customer' = [customer EXCEPT ![c] = s]
      BY <1>2 DEF CheckHealth, outside, DeploymentStatuses
    <2>2. \A d \in Customers : (row[d] = NULL <=> row'[d] = NULL) /\ (row[d] # NULL => row'[d].port = row[d].port)
      BY <2>1, StatusKeepsRow
    <2>3. \A d \in Customers : Present(d) => Present(d)'
      BY <1>1, <2>1 DEF Present
    <2>4. QED
      BY <2>1, <2>2, <2>3, OthersKeep DEF Worker
  <1>3. CASE UpdateCustomer(c)
    <2>1. files' = files /\ stack' = stack /\ task' = task /\ row' = row
      BY <1>3 DEF UpdateCustomer, outside
    <2>2. \A d \in Customers : Present(d) => Present(d)'
      BY <1>1, <1>3, ManualStatusesAssumption DEF UpdateCustomer, Present, Statuses
    <2>3. QED
      BY <2>1, <2>2, OthersKeep DEF Worker
  <1>4. ASSUME NEW t \in Tasks, Request(t, c) PROVE DataKept'
    <2>1. /\ files' = files /\ stack' = stack /\ row' = row /\ task[t] = NULL
          /\ \A d \in Customers : Present(d) => Present(d)'
      BY <1>1, <1>4, RequestKeeps DEF Request, Create, ManualDeploy, Delete, Control, Present
    <2>2. PICK r : /\ task' = [task EXCEPT ![t] = r] /\ ~r.made /\ ~r.broken
                   /\ r.op \in Controls \/ r.pc = "queued"
      <3>1. ASSUME NEW op, NEW pc, pc = "queued" \/ op \in Controls, NEW w,
                   \/ task' = [task EXCEPT ![t] = NewTask(op, c, pc)]
                   \/ task' = [task EXCEPT ![t] = [NewTask(op, c, pc) EXCEPT !.writes = w]]
            PROVE  \E r : /\ task' = [task EXCEPT ![t] = r] /\ ~r.made /\ ~r.broken
                          /\ r.op \in Controls \/ r.pc = "queued"
        <4>1. PICK q : q = NewTask(op, c, pc)
          OBVIOUS
        <4>2. /\ ~q.made /\ ~q.broken /\ q.op = op /\ q.pc = pc
              /\ ~[q EXCEPT !.writes = w].made /\ ~[q EXCEPT !.writes = w].broken
              /\ [q EXCEPT !.writes = w].op = op /\ [q EXCEPT !.writes = w].pc = pc
          BY <4>1 DEF NewTask
        <4>3. QED
          BY <3>1, <4>1, <4>2
      <3>2. CASE Create(t, c) \/ ManualDeploy(t, c) \/ Delete(t, c)
        BY <3>1, <3>2 DEF Create, ManualDeploy, Delete
      <3>3. CASE Control(t, c)
        <4>1. PICK op \in Controls, w \in SUBSET {"row", "customer"} :
                 task' = [task EXCEPT ![t] = [NewTask(op, c, "control") EXCEPT !.writes = w]]
          BY <3>3 DEF Control, Controls
        <4>2. QED
          BY <3>1, <4>1
      <3>4. QED
        BY <1>4, <3>2, <3>3 DEF Request
    <2>3. /\ \A u \in Tasks : Worker(u) => task'[u] = task[u]
          /\ \A u \in Tasks : Worker(u)' =>
                Worker(u) \/ (task'[u].pc = "queued" /\ ~task'[u].made /\ ~task'[u].broken)
      BY <1>1, <2>1, <2>2 DEF Worker
    <2>4. QED
      BY <2>1, <2>3, OthersKeep
  <1>5. QED
    BY <1>2, <1>3, <1>4

\* The invariant is inductive.
LEMMA DataStep ==
    ASSUME TypeInv, TypeInv', DataInv, SoleWorker, Compliant, [Next]_vars
    PROVE  DataInv'
  <1>1. UniqueInv'
    <2>1. \A t \in Tasks : task[t] # NULL /\ task[t].port # NULL => Worker(t)
      BY DEF DataInv, Fit, Controls, Worker
    <2>2. SolePort
      BY <2>1 DEF SolePort, SoleWorker
    <2>3. QED
      BY <2>2, UniqueStep DEF DataInv, Compliant
  <1>2. ASSUME NEW t \in Tasks, Step(t) PROVE DataKept' /\ \A u \in Tasks : task'[u] # NULL => Fit(task'[u])
    <2>1. task[t] # NULL /\ Fit(task[t])
      BY <1>2, StepInFlight DEF DataInv, Compliant
    <2>2. PICK r : task' = [task EXCEPT ![t] = r] /\ (r # NULL => Fit(r))
      BY <1>2, <2>1, StepProceeds DEF Proceeds, Compliant
    <2>3. \A u \in Tasks : task'[u] # NULL => Fit(task'[u])
      BY <2>2 DEF DataInv, TypeInv, TypeOK
    <2>0. DeployStep(t) \/ UndeployStep(t) \/ ComposeControl(t) \/ ResumeControl(t)
      BY <1>2, NoRefusal DEF Step, Compliant
    <2>c. ComposeControl(t) \/ ResumeControl(t) => DataKept'
      BY ControlKeeps
    <2>4. CASE Worker(t)
      <3>1. DeployStep(t) => DataKept'
        BY <2>4, DeployKeeps
      <3>2. UndeployStep(t) => DataKept'
        BY <2>4, UndeployKeeps
      <3>3. QED
        BY <2>0, <2>3, <2>c, <3>1, <3>2
    <2>5. CASE ~Worker(t)
      <3>1. task[t].pc \in ControlPcs
        BY <2>1, <2>5 DEF Worker, Fit, Controls
      <3>2. task[t].pc \notin DeployPcs \cup UndeployPcs
        BY <3>1 DEF ControlPcs, DeployPcs, UndeployPcs
      <3>3. ~DeployStep(t) /\ ~UndeployStep(t)
        BY <3>2 DEF DeployStep, BeginDeploy, DownForRedeploy, ResumeAfterDown, UpSucceeds, UpFails,
           ResumeAfterUp, CreateProxyHost, ResumeAfterProxy, CreateDnsRecord, ResumeAfterDns, RollbackDown,
           RollbackFiles, UndeployStep, BeginUndeploy, DeleteWithoutRow, DownForUndeploy, ResumeUndeploy,
           DeleteProxyHost, ResumeAfterProxyDelete, DeleteDnsRecord, FinishUndeploy, At, DeployPcs, UndeployPcs
      <3>4. QED
        BY <2>0, <2>3, <2>c, <3>3
    <2>6. QED
      BY <2>4, <2>5
  <1>3. ASSUME NEW t \in Tasks, NEW c \in Customers, Request(t, c)
        PROVE  DataKept' /\ \A u \in Tasks : task'[u] # NULL => Fit(task'[u])
    <2>1. PICK r : task' = [task EXCEPT ![t] = r] /\ Fit(r)
      BY <1>3, RequestStarts DEF Starts
    <2>2. QED
      BY <1>3, <2>1, ArrivalKeeps DEF DataInv, TypeInv, TypeOK
  <1>4. ASSUME NEW c \in Customers, CheckHealth(c) \/ UpdateCustomer(c) PROVE DataKept' /\ task' = task
    BY <1>4, ArrivalKeeps DEF CheckHealth, UpdateCustomer
  <1>5. ~Crash
    BY DEF Compliant, Crash
  <1>6. CASE UNCHANGED vars
    BY <1>1, <1>6 DEF DataInv, DataKept, Placed, Housed, Safe, Worker, Present, vars
  <1>7. QED
    BY <1>1, <1>2, <1>3, <1>4, <1>5, <1>6 DEF DataInv, Next

\* No step takes the management database away from a redeployment.
LEMMA StepKeepsData ==
    ASSUME TypeInv, DataInv, SoleWorker, Compliant, NEW t \in Tasks, task[t] # NULL,
           task[t].op = "redeploy", NEW c \in Customers, c = Cust(t), files[c].data # NULL, [Next]_vars
    PROVE  files'[c].data # NULL
  <1>0. Worker(t) /\ files \in [Customers -> Dir] /\ Fit(task[t])
    BY DEF DataInv, TypeInv, TypeOK, Worker, Controls
  <1>1. CASE files' = files
    BY <1>1
  <1>2. ASSUME NEW u \in Tasks, ComposeControl(u) \/ ResumeControl(u) PROVE files' = files
    BY <1>2 DEF ComposeControl, ResumeControl
  <1>3. ASSUME NEW u \in Tasks, DeployStep(u) \/ UndeployStep(u) PROVE u = t
    <2>1. task[u] # NULL /\ task[u].pc \in DeployPcs \cup UndeployPcs
      BY <1>3 DEF DeployStep, BeginDeploy, DownForRedeploy, ResumeAfterDown, UpSucceeds, UpFails,
         ResumeAfterUp, CreateProxyHost, ResumeAfterProxy, CreateDnsRecord, ResumeAfterDns, RollbackDown,
         RollbackFiles, UndeployStep, BeginUndeploy, DeleteWithoutRow, DownForUndeploy, ResumeUndeploy,
         DeleteProxyHost, ResumeAfterProxyDelete, DeleteDnsRecord, FinishUndeploy, At, DeployPcs, UndeployPcs
    <2>2. task[u].pc \notin ControlPcs
      BY <2>1 DEF DeployPcs, UndeployPcs, ControlPcs
    <2>3. Worker(u)
      BY <2>1, <2>2 DEF DataInv, Fit, Worker, Controls
    <2>4. QED
      BY <1>0, <2>3 DEF SoleWorker
  <1>4. ~UndeployStep(t)
    <2>1. task[t].pc \in DeployPcs
      BY <1>0 DEF Fit
    <2>2. task[t].pc \notin UndeployPcs
      BY <2>1 DEF DeployPcs, UndeployPcs
    <2>3. QED
      BY <2>2 DEF UndeployStep, BeginUndeploy, DeleteWithoutRow, DownForUndeploy, ResumeUndeploy,
         DeleteProxyHost, ResumeAfterProxyDelete, DeleteDnsRecord, FinishUndeploy, At, UndeployPcs
  <1>5. CASE Prepare(t, row, files)
    <2>1. files'[c].data = files[c].data
      BY <1>0, <1>5, NoBreakOff DEF Prepare, Dir
    <2>2. QED
      BY <2>1
  <1>6. CASE UpSucceeds(t) \/ UpFails(t)
    <2>1. UpSucceeds(t)
      BY <1>0, <1>6, UpKeeps
    <2>2. files' = [files EXCEPT ![c].data = files[c].data]
      BY <2>1 DEF UpSucceeds, DataAfterUp
    <2>3. QED
      BY <1>0, <2>2 DEF Dir
  <1>7. CASE RollbackFiles(t)
    <2>1. ~task[t].made
      BY <1>0, <1>7 DEF RollbackFiles, At, DataInv, DataKept, Safe
    <2>2. QED
      BY <1>0, <1>7, <2>1 DEF RollbackFiles
  <1>8. CASE DeployStep(t) /\ ~(UpSucceeds(t) \/ UpFails(t) \/ RollbackFiles(t))
    <2>1. files' = files \/ Prepare(t, row, files)
      BY <1>8 DEF DeployStep, BeginDeploy, DownForRedeploy, ResumeAfterDown, ResumeAfterUp, CreateProxyHost,
         ResumeAfterProxy, CreateDnsRecord, ResumeAfterDns, RollbackDown, LogFails, AfterProxy, Record
    <2>2. QED
      BY <1>1, <1>5, <2>1
  <1>9. ASSUME NEW d \in Customers, (\E u \in Tasks : Request(u, d)) \/ CheckHealth(d) \/ UpdateCustomer(d)
        PROVE  files' = files
    BY <1>9, RequestKeeps DEF CheckHealth, UpdateCustomer
  <1>10. ~Crash
    BY DEF Compliant, Crash
  <1>11. QED
    BY <1>1, <1>2, <1>3, <1>4, <1>6, <1>7, <1>8, <1>9, <1>10, NoRefusal DEF Compliant, Next, Step, vars

\* So no step violates the property.
LEMMA DataIsKept ==
    ASSUME TypeInv, DataInv, SoleWorker, Compliant, [Next]_vars, NEW t \in Tasks
    PROVE  task[t] # NULL /\ task[t].op = "redeploy" /\ task[t].hadData /\ files[Cust(t)].data # NULL
              => files'[Cust(t)].data # NULL
  <1>1. task[t] # NULL => Cust(t) \in Customers
    BY DEF TypeInv, TypeOK, Task, Cust
  <1>2. QED
    BY <1>1, StepKeepsData

\* A redeployment with keep_data only loses a management database through files
\* that cannot be written, a commit that sqlite refuses for reasons of its own, a
\* compose up or down that fails, a death of the appliance, or another deployment
\* beside it: with one task at a time it never does otherwise, whatever NPM and DNS
\* refuse or lose, whatever is left of a directory that was to be removed, and when
\* the range has no port left.
THEOREM RedeploymentsKeepData ==
    ASSUME \A t, u \in Tasks : t = u, "write" \notin Faults, "db" \notin Faults,
           "up" \notin Faults, "down" \notin Faults, "crash" \notin Faults
    PROVE  Spec => KeepDataSurvives
  <1>0. SoleWorker /\ Compliant
    BY DEF SoleWorker, Compliant
  <1>1. Init => DataInv
    BY DEF Init, DataInv, DataKept, Placed, Housed, Worker, UniqueInv, RowsDiffer, TaskPort
  <1>2. TypeInv /\ TypeInv' /\ DataInv /\ [Next]_vars => DataInv'
    BY <1>0, DataStep
  <1>3. TypeInv /\ DataInv /\ [Next]_vars =>
           [\A t \in Tasks : LET c == Cust(t) IN
              task[t] # NULL /\ task[t].op = "redeploy" /\ task[t].hadData /\ files[c].data # NULL
                  => files'[c].data # NULL]_vars
    BY <1>0, DataIsKept
  <1>4. QED
    BY <1>1, <1>2, <1>3, TypeAlways, PTL DEF Spec, KeepDataSurvives
=============================================================================
