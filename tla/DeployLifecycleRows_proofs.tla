--------------------- MODULE DeployLifecycleRows_proofs ---------------------
(***************************************************************************)
(* Theorems about the deployments rows of DeployLifecycle: a row has a     *)
(* customer whatever overlaps, keeps its port when requests do not overlap *)
(* on one customer, and has a port of its own when only one task at a time *)
(* records one.                                                            *)
(***************************************************************************)
EXTENDS DeployLifecycle_proofs

-----------------------------------------------------------------------------
(* A row has a customer.  RowHasCustomer is inductive by itself.           *)

\* Prepare keeps the customer and inserts no row.
LEMMA PrepareKeepsCustomer ==
    ASSUME TypeInv, NEW t \in Tasks, task[t] # NULL,
           NEW rows, NEW dirs, Prepare(t, rows, dirs),
           \A d \in Customers : rows[d] # NULL => Present(d)
    PROVE  RowHasCustomer'
  BY DEF Prepare, RowHasCustomer, Present, TypeInv, TypeOK

\* Record inserts a row only for a customer that is there.
LEMMA RecordKeepsCustomer ==
    ASSUME TypeInv, RowHasCustomer, NEW t \in Tasks, task[t] # NULL,
           NEW proxy, Record(t, proxy), Present(Cust(t))
    PROVE  RowHasCustomer'
  BY DEF Record, Write, RowHasCustomer, Present, TypeInv, TypeOK

\* The last step of an undeployment removes the row before the customer.
LEMMA UndeployedKeepsCustomer ==
    ASSUME TypeInv, RowHasCustomer, NEW t \in Tasks, task[t] # NULL, Undeployed(t)
    PROVE  RowHasCustomer'
  <1> DEFINE c == Cust(t)
             rows == [row EXCEPT ![c] = NULL]
  <1>1. c \in Customers
    BY DEF TypeInv, TypeOK, Task, Cust
  <1>2. PICK dirs : \/ customer' = [customer EXCEPT ![c] = "absent"] /\ row' = rows
                    \/ customer' = customer /\ row' = row
                    \/ Prepare(t, rows, dirs)
    BY DEF Undeployed
  <1>3. \A d \in Customers : rows[d] # NULL => d # c /\ Present(d)
    BY <1>1 DEF TypeInv, TypeOK, RowHasCustomer
  <1>4. CASE Prepare(t, rows, dirs)
    BY <1>3, <1>4, PrepareKeepsCustomer
  <1>5. CASE customer' = [customer EXCEPT ![c] = "absent"] /\ row' = rows
    BY <1>3, <1>5 DEF RowHasCustomer, Present, TypeInv, TypeOK
  <1>6. CASE customer' = customer /\ row' = row
    BY <1>6 DEF RowHasCustomer, Present
  <1>7. QED
    BY <1>2, <1>4, <1>5, <1>6

\* No step leaves a row without its customer.
LEMMA RowStep == TypeInv /\ RowHasCustomer /\ [Next]_vars => RowHasCustomer'
  <1> SUFFICES ASSUME TypeInv, RowHasCustomer, [Next]_vars PROVE RowHasCustomer'
    OBVIOUS
  <1>0. CASE UNCHANGED <<customer, row>>
    BY <1>0 DEF RowHasCustomer, Present
  <1>1. ASSUME NEW t \in Tasks, DeployStep(t) PROVE RowHasCustomer'
    <2>0. task[t] # NULL
      BY <1>1 DEF DeployStep, BeginDeploy, DownForRedeploy, ResumeAfterDown, UpSucceeds, UpFails, ResumeAfterUp,
             CreateProxyHost, ResumeAfterProxy, CreateDnsRecord, ResumeAfterDns, RollbackDown,
             RollbackFiles, At
    <2>1. CASE BeginDeploy(t)
      BY <1>0, <2>0, <2>1, PrepareKeepsCustomer DEF BeginDeploy, RowHasCustomer
    <2>2. CASE ResumeAfterUp(t) \/ ResumeAfterProxy(t) \/ ResumeAfterDns(t)
      BY <1>0, <2>0, <2>2, RecordKeepsCustomer
         DEF ResumeAfterUp, ResumeAfterProxy, ResumeAfterDns, AfterProxy, LogFails, CanLog
    <2>3. CASE RollbackFiles(t)
      BY <2>3 DEF RollbackFiles, RowHasCustomer, Present, TypeInv, TypeOK
    <2>4. QED
      BY <1>0, <1>1, <2>1, <2>2, <2>3 DEF DeployStep, DownForRedeploy, ResumeAfterDown, UpSucceeds, UpFails,
         CreateProxyHost, CreateDnsRecord, RollbackDown
  <1>2. ASSUME NEW t \in Tasks, UndeployStep(t) PROVE RowHasCustomer'
    <2>0. task[t] # NULL
      BY <1>2 DEF UndeployStep, BeginUndeploy, DeleteWithoutRow, DownForUndeploy, ResumeUndeploy,
             DeleteProxyHost, ResumeAfterProxyDelete, DeleteDnsRecord, FinishUndeploy, At
    <2>1. CASE DeleteWithoutRow(t)
      BY <2>1 DEF DeleteWithoutRow, RowHasCustomer, Present, TypeInv, TypeOK
    <2>2. CASE Undeployed(t)
      BY <2>0, <2>2, UndeployedKeepsCustomer
    <2>3. QED
      BY <1>0, <1>2, <2>1, <2>2 DEF UndeployStep, BeginUndeploy, DownForUndeploy, ResumeUndeploy,
         DeleteProxyHost, ResumeAfterProxyDelete, DeleteDnsRecord, FinishUndeploy, RemoveDns, Abort
  <1>3. ASSUME NEW t \in Tasks, ComposeControl(t) \/ ResumeControl(t) PROVE RowHasCustomer'
    <2>1. CASE ResumeControl(t)
      <3>1. CustomerStatusAfter(task[t].op) # "absent"
        BY DEF CustomerStatusAfter
      <3>2. \A d \in Customers : row'[d] # NULL => row[d] # NULL
        BY <2>1 DEF ResumeControl, TypeInv, TypeOK
      <3>3. \A d \in Customers : customer[d] # "absent" => customer'[d] # "absent"
        BY <2>1, <3>1 DEF ResumeControl, TypeInv, TypeOK
      <3>4. QED
        BY <3>2, <3>3 DEF RowHasCustomer, Present
    <2>2. QED
      BY <1>0, <1>3, <2>1 DEF ComposeControl
  <1>4. ASSUME NEW t \in Tasks, NEW c \in Customers, Request(t, c) PROVE RowHasCustomer'
    BY <1>4 DEF Request, Create, ManualDeploy, Delete, Control, RowHasCustomer, Present,
       TypeInv, TypeOK
  <1>5. ASSUME NEW c \in Customers, CheckHealth(c) \/ UpdateCustomer(c) PROVE RowHasCustomer'
    BY <1>5, ManualStatusesAssumption
       DEF CheckHealth, UpdateCustomer, RowHasCustomer, Present, TypeInv, TypeOK, Statuses
  <1>6. ASSUME NEW t \in Tasks, Refused(t) PROVE RowHasCustomer'
    <2>1. \A d \in Customers : customer[d] # "absent" => customer'[d] # "absent"
      BY <1>6 DEF Refused, RefusedBegin, RefusedLog, RefusedSuccess, Write, RefusedRollback,
         RefusedUndeploy, RefusedControl, TypeInv, TypeOK
    <2>2. ASSUME NEW d \in Customers, row'[d] # NULL PROVE Present(d)
      <3>1. CASE RefusedSuccess(t)
        <4>1. Present(Cust(t)) /\ (d # Cust(t) => row[d] # NULL)
          BY <2>2, <3>1 DEF RefusedSuccess, Complete, CanLog, Write, TypeInv, TypeOK
        <4>2. QED
          BY <4>1 DEF RowHasCustomer
      <3>2. CASE ~RefusedSuccess(t)
        <4>1. row[d] # NULL
          BY <1>6, <2>2, <3>2 DEF Refused, RefusedBegin, RefusedLog, RefusedRollback,
             RefusedUndeploy, RefusedControl, TypeInv, TypeOK
        <4>2. QED
          BY <4>1 DEF RowHasCustomer
      <3>3. QED
        BY <3>1, <3>2
    <2>3. QED
      BY <2>1, <2>2 DEF RowHasCustomer, Present
  <1>7. QED
    BY <1>0, <1>1, <1>2, <1>3, <1>4, <1>5, <1>6 DEF Next, Step, Crash, vars

\* Whatever overlaps, fails or crashes, no deployment outlives the customer it
\* was for: the foreign key stops the coroutine that resumes after a delete.
THEOREM RowAlwaysHasCustomer == Spec => []RowHasCustomer
  <1>1. Init => RowHasCustomer
    BY DEF Init, RowHasCustomer
  <1>2. QED
    BY <1>1, RowStep, TypeAlways, PTL DEF Spec
-----------------------------------------------------------------------------
(* A row keeps its port.  When no request is taken for a customer that a   *)
(* task works on, a customer has one task at most (OneTaskEach), so a      *)
(* deployment still knows what the row was when it started (RowKnown).     *)

OneTaskEach ==
    \A t, u \in Tasks :
        task[t] # NULL /\ task[u] # NULL /\ task[t].cust = task[u].cust => t = u
RowKnown(t) ==
    task[t] # NULL /\ task[t].pc \in WithPort =>
        IF task[t].hadRow
        THEN row[task[t].cust] # NULL /\ row[task[t].cust].port = task[t].port
        ELSE row[task[t].cust] = NULL
PortInv == OneTaskEach /\ \A t \in Tasks : RowKnown(t)

\* A task goes on for the same customer, or ends.
Continues(t) ==
    \E r : task' = [task EXCEPT ![t] = r] /\ (r # NULL => r.cust = task[t].cust)

\* The row of customer d is the same up to its status.
SameRow(d) ==
    /\ row[d] = NULL <=> row'[d] = NULL
    /\ row[d] # NULL => row'[d].port = row[d].port

\* A row that is there before and after keeps its port.
KeepsPort(d) == row[d] # NULL /\ row'[d] # NULL => row'[d].port = row[d].port

\* What a step of task t does to tasks and rows.
Effect(t) ==
    /\ Continues(t) /\ RowKnown(t)'
    /\ \A d \in Customers \ {task[t].cust} : row'[d] = row[d]
    /\ KeepsPort(task[t].cust)

\* Prepare goes on with a task that knows what the row is after the step.
LEMMA PrepareKnows ==
    ASSUME TypeInv, NEW t \in Tasks, task[t] # NULL,
           NEW rows \in [Customers -> Row \cup {NULL}], NEW dirs,
           Prepare(t, rows, dirs)
    PROVE  row' = rows /\ Continues(t) /\ RowKnown(t)'
  <1> DEFINE c == Cust(t)
             next(p) == [task[t] EXCEPT
                           !.pc = IF rows[c] # NULL THEN "down" ELSE "up",
                           !.port = p, !.hadRow = rows[c] # NULL, !.made = TRUE,
                           !.hadData = dirs[c].data # NULL]
             halt == [task[t] EXCEPT !.pc = "undo"]
  <1>1. task[t] \in Task /\ c \in Customers /\ c = task[t].cust
    BY DEF TypeInv, TypeOK, Task, Cust
  <1>2. row' = rows
    BY DEF Prepare
  <1>3. CASE task' = [task EXCEPT ![t] = halt]
    <2>1. halt.cust = c /\ halt.pc = "undo"
      BY <1>1 DEF Task
    <2>2. task'[t] = halt
      BY <1>3 DEF TypeInv, TypeOK
    <2>3. QED
      BY <1>1, <1>2, <1>3, <2>1, <2>2 DEF Continues, RowKnown, WithPort
  <1>4. ASSUME NEW p \in PortsFor(c, rows), task' = [task EXCEPT ![t] = next(p)]
        PROVE  Continues(t) /\ RowKnown(t)'
    <2>1. /\ next(p).cust = c /\ next(p).port = p
          /\ next(p).hadRow = (rows[c] # NULL)
      BY <1>1 DEF Task
    <2>2. task'[t] = next(p)
      BY <1>4 DEF TypeInv, TypeOK
    <2>3. rows[c] # NULL => p = rows[c].port
      BY DEF PortsFor
    <2>4. RowKnown(t)'
      BY <1>2, <2>1, <2>2, <2>3 DEF RowKnown
    <2>5. QED
      BY <1>1, <1>4, <2>1, <2>4 DEF Continues
  <1>5. CASE BreaksOff(t, rows, dirs)
    <2>1. PICK r \in Task : /\ task' = [task EXCEPT ![t] = r]
                            /\ r.cust = task[t].cust /\ r.pc = "undo"
      BY <1>5, BreaksOffShape
    <2>2. task'[t] = r
      BY <2>1 DEF TypeInv, TypeOK
    <2>3. QED
      BY <1>1, <1>2, <2>1, <2>2 DEF Continues, RowKnown, WithPort
  <1>6. QED
    BY <1>2, <1>3, <1>4, <1>5 DEF Prepare, Go

\* Record writes the port the row had, and the task ends or goes to roll back.
LEMMA RecordKnows ==
    ASSUME TypeInv, NEW t \in Tasks, task[t] # NULL, task[t].pc \in WithPort, RowKnown(t),
           NEW proxy, Record(t, proxy)
    PROVE  Effect(t)
  <1> DEFINE c == Cust(t)
             halt == [task[t] EXCEPT !.pc = "undo", !.broken = TRUE]
  <1>1. task[t] \in Task /\ c \in Customers /\ c = task[t].cust
    BY DEF TypeInv, TypeOK, Task, Cust
  <1>2. CASE /\ row' = [row EXCEPT ![c] =
                         [port |-> task[t].port, npm |-> proxy, status |-> "running"]]
             /\ End(t)
    <2>1. task' = [task EXCEPT ![t] = NULL] /\ task'[t] = NULL
      BY <1>2 DEF End, TypeInv, TypeOK
    <2>2. Continues(t) /\ RowKnown(t)'
      BY <2>1 DEF Continues, RowKnown
    <2>3. row'[c] = [port |-> task[t].port, npm |-> proxy, status |-> "running"]
      BY <1>1, <1>2 DEF TypeInv, TypeOK
    <2>4. row[c] # NULL => row[c].port = task[t].port
      BY <1>1 DEF RowKnown
    <2>5. QED
      BY <1>1, <1>2, <2>2, <2>3, <2>4 DEF Effect, KeepsPort, TypeInv, TypeOK
  <1>3. CASE task' = [task EXCEPT ![t] = halt] /\ row' = row
    <2>1. halt.cust = c /\ halt.pc = "undo" /\ task'[t] = halt
      BY <1>1, <1>3 DEF Task, TypeInv, TypeOK
    <2>2. QED
      BY <1>1, <1>3, <2>1 DEF Effect, KeepsPort, Continues, RowKnown, WithPort
  <1>4. QED
    BY <1>2, <1>3 DEF Record, Write, Break

\* A step that moves task t and leaves the rows alone.
LEMMA MoveKnows ==
    ASSUME TypeInv, NEW t \in Tasks, task[t] # NULL, RowKnown(t), row' = row,
           NEW r, task' = [task EXCEPT ![t] = r],
           r # NULL => /\ r.cust = task[t].cust
                       /\ r.pc \in WithPort =>
                             /\ task[t].pc \in WithPort
                             /\ r.hadRow = task[t].hadRow /\ r.port = task[t].port
    PROVE  Effect(t)
  <1>1. task'[t] = r
    BY DEF TypeInv, TypeOK
  <1>2. QED
    BY <1>1 DEF Effect, KeepsPort, Continues, RowKnown

\* Go moves the task to another position.
LEMMA GoKnows ==
    ASSUME TypeInv, NEW t \in Tasks, task[t] # NULL, RowKnown(t), row' = row,
           NEW pc, pc \in WithPort => task[t].pc \in WithPort, Go(t, pc)
    PROVE  Effect(t)
  <1> DEFINE r == [task[t] EXCEPT !.pc = pc]
  <1>1. task[t] \in Task
    BY DEF TypeInv, TypeOK
  <1>2. /\ r.cust = task[t].cust /\ r.pc = pc
        /\ r.hadRow = task[t].hadRow /\ r.port = task[t].port
    BY <1>1 DEF Task
  <1>3. task' = [task EXCEPT ![t] = r]
    BY DEF Go
  <1>4. QED
    BY <1>2, <1>3, MoveKnows

\* End forgets the task.
LEMMA EndKnows ==
    ASSUME TypeInv, NEW t \in Tasks, task[t] # NULL, RowKnown(t), row' = row, End(t)
    PROVE  Effect(t)
  BY MoveKnows DEF End

\* LogFails sends the task to roll back.
LEMMA LogFailsKnows ==
    ASSUME TypeInv, NEW t \in Tasks, task[t] # NULL, RowKnown(t), LogFails(t)
    PROVE  Effect(t)
  <1> DEFINE r == [task[t] EXCEPT !.pc = "undo", !.broken = TRUE]
  <1>1. task[t] \in Task
    BY DEF TypeInv, TypeOK
  <1>2. r.cust = task[t].cust /\ r.pc = "undo"
    BY <1>1 DEF Task
  <1>3. task' = [task EXCEPT ![t] = r] /\ row' = row
    BY DEF LogFails, Break
  <1>4. QED
    BY <1>2, <1>3, MoveKnows DEF WithPort

\* After the proxy step the task waits for DNS, or records the deployment.
LEMMA AfterProxyKnows ==
    ASSUME TypeInv, NEW t \in Tasks, task[t] # NULL, task[t].pc \in WithPort, RowKnown(t),
           NEW proxy, AfterProxy(t, proxy)
    PROVE  Effect(t)
  <1> DEFINE r == [task[t] EXCEPT !.pc = "dns", !.proxy = proxy]
  <1>1. CASE task' = [task EXCEPT ![t] = r] /\ row' = row
    <2>1. task[t] \in Task
      BY DEF TypeInv, TypeOK
    <2>2. r.cust = task[t].cust /\ r.hadRow = task[t].hadRow /\ r.port = task[t].port
      BY <2>1 DEF Task
    <2>3. QED
      BY <1>1, <2>2, MoveKnows
  <1>2. CASE Record(t, proxy)
    BY <1>2, RecordKnows
  <1>3. QED
    BY <1>1, <1>2 DEF AfterProxy

\* The last step of an undeployment removes the row; a reinstall that goes on
\* with Prepare starts without one.
LEMMA UndeployedKnows ==
    ASSUME TypeInv, NEW t \in Tasks, task[t] # NULL, Undeployed(t)
    PROVE  Effect(t)
  <1> DEFINE c == Cust(t)
             rows == [row EXCEPT ![c] = NULL]
  <1>1. task[t] \in Task /\ c \in Customers /\ c = task[t].cust
    BY DEF TypeInv, TypeOK, Task, Cust
  <1>2. PICK dirs : (row' = rows /\ End(t)) \/ Prepare(t, rows, dirs)
    BY <1>1 DEF Undeployed, TypeInv, TypeOK
  <1>3. rows \in [Customers -> Row \cup {NULL}] /\ rows[c] = NULL
    BY <1>1 DEF TypeInv, TypeOK
  <1>4. row' = rows /\ Continues(t) /\ RowKnown(t)'
    <2>1. CASE row' = rows /\ End(t)
      BY <2>1 DEF End, Continues, RowKnown, TypeInv, TypeOK
    <2>2. CASE Prepare(t, rows, dirs)
      BY <1>3, <2>2, PrepareKnows
    <2>3. QED
      BY <1>2, <2>1, <2>2
  <1>5. \A d \in Customers \ {c} : row'[d] = row[d]
    BY <1>4 DEF TypeInv, TypeOK
  <1>6. QED
    BY <1>1, <1>3, <1>4, <1>5 DEF Effect, KeepsPort
\* Every step of a deployment has the effect.
LEMMA DeployKnows ==
    ASSUME TypeInv, NEW t \in Tasks, RowKnown(t), DeployStep(t)
    PROVE  task[t] # NULL /\ Effect(t)
  <1>0. task[t] # NULL
    BY DEF DeployStep, BeginDeploy, DownForRedeploy, ResumeAfterDown, UpSucceeds, UpFails, ResumeAfterUp,
           CreateProxyHost, ResumeAfterProxy, CreateDnsRecord, ResumeAfterDns, RollbackDown,
           RollbackFiles, At
  <1>1. CASE BeginDeploy(t)
    <2>1. CASE Prepare(t, row, files)
      <3>1. row' = row /\ Continues(t) /\ RowKnown(t)'
        BY <1>0, <2>1, PrepareKnows DEF TypeInv, TypeOK
      <3>2. QED
        BY <1>0, <3>1 DEF Effect, KeepsPort
    <2>2. QED
      BY <1>0, <1>1, <2>1, EndKnows DEF BeginDeploy
  <1>2. CASE DownForRedeploy(t)
    BY <1>0, <1>2, GoKnows DEF DownForRedeploy, At, WithPort
  <1>r. CASE ResumeAfterDown(t)
    <2>1. PICK broken \in BOOLEAN :
             task' = [task EXCEPT ![t] = [@ EXCEPT !.pc = "up", !.broken = broken]]
      BY <1>r DEF ResumeAfterDown
    <2> DEFINE r == [task[t] EXCEPT !.pc = "up", !.broken = broken]
    <2>2. task[t] \in Task /\ task[t].pc \in WithPort
      BY <1>0, <1>r DEF TypeInv, TypeOK, ResumeAfterDown, At, WithPort
    <2>3. r.cust = task[t].cust /\ r.hadRow = task[t].hadRow /\ r.port = task[t].port
      BY <2>2 DEF Task
    <2>4. QED
      BY <1>0, <1>r, <2>1, <2>2, <2>3, MoveKnows DEF ResumeAfterDown
  <1>3. CASE UpSucceeds(t) \/ UpFails(t)
    BY <1>0, <1>3, GoKnows DEF UpSucceeds, UpFails, At, WithPort
  <1>4. CASE ResumeAfterUp(t)
    <2>1. task[t].pc \in WithPort
      BY <1>4 DEF ResumeAfterUp, At, WithPort
    <2>2. QED
      BY <1>0, <1>4, <2>1, LogFailsKnows, AfterProxyKnows, GoKnows DEF ResumeAfterUp
  <1>5. CASE CreateProxyHost(t)
    <2>1. PICK told \in BOOLEAN :
             task' = [task EXCEPT ![t] = [@ EXCEPT !.pc = "npmed", !.proxy = told]]
      BY <1>5 DEF CreateProxyHost
    <2> DEFINE r == [task[t] EXCEPT !.pc = "npmed", !.proxy = told]
    <2>2. task[t] \in Task /\ task[t].pc \in WithPort
      BY <1>0, <1>5 DEF TypeInv, TypeOK, CreateProxyHost, At, WithPort
    <2>3. r.cust = task[t].cust /\ r.hadRow = task[t].hadRow /\ r.port = task[t].port
      BY <2>2 DEF Task
    <2>4. QED
      BY <1>0, <1>5, <2>1, <2>2, <2>3, MoveKnows DEF CreateProxyHost
  <1>6. CASE ResumeAfterProxy(t)
    <2>1. task[t].pc \in WithPort
      BY <1>6 DEF ResumeAfterProxy, At, WithPort
    <2>2. QED
      BY <1>0, <1>6, <2>1, LogFailsKnows, AfterProxyKnows DEF ResumeAfterProxy
  <1>7. CASE CreateDnsRecord(t)
    BY <1>0, <1>7, GoKnows DEF CreateDnsRecord, At, WithPort
  <1>8. CASE ResumeAfterDns(t)
    <2>1. task[t].pc \in WithPort
      BY <1>8 DEF ResumeAfterDns, At, WithPort
    <2>2. QED
      BY <1>0, <1>8, <2>1, LogFailsKnows, RecordKnows DEF ResumeAfterDns
  <1>9. CASE RollbackDown(t)
    BY <1>0, <1>9, GoKnows DEF RollbackDown, WithPort
  <1>10. CASE RollbackFiles(t)
    BY <1>0, <1>10, EndKnows DEF RollbackFiles
  <1>11. QED
    BY <1>0, <1>1, <1>2, <1>r, <1>3, <1>4, <1>5, <1>6, <1>7, <1>8, <1>9, <1>10 DEF DeployStep

\* Every step of an undeployment has the effect.
LEMMA UndeployKnows ==
    ASSUME TypeInv, NEW t \in Tasks, RowKnown(t), UndeployStep(t)
    PROVE  task[t] # NULL /\ Effect(t)
  <1>0. task[t] # NULL
    BY DEF UndeployStep, BeginUndeploy, DeleteWithoutRow, DownForUndeploy, ResumeUndeploy,
           DeleteProxyHost, ResumeAfterProxyDelete, DeleteDnsRecord, FinishUndeploy, At
  <1>1. ASSUME NEW pc \in UndeployPcs, Go(t, pc), row' = row PROVE Effect(t)
    BY <1>0, <1>1, GoKnows DEF UndeployPcs, WithPort
  <1>2. ASSUME End(t), row' = row PROVE Effect(t)
    BY <1>0, <1>2, EndKnows
  <1>3. CASE Undeployed(t)
    BY <1>0, <1>3, UndeployedKnows
  <1>4. QED
    BY <1>0, <1>1, <1>2, <1>3
       DEF UndeployStep, BeginUndeploy, DeleteWithoutRow, DownForUndeploy, ResumeUndeploy,
           DeleteProxyHost, ResumeAfterProxyDelete, DeleteDnsRecord, FinishUndeploy,
           RemoveDns, Abort, UndeployPcs

\* So have start, stop and restart, which write the status of the row.
LEMMA ControlKnows ==
    ASSUME TypeInv, NEW t \in Tasks, RowKnown(t), ComposeControl(t) \/ ResumeControl(t)
    PROVE  task[t] # NULL /\ Effect(t)
  <1>0. task[t] # NULL
    BY DEF ComposeControl, ResumeControl, At
  <1>1. CASE ComposeControl(t)
    <2>1. PICK ok \in BOOLEAN :
             task' = [task EXCEPT ![t] = [@ EXCEPT !.pc = "controlled", !.ok = ok]]
      BY <1>1 DEF ComposeControl
    <2> DEFINE r == [task[t] EXCEPT !.pc = "controlled", !.ok = ok]
    <2>2. task[t] \in Task
      BY <1>0 DEF TypeInv, TypeOK
    <2>3. r.cust = task[t].cust /\ r.pc = "controlled"
      BY <2>2 DEF Task
    <2>4. QED
      BY <1>0, <1>1, <2>1, <2>3, MoveKnows DEF ComposeControl, WithPort
  <1>2. CASE ResumeControl(t)
    <2> DEFINE c == task[t].cust
    <2>1. c \in Customers /\ c = Cust(t)
      BY <1>0 DEF TypeInv, TypeOK, Task, Cust
    <2>2. row' = row \/ row' = [row EXCEPT ![c].status = RowStatusAfter(task[t].op)]
      BY <1>2, <2>1 DEF ResumeControl
    <2>3. (\A d \in Customers \ {c} : row'[d] = row[d]) /\ KeepsPort(c)
      BY <2>1, <2>2 DEF KeepsPort, Row, TypeInv, TypeOK
    <2>4. Continues(t) /\ RowKnown(t)'
      BY <1>2 DEF ResumeControl, End, Continues, RowKnown, TypeInv, TypeOK
    <2>5. QED
      BY <1>0, <2>3, <2>4 DEF Effect
  <1>3. QED
    BY <1>0, <1>1, <1>2

\* So have the steps with a refused commit: one that has been made before it
\* wrote the port the row had.
LEMMA RefusedKnows ==
    ASSUME TypeInv, NEW t \in Tasks, RowKnown(t), Refused(t)
    PROVE  task[t] # NULL /\ Effect(t)
  <1> DEFINE c == Cust(t)
             r(pc) == [task[t] EXCEPT !.pc = pc, !.broken = TRUE]
  <1>0. task[t] # NULL
    BY DEF Refused, RefusedBegin, RefusedLog, RefusedSuccess, Complete, RefusedRollback,
           RefusedUndeploy, RefusedControl, At
  <1>1. task[t] \in Task /\ c \in Customers /\ c = task[t].cust
    BY <1>0 DEF TypeInv, TypeOK, Task, Cust
  <1>2. \A pc : /\ r(pc).cust = task[t].cust /\ r(pc).pc = pc
               /\ r(pc).hadRow = task[t].hadRow /\ r(pc).port = task[t].port
    BY <1>1 DEF Task
  <1>e. ASSUME End(t), row' = row PROVE Effect(t)
    BY <1>0, <1>e, EndKnows
  <1>3. CASE RefusedLog(t)
    <2>1. \E pc \in {"up", "undo"} : Break(t, pc)
      BY <1>3 DEF RefusedLog
    <2>2. PICK pc \in {"up", "undo"} : task' = [task EXCEPT ![t] = r(pc)]
      BY <2>1 DEF Break
    <2>4. task[t].pc \in WithPort /\ row' = row
      BY <1>3 DEF RefusedLog, At, WithPort
    <2> HIDE DEF r
    <2>3. QED
      BY <1>0, <1>2, <2>2, <2>4, MoveKnows
  <1>4. CASE RefusedSuccess(t)
    <2>1. task' = [task EXCEPT ![t] = r("undo")]
      BY <1>4 DEF RefusedSuccess, Break
    <2>2. task'[t] = r("undo")
      BY <2>1 DEF TypeInv, TypeOK
    <2>3. Continues(t) /\ RowKnown(t)'
      <3>1. r("undo").cust = task[t].cust /\ r("undo").pc = "undo"
        BY <1>2
      <3> HIDE DEF r
      <3>2. Continues(t)
        BY <2>1, <3>1 DEF Continues
      <3>3. RowKnown(t)'
        BY <2>2, <3>1 DEF RowKnown, WithPort
      <3>4. QED
        BY <3>2, <3>3
    <2>4. PICK proxy \in BOOLEAN :
             row' = [row EXCEPT ![Cust(t)] =
                        [port |-> task[t].port, npm |-> proxy, status |-> "running"]]
      BY <1>4 DEF RefusedSuccess, Write
    <2>p. task[t].pc \in WithPort
      BY <1>4 DEF RefusedSuccess, Complete, At, WithPort
    <2>5. row[c] # NULL => row[c].port = task[t].port
      BY <1>0, <1>1, <2>p DEF RowKnown
    <2>7. \A d \in Customers \ {c} : row'[d] = row[d]
      BY <2>4 DEF TypeInv, TypeOK
    <2>8. row'[c] = [port |-> task[t].port, npm |-> proxy, status |-> "running"]
      BY <1>1, <2>4 DEF TypeInv, TypeOK
    <2>9. KeepsPort(c)
      BY <2>5, <2>8 DEF KeepsPort
    <2>6. QED
      BY <1>0, <1>1, <2>3, <2>7, <2>9 DEF Effect
  <1>5. CASE RefusedUndeploy(t)
    <2>1. \A d \in Customers \ {c} : row'[d] = row[d]
      BY <1>5 DEF RefusedUndeploy, TypeInv, TypeOK
    <2>2. KeepsPort(c)
      BY <1>1, <1>5 DEF RefusedUndeploy, KeepsPort, TypeInv, TypeOK
    <2>3. Continues(t) /\ RowKnown(t)'
      BY <1>5 DEF RefusedUndeploy, End, Continues, RowKnown, TypeInv, TypeOK
    <2>4. QED
      BY <1>0, <1>1, <2>1, <2>2, <2>3 DEF Effect
  <1>6. QED
    BY <1>0, <1>e, <1>3, <1>4, <1>5
       DEF Refused, RefusedBegin, RefusedRollback, RefusedControl

\* The effect on one task and its row keeps the invariant for all tasks, and
\* the port of every row.
LEMMA EffectKeeps ==
    ASSUME TypeInv, PortInv, NEW t \in Tasks, task[t] # NULL, Effect(t)
    PROVE  PortInv' /\ \A c \in Customers : KeepsPort(c)
  <1>1. PICK r : task' = [task EXCEPT ![t] = r] /\ (r # NULL => r.cust = task[t].cust)
    BY DEF Effect, Continues
  <1>2. /\ task'[t] = r
        /\ \A u \in Tasks \ {t} : task'[u] = task[u]
    BY <1>1 DEF TypeInv, TypeOK
  <1>3. OneTaskEach'
    BY <1>1, <1>2 DEF PortInv, OneTaskEach
  <1>4. ASSUME NEW u \in Tasks PROVE RowKnown(u)'
    <2>1. CASE u = t
      BY <2>1 DEF Effect
    <2>2. CASE u # t /\ task[u] # NULL
      <3>1. task[u].cust \in Customers /\ task[u].cust # task[t].cust
        BY <2>2 DEF PortInv, OneTaskEach, TypeInv, TypeOK, Task
      <3>2. row'[task[u].cust] = row[task[u].cust]
        BY <3>1 DEF Effect
      <3>3. QED
        BY <1>2, <2>2, <3>2 DEF PortInv, RowKnown
    <2>3. CASE u # t /\ task[u] = NULL
      BY <1>2, <2>3 DEF RowKnown
    <2>4. QED
      BY <2>1, <2>2, <2>3
  <1>5. \A c \in Customers : KeepsPort(c)
    BY DEF Effect, KeepsPort
  <1>6. QED
    BY <1>3, <1>4, <1>5 DEF PortInv

\* Without overlap every step keeps the invariant, and every port.
LEMMA PortStep ==
    ASSUME Overlap = FALSE, TypeInv, PortInv, [Next]_vars
    PROVE  PortInv' /\ \A c \in Customers : KeepsPort(c)
  <1>0. CASE task' = task /\ row' = row
    BY <1>0 DEF PortInv, OneTaskEach, RowKnown, KeepsPort
  <1>1. ASSUME NEW t \in Tasks, NEW c \in Customers, Request(t, c)
        PROVE  PortInv' /\ \A d \in Customers : KeepsPort(d)
    <2>1. task[t] = NULL /\ \A u \in Tasks : task[u] # NULL => task[u].cust # c
      BY <1>1 DEF Request, Create, ManualDeploy, Delete, Control, Free, Busy
    <2>2. row' = row
      BY <1>1 DEF Request, Create, ManualDeploy, Delete, Control
    <2>3. PICK r : task' = [task EXCEPT ![t] = r] /\ r.cust = c /\ r.pc \in {"queued", "control"}
      BY <1>1 DEF Request, Create, ManualDeploy, Delete, Control, NewTask
    <2>4. task'[t] = r /\ \A u \in Tasks \ {t} : task'[u] = task[u]
      BY <2>3 DEF TypeInv, TypeOK
    <2>5. OneTaskEach'
      BY <2>1, <2>3, <2>4 DEF PortInv, OneTaskEach
    <2>6. \A u \in Tasks : RowKnown(u)'
      BY <2>2, <2>3, <2>4 DEF PortInv, RowKnown, WithPort
    <2>7. QED
      BY <2>2, <2>5, <2>6 DEF PortInv, KeepsPort
  <1>2. ASSUME NEW t \in Tasks, Step(t) PROVE PortInv' /\ \A d \in Customers : KeepsPort(d)
    <2>1. RowKnown(t)
      BY DEF PortInv
    <2>2. task[t] # NULL /\ Effect(t)
      BY <1>2, <2>1, DeployKnows, UndeployKnows, ControlKnows, RefusedKnows DEF Step
    <2>3. QED
      BY <2>2, EffectKeeps
  <1>3. ASSUME NEW c \in Customers, CheckHealth(c)
        PROVE  PortInv' /\ \A d \in Customers : KeepsPort(d)
    <2>1. row[c] # NULL /\ row[c] \in Row /\ task' = task
      BY <1>3 DEF CheckHealth, TypeInv, TypeOK
    <2>2. PICK s : row' = [row EXCEPT ![c].status = s]
      BY <1>3 DEF CheckHealth
    <2>3. TypeInv'
      BY <1>3, CheckHealthType
    <2>4. /\ row'[c] = [row[c] EXCEPT !.status = s]
          /\ \A d \in Customers \ {c} : row'[d] = row[d]
      BY <2>2 DEF TypeInv, TypeOK
    <2>5. [row[c] EXCEPT !.status = s].port = row[c].port
      BY <2>1 DEF Row
    <2>6. row'[c] # NULL
      <3>1. PICK z \in DeploymentStatuses : row'[c] = [row[c] EXCEPT !.status = z]
        BY <1>3 DEF CheckHealth, DeploymentStatuses, TypeInv, TypeOK
      <3>2. [row[c] EXCEPT !.status = z] \in Row
        BY <2>1 DEF Row
      <3>3. QED
        BY <3>1, <3>2, RowAssumption
    <2>7. \A d \in Customers : SameRow(d)
      BY <2>1, <2>4, <2>5, <2>6 DEF SameRow
    <2>8. \A u \in Tasks : RowKnown(u)'
      BY <2>1, <2>7 DEF PortInv, RowKnown, SameRow, TypeInv, TypeOK, Task
    <2>9. QED
      BY <2>1, <2>7, <2>8 DEF PortInv, OneTaskEach, KeepsPort, SameRow
  <1>4. ASSUME NEW c \in Customers, UpdateCustomer(c) PROVE task' = task /\ row' = row
    BY <1>4 DEF UpdateCustomer
  <1>5. ASSUME Crash
        PROVE  PortInv' /\ \A d \in Customers : KeepsPort(d)
    BY <1>5 DEF Crash, PortInv, OneTaskEach, RowKnown, KeepsPort
  <1>6. QED
    BY <1>0, <1>1, <1>2, <1>3, <1>4, <1>5 DEF Next, vars

\* Whatever fails, and whatever the deployments of other customers do, no
\* redeploy or restart moves a customer to another port: deploy_customer keeps
\* the row's port, and writes back the port it read before its awaits.
THEOREM PortNeverMoves ==
    ASSUME Overlap = FALSE
    PROVE  Spec => PortIsStable
  <1>1. Init => PortInv
    BY DEF Init, PortInv, OneTaskEach, RowKnown
  <1>2. TypeInv /\ PortInv /\ [Next]_vars => PortInv'
    BY PortStep
  <1>3. TypeInv /\ PortInv /\ [Next]_vars =>
           [\A c \in Customers : row[c] # NULL /\ row'[c] # NULL => row'[c].port = row[c].port]_vars
    BY PortStep DEF KeepsPort
  <1>4. QED
    BY <1>1, <1>2, <1>3, TypeAlways, PTL DEF Spec, PortIsStable
-----------------------------------------------------------------------------
(* Ports are unique.  As long as one task at a time has a port to record    *)
(* (SolePort), nothing takes the port that a deployment has allocated       *)
(* before it is in the table (TaskPort), and the rows differ in their ports *)
(* (RowsDiffer).                                                            *)

OneTask == \A t, u \in Tasks : t = u

\* No two tasks have a port to record.
SolePort ==
    \A t, u \in Tasks :
        task[t] # NULL /\ task[t].port # NULL /\ task[u] # NULL /\ task[u].port # NULL => t = u
RowsDiffer ==
    \A c, d \in Customers :
        row[c] # NULL /\ row[d] # NULL /\ row[c].port = row[d].port => c = d
TaskPort(t) ==
    task[t] # NULL /\ task[t].port # NULL =>
        \A d \in Customers \ {task[t].cust} : row[d] # NULL => row[d].port # task[t].port
UniqueInv == RowsDiffer /\ \A t \in Tasks : TaskPort(t)

\* rows has no row, and no port, that the table does not have.
Shrinks(rows) ==
    \A d \in Customers : rows[d] # NULL => row[d] # NULL /\ rows[d].port = row[d].port

\* A step of task t that adds no row and allocates no port.
Quiet(t) ==
    /\ Shrinks(row')
    /\ \E r : /\ task' = [task EXCEPT ![t] = r]
              /\ r # NULL => r.cust = task[t].cust /\ r.port = task[t].port

\* Rows that shrink still differ.
LEMMA ShrinkDiffers ==
    ASSUME RowsDiffer, Shrinks(row')
    PROVE  RowsDiffer'
  BY DEF RowsDiffer, Shrinks

\* Such a step keeps the invariant.
LEMMA QuietUnique ==
    ASSUME TypeInv, UniqueInv, NEW t \in Tasks, task[t] # NULL, Quiet(t)
    PROVE  UniqueInv'
  <1>1. PICK r : /\ task' = [task EXCEPT ![t] = r]
                 /\ r # NULL => r.cust = task[t].cust /\ r.port = task[t].port
    BY DEF Quiet
  <1>2. task'[t] = r
    BY <1>1 DEF TypeInv, TypeOK
  <1>3. RowsDiffer'
    BY ShrinkDiffers DEF UniqueInv, Quiet
  <1>4. TaskPort(t)'
    BY <1>1, <1>2 DEF UniqueInv, TaskPort, Quiet, Shrinks
  <1>5. ASSUME NEW u \in Tasks, u # t PROVE TaskPort(u)'
    <2>1. task'[u] = task[u]
      BY <1>1, <1>5 DEF TypeInv, TypeOK
    <2>2. QED
      BY <2>1 DEF UniqueInv, TaskPort, Quiet, Shrinks
  <1>6. QED
    BY <1>3, <1>4, <1>5 DEF UniqueInv

\* Moving on to another position is such a step.
LEMMA GoQuiet ==
    ASSUME TypeInv, NEW t \in Tasks, task[t] # NULL, NEW pc, Go(t, pc), row' = row
    PROVE  Quiet(t)
  <1> DEFINE r == [task[t] EXCEPT !.pc = pc]
  <1>1. task[t] \in Task
    BY DEF TypeInv, TypeOK
  <1>2. r.cust = task[t].cust /\ r.port = task[t].port
    BY <1>1 DEF Task
  <1>3. task' = [task EXCEPT ![t] = r]
    BY DEF Go
  <1>4. QED
    BY <1>2, <1>3 DEF Quiet, Shrinks

\* So is the end of a task that removes rows at most.
LEMMA EndQuiet ==
    ASSUME NEW t \in Tasks, End(t), Shrinks(row')
    PROVE  Quiet(t)
  BY DEF Quiet, End

\* So is a log row that raises.
LEMMA LogFailsQuiet ==
    ASSUME TypeInv, NEW t \in Tasks, task[t] # NULL, LogFails(t)
    PROVE  Quiet(t)
  <1> DEFINE r == [task[t] EXCEPT !.pc = "undo", !.broken = TRUE]
  <1>1. task[t] \in Task
    BY DEF TypeInv, TypeOK
  <1>2. r.cust = task[t].cust /\ r.port = task[t].port
    BY <1>1 DEF Task
  <1>3. task' = [task EXCEPT ![t] = r] /\ row' = row
    BY DEF LogFails, Break
  <1>4. QED
    BY <1>2, <1>3 DEF Quiet, Shrinks

\* The port deploy_customer goes on with is in no other row: it is the row's
\* own, or allocate_port found it in none.
LEMMA PortIsFree ==
    ASSUME TypeInv, RowsDiffer, NEW c \in Customers, NEW rows, Shrinks(rows),
           NEW p \in PortsFor(c, rows)
    PROVE  \A d \in Customers \ {c} : rows[d] # NULL => rows[d].port # p
  BY DEF PortsFor, AllocatedPorts, FreePorts, RowsDiffer, Shrinks

\* So the step that allocates it keeps the invariant.
LEMMA PrepareUnique ==
    ASSUME TypeInv, UniqueInv, NEW t \in Tasks, task[t] # NULL,
           NEW rows \in [Customers -> Row \cup {NULL}], Shrinks(rows),
           NEW dirs, Prepare(t, rows, dirs)
    PROVE  UniqueInv'
  <1> DEFINE c == Cust(t)
             next(p) == [task[t] EXCEPT
                           !.pc = IF rows[c] # NULL THEN "down" ELSE "up",
                           !.port = p, !.hadRow = rows[c] # NULL, !.made = TRUE,
                           !.hadData = dirs[c].data # NULL]
  <1>1. task[t] \in Task /\ c \in Customers /\ c = task[t].cust
    BY DEF TypeInv, TypeOK, Task, Cust
  <1>2. row' = rows /\ RowsDiffer
    BY DEF Prepare, UniqueInv
  <1>3. ASSUME NEW p \in PortsFor(c, rows), NEW r, r.cust = c, r.port = p,
               task' = [task EXCEPT ![t] = r]
        PROVE  UniqueInv'
    <2>1. task'[t] = r
      BY <1>3 DEF TypeInv, TypeOK
    <2>2. \A d \in Customers \ {c} : rows[d] # NULL => rows[d].port # p
      BY <1>1, <1>2, PortIsFree
    <2>3. TaskPort(t)'
      BY <1>2, <1>3, <2>1, <2>2 DEF TaskPort
    <2>4. RowsDiffer'
      BY <1>2, ShrinkDiffers
    <2>5. ASSUME NEW u \in Tasks, u # t PROVE TaskPort(u)'
      <3>1. task'[u] = task[u]
        BY <1>3, <2>5 DEF TypeInv, TypeOK
      <3>2. QED
        BY <1>2, <3>1 DEF UniqueInv, TaskPort, Shrinks
    <2>6. QED
      BY <2>3, <2>4, <2>5 DEF UniqueInv
  <1>4. CASE Go(t, "undo")
    <2> DEFINE r == [task[t] EXCEPT !.pc = "undo"]
    <2>1. task' = [task EXCEPT ![t] = r] /\ r.cust = task[t].cust /\ r.port = task[t].port
      BY <1>1, <1>4 DEF Go, Task
    <2>2. Quiet(t)
      BY <1>2, <2>1 DEF Quiet, Shrinks
    <2>3. QED
      BY <2>2, QuietUnique
  <1>5. ASSUME NEW p \in PortsFor(c, rows), task' = [task EXCEPT ![t] = next(p)]
        PROVE  UniqueInv'
    <2>1. next(p).cust = c /\ next(p).port = p
      BY <1>1 DEF Task
    <2>2. QED
      BY <1>3, <1>5, <2>1
  <1>6. CASE BreaksOff(t, rows, dirs)
    <2>1. PICK r \in Task, p \in PortsFor(c, rows) :
             task' = [task EXCEPT ![t] = r] /\ r.cust = task[t].cust /\ r.port = p
      BY <1>6, BreaksOffShape
    <2>2. QED
      BY <1>1, <1>3, <2>1
  <1>7. QED
    BY <1>4, <1>5, <1>6 DEF Prepare

\* The commit of a deployment inserts the port only if no other row has it.
LEMMA RecordUnique ==
    ASSUME TypeInv, SolePort, UniqueInv, NEW t \in Tasks, task[t] # NULL, task[t].port # NULL,
           NEW proxy, Record(t, proxy)
    PROVE  UniqueInv'
  <1> DEFINE c == Cust(t)
  <1>1. c \in Customers
    BY DEF TypeInv, TypeOK, Task, Cust
  <1>2. ASSUME \A d \in Customers \ {c} : row[d] # NULL => row[d].port # task[t].port,
               row' = [row EXCEPT ![c] =
                         [port |-> task[t].port, npm |-> proxy, status |-> "running"]],
               End(t)
        PROVE  UniqueInv'
    <2>1. /\ row'[c].port = task[t].port
          /\ \A d \in Customers \ {c} : row'[d] = row[d]
      BY <1>1, <1>2 DEF TypeInv, TypeOK
    <2>2. RowsDiffer'
      BY <1>2, <2>1 DEF UniqueInv, RowsDiffer
    <2>3. task'[t] = NULL
      BY <1>2 DEF End, TypeInv, TypeOK
    <2>4. ASSUME NEW u \in Tasks, u # t PROVE TaskPort(u)'
      <3>1. task'[u] = task[u]
        BY <1>2, <2>4 DEF End, TypeInv, TypeOK
      <3>2. task[u] # NULL => task[u].port = NULL
        BY <2>4 DEF SolePort
      <3>3. QED
        BY <3>1, <3>2 DEF TaskPort
    <2>5. QED
      BY <2>2, <2>3, <2>4 DEF UniqueInv, TaskPort
  <1>3. ASSUME task' = [task EXCEPT ![t] = [@ EXCEPT !.pc = "undo", !.broken = TRUE]],
               row' = row
        PROVE  UniqueInv'
    <2> DEFINE r == [task[t] EXCEPT !.pc = "undo", !.broken = TRUE]
    <2>1. task[t] \in Task
      BY DEF TypeInv, TypeOK
    <2>2. r.cust = task[t].cust /\ r.port = task[t].port
      BY <2>1 DEF Task
    <2>3. Quiet(t)
      BY <1>3, <2>2 DEF Quiet, Shrinks
    <2>4. QED
      BY <2>3, QuietUnique
  <1>4. QED
    BY <1>2, <1>3 DEF Record, Conflict, Write, Break

\* So the step after the proxy host keeps it.
LEMMA AfterProxyUnique ==
    ASSUME TypeInv, SolePort, UniqueInv, NEW t \in Tasks, task[t] # NULL, task[t].port # NULL,
           NEW proxy, AfterProxy(t, proxy)
    PROVE  UniqueInv'
  <1>1. ASSUME task' = [task EXCEPT ![t] = [@ EXCEPT !.pc = "dns", !.proxy = proxy]],
               row' = row
        PROVE  UniqueInv'
    <2> DEFINE r == [task[t] EXCEPT !.pc = "dns", !.proxy = proxy]
    <2>1. task[t] \in Task
      BY DEF TypeInv, TypeOK
    <2>2. r.cust = task[t].cust /\ r.port = task[t].port
      BY <2>1 DEF Task
    <2>3. Quiet(t)
      BY <1>1, <2>2 DEF Quiet, Shrinks
    <2>4. QED
      BY <2>3, QuietUnique
  <1>2. QED
    BY <1>1, RecordUnique DEF AfterProxy

\* Every step of a deployment keeps the ports unique.
LEMMA DeployUnique ==
    ASSUME TypeInv, SolePort, UniqueInv, NEW t \in Tasks, DeployStep(t)
    PROVE  UniqueInv'
  <1>0. task[t] # NULL /\ task[t] \in Task
    BY DEF DeployStep, BeginDeploy, DownForRedeploy, ResumeAfterDown, UpSucceeds, UpFails, ResumeAfterUp,
           CreateProxyHost, ResumeAfterProxy, CreateDnsRecord, ResumeAfterDns, RollbackDown,
           RollbackFiles, At, TypeInv, TypeOK
  <1>g. ASSUME NEW pc, Go(t, pc), row' = row PROVE UniqueInv'
    BY <1>0, <1>g, GoQuiet, QuietUnique
  <1>e. ASSUME End(t), row' = row PROVE UniqueInv'
    BY <1>0, <1>e, EndQuiet, QuietUnique DEF Shrinks
  <1>l. LogFails(t) => UniqueInv'
    BY <1>0, LogFailsQuiet, QuietUnique
  <1>1. CASE BeginDeploy(t)
    <2>1. Shrinks(row) /\ row \in [Customers -> Row \cup {NULL}]
      BY DEF Shrinks, TypeInv, TypeOK
    <2>2. QED
      BY <1>0, <1>1, <1>e, <2>1, PrepareUnique DEF BeginDeploy
  <1>2. CASE DownForRedeploy(t) \/ UpSucceeds(t) \/ UpFails(t) \/ CreateDnsRecord(t) \/ RollbackDown(t)
    BY <1>2, <1>g DEF DownForRedeploy, UpSucceeds, UpFails, CreateDnsRecord, RollbackDown
  <1>3. CASE ResumeAfterDown(t)
    <2>1. PICK broken \in BOOLEAN :
             task' = [task EXCEPT ![t] = [@ EXCEPT !.pc = "up", !.broken = broken]]
      BY <1>3 DEF ResumeAfterDown
    <2> DEFINE r == [task[t] EXCEPT !.pc = "up", !.broken = broken]
    <2>2. r.cust = task[t].cust /\ r.port = task[t].port
      BY <1>0 DEF Task
    <2>3. row' = row
      BY <1>3 DEF ResumeAfterDown
    <2>4. Quiet(t)
      BY <2>1, <2>2, <2>3 DEF Quiet, Shrinks
    <2>5. QED
      BY <1>0, <2>4, QuietUnique
  <1>p. task[t].pc \in {"upped", "npmed", "dnsed"} => task[t].port # NULL
    BY <1>0, PortsAssumption DEF TypeInv, PortKnown, WithPort, Ports
  <1>4. CASE ResumeAfterUp(t)
    BY <1>0, <1>4, <1>g, <1>l, <1>p, AfterProxyUnique DEF ResumeAfterUp, At
  <1>5. CASE CreateProxyHost(t)
    <2>1. PICK told \in BOOLEAN :
             task' = [task EXCEPT ![t] = [@ EXCEPT !.pc = "npmed", !.proxy = told]]
      BY <1>5 DEF CreateProxyHost
    <2> DEFINE r == [task[t] EXCEPT !.pc = "npmed", !.proxy = told]
    <2>2. r.cust = task[t].cust /\ r.port = task[t].port
      BY <1>0 DEF Task
    <2>3. row' = row
      BY <1>5 DEF CreateProxyHost
    <2>4. Quiet(t)
      BY <2>1, <2>2, <2>3 DEF Quiet, Shrinks
    <2>5. QED
      BY <1>0, <2>4, QuietUnique
  <1>6. CASE ResumeAfterProxy(t)
    BY <1>0, <1>6, <1>l, <1>p, AfterProxyUnique DEF ResumeAfterProxy, At
  <1>7. CASE ResumeAfterDns(t)
    BY <1>0, <1>7, <1>l, <1>p, RecordUnique DEF ResumeAfterDns, At
  <1>8. CASE RollbackFiles(t)
    BY <1>8, <1>e DEF RollbackFiles
  <1>9. QED
    BY <1>1, <1>2, <1>3, <1>4, <1>5, <1>6, <1>7, <1>8 DEF DeployStep

\* Every step of an undeployment only removes rows.
LEMMA UndeployUnique ==
    ASSUME TypeInv, UniqueInv, NEW t \in Tasks, UndeployStep(t)
    PROVE  UniqueInv'
  <1> DEFINE rows == [row EXCEPT ![Cust(t)] = NULL]
  <1>0. task[t] # NULL
    BY DEF UndeployStep, BeginUndeploy, DeleteWithoutRow, DownForUndeploy, ResumeUndeploy,
           DeleteProxyHost, ResumeAfterProxyDelete, DeleteDnsRecord, FinishUndeploy, At
  <1>g. ASSUME NEW pc, Go(t, pc), row' = row PROVE UniqueInv'
    BY <1>0, <1>g, GoQuiet, QuietUnique
  <1>e. ASSUME End(t), row' = row PROVE UniqueInv'
    BY <1>0, <1>e, EndQuiet, QuietUnique DEF Shrinks
  <1>u. Undeployed(t) => UniqueInv'
    <2>1. Shrinks(rows) /\ rows \in [Customers -> Row \cup {NULL}]
      BY DEF Shrinks, TypeInv, TypeOK
    <2>2. ASSUME End(t), row' = rows PROVE UniqueInv'
      <3>1. Shrinks(row')
        BY <2>1, <2>2 DEF Shrinks
      <3>2. QED
        BY <1>0, <2>2, <3>1, EndQuiet, QuietUnique
    <2>3. ASSUME NEW dirs, Prepare(t, rows, dirs) PROVE UniqueInv'
      BY <1>0, <2>1, <2>3, PrepareUnique
    <2>4. QED
      BY <1>e, <2>2, <2>3 DEF Undeployed
  <1>1. QED
    BY <1>g, <1>e, <1>u
       DEF UndeployStep, BeginUndeploy, DeleteWithoutRow, DownForUndeploy, ResumeUndeploy,
           DeleteProxyHost, ResumeAfterProxyDelete, DeleteDnsRecord, FinishUndeploy,
           RemoveDns, Abort

\* A step that only writes statuses of rows.
LEMMA StatusShrinks ==
    ASSUME TypeInv, NEW c \in Customers, row[c] # NULL, NEW s,
           row' = [row EXCEPT ![c].status = s]
    PROVE  Shrinks(row')
  <1>1. row[c] \in Row
    BY DEF TypeInv, TypeOK
  <1>2. [row[c] EXCEPT !.status = s].port = row[c].port
    BY <1>1 DEF Row
  <1>3. row'[c] = [row[c] EXCEPT !.status = s] /\ \A d \in Customers \ {c} : row'[d] = row[d]
    BY DEF TypeInv, TypeOK
  <1>4. QED
    BY <1>2, <1>3 DEF Shrinks

\* Every step keeps the ports unique.
LEMMA UniqueStep ==
    ASSUME "db" \notin Faults, SolePort, TypeInv, UniqueInv, [Next]_vars
    PROVE  UniqueInv'
  <1>1. ASSUME NEW t \in Tasks, NEW c \in Customers, Request(t, c) PROVE UniqueInv'
    <2>1. row' = row
      BY <1>1 DEF Request, Create, ManualDeploy, Delete, Control
    <2>2. PICK r : task' = [task EXCEPT ![t] = r] /\ r.port = NULL
      BY <1>1 DEF Request, Create, ManualDeploy, Delete, Control, NewTask
    <2>3. task'[t] = r
      BY <2>2 DEF TypeInv, TypeOK
    <2>4. QED
      BY <2>1, <2>2, <2>3 DEF UniqueInv, RowsDiffer, SolePort, TaskPort
  <1>2. ASSUME NEW t \in Tasks, ComposeControl(t) PROVE UniqueInv'
    <2>1. PICK ok \in BOOLEAN :
             task' = [task EXCEPT ![t] = [@ EXCEPT !.pc = "controlled", !.ok = ok]]
      BY <1>2 DEF ComposeControl
    <2> DEFINE r == [task[t] EXCEPT !.pc = "controlled", !.ok = ok]
    <2>2. task[t] # NULL /\ task[t] \in Task /\ row' = row
      BY <1>2 DEF ComposeControl, At, TypeInv, TypeOK
    <2>3. r.cust = task[t].cust /\ r.port = task[t].port
      BY <2>2 DEF Task
    <2>4. Quiet(t)
      BY <2>1, <2>2, <2>3 DEF Quiet, Shrinks
    <2>5. QED
      BY <2>2, <2>4, QuietUnique
  <1>3. ASSUME NEW t \in Tasks, ResumeControl(t) PROVE UniqueInv'
    <2> DEFINE c == Cust(t)
    <2>1. task[t] # NULL /\ c \in Customers
      BY <1>3 DEF ResumeControl, At, TypeInv, TypeOK, Task, Cust
    <2>2. \/ row' = row
          \/ row[c] # NULL /\ row' = [row EXCEPT ![c].status = RowStatusAfter(task[t].op)]
      BY <1>3 DEF ResumeControl
    <2>3. Shrinks(row)
      BY DEF Shrinks
    <2>4. Shrinks(row')
      <3>1. CASE row' = row
        BY <3>1 DEF Shrinks
      <3>2. CASE row[c] # NULL /\ row' = [row EXCEPT ![c].status = RowStatusAfter(task[t].op)]
        BY <2>1, <3>2, StatusShrinks
      <3>3. QED
        BY <2>2, <3>1, <3>2
    <2>5. QED
      BY <1>3, <2>1, <2>4, EndQuiet, QuietUnique DEF ResumeControl
  <1>4. ASSUME NEW c \in Customers, CheckHealth(c) PROVE UniqueInv'
    <2>1. Shrinks(row')
      <3>1. PICK s : row' = [row EXCEPT ![c].status = s]
        BY <1>4 DEF CheckHealth
      <3>2. QED
        BY <1>4, <3>1, StatusShrinks DEF CheckHealth
    <2>2. RowsDiffer'
      BY <2>1, ShrinkDiffers DEF UniqueInv
    <2>3. \A t \in Tasks : TaskPort(t)'
      BY <1>4, <2>1 DEF CheckHealth, UniqueInv, TaskPort, Shrinks
    <2>4. QED
      BY <2>2, <2>3 DEF UniqueInv
  <1>5. CASE Crash
    BY <1>5 DEF Crash, UniqueInv, RowsDiffer, TaskPort
  <1>6. CASE row' = row /\ task' = task
    BY <1>6 DEF UniqueInv, RowsDiffer, TaskPort
  <1>7. QED
    BY <1>1, <1>2, <1>3, <1>4, <1>5, <1>6, DeployUnique, UndeployUnique, NoRefusal
       DEF Next, Step, UpdateCustomer, vars
=============================================================================
