------------------------ MODULE DeployLifecycle_proofs ------------------------
(***************************************************************************)
(* Theorems of DeployLifecycle, for any customers, tasks, keys, port range *)
(* and settings.                                                           *)
(***************************************************************************)
EXTENDS DeployLifecycle, TLAPS

-----------------------------------------------------------------------------
(* Type correctness.  TypeOK alone is not inductive: the row that a        *)
(* deployment writes takes its port from the task, so a task that has got  *)
(* that far must have one.                                                 *)

WithPort == {"down", "downed", "up", "upped", "npm", "npmed", "dns", "dnsed"}
PortKnown ==
    \A t \in Tasks : task[t] # NULL /\ task[t].pc \in WithPort => task[t].port \in Ports
TypeInv == TypeOK /\ PortKnown

\* A directory that rmtree has worked on is still a directory.
LEMMA RmtreeType ==
    ASSUME NEW f \in Dir
    PROVE  AfterRmtree(f) \subseteq Dir
  BY DEF AfterRmtree, Torn, Dir, NoDir

\* compose_down leaves a stack or none.
LEMMA DownType ==
    ASSUME TypeOK, NEW c \in Customers
    PROVE  AfterDown(c) \subseteq Stack \cup {NULL}
  BY DEF AfterDown, TypeOK

\* Every port deploy_customer goes on with is in the range.
LEMMA PortsForType ==
    ASSUME NEW rows \in [Customers -> Row \cup {NULL}], NEW c \in Customers
    PROVE  PortsFor(c, rows) \subseteq Ports
  BY DEF PortsFor, AllocatedPorts, FreePorts, Row

\* Every key deploy_customer renders is a key.
LEMMA KeysForType ==
    ASSUME NEW f \in Dir
    PROVE  KeysFor(f) \subseteq Keys
  BY DEF KeysFor, Dir

\* A step that replaces the record of one task.
LEMMA TaskStep ==
    ASSUME TypeInv, NEW t \in Tasks, NEW r \in Task \cup {NULL},
           r # NULL /\ r.pc \in WithPort => r.port \in Ports,
           task' = [task EXCEPT ![t] = r]
    PROVE  task' \in [Tasks -> Task \cup {NULL}] /\ PortKnown'
  BY DEF TypeInv, TypeOK, PortKnown

\* Go keeps the task's record, and needs a port to get that far.
LEMMA GoStep ==
    ASSUME TypeInv, NEW t \in Tasks, task[t] # NULL, NEW pc \in Pcs,
           pc \in WithPort => task[t].port \in Ports,
           Go(t, pc)
    PROVE  task' \in [Tasks -> Task \cup {NULL}] /\ PortKnown'
  <1>1. task[t] \in Task
    BY DEF TypeInv, TypeOK
  <1>2. /\ [task[t] EXCEPT !.pc = pc] \in Task
        /\ [task[t] EXCEPT !.pc = pc].pc = pc
        /\ [task[t] EXCEPT !.pc = pc].port = task[t].port
    BY <1>1 DEF Task
  <1>3. task' = [task EXCEPT ![t] = [task[t] EXCEPT !.pc = pc]]
    BY DEF Go
  <1>4. QED
    BY <1>2, <1>3, TaskStep

\* A task that ends needs nothing.
LEMMA EndStep ==
    ASSUME TypeInv, NEW t \in Tasks, End(t)
    PROVE  task' \in [Tasks -> Task \cup {NULL}] /\ PortKnown'
  BY TaskStep DEF End

\* A new background task is well typed.
LEMMA StartStep ==
    ASSUME TypeInv, NEW t \in Tasks, NEW c \in Customers, NEW op \in Operations,
           task' = [task EXCEPT ![t] = NewTask(op, c, "queued")]
    PROVE  task' \in [Tasks -> Task \cup {NULL}] /\ PortKnown'
  <1>1. NewTask(op, c, "queued") \in Task /\ NewTask(op, c, "queued").pc \notin WithPort
    BY DEF NewTask, Task, Pcs, DeployPcs, WithPort
  <1>2. QED
    BY <1>1, TaskStep

\* A task whose commit failed goes on, mostly to the rollback.
LEMMA BreakStep ==
    ASSUME TypeInv, NEW t \in Tasks, task[t] # NULL, NEW pc \in Pcs,
           pc \in WithPort => task[t].port \in Ports,
           Break(t, pc)
    PROVE  task' \in [Tasks -> Task \cup {NULL}] /\ PortKnown'
  <1>1. task[t] \in Task
    BY DEF TypeInv, TypeOK
  <1>2. /\ [task[t] EXCEPT !.pc = pc, !.broken = TRUE] \in Task
        /\ [task[t] EXCEPT !.pc = pc, !.broken = TRUE].pc = pc
        /\ [task[t] EXCEPT !.pc = pc, !.broken = TRUE].port = task[t].port
    BY <1>1 DEF Task
  <1>3. QED
    BY <1>1, <1>2, TaskStep DEF Break

\* A directory whose files are written in part is still a directory.
LEMMA HalfWrittenType ==
    ASSUME NEW f \in Dir, NEW p \in Ports, NEW k \in Keys
    PROVE  HalfWritten(f, p, k) \subseteq Dir
  BY DEF HalfWritten, Dir

\* Without refused commits none of the steps that follow one is taken.
LEMMA NoRefusal ==
    ASSUME "db" \notin Faults, NEW t
    PROVE  ~Refused(t)
  BY DEF Refused

\* A deployment that breaks off before its first await has a port and goes to the
\* rollback; without refused commits it has got as far as the directory.
LEMMA BreaksOffShape ==
    ASSUME TypeInv, NEW t \in Tasks, task[t] # NULL,
           NEW rows \in [Customers -> Row \cup {NULL}], NEW dirs,
           BreaksOff(t, rows, dirs)
    PROVE  \E r \in Task, p \in PortsFor(Cust(t), rows), k \in KeysFor(dirs[Cust(t)]) :
              /\ task' = [task EXCEPT ![t] = r]
              /\ r.op = task[t].op /\ r.cust = task[t].cust /\ r.pc = "undo" /\ r.port = p
              /\ r.hadRow <=> rows[Cust(t)] # NULL
              /\ r.hadData <=> dirs[Cust(t)].data # NULL
              /\ r.proxy <=> task[t].proxy
              /\ "db" \notin Faults => r.made /\ ~r.broken /\ "write" \in Faults
              /\ \E f \in HalfWritten(dirs[Cust(t)], p, k) : files' = [dirs EXCEPT ![Cust(t)] = f]
  <1> DEFINE c == Cust(t)
             had == dirs[c].data # NULL
             gone(p, made, broken) == [task[t] EXCEPT
                       !.pc = "undo", !.port = p, !.hadRow = rows[c] # NULL, !.made = made,
                       !.hadData = had, !.broken = broken]
  <1>1. PICK p \in PortsFor(c, rows), k \in KeysFor(dirs[c]), made, broken \in BOOLEAN :
               /\ broken \/ (made /\ "write" \in Faults)
               /\ broken => "db" \in Faults
               /\ \E f \in IF made THEN HalfWritten(dirs[c], p, k) ELSE {dirs[c]} :
                     files' = [dirs EXCEPT ![c] = f]
               /\ task' = [task EXCEPT ![t] = [@ EXCEPT
                       !.pc = "undo", !.port = p, !.hadRow = rows[c] # NULL, !.made = made,
                       !.hadData = dirs[c].data # NULL, !.broken = broken]]
    BY Zenon DEF BreaksOff
  <1>2. task[t] \in Task /\ c \in Customers
    BY DEF TypeInv, TypeOK, Task, Cust
  <1>3. p \in Ports
    BY <1>2, PortsForType
  <1>d. had \in BOOLEAN /\ (had <=> dirs[c].data # NULL)
    OBVIOUS
  <1>8. task' = [task EXCEPT ![t] = gone(p, made, broken)]
    BY <1>1
  <1>6. dirs[c] \in HalfWritten(dirs[c], p, k)
    BY DEF HalfWritten
  <1>7. PICK f \in HalfWritten(dirs[c], p, k) : files' = [dirs EXCEPT ![c] = f]
    BY <1>1, <1>6
  <1>9. "db" \notin Faults => made /\ ~broken /\ "write" \in Faults
    BY <1>1
  <1> HIDE DEF had
  <1>4. gone(p, made, broken) \in Task
    BY <1>2, <1>3, <1>d DEF Task, Pcs, DeployPcs
  <1>5. /\ gone(p, made, broken).op = task[t].op /\ gone(p, made, broken).cust = task[t].cust
        /\ gone(p, made, broken).pc = "undo" /\ gone(p, made, broken).port = p
        /\ gone(p, made, broken).hadRow <=> rows[c] # NULL
        /\ gone(p, made, broken).hadData <=> had
        /\ gone(p, made, broken).proxy <=> task[t].proxy
        /\ gone(p, made, broken).made <=> made
        /\ gone(p, made, broken).broken <=> broken
    BY <1>2, <1>d DEF Task
  <1> HIDE DEF gone
  <1>10. QED
    BY <1>4, <1>5, <1>7, <1>8, <1>9, <1>d

\* The first step of deploy_customer, with the rows and directories before it.
LEMMA PrepareType ==
    ASSUME TypeInv, NEW t \in Tasks, task[t] # NULL,
           NEW rows \in [Customers -> Row \cup {NULL}],
           NEW dirs \in [Customers -> Dir],
           Prepare(t, rows, dirs)
    PROVE  TypeInv'
  <1> DEFINE c == Cust(t)
             next(p) == [task[t] EXCEPT
                           !.pc = IF rows[c] # NULL THEN "down" ELSE "up",
                           !.port = p, !.hadRow = rows[c] # NULL, !.made = TRUE,
                           !.hadData = dirs[c].data # NULL]
             Rendered(p, k) ==
                 /\ files' = [dirs EXCEPT ![c] = [@ EXCEPT !.port = p, !.key = k]]
                 /\ task' = [task EXCEPT ![t] = [@ EXCEPT
                                !.pc = IF rows[c] # NULL THEN "down" ELSE "up",
                                !.port = p, !.hadRow = rows[c] # NULL, !.made = TRUE,
                                !.hadData = dirs[c].data # NULL]]
  <1>1. task[t] \in Task /\ c \in Customers
    BY DEF TypeInv, TypeOK, Task, Cust
  <1>2. customer' \in [Customers -> Statuses \cup {"absent"}] /\ row' \in [Customers -> Row \cup {NULL}]
    BY DEF Prepare, TypeInv, TypeOK, Statuses
  <1>3. stack' = stack /\ npm' = npm /\ dns' = dns
    BY DEF Prepare, outside
  <1>4. files' \in [Customers -> Dir] /\ task' \in [Tasks -> Task \cup {NULL}] /\ PortKnown'
    <2>1. CASE PortsFor(c, rows) = {} /\ files' = dirs /\ Go(t, "undo")
      BY <2>1, GoStep DEF Pcs, DeployPcs, WithPort
    <2>2. CASE \E p \in PortsFor(c, rows), k \in KeysFor(dirs[c]) : Rendered(p, k)
      <3>1. PICK p \in PortsFor(c, rows), k \in KeysFor(dirs[c]) : Rendered(p, k)
        BY <2>2
      <3>2. p \in Ports /\ k \in Keys
        BY <1>1, PortsForType, KeysForType
      <3>3. [dirs[c] EXCEPT !.port = p, !.key = k] \in Dir
        BY <1>1, <3>2 DEF Dir
      <3>4. next(p) \in Task /\ next(p).port = p
        BY <1>1, <3>2 DEF Task, Pcs, DeployPcs
      <3>5. task' = [task EXCEPT ![t] = next(p)]
        BY <3>1
      <3>6. task' \in [Tasks -> Task \cup {NULL}] /\ PortKnown'
        BY <3>2, <3>4, <3>5, TaskStep
      <3>7. files' \in [Customers -> Dir]
        BY <3>1, <3>3
      <3>8. QED
        BY <3>6, <3>7
    <2>3. CASE BreaksOff(t, rows, dirs)
      <3>1. PICK r \in Task, p \in PortsFor(c, rows), k \in KeysFor(dirs[c]) :
               /\ task' = [task EXCEPT ![t] = r] /\ r.pc = "undo"
               /\ \E f \in HalfWritten(dirs[c], p, k) : files' = [dirs EXCEPT ![c] = f]
        BY <2>3, BreaksOffShape
      <3>2. p \in Ports /\ k \in Keys /\ dirs[c] \in Dir
        BY <1>1, PortsForType, KeysForType
      <3>3. PICK f \in Dir : files' = [dirs EXCEPT ![c] = f]
        BY <3>1, <3>2, HalfWrittenType
      <3>4. task' \in [Tasks -> Task \cup {NULL}] /\ PortKnown'
        BY <3>1, TaskStep DEF WithPort
      <3>5. QED
        BY <3>3, <3>4
    <2>4. QED
      BY <2>1, <2>2, <2>3 DEF Prepare
  <1>5. QED
    BY <1>2, <1>3, <1>4 DEF TypeInv, TypeOK

\* The commit at the end of deploy_customer writes the task's port.
LEMMA RecordType ==
    ASSUME TypeInv, NEW t \in Tasks, task[t] # NULL, task[t].port \in Ports,
           NEW proxy \in BOOLEAN, Record(t, proxy)
    PROVE  TypeInv'
  <1> DEFINE c == Cust(t)
  <1>1. task[t] \in Task /\ c \in Customers
    BY DEF TypeInv, TypeOK, Task, Cust
  <1>2. [port |-> task[t].port, npm |-> proxy, status |-> "running"] \in Row
    BY <1>1 DEF Row, DeploymentStatuses
  <1>3. task' \in [Tasks -> Task \cup {NULL}] /\ PortKnown'
    BY EndStep, BreakStep DEF Record, Pcs, DeployPcs, WithPort
  <1>4. customer' \in [Customers -> Statuses \cup {"absent"}] /\ row' \in [Customers -> Row \cup {NULL}]
    BY <1>1, <1>2 DEF Record, Write, TypeInv, TypeOK, Statuses
  <1>5. files' = files /\ stack' = stack /\ npm' = npm /\ dns' = dns
    BY DEF Record, outside
  <1>6. QED
    BY <1>3, <1>4, <1>5 DEF TypeInv, TypeOK

\* The step after the proxy host waits for DNS or commits.
LEMMA AfterProxyType ==
    ASSUME TypeInv, NEW t \in Tasks, task[t] # NULL, task[t].port \in Ports,
           NEW proxy \in BOOLEAN, AfterProxy(t, proxy)
    PROVE  TypeInv'
  <1>1. CASE Record(t, proxy)
    BY <1>1, RecordType
  <1>2. CASE /\ task' = [task EXCEPT ![t] = [@ EXCEPT !.pc = "dns", !.proxy = proxy]]
             /\ UNCHANGED <<customer, row, files, outside>>
    <2>1. task[t] \in Task
      BY DEF TypeInv, TypeOK
    <2>2. /\ [task[t] EXCEPT !.pc = "dns", !.proxy = proxy] \in Task
          /\ [task[t] EXCEPT !.pc = "dns", !.proxy = proxy].port = task[t].port
      BY <2>1 DEF Task, Pcs, DeployPcs
    <2>3. task' \in [Tasks -> Task \cup {NULL}] /\ PortKnown'
      BY <1>2, <2>2, TaskStep
    <2>4. QED
      BY <1>2, <2>3 DEF TypeInv, TypeOK, outside
  <1>3. QED
    BY <1>1, <1>2 DEF AfterProxy

\* The end of an undeployment, alone or with the deployment that follows.
LEMMA UndeployedType ==
    ASSUME TypeInv, NEW t \in Tasks, task[t] # NULL, Undeployed(t)
    PROVE  TypeInv'
  <1> DEFINE c == Cust(t)
             dirs(f) == [files EXCEPT ![c] = f]
             rows == [row EXCEPT ![c] = NULL]
  <1>1. task[t] \in Task /\ c \in Customers
    BY DEF TypeInv, TypeOK, Task, Cust
  <1>2. PICK f \in AfterRmtree(files[c]) :
           \/ /\ customer' = customer \/ customer' = [customer EXCEPT ![c] = "absent"]
              /\ row' = row \/ row' = rows
              /\ files' = dirs(f)
              /\ End(t)
              /\ UNCHANGED outside
           \/ Prepare(t, rows, dirs(f))
    BY DEF Undeployed
  <1>3. files[c] \in Dir
    BY <1>1 DEF TypeInv, TypeOK
  <1>4. f \in Dir
    BY <1>3, RmtreeType
  <1>5. dirs(f) \in [Customers -> Dir] /\ rows \in [Customers -> Row \cup {NULL}]
    BY <1>4 DEF TypeInv, TypeOK
  <1>6. CASE Prepare(t, rows, dirs(f))
    BY <1>5, <1>6, PrepareType
  <1>7. CASE /\ customer' = customer \/ customer' = [customer EXCEPT ![c] = "absent"]
             /\ row' = row \/ row' = rows
             /\ files' = dirs(f)
             /\ End(t)
             /\ UNCHANGED outside
    BY <1>5, <1>7, EndStep DEF TypeInv, TypeOK, outside
  <1>8. QED
    BY <1>2, <1>6, <1>7

\* The step after the proxy host is deleted.
LEMMA RemoveDnsType ==
    ASSUME TypeInv, NEW t \in Tasks, task[t] # NULL, RemoveDns(t)
    PROVE  TypeInv'
  <1>1. CASE Go(t, "uDns") /\ UNCHANGED <<customer, row, files, outside>>
    BY <1>1, GoStep DEF TypeInv, TypeOK, Pcs, UndeployPcs, WithPort, outside
  <1>2. QED
    BY <1>1, UndeployedType DEF RemoveDns

\* The initial state has the types.
LEMMA TypeInit == Init => TypeInv
  BY DEF Init, TypeInv, TypeOK, PortKnown, Dir, NoDir

\* Every request handler keeps the types.
LEMMA RequestType ==
    ASSUME TypeInv, NEW t \in Tasks, NEW c \in Customers, Request(t, c)
    PROVE  TypeInv'
  <1>1. CASE Create(t, c)
    BY <1>1, StartStep DEF Create, Operations, TypeInv, TypeOK, Statuses, outside
  <1>2. CASE ManualDeploy(t, c)
    BY <1>2, StartStep DEF ManualDeploy, Operations, TypeInv, TypeOK, Statuses, outside
  <1>3. CASE Delete(t, c)
    BY <1>3, StartStep DEF Delete, Operations, TypeInv, TypeOK, Statuses, outside
  <1>4. CASE Control(t, c)
    <2>1. PICK op \in {"stop", "start", "restart"}, w \in SUBSET {"row", "customer"} :
             task' = [task EXCEPT ![t] = [NewTask(op, c, "control") EXCEPT !.writes = w]]
      <3> DEFINE writes(op) == {x \in {"row", "customer"} :
                            \/ x = "row" /\ row[c].status # RowStatusAfter(op)
                            \/ x = "customer" /\ customer[c] # CustomerStatusAfter(op)}
      <3>1. PICK op \in {"stop", "start", "restart"} :
              task' = [task EXCEPT ![t] =
                          [NewTask(op, c, "control") EXCEPT !.writes = writes(op)]]
        BY <1>4 DEF Control
      <3>2. writes(op) \in SUBSET {"row", "customer"}
        OBVIOUS
      <3>3. QED
        BY <3>1, <3>2
    <2>2. NewTask(op, c, "control") \in Task
      BY DEF NewTask, Task, Pcs, ControlPcs, Operations
    <2>3. /\ [NewTask(op, c, "control") EXCEPT !.writes = w] \in Task
          /\ [NewTask(op, c, "control") EXCEPT !.writes = w].pc = "control"
      BY <2>2 DEF Task, NewTask
    <2>4. task' \in [Tasks -> Task \cup {NULL}] /\ PortKnown'
      BY <2>1, <2>3, TaskStep DEF WithPort
    <2>5. QED
      BY <1>4, <2>4 DEF Control, TypeInv, TypeOK, outside
  <1>5. QED
    BY <1>1, <1>2, <1>3, <1>4 DEF Request

\* Every step of deploy_customer keeps the types.
LEMMA DeployType ==
    ASSUME TypeInv, NEW t \in Tasks, DeployStep(t)
    PROVE  TypeInv'
  <1> DEFINE c == Cust(t)
  <1>0. task[t] # NULL /\ task[t] \in Task /\ c \in Customers
    BY DEF DeployStep, BeginDeploy, DownForRedeploy, ResumeAfterDown, UpSucceeds, UpFails, ResumeAfterUp,
           CreateProxyHost, ResumeAfterProxy, CreateDnsRecord, ResumeAfterDns, RollbackDown,
           RollbackFiles, At, TypeInv, TypeOK, Task, Cust
  <1>p. task[t].pc \in WithPort => task[t].port \in Ports
    BY <1>0 DEF TypeInv, PortKnown
  <1>l. LogFails(t) => TypeInv'
    BY <1>0, BreakStep DEF LogFails, TypeInv, TypeOK, outside, Pcs, DeployPcs, WithPort
  <1>1. CASE BeginDeploy(t)
    <2>1. CASE Prepare(t, row, files)
      BY <1>0, <2>1, PrepareType DEF TypeInv, TypeOK
    <2>2. CASE End(t) /\ UNCHANGED <<customer, row, files, outside>>
      BY <2>2, EndStep DEF TypeInv, TypeOK, outside
    <2>3. QED
      BY <1>1, <2>1, <2>2 DEF BeginDeploy
  <1>2. CASE DownForRedeploy(t)
    <2>1. task' \in [Tasks -> Task \cup {NULL}] /\ PortKnown'
      BY <1>0, <1>p, <1>2, GoStep DEF DownForRedeploy, At, WithPort, Pcs, DeployPcs
    <2>2. stack' \in [Customers -> Stack \cup {NULL}]
      BY <1>0, <1>2, DownType DEF DownForRedeploy, TypeInv, TypeOK
    <2>3. QED
      BY <1>2, <2>1, <2>2 DEF DownForRedeploy, TypeInv, TypeOK
  <1>r. CASE ResumeAfterDown(t)
    <2>1. PICK broken \in BOOLEAN :
             task' = [task EXCEPT ![t] = [@ EXCEPT !.pc = "up", !.broken = broken]]
      BY <1>r DEF ResumeAfterDown
    <2>2. /\ [task[t] EXCEPT !.pc = "up", !.broken = broken] \in Task
          /\ [task[t] EXCEPT !.pc = "up", !.broken = broken].port = task[t].port
      BY <1>0 DEF Task, Pcs, DeployPcs
    <2>3. task[t].port \in Ports
      BY <1>p, <1>r DEF ResumeAfterDown, At, WithPort
    <2>4. task' \in [Tasks -> Task \cup {NULL}] /\ PortKnown'
      BY <2>1, <2>2, <2>3, TaskStep
    <2>5. QED
      BY <1>r, <2>4 DEF ResumeAfterDown, TypeInv, TypeOK, outside
  <1>3. CASE UpSucceeds(t) \/ UpFails(t)
    <2>1. task' \in [Tasks -> Task \cup {NULL}] /\ PortKnown'
      BY <1>0, <1>p, <1>3, GoStep DEF UpSucceeds, UpFails, At, WithPort, Pcs, DeployPcs
    <2>2. files[c] \in Dir
      BY <1>0 DEF TypeInv, TypeOK
    <2>3. DataAfterUp(c) \cup {files[c].data} \subseteq Keys \cup {NULL}
      BY <2>2 DEF DataAfterUp, Dir
    <2>4. \A d \in Keys \cup {NULL} : [files EXCEPT ![c].data = d] \in [Customers -> Dir]
      BY <2>2 DEF Dir, TypeInv, TypeOK
    <2>5. files' \in [Customers -> Dir]
      <3>1. CASE files' = files
        BY <3>1 DEF TypeInv, TypeOK
      <3>2. CASE \E d \in DataAfterUp(c) \cup {files[c].data} : files' = [files EXCEPT ![c].data = d]
        <4>1. PICK d \in DataAfterUp(c) \cup {files[c].data} : files' = [files EXCEPT ![c].data = d]
          BY <3>2
        <4>2. QED
          BY <4>1, <2>3, <2>4
      <3>3. QED
        BY <1>3, <3>1, <3>2 DEF UpSucceeds, UpFails
    <2>6. files[c].port # NULL => [port : {files[c].port}, started : BOOLEAN] \subseteq Stack
      BY <2>2 DEF Dir, Stack
    <2>7. stack' \in [Customers -> Stack \cup {NULL}]
      <3>1. CASE UpSucceeds(t)
        <4>1. [port |-> files[c].port, started |-> TRUE] \in Stack
          BY <2>2, <3>1 DEF UpSucceeds, Stack, Dir
        <4>2. QED
          BY <3>1, <4>1 DEF UpSucceeds, TypeInv, TypeOK
      <3>2. CASE UpFails(t) /\ files[c].port = NULL
        BY <3>2 DEF UpFails, TypeInv, TypeOK
      <3>3. CASE UpFails(t) /\ files[c].port # NULL
        <4>1. PICK s \in {stack[c]} \cup [port : {files[c].port}, started : BOOLEAN] :
                 stack' = [stack EXCEPT ![c] = s]
          BY <3>3 DEF UpFails
        <4>2. s \in Stack \cup {NULL}
          BY <1>0, <2>6, <3>3 DEF TypeInv, TypeOK
        <4>3. QED
          BY <4>1, <4>2 DEF TypeInv, TypeOK
      <3>4. QED
        BY <1>3, <3>1, <3>2, <3>3
    <2>8. QED
      BY <1>3, <2>1, <2>5, <2>7 DEF UpSucceeds, UpFails, TypeInv, TypeOK
  <1>4. CASE ResumeAfterUp(t)
    <2> DEFINE proxy == task[t].hadRow /\ row[c].npm
    <2>1. task[t].port \in Ports
      BY <1>p, <1>4 DEF ResumeAfterUp, At, WithPort
    <2>2. CASE Go(t, "undo") /\ UNCHANGED <<customer, row, files, outside>>
      BY <1>0, <2>2, GoStep DEF TypeInv, TypeOK, Pcs, DeployPcs, WithPort, outside
    <2>3. CASE Go(t, "npm") /\ UNCHANGED <<customer, row, files, outside>>
      BY <1>0, <2>1, <2>3, GoStep DEF TypeInv, TypeOK, Pcs, DeployPcs, outside
    <2>4. CASE (task[t].hadRow => row[c] # NULL) /\ AfterProxy(t, proxy)
      <3>1. task[t].hadRow \in BOOLEAN
        BY <1>0 DEF Task
      <3>2. task[t].hadRow => row[c].npm \in BOOLEAN
        BY <1>0, <2>4 DEF TypeInv, TypeOK, Row
      <3>3. proxy \in BOOLEAN
        BY <3>1, <3>2
      <3>4. QED
        BY <1>0, <2>1, <2>4, <3>3, AfterProxyType
    <2>5. QED
      BY <1>l, <1>4, <2>2, <2>3, <2>4 DEF ResumeAfterUp
  <1>5. CASE CreateProxyHost(t)
    <2>1. PICK made \in BOOLEAN, told \in BOOLEAN :
             /\ npm' = [npm EXCEPT ![c] = @ \/ made]
             /\ task' = [task EXCEPT ![t] = [@ EXCEPT !.pc = "npmed", !.proxy = told]]
      BY <1>5 DEF CreateProxyHost
    <2>2. /\ [task[t] EXCEPT !.pc = "npmed", !.proxy = told] \in Task
          /\ [task[t] EXCEPT !.pc = "npmed", !.proxy = told].port = task[t].port
      BY <1>0 DEF Task, Pcs, DeployPcs
    <2>3. task[t].port \in Ports
      BY <1>p, <1>5 DEF CreateProxyHost, At, WithPort
    <2>4. task' \in [Tasks -> Task \cup {NULL}] /\ PortKnown'
      BY <2>1, <2>2, <2>3, TaskStep
    <2>5. npm' \in [Customers -> BOOLEAN]
      BY <2>1 DEF TypeInv, TypeOK
    <2>6. QED
      BY <1>5, <2>4, <2>5 DEF CreateProxyHost, TypeInv, TypeOK
  <1>6. CASE ResumeAfterProxy(t)
    <2>1. task[t].port \in Ports /\ task[t].proxy \in BOOLEAN
      BY <1>0, <1>p, <1>6 DEF ResumeAfterProxy, At, WithPort, Task
    <2>2. QED
      BY <1>0, <1>l, <1>6, <2>1, AfterProxyType DEF ResumeAfterProxy
  <1>7. CASE CreateDnsRecord(t)
    <2>1. task' \in [Tasks -> Task \cup {NULL}] /\ PortKnown'
      BY <1>0, <1>p, <1>7, GoStep DEF CreateDnsRecord, At, WithPort, Pcs, DeployPcs
    <2>2. QED
      BY <1>7, <2>1 DEF CreateDnsRecord, TypeInv, TypeOK
  <1>8. CASE ResumeAfterDns(t)
    <2>1. task[t].port \in Ports /\ task[t].proxy \in BOOLEAN
      BY <1>0, <1>p, <1>8 DEF ResumeAfterDns, At, WithPort, Task
    <2>2. QED
      BY <1>0, <1>l, <1>8, <2>1, RecordType DEF ResumeAfterDns
  <1>9. CASE RollbackDown(t)
    <2>1. task' \in [Tasks -> Task \cup {NULL}] /\ PortKnown'
      BY <1>0, <1>9, GoStep DEF RollbackDown, WithPort, Pcs, DeployPcs
    <2>2. stack' \in [Customers -> Stack \cup {NULL}]
      BY <1>0, <1>9, DownType DEF RollbackDown, TypeInv, TypeOK
    <2>3. QED
      BY <1>9, <2>1, <2>2 DEF RollbackDown, TypeInv, TypeOK
  <1>10. CASE RollbackFiles(t)
    <2>1. files[c] \in Dir
      BY <1>0 DEF TypeInv, TypeOK
    <2>2. \A f \in IF task[t].made THEN AfterRmtree(files[c]) ELSE {files[c]} : f \in Dir
      BY <2>1, RmtreeType
    <2>3. files' \in [Customers -> Dir]
      BY <1>10, <2>2 DEF RollbackFiles, TypeInv, TypeOK
    <2>4. customer' \in [Customers -> Statuses \cup {"absent"}]
      BY <1>10 DEF RollbackFiles, TypeInv, TypeOK, Statuses
    <2>5. QED
      BY <1>10, <2>3, <2>4, EndStep DEF RollbackFiles, TypeInv, TypeOK, outside
  <1>11. QED
    BY <1>1, <1>2, <1>r, <1>3, <1>4, <1>5, <1>6, <1>7, <1>8, <1>9, <1>10 DEF DeployStep

\* Every step of undeploy_customer keeps the types.
LEMMA UndeployType ==
    ASSUME TypeInv, NEW t \in Tasks, UndeployStep(t)
    PROVE  TypeInv'
  <1> DEFINE c == Cust(t)
  <1>0. task[t] # NULL /\ task[t] \in Task /\ c \in Customers
    BY DEF UndeployStep, BeginUndeploy, DeleteWithoutRow, DownForUndeploy, ResumeUndeploy,
           DeleteProxyHost, ResumeAfterProxyDelete, DeleteDnsRecord, FinishUndeploy,
           At, TypeInv, TypeOK, Task, Cust
  <1>a. ASSUME NEW gone, Abort(t, gone) PROVE TypeInv'
    BY <1>a, EndStep DEF Abort, TypeInv, TypeOK, outside
  <1>1. CASE BeginUndeploy(t)
    BY <1>0, <1>1, GoStep DEF BeginUndeploy, WithPort, Pcs, UndeployPcs, TypeInv, TypeOK, outside
  <1>2. CASE DeleteWithoutRow(t)
    BY <1>2, EndStep DEF DeleteWithoutRow, TypeInv, TypeOK, outside
  <1>3. CASE DownForUndeploy(t)
    <2>1. task' \in [Tasks -> Task \cup {NULL}] /\ PortKnown'
      BY <1>0, <1>3, GoStep DEF DownForUndeploy, WithPort, Pcs, UndeployPcs
    <2>2. stack' \in [Customers -> Stack \cup {NULL}]
      BY <1>0, <1>3, DownType DEF DownForUndeploy, TypeInv, TypeOK
    <2>3. QED
      BY <1>3, <2>1, <2>2 DEF DownForUndeploy, TypeInv, TypeOK
  <1>4. CASE ResumeUndeploy(t)
    <2>1. CASE Go(t, "uNpm") /\ UNCHANGED <<customer, row, files, outside>>
      BY <1>0, <2>1, GoStep DEF WithPort, Pcs, UndeployPcs, TypeInv, TypeOK, outside
    <2>2. CASE RemoveDns(t)
      BY <1>0, <2>2, RemoveDnsType
    <2>3. QED
      BY <1>a, <1>4, <2>1, <2>2 DEF ResumeUndeploy
  <1>5. CASE DeleteProxyHost(t)
    <2>1. task' \in [Tasks -> Task \cup {NULL}] /\ PortKnown'
      BY <1>0, <1>5, GoStep DEF DeleteProxyHost, WithPort, Pcs, UndeployPcs
    <2>2. npm' \in [Customers -> BOOLEAN]
      BY <1>5 DEF DeleteProxyHost, TypeInv, TypeOK
    <2>3. QED
      BY <1>5, <2>1, <2>2 DEF DeleteProxyHost, TypeInv, TypeOK
  <1>6. CASE ResumeAfterProxyDelete(t)
    BY <1>0, <1>a, <1>6, RemoveDnsType DEF ResumeAfterProxyDelete
  <1>7. CASE DeleteDnsRecord(t)
    <2>1. task' \in [Tasks -> Task \cup {NULL}] /\ PortKnown'
      BY <1>0, <1>7, GoStep DEF DeleteDnsRecord, WithPort, Pcs, UndeployPcs
    <2>2. dns' \in [Customers -> BOOLEAN]
      BY <1>7 DEF DeleteDnsRecord, TypeInv, TypeOK
    <2>3. QED
      BY <1>7, <2>1, <2>2 DEF DeleteDnsRecord, TypeInv, TypeOK
  <1>8. CASE FinishUndeploy(t)
    BY <1>0, <1>8, UndeployedType DEF FinishUndeploy
  <1>9. QED
    BY <1>1, <1>2, <1>3, <1>4, <1>5, <1>6, <1>7, <1>8 DEF UndeployStep

\* start, stop and restart keep the types.
LEMMA ControlType ==
    ASSUME TypeInv, NEW t \in Tasks, ComposeControl(t) \/ ResumeControl(t)
    PROVE  TypeInv'
  <1> DEFINE c == Cust(t)
  <1>0. task[t] # NULL /\ task[t] \in Task /\ c \in Customers
    BY DEF ComposeControl, ResumeControl, At, TypeInv, TypeOK, Task, Cust
  <1>1. CASE ComposeControl(t)
    <2>1. PICK s \in Stack \cup {NULL}, ok \in BOOLEAN :
             /\ stack' = [stack EXCEPT ![c] = s]
             /\ task' = [task EXCEPT ![t] = [@ EXCEPT !.pc = "controlled", !.ok = ok]]
      BY <1>1 DEF ComposeControl
    <2>2. /\ [task[t] EXCEPT !.pc = "controlled", !.ok = ok] \in Task
          /\ [task[t] EXCEPT !.pc = "controlled", !.ok = ok].pc = "controlled"
      BY <1>0 DEF Task, Pcs, ControlPcs
    <2>3. task' \in [Tasks -> Task \cup {NULL}] /\ PortKnown'
      BY <2>1, <2>2, TaskStep DEF WithPort
    <2>4. stack' \in [Customers -> Stack \cup {NULL}]
      BY <2>1 DEF TypeInv, TypeOK
    <2>5. QED
      BY <1>1, <2>3, <2>4 DEF ComposeControl, TypeInv, TypeOK
  <1>2. CASE ResumeControl(t)
    <2>1. task' \in [Tasks -> Task \cup {NULL}] /\ PortKnown'
      BY <1>2, EndStep DEF ResumeControl
    <2>2. \A op : RowStatusAfter(op) \in DeploymentStatuses /\ CustomerStatusAfter(op) \in Statuses
      BY DEF RowStatusAfter, CustomerStatusAfter, DeploymentStatuses, Statuses
    <2>3. customer' \in [Customers -> Statuses \cup {"absent"}]
      BY <1>2, <2>2 DEF ResumeControl, TypeInv, TypeOK
    <2>4. row' \in [Customers -> Row \cup {NULL}]
      <3>1. CASE row' = row
        BY <3>1 DEF TypeInv, TypeOK
      <3>2. CASE row[c] # NULL /\ row' = [row EXCEPT ![c].status = RowStatusAfter(task[t].op)]
        <4>1. row[c] \in Row
          BY <1>0, <3>2 DEF TypeInv, TypeOK
        <4>2. [row[c] EXCEPT !.status = RowStatusAfter(task[t].op)] \in Row
          BY <2>2, <4>1 DEF Row
        <4>3. QED
          BY <3>2, <4>2 DEF TypeInv, TypeOK
      <3>3. QED
        BY <1>2, <3>1, <3>2 DEF ResumeControl
    <2>5. QED
      BY <1>2, <2>1, <2>3, <2>4 DEF ResumeControl, TypeInv, TypeOK, outside
  <1>3. QED
    BY <1>1, <1>2

\* So does every step with a refused commit.
LEMMA RefusedType ==
    ASSUME TypeInv, NEW t \in Tasks, Refused(t)
    PROVE  TypeInv'
  <1> DEFINE c == Cust(t)
  <1>0. task[t] # NULL /\ task[t] \in Task /\ c \in Customers
    BY DEF Refused, RefusedBegin, RefusedLog, RefusedSuccess, Complete, RefusedRollback,
           RefusedUndeploy, RefusedControl, At, TypeInv, TypeOK, Task, Cust
  <1>p. task[t].pc \in WithPort => task[t].port \in Ports
    BY <1>0 DEF TypeInv, PortKnown
  <1>f. files[c] \in Dir /\ AfterRmtree(files[c]) \subseteq Dir
    BY <1>0, RmtreeType DEF TypeInv, TypeOK
  <1>1. CASE RefusedBegin(t)
    BY <1>1, EndStep DEF RefusedBegin, TypeInv, TypeOK, Statuses, outside
  <1>2. CASE RefusedLog(t)
    <2>1. task' \in [Tasks -> Task \cup {NULL}] /\ PortKnown'
      BY <1>0, <1>p, <1>2, BreakStep DEF RefusedLog, At, Pcs, DeployPcs, WithPort
    <2>2. QED
      BY <1>2, <2>1 DEF RefusedLog, TypeInv, TypeOK, outside
  <1>3. CASE RefusedSuccess(t)
    <2>1. PICK proxy \in BOOLEAN : Complete(t, proxy) /\ Write(t, proxy)
      BY <1>3 DEF RefusedSuccess
    <2>2. task[t].port \in Ports
      BY <1>p, <2>1 DEF Complete, At, WithPort
    <2>3. [port |-> task[t].port, npm |-> proxy, status |-> "running"] \in Row
      BY <2>2 DEF Row, DeploymentStatuses
    <2>4. customer' \in [Customers -> Statuses \cup {"absent"}] /\ row' \in [Customers -> Row \cup {NULL}]
      BY <2>1, <2>3 DEF Write, TypeInv, TypeOK, Statuses
    <2>5. task' \in [Tasks -> Task \cup {NULL}] /\ PortKnown'
      BY <1>0, <1>3, BreakStep DEF RefusedSuccess, Pcs, DeployPcs, WithPort
    <2>6. QED
      BY <1>3, <2>4, <2>5 DEF RefusedSuccess, TypeInv, TypeOK, outside
  <1>4. CASE RefusedRollback(t)
    <2>1. PICK f \in Dir : files' = [files EXCEPT ![c] = f]
      BY <1>4, <1>f DEF RefusedRollback
    <2>2. QED
      BY <1>4, <2>1, EndStep DEF RefusedRollback, TypeInv, TypeOK, outside
  <1>5. CASE RefusedUndeploy(t)
    <2>1. files' = files \/ \E f \in Dir : files' = [files EXCEPT ![c] = f]
      BY <1>5, <1>f DEF RefusedUndeploy
    <2>2. files' \in [Customers -> Dir]
      BY <2>1 DEF TypeInv, TypeOK
    <2>3. row' \in [Customers -> Row \cup {NULL}]
      BY <1>5 DEF RefusedUndeploy, TypeInv, TypeOK
    <2>4. QED
      BY <1>5, <2>2, <2>3, EndStep DEF RefusedUndeploy, TypeInv, TypeOK, outside
  <1>6. CASE RefusedControl(t)
    BY <1>6, EndStep DEF RefusedControl, TypeInv, TypeOK, outside
  <1>7. QED
    BY <1>1, <1>2, <1>3, <1>4, <1>5, <1>6 DEF Refused

\* A health check keeps the types.
LEMMA CheckHealthType ==
    ASSUME TypeInv, NEW c \in Customers, CheckHealth(c)
    PROVE  TypeInv'
  <1>1. row[c] # NULL /\ row[c] \in Row
    BY DEF CheckHealth, TypeInv, TypeOK
  <1>2. PICK s \in DeploymentStatuses, u \in Statuses :
           /\ row' = [row EXCEPT ![c].status = s]
           /\ customer' = [customer EXCEPT ![c] = u]
           /\ UNCHANGED <<files, outside, task>>
    <2>1. PICK healthy \in BOOLEAN :
             /\ row' = [row EXCEPT ![c].status = IF healthy THEN "running" ELSE "failed"]
             /\ customer' = [customer EXCEPT ![c] = IF healthy THEN "active" ELSE "error"]
             /\ UNCHANGED <<files, outside, task>>
      BY DEF CheckHealth
    <2>2. QED
      BY <2>1 DEF DeploymentStatuses, Statuses
  <1>3. [row[c] EXCEPT !.status = s] \in Row
    BY <1>1 DEF Row
  <1>4. row' \in [Customers -> Row \cup {NULL}]
    BY <1>2, <1>3 DEF TypeInv, TypeOK
  <1>5. QED
    BY <1>2, <1>4 DEF TypeInv, TypeOK, PortKnown, outside

\* A crash keeps the types, whatever it leaves of a directory.
LEMMA CrashType ==
    ASSUME TypeInv, Crash
    PROVE  TypeInv'
  <1>1. PICK t \in Tasks : task[t] # NULL /\ files' \in FilesAfterCrash(t)
    BY DEF Crash
  <1>2. task' \in [Tasks -> Task \cup {NULL}] /\ PortKnown'
    BY DEF Crash, PortKnown
  <1>3. Cust(t) \in Customers
    BY <1>1 DEF TypeInv, TypeOK, Task, Cust
  <1>4. files[Cust(t)] \in Dir
    BY <1>3 DEF TypeInv, TypeOK
  <1>5. Torn(files[Cust(t)]) \subseteq Dir
    BY <1>4 DEF Torn, Dir
  <1>6. files' \in [Customers -> Dir]
    BY <1>1, <1>5 DEF FilesAfterCrash, TypeInv, TypeOK
  <1>7. QED
    BY <1>2, <1>6 DEF Crash, TypeInv, TypeOK, outside

\* Every step keeps the types and every deploying task's port.
LEMMA TypeStep == TypeInv /\ [Next]_vars => TypeInv'
  <1> SUFFICES ASSUME TypeInv, [Next]_vars PROVE TypeInv'
    OBVIOUS
  <1>1. ASSUME NEW t \in Tasks, NEW c \in Customers, Request(t, c) PROVE TypeInv'
    BY <1>1, RequestType
  <1>2. ASSUME NEW t \in Tasks, Step(t) PROVE TypeInv'
    BY <1>2, DeployType, UndeployType, ControlType, RefusedType DEF Step
  <1>3. ASSUME NEW c \in Customers, CheckHealth(c) PROVE TypeInv'
    BY <1>3, CheckHealthType
  <1>4. ASSUME NEW c \in Customers, UpdateCustomer(c) PROVE TypeInv'
    BY <1>4, ManualStatusesAssumption DEF UpdateCustomer, TypeInv, TypeOK, PortKnown, outside
  <1>5. CASE Crash
    BY <1>5, CrashType
  <1>6. CASE UNCHANGED vars
    BY <1>6 DEF vars, outside, TypeInv, TypeOK, PortKnown
  <1>7. QED
    BY <1>1, <1>2, <1>3, <1>4, <1>5, <1>6 DEF Next

\* The inductive invariant holds in every state.
LEMMA TypeAlways == Spec => []TypeInv
  <1>1. QED
    BY TypeInit, TypeStep, PTL DEF Spec

\* Every variable keeps its type, whatever fails and however tasks interleave.
THEOREM TypeCorrect == Spec => []TypeOK
  <1>1. TypeInv => TypeOK
    BY DEF TypeInv
  <1>2. QED
    BY TypeAlways, <1>1, PTL

-----------------------------------------------------------------------------
(* The datastore key.  The strengthening says that a directory with data   *)
(* has a management.json to read the key from; a removal or rewrite that   *)
(* stops half way breaks it, so both faults are assumed away.              *)

Fits(dirs) == \A c \in Customers : dirs[c].data # NULL => dirs[c].key = dirs[c].data
KeyInv == Fits(files)

\* deploy_customer renders the key of the directory it finds.
LEMMA PrepareFits ==
    ASSUME TypeInv, NEW t \in Tasks, task[t] # NULL,
           NEW rows \in [Customers -> Row \cup {NULL}],
           NEW dirs \in [Customers -> Dir], Fits(dirs),
           "torn" \notin Faults, Prepare(t, rows, dirs)
    PROVE  KeyInv'
  <1> DEFINE c == Cust(t)
  <1>1. c \in Customers
    BY DEF TypeInv, TypeOK, Task, Cust
  <1>2. CASE files' = dirs
    BY <1>2 DEF KeyInv, Fits
  <1>3. ASSUME NEW p, NEW k \in KeysFor(dirs[c]), NEW f \in HalfWritten(dirs[c], p, k),
               files' = [dirs EXCEPT ![c] = f]
        PROVE  KeyInv'
    <2>2. dirs[c] \in Dir
      BY <1>1
    <2>3. dirs[c].data # NULL => k = dirs[c].data /\ dirs[c].key = dirs[c].data
      BY <1>1, <2>2 DEF Fits, KeysFor
    <2>4. f.data = dirs[c].data /\ f.key \in {dirs[c].key, k}
      BY <2>2 DEF Dir, HalfWritten
    <2>5. files'[c] = f
      BY <1>1, <1>3
    <2>6. \A d \in Customers : d # c => files'[d] = dirs[d]
      BY <1>3
    <2>7. QED
      BY <2>3, <2>4, <2>5, <2>6 DEF KeyInv, Fits
  <1>4. CASE \E p \in PortsFor(c, rows), k \in KeysFor(dirs[c]) :
               files' = [dirs EXCEPT ![c] = [@ EXCEPT !.port = p, !.key = k]]
    <2>1. PICK p \in PortsFor(c, rows), k \in KeysFor(dirs[c]) :
               files' = [dirs EXCEPT ![c] = [dirs[c] EXCEPT !.port = p, !.key = k]]
      BY <1>4
    <2>2. [dirs[c] EXCEPT !.port = p, !.key = k] \in HalfWritten(dirs[c], p, k)
      BY DEF HalfWritten
    <2>3. QED
      BY <1>3, <2>1, <2>2
  <1>5. CASE BreaksOff(t, rows, dirs)
    BY <1>3, <1>5, BreaksOffShape
  <1>6. QED
    BY <1>2, <1>4, <1>5 DEF Prepare

\* So it does when reinstall has just removed the directory.
LEMMA UndeployedFits ==
    ASSUME TypeInv, KeyInv, "rmtree" \notin Faults, "torn" \notin Faults,
           NEW t \in Tasks, task[t] # NULL, Undeployed(t)
    PROVE  KeyInv'
  <1> DEFINE dirs == [files EXCEPT ![Cust(t)] = NoDir]
             rows == [row EXCEPT ![Cust(t)] = NULL]
  <1>1. files' = dirs \/ Prepare(t, rows, dirs)
    BY DEF Undeployed, AfterRmtree
  <1>2. rows \in [Customers -> Row \cup {NULL}] /\ dirs \in [Customers -> Dir] /\ Fits(dirs)
    BY DEF TypeInv, TypeOK, KeyInv, Fits, NoDir, Dir
  <1>3. QED
    BY <1>1, <1>2, PrepareFits DEF KeyInv, Fits

\* No step separates the key from the data it encrypted.
LEMMA KeyStep ==
    ASSUME "rmtree" \notin Faults, "torn" \notin Faults
    PROVE  TypeInv /\ KeyInv /\ [Next]_vars => KeyInv'
  <1> SUFFICES ASSUME TypeInv, KeyInv, [Next]_vars PROVE KeyInv'
    OBVIOUS
  <1>0. CASE files' = files
    BY <1>0 DEF KeyInv, Fits
  <1>1. ASSUME NEW t \in Tasks, DeployStep(t), files' # files PROVE KeyInv'
    <2> DEFINE c == Cust(t)
    <2>1. task[t] # NULL /\ task[t] \in Task /\ c \in Customers
      BY <1>1 DEF DeployStep, BeginDeploy, DownForRedeploy, ResumeAfterDown, UpSucceeds, UpFails, ResumeAfterUp,
             CreateProxyHost, ResumeAfterProxy, CreateDnsRecord, ResumeAfterDns, RollbackDown,
             RollbackFiles, At, TypeInv, TypeOK, Task, Cust
    <2>2. CASE BeginDeploy(t)
      BY <1>1, <2>1, <2>2, PrepareFits DEF BeginDeploy, TypeInv, TypeOK, KeyInv
    <2>3. CASE UpSucceeds(t) \/ UpFails(t)
      <3>1. PICK d \in DataAfterUp(c) \cup {files[c].data} : files' = [files EXCEPT ![c].data = d]
        BY <1>1, <2>3 DEF UpSucceeds, UpFails
      <3>2. files[c] \in Dir
        BY <2>1 DEF TypeInv, TypeOK
      <3>3. d # NULL => d = files[c].key
        BY <2>1, <3>1 DEF DataAfterUp, KeyInv, Fits
      <3>4. files'[c].data = d /\ files'[c].key = files[c].key
        BY <2>1, <3>1, <3>2 DEF Dir, TypeInv, TypeOK
      <3>5. \A e \in Customers : e # c => files'[e] = files[e]
        BY <3>1 DEF TypeInv, TypeOK
      <3>6. QED
        BY <3>3, <3>4, <3>5 DEF KeyInv, Fits
    <2>4. CASE RollbackFiles(t)
      <3>1. files' = [files EXCEPT ![c] = NoDir] \/ files' = [files EXCEPT ![c] = files[c]]
        BY <2>4 DEF RollbackFiles, AfterRmtree
      <3>2. QED
        BY <3>1 DEF KeyInv, Fits, NoDir, TypeInv, TypeOK
    <2>5. QED
      BY <1>1, <2>2, <2>3, <2>4 DEF DeployStep, DownForRedeploy, ResumeAfterDown, ResumeAfterUp, CreateProxyHost,
         ResumeAfterProxy, CreateDnsRecord, ResumeAfterDns, RollbackDown, AfterProxy, Record, LogFails
  <1>2. ASSUME NEW t \in Tasks, UndeployStep(t), files' # files PROVE KeyInv'
    <2>1. task[t] # NULL /\ Undeployed(t)
      BY <1>2 DEF UndeployStep, BeginUndeploy, DeleteWithoutRow, DownForUndeploy, ResumeUndeploy,
         DeleteProxyHost, ResumeAfterProxyDelete, DeleteDnsRecord, FinishUndeploy, RemoveDns, Abort, At
    <2>2. QED
      BY <2>1, UndeployedFits
  <1>3. ASSUME NEW t \in Tasks, ComposeControl(t) \/ ResumeControl(t) PROVE files' = files
    BY <1>3 DEF ComposeControl, ResumeControl
  <1>4. ASSUME NEW t \in Tasks, NEW c \in Customers, Request(t, c) PROVE files' = files
    BY <1>4 DEF Request, Create, ManualDeploy, Delete, Control
  <1>5. ASSUME NEW c \in Customers, CheckHealth(c) \/ UpdateCustomer(c) PROVE files' = files
    BY <1>5 DEF CheckHealth, UpdateCustomer
  <1>6. ASSUME NEW t \in Tasks PROVE FilesAfterCrash(t) = {files}
    BY DEF FilesAfterCrash
  <1>7. Crash \/ UNCHANGED vars => files' = files
    BY <1>6 DEF Crash, vars
  <1>8. ASSUME NEW t \in Tasks, Refused(t), files' # files PROVE KeyInv'
    <2> DEFINE c == Cust(t)
    <2>1. files' = [files EXCEPT ![c] = NoDir] \/ files' = [files EXCEPT ![c] = files[c]]
      BY <1>8 DEF Refused, RefusedBegin, RefusedLog, RefusedSuccess, RefusedRollback,
         RefusedUndeploy, RefusedControl, AfterRmtree
    <2>2. QED
      BY <2>1 DEF KeyInv, Fits, NoDir, TypeInv, TypeOK
  <1>9. QED
    BY <1>0, <1>1, <1>2, <1>3, <1>4, <1>5, <1>6, <1>7, <1>8 DEF Next, Step

\* Whatever overlaps, fails or crashes, no redeploy renders a management.json
\* whose key is not the one the existing data was encrypted with, as long as
\* removals and writes of an instance directory are never cut short.
THEOREM KeyAlwaysFits ==
    ASSUME "rmtree" \notin Faults, "torn" \notin Faults
    PROVE  Spec => []KeyFitsData
  <1>1. Init => KeyInv
    BY DEF Init, KeyInv, Fits, NoDir
  <1>2. TypeInv /\ KeyInv /\ [Next]_vars => KeyInv'
    BY KeyStep
  <1>3. KeyInv => KeyFitsData
    BY DEF KeyInv, Fits, KeyFitsData
  <1>4. QED
    BY <1>1, <1>2, <1>3, TypeAlways, PTL DEF Spec
=============================================================================
