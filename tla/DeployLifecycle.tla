-------------------------- MODULE DeployLifecycle --------------------------
(***************************************************************************)
(* The life of a customer instance: what the handlers of                   *)
(* routers/customers.py and routers/deployments.py and the background      *)
(* tasks they start (services/netbird_service.py) do to the database, the  *)
(* instance directory, the docker stack, the NPM proxy host and the DNS    *)
(* record.                                                                 *)
(*                                                                         *)
(* All handlers and background tasks run on one asyncio loop, so what lies *)
(* between two awaits is one atomic step.  An awaited call is two steps:   *)
(* the outside system acts (pc "up", say), then the loop resumes the task  *)
(* (pc "upped").  Any other task may run in between.                       *)
(*                                                                         *)
(* A customer is identified with its subdomain: SQLite hands the id of the *)
(* last row out again after its deletion, and the same subdomain gets the  *)
(* same directory, containers, domain and record back.                     *)
(***************************************************************************)
EXTENDS Integers, FiniteSets

CONSTANTS
    Customers,        \* the subdomains in play
    Tasks,            \* slots for requests and background tasks in flight
    Keys,             \* datastore encryption keys
    BasePort,         \* config.relay_base_port
    MaxPorts,         \* ports in the relay range (100 in the code)
    NULL,             \* no value (None, no file, no row, no container)
    LocalMode,        \* _is_local_domain(base_domain): no proxy host
    DnsConfigured,    \* the DNS settings are complete
    ProbeSeesHost,    \* the port probe shares the host's network namespace
    Overlap,          \* requests may hit a customer that a task works on
    Faults,           \* what may go wrong outside the program
    ManualStatuses,   \* statuses the operator writes with PUT
    Prefixed          \* Prefixed[c]: customers whose containers match c's name filter

Ports == BasePort .. (BasePort + MaxPorts - 1)

AllFaults ==
    { "write",       \* a directory or a file of an instance cannot be written
      "db",          \* sqlite refuses a commit
      "up",          \* docker compose up fails or times out
      "down",        \* docker compose down fails or times out
      "control",     \* docker compose stop, start or restart fails or times out
      "npmRefused",  \* NPM does not create the proxy host
      "npmLost",     \* NPM creates it, a later call or the answer is lost
      "npmDelete",   \* NPM does not delete the proxy host
      "dnsAdd", "dnsDelete",
      "rmtree",      \* shutil.rmtree stops half way
      "crash",       \* the appliance process dies
      "torn" }       \* a file that is being written or removed then is cut short

ASSUME CustomersAssumption == NULL \notin Customers
ASSUME KeysAssumption == NULL \notin Keys
ASSUME PortsAssumption == BasePort \in Nat /\ MaxPorts \in Nat /\ NULL \notin Nat
ASSUME SwitchesAssumption ==
    /\ {LocalMode, DnsConfigured, ProbeSeesHost, Overlap} \subseteq BOOLEAN
    /\ Faults \subseteq AllFaults
ASSUME PrefixedAssumption == Prefixed \in [Customers -> SUBSET Customers]

VARIABLES
    customer,   \* customers.status of each customer, "absent" without a row
    row,        \* its deployments row
    files,      \* its instance directory
    stack,      \* its containers
    npm,        \* NPM has a proxy host for its domain
    dns,        \* the DNS zone has a record for it
    task        \* the handlers and background tasks in flight

vars == <<customer, row, files, stack, npm, dns, task>>
outside == <<stack, npm, dns>>

Statuses == {"active", "inactive", "deploying", "error"}
ASSUME ManualStatusesAssumption == ManualStatuses \subseteq Statuses
DeploymentStatuses == {"running", "stopped", "failed"}
Row == [port : Ports, npm : BOOLEAN, status : DeploymentStatuses]
ASSUME RowAssumption == NULL \notin Row
\* files: the port in docker-compose.yml, the key in management.json, and
\* the key the management database under data/ is encrypted with.
Dir == [port : Ports \cup {NULL}, key : Keys \cup {NULL}, data : Keys \cup {NULL}]
NoDir == [port |-> NULL, key |-> NULL, data |-> NULL]
\* started: compose has started every container and none was stopped since.
\* Whether they run is up to them: wait_for_healthy asks once, and its answer
\* is only logged.
Stack == [port : Ports, started : BOOLEAN]
ASSUME StackAssumption == NULL \notin Stack

Operations == {"create", "redeploy", "reinstall", "delete", "stop", "start", "restart"}
DeployPcs == {"queued", "down", "downed", "up", "upped", "npm", "npmed", "dns", "dnsed",
              "undo", "undone"}
UndeployPcs == {"uDown", "uDowned", "uNpm", "uNpmed", "uDns", "uDnsed"}
ControlPcs == {"control", "controlled"}
Pcs == DeployPcs \cup UndeployPcs \cup ControlPcs

\* One coroutine: its position and the locals it still needs.
Task == [op : Operations, cust : Customers, pc : Pcs,
         port : Ports \cup {NULL},  \* allocated_port
         hadRow : BOOLEAN,          \* existing_deployment is not None
         proxy : BOOLEAN,           \* npm_proxy_id is set
         made : BOOLEAN,            \* instance_dir is set
         hadData : BOOLEAN,         \* there was a management database before (a history
                                    \* that no step reads)
         broken : BOOLEAN,          \* a commit failed, the session needs a rollback
         ok : BOOLEAN,              \* the awaited compose call reported success
         writes : SUBSET {"row", "customer"}]  \* columns the commit will write
ASSUME TaskAssumption == NULL \notin Task

NewTask(op, c, pc) ==
    [op |-> op, cust |-> c, pc |-> pc, port |-> NULL, hadRow |-> FALSE,
     proxy |-> FALSE, made |-> FALSE, hadData |-> FALSE, broken |-> FALSE, ok |-> FALSE,
     writes |-> {}]

TypeOK ==
    /\ customer \in [Customers -> Statuses \cup {"absent"}]
    /\ row \in [Customers -> Row \cup {NULL}]
    /\ files \in [Customers -> Dir]
    /\ stack \in [Customers -> Stack \cup {NULL}]
    /\ npm \in [Customers -> BOOLEAN]
    /\ dns \in [Customers -> BOOLEAN]
    /\ task \in [Tasks -> Task \cup {NULL}]

Init ==
    /\ customer = [c \in Customers |-> "absent"]
    /\ row = [c \in Customers |-> NULL]
    /\ files = [c \in Customers |-> NoDir]
    /\ stack = [c \in Customers |-> NULL]
    /\ npm = [c \in Customers |-> FALSE]
    /\ dns = [c \in Customers |-> FALSE]
    /\ task = [t \in Tasks |-> NULL]

-----------------------------------------------------------------------------
(* Helpers *)

At(t, pc) == task[t] # NULL /\ task[t].pc = pc
Cust(t) == task[t].cust
Present(c) == customer[c] # "absent"
Busy(c) == \E t \in Tasks : task[t] # NULL /\ task[t].cust = c

Go(t, pc) == task' = [task EXCEPT ![t] = [@ EXCEPT !.pc = pc]]
End(t) == task' = [task EXCEPT ![t] = NULL]

\* Another customer's relay was started on port p.  Docker restarts one that exits,
\* so the port stays taken.
BoundByOther(c, p) ==
    \E d \in Customers \ {c} : stack[d] # NULL /\ stack[d].started /\ stack[d].port = p

\* _is_udp_port_in_use binds the port in the network namespace of the
\* appliance, where docker's port bindings only show if it is the host's.  A
\* relay that was started counts as bound.
ProbeBinds(p) ==
    ProbeSeesHost =>
        \A d \in Customers : ~(stack[d] # NULL /\ stack[d].started /\ stack[d].port = p)

\* Ports no deployments row has and the probe can bind.
FreePorts(rows) ==
    {p \in Ports : /\ \A d \in Customers : rows[d] # NULL => rows[d].port # p
                   /\ ProbeBinds(p)}

\* allocate_port: the first such port of the range, if there is one.
AllocatedPorts(rows) ==
    {p \in FreePorts(rows) : \A q \in FreePorts(rows) : p <= q}

\* Variant: a redeploy allocates again.
AlwaysAllocate(c, rows) == AllocatedPorts(rows)

\* Step 1 of deploy_customer: keep the row's port, else allocate one.
PortsFor(c, rows) ==
    IF rows[c] # NULL THEN {rows[c].port} ELSE AllocatedPorts(rows)

\* Variant: every deployment generates a key.
AlwaysGenerate(f) == Keys \ {f.data}

\* Step 2: keep the key in management.json, else generate one.  A random
\* key is not the one that old data was encrypted with.
KeysFor(f) == IF f.key # NULL THEN {f.key} ELSE Keys \ {f.data}

\* A directory when writing its files fails, docker-compose.yml being the first.
HalfWritten(f, p, k) ==
    {f, [f EXCEPT !.port = p], [f EXCEPT !.port = p, !.key = k]}
    \cup (IF "torn" \in Faults
          THEN {[f EXCEPT !.port = NULL], [f EXCEPT !.port = p, !.key = NULL]} ELSE {})

\* What is left of a directory whose removal or rewriting stopped half way.
Torn(f) == [port : {NULL, f.port}, key : {NULL, f.key}, data : {NULL, f.data}]

\* shutil.rmtree inside try/except.
AfterRmtree(f) == {NoDir} \cup (IF "rmtree" \in Faults THEN Torn(f) ELSE {})

\* docker compose down, which needs the compose file.
AfterDown(c) ==
    IF files[c].port = NULL THEN {stack[c]}
    ELSE {NULL} \cup (IF "down" \in Faults THEN {stack[c]} ELSE {})

-----------------------------------------------------------------------------
(* Requests.  Each handler runs up to its first await, or to its response  *)
(* and leaves a background task behind.                                    *)

Free(t, c) == task[t] = NULL /\ (Overlap \/ ~Busy(c))

\* create_customer: a taken subdomain is answered 409.
Create(t, c) ==
    /\ Free(t, c) /\ ~Present(c)
    /\ customer' = [customer EXCEPT ![c] = "deploying"]
    /\ task' = [task EXCEPT ![t] = NewTask("create", c, "queued")]
    /\ UNCHANGED <<row, files, outside>>

\* manual_deploy: "redeploy" is keep_data=True, "reinstall" keep_data=False.
ManualDeploy(t, c) ==
    /\ Free(t, c) /\ Present(c)
    /\ customer' = [customer EXCEPT ![c] = "deploying"]
    /\ \E op \in {"redeploy", "reinstall"} :
          task' = [task EXCEPT ![t] = NewTask(op, c, "queued")]
    /\ UNCHANGED <<row, files, outside>>

\* delete_customer
Delete(t, c) ==
    /\ Free(t, c) /\ Present(c)
    /\ customer' = [customer EXCEPT ![c] = "inactive"]
    /\ task' = [task EXCEPT ![t] = NewTask("delete", c, "queued")]
    /\ UNCHANGED <<row, files, outside>>

\* Variant: the customer's status is written to the deployment.
SwappedStatusAfter(op) == IF op = "stop" THEN "inactive" ELSE "active"

RowStatusAfter(op) == IF op = "stop" THEN "stopped" ELSE "running"
CustomerStatusAfter(op) == IF op = "stop" THEN "inactive" ELSE "active"

\* start_customer, stop_customer and restart_customer up to the compose call.
\* The session writes a column only if the value differs from the one it
\* loaded here, before the await.
Control(t, c) ==
    /\ Free(t, c) /\ Present(c) /\ row[c] # NULL
    /\ \E op \in {"stop", "start", "restart"} :
          LET writes == {x \in {"row", "customer"} :
                            \/ x = "row" /\ row[c].status # RowStatusAfter(op)
                            \/ x = "customer" /\ customer[c] # CustomerStatusAfter(op)}
          IN  task' = [task EXCEPT ![t] =
                          [NewTask(op, c, "control") EXCEPT !.writes = writes]]
    /\ UNCHANGED <<customer, row, files, outside>>

\* get_customer_health: docker's name filter matches substrings, and containers
\* that were started may have exited.
CheckHealth(c) ==
    LET seen == {d \in Prefixed[c] : stack[d] # NULL} IN
    /\ row[c] # NULL /\ seen # {}
    /\ \E healthy \in BOOLEAN :
          /\ healthy => \A d \in seen : stack[d].started
          /\ row' = [row EXCEPT ![c].status = IF healthy THEN "running" ELSE "failed"]
          /\ customer' = [customer EXCEPT ![c] = IF healthy THEN "active" ELSE "error"]
    /\ UNCHANGED <<files, outside, task>>

\* update_customer with a status in the payload.
UpdateCustomer(c) ==
    /\ Present(c)
    /\ \E s \in ManualStatuses : customer' = [customer EXCEPT ![c] = s]
    /\ UNCHANGED <<row, files, outside, task>>

-----------------------------------------------------------------------------
(* deploy_customer *)

\* Making the directory or rendering a file fails, or the commit of a log row in
\* between, of which the first ones come before instance_dir is set.
BreaksOff(t, rows, dirs) ==
    LET c == Cust(t) IN
    \E p \in PortsFor(c, rows), k \in KeysFor(dirs[c]), made, broken \in BOOLEAN :
        /\ broken \/ (made /\ "write" \in Faults)
        /\ broken => "db" \in Faults
        /\ \E f \in IF made THEN HalfWritten(dirs[c], p, k) ELSE {dirs[c]} :
              files' = [dirs EXCEPT ![c] = f]
        /\ task' = [task EXCEPT ![t] = [@ EXCEPT
                       !.pc = "undo", !.port = p, !.hadRow = rows[c] # NULL, !.made = made,
                       !.hadData = dirs[c].data # NULL, !.broken = broken]]

\* Up to the first await: status, port, key, directory and rendered files,
\* with the rows and directories as this step has left them so far.
Prepare(t, rows, dirs) ==
    LET c == Cust(t) IN
    /\ Present(c)
    /\ customer' = [customer EXCEPT ![c] = "deploying"]
    /\ row' = rows
    /\ \/ \E p \in PortsFor(c, rows), k \in KeysFor(dirs[c]) :
             /\ files' = [dirs EXCEPT ![c] = [@ EXCEPT !.port = p, !.key = k]]
             /\ task' = [task EXCEPT ![t] = [@ EXCEPT
                            !.pc = IF rows[c] # NULL THEN "down" ELSE "up",
                            !.port = p, !.hadRow = rows[c] # NULL, !.made = TRUE,
                            !.hadData = dirs[c].data # NULL]]
       \/ /\ PortsFor(c, rows) = {}
          /\ files' = dirs
          /\ Go(t, "undo")
       \/ BreaksOff(t, rows, dirs)
    /\ UNCHANGED outside

\* The background task of create_customer and of manual_deploy starts.
BeginDeploy(t) ==
    /\ At(t, "queued")
    /\ \/ task[t].op \in {"create", "redeploy"}
       \/ task[t].op = "reinstall" /\ row[Cust(t)] = NULL
    /\ \/ Prepare(t, row, files)
       \/ ~Present(Cust(t)) /\ End(t) /\ UNCHANGED <<customer, row, files, outside>>

\* compose_down of the running instance; its failure is only logged.
DownForRedeploy(t) ==
    /\ At(t, "down")
    /\ \E s \in AfterDown(Cust(t)) : stack' = [stack EXCEPT ![Cust(t)] = s]
    /\ Go(t, "downed")
    /\ UNCHANGED <<customer, row, files, npm, dns>>

\* The log row of a deleted customer fails its foreign key; the error is only
\* logged, but leaves the session unusable.  After a timeout no log row is written.
ResumeAfterDown(t) ==
    /\ At(t, "downed")
    /\ \E broken \in BOOLEAN :
          /\ IF broken THEN ~Present(Cust(t)) ELSE Present(Cust(t)) \/ "down" \in Faults
          /\ task' = [task EXCEPT ![t] = [@ EXCEPT !.pc = "up", !.broken = broken]]
    /\ UNCHANGED <<customer, row, files, outside>>

\* Management creates its database with the key of management.json, unless
\* compose left containers alone that have a removed directory mounted.
DataAfterUp(c) ==
    IF files[c].data # NULL THEN {files[c].data}
    ELSE {files[c].key} \cup (IF stack[c] = NULL THEN {} ELSE {NULL})

\* compose_up succeeds
UpSucceeds(t) ==
    LET c == Cust(t) IN
    /\ At(t, "up")
    /\ files[c].port # NULL
    /\ ~BoundByOther(c, files[c].port)
    /\ stack' = [stack EXCEPT ![c] = [port |-> files[c].port, started |-> TRUE]]
    /\ \E d \in DataAfterUp(c) : files' = [files EXCEPT ![c].data = d]
    /\ Go(t, "upped")
    /\ UNCHANGED <<customer, row, npm, dns>>

\* compose_up raises: no compose file, the relay port is taken, or docker
\* fails after some containers, or all of them, were created.
UpFails(t) ==
    LET c == Cust(t)
        p == files[c].port
        taken == BoundByOther(c, p)
    IN
    /\ At(t, "up")
    /\ \/ p = NULL /\ UNCHANGED <<stack, files>>
       \/ /\ p # NULL /\ (taken \/ "up" \in Faults)
          /\ \E s \in {stack[c]} \cup [port : {p}, started : IF taken THEN {FALSE} ELSE BOOLEAN] :
                stack' = [stack EXCEPT ![c] = s]
          /\ \E d \in DataAfterUp(c) \cup {files[c].data} :
                files' = [files EXCEPT ![c].data = d]
    /\ Go(t, "undo")
    /\ UNCHANGED <<customer, row, npm, dns>>

\* A commit failed: the session is unusable from here on.
Break(t, pc) == task' = [task EXCEPT ![t] = [@ EXCEPT !.pc = pc, !.broken = TRUE]]

\* Variant: another row may have the port.
NoConflict(t) == FALSE

\* Another row has the port.
Conflict(t) == \E d \in Customers \ {Cust(t)} : row[d] # NULL /\ row[d].port = task[t].port

\* Step 11: insert or update the row, customer active.
Write(t, proxy) ==
    /\ row' = [row EXCEPT ![Cust(t)] =
                  [port |-> task[t].port, npm |-> proxy, status |-> "running"]]
    /\ customer' = [customer EXCEPT ![Cust(t)] = "active"]

\* Its commit, which the port of another row makes fail.
Record(t, proxy) ==
    /\ \/ ~Conflict(t) /\ Write(t, proxy) /\ End(t)
       \/ /\ Conflict(t)
          /\ Break(t, "undo")
          /\ UNCHANGED <<customer, row>>
    /\ UNCHANGED <<files, outside>>

\* Step 10, or step 11 when there is no DNS call to await.
AfterProxy(t, proxy) ==
    \/ /\ DnsConfigured /\ ~task[t].hadRow
       /\ task' = [task EXCEPT ![t] = [@ EXCEPT !.pc = "dns", !.proxy = proxy]]
       /\ UNCHANGED <<customer, row, files, outside>>
    \/ ~(DnsConfigured /\ ~task[t].hadRow) /\ Record(t, proxy)

\* Writing a log row for a deleted customer, or in an unusable session, raises.
CanLog(t) == Present(Cust(t)) /\ ~task[t].broken
LogFails(t) ==
    /\ ~CanLog(t)
    /\ Break(t, "undo")
    /\ UNCHANGED <<customer, row, files, outside>>

\* Steps 7 to 9, whether or not the containers are found healthy: the row loaded
\* before the awaits is read again.
ResumeAfterUp(t) ==
    LET c == Cust(t)
        proxy == task[t].hadRow /\ row[c].npm
    IN
    /\ At(t, "upped")
    /\ \/ LogFails(t)
       \/ /\ CanLog(t) /\ task[t].hadRow /\ row[c] = NULL
          /\ Go(t, "undo")
          /\ UNCHANGED <<customer, row, files, outside>>
       \/ /\ CanLog(t) /\ (task[t].hadRow => row[c] # NULL)
          /\ \/ /\ ~LocalMode /\ ~proxy
                /\ Go(t, "npm")
                /\ UNCHANGED <<customer, row, files, outside>>
             \/ (LocalMode \/ proxy) /\ AfterProxy(t, proxy)

\* create_proxy_host: creates the host, or finds and updates the one there.
CreateProxyHost(t) ==
    /\ At(t, "npm")
    /\ \E made, told \in BOOLEAN :
          /\ \/ made /\ told
             \/ made /\ ~told /\ "npmLost" \in Faults
             \/ ~made /\ ~told /\ "npmRefused" \in Faults
          /\ npm' = [npm EXCEPT ![Cust(t)] = @ \/ made]
          /\ task' = [task EXCEPT ![t] = [@ EXCEPT !.pc = "npmed", !.proxy = told]]
    /\ UNCHANGED <<customer, row, files, stack, dns>>

ResumeAfterProxy(t) ==
    /\ At(t, "npmed")
    /\ LogFails(t) \/ (CanLog(t) /\ AfterProxy(t, task[t].proxy))

\* create_dns_record: removes the old record, then adds the new one.
CreateDnsRecord(t) ==
    /\ At(t, "dns")
    /\ \E made \in BOOLEAN :
          /\ made \/ "dnsAdd" \in Faults
          /\ dns' = [dns EXCEPT ![Cust(t)] = made]
    /\ Go(t, "dnsed")
    /\ UNCHANGED <<customer, row, files, stack, npm>>

ResumeAfterDns(t) ==
    /\ At(t, "dnsed")
    /\ LogFails(t) \/ (CanLog(t) /\ Record(t, task[t].proxy))

\* Variant: the rollback leaves the containers.
KeepContainers(t) ==
    At(t, "undo") /\ Go(t, "undone") /\ UNCHANGED <<customer, row, files, outside>>

\* The except block: compose_down -v ...
RollbackDown(t) ==
    /\ At(t, "undo")
    /\ \E s \in AfterDown(Cust(t)) : stack' = [stack EXCEPT ![Cust(t)] = s]
    /\ Go(t, "undone")
    /\ UNCHANGED <<customer, row, files, npm, dns>>

\* Variant: the status is not set to "error".
ForgetStatus(t) ==
    /\ At(t, "undone")
    /\ files' = [files EXCEPT ![Cust(t)] = NoDir]
    /\ End(t)
    /\ UNCHANGED <<customer, row, outside>>

\* Variant: the rollback of a redeployment leaves its directory.
KeepDirectory(t) ==
    /\ At(t, "undone")
    /\ files' = IF task[t].hadRow THEN files ELSE [files EXCEPT ![Cust(t)] = NoDir]
    /\ customer' = [customer EXCEPT ![Cust(t)] = "error"]
    /\ End(t)
    /\ UNCHANGED <<row, outside>>

\* ... then rmtree, status "error" and commit, which a broken session refuses.
RollbackFiles(t) ==
    LET c == Cust(t) IN
    /\ At(t, "undone")
    /\ \E f \in IF task[t].made THEN AfterRmtree(files[c]) ELSE {files[c]} :
          files' = [files EXCEPT ![c] = f]
    /\ customer' = IF task[t].broken \/ ~Present(c) THEN customer
                   ELSE [customer EXCEPT ![c] = "error"]
    /\ End(t)
    /\ UNCHANGED <<row, outside>>

-----------------------------------------------------------------------------
(* undeploy_customer, called by reinstall and by delete *)

BeginUndeploy(t) ==
    LET c == Cust(t) IN
    /\ At(t, "queued") /\ task[t].op \in {"reinstall", "delete"}
    /\ row[c] # NULL
    /\ Go(t, "uDown")
    /\ UNCHANGED <<customer, row, files, outside>>

\* Variant: without a row the background task returns early.
SkipWithoutRow(t) ==
    /\ At(t, "queued") /\ task[t].op = "delete" /\ row[Cust(t)] = NULL
    /\ End(t) /\ UNCHANGED <<customer, row, files, outside>>

\* Without a row undeploy_customer only writes a log line.
DeleteWithoutRow(t) ==
    /\ At(t, "queued") /\ task[t].op = "delete" /\ row[Cust(t)] = NULL
    /\ customer' = [customer EXCEPT ![Cust(t)] = "absent"]
    /\ End(t)
    /\ UNCHANGED <<row, files, outside>>

DownForUndeploy(t) ==
    /\ At(t, "uDown")
    /\ \E s \in AfterDown(Cust(t)) : stack' = [stack EXCEPT ![Cust(t)] = s]
    /\ Go(t, "uDowned")
    /\ UNCHANGED <<customer, row, files, npm, dns>>

\* Variant: the deployments row stays when its customer is deleted.
KeepRow(t) ==
    LET c == Cust(t) IN
    /\ customer' = IF task[t].op = "delete" THEN [customer EXCEPT ![c] = "absent"] ELSE customer
    /\ files' = [files EXCEPT ![c] = NoDir]
    /\ End(t)
    /\ UNCHANGED <<row, outside>>

\* The last step: rmtree, delete the row, commit; a row that is gone by now
\* fails that commit.  delete then removes the customer, reinstall goes on
\* with deploy_customer, both without an await.
Undeployed(t) ==
    LET c == Cust(t) IN
    \E f \in AfterRmtree(files[c]) :
        LET dirs == [files EXCEPT ![c] = f]
            rows == [row EXCEPT ![c] = NULL]
        IN  \/ /\ row[c] = NULL
               /\ files' = dirs
               /\ End(t)
               /\ UNCHANGED <<customer, row, outside>>
            \/ /\ row[c] # NULL /\ task[t].op = "delete"
               /\ customer' = [customer EXCEPT ![c] = "absent"]
               /\ row' = rows
               /\ files' = dirs
               /\ End(t)
               /\ UNCHANGED outside
            \/ row[c] # NULL /\ task[t].op = "reinstall" /\ Prepare(t, rows, dirs)

RemoveDns(t) ==
    \/ DnsConfigured /\ Go(t, "uDns") /\ UNCHANGED <<customer, row, files, outside>>
    \/ ~DnsConfigured /\ Undeployed(t)

\* A row or customer that is gone by now raises out of the task.
Abort(t, gone) == gone /\ End(t) /\ UNCHANGED <<customer, row, files, outside>>

ResumeUndeploy(t) ==
    LET c == Cust(t) IN
    /\ At(t, "uDowned")
    /\ \/ Abort(t, ~Present(c) \/ row[c] = NULL)
       \/ /\ Present(c) /\ row[c] # NULL
          /\ \/ row[c].npm /\ Go(t, "uNpm") /\ UNCHANGED <<customer, row, files, outside>>
             \/ ~row[c].npm /\ RemoveDns(t)

\* Variant: the proxy host of the customer is never deleted.
KeepProxyHost(t) ==
    At(t, "uNpm") /\ Go(t, "uNpmed") /\ UNCHANGED <<customer, row, files, outside>>

\* delete_proxy_host reports a failure with False, which nobody looks at.
DeleteProxyHost(t) ==
    /\ At(t, "uNpm")
    /\ \E left \in BOOLEAN :
          /\ left => "npmDelete" \in Faults
          /\ npm' = [npm EXCEPT ![Cust(t)] = @ /\ left]
    /\ Go(t, "uNpmed")
    /\ UNCHANGED <<customer, row, files, stack, dns>>

ResumeAfterProxyDelete(t) ==
    /\ At(t, "uNpmed")
    /\ Abort(t, ~Present(Cust(t))) \/ (Present(Cust(t)) /\ RemoveDns(t))

DeleteDnsRecord(t) ==
    /\ At(t, "uDns")
    /\ \E left \in BOOLEAN :
          /\ left => "dnsDelete" \in Faults
          /\ dns' = [dns EXCEPT ![Cust(t)] = @ /\ left]
    /\ Go(t, "uDnsed")
    /\ UNCHANGED <<customer, row, files, stack, npm>>

FinishUndeploy(t) == At(t, "uDnsed") /\ Undeployed(t)

-----------------------------------------------------------------------------
(* stop_customer, start_customer, restart_customer *)

\* Variant: restart is a compose up.
ComposeUp(c, op, s, ok) == files[c].port # NULL /\ s = [port |-> files[c].port, started |-> op # "stop"] /\ ok

\* The compose call: s is the stack after it, ok says the exit code was 0.
ComposeCall(c, op, s, ok) ==
    \/ files[c].port = NULL /\ s = stack[c] /\ ~ok
    \/ files[c].port # NULL /\ stack[c] = NULL /\ s = NULL /\ (op = "start" => ~ok)
    \/ /\ files[c].port # NULL /\ stack[c] # NULL
       /\ \E up \in BOOLEAN :
             /\ s = [stack[c] EXCEPT !.started = up]
             /\ \/ op = "stop" /\ ~up /\ ok
                \/ op # "stop" /\ up /\ ok /\ ~BoundByOther(c, stack[c].port)
                \/ op # "stop" /\ ~up /\ ~ok /\ BoundByOther(c, stack[c].port)
                \/ "control" \in Faults /\ ~ok /\ (up => stack[c].started)

\* Variant: the exit code is not looked at.
IgnoreExitCode(t) ==
    LET c == Cust(t) IN
    /\ At(t, "control")
    /\ \E s \in Stack \cup {NULL}, ok \in BOOLEAN :
          /\ ComposeCall(c, task[t].op, s, ok)
          /\ stack' = [stack EXCEPT ![c] = s]
          /\ task' = [task EXCEPT ![t] = [@ EXCEPT !.pc = "controlled", !.ok = TRUE]]
    /\ UNCHANGED <<customer, row, files, npm, dns>>

ComposeControl(t) ==
    LET c == Cust(t) IN
    /\ At(t, "control")
    /\ \E s \in Stack \cup {NULL}, ok \in BOOLEAN :
          /\ ComposeCall(c, task[t].op, s, ok)
          /\ stack' = [stack EXCEPT ![c] = s]
          /\ task' = [task EXCEPT ![t] = [@ EXCEPT !.pc = "controlled", !.ok = ok]]
    /\ UNCHANGED <<customer, row, files, npm, dns>>

\* Both statuses in one commit, which fails as a whole if a row it writes is gone.
ResumeControl(t) ==
    LET c == Cust(t)
        w == task[t].writes
        stale == ("row" \in w /\ row[c] = NULL) \/ ("customer" \in w /\ ~Present(c))
        commits == task[t].ok /\ ~stale
    IN
    /\ At(t, "controlled")
    /\ row' = IF commits /\ "row" \in w
              THEN [row EXCEPT ![c].status = RowStatusAfter(task[t].op)] ELSE row
    /\ customer' = IF commits /\ "customer" \in w
                   THEN [customer EXCEPT ![c] = CustomerStatusAfter(task[t].op)] ELSE customer
    /\ End(t)
    /\ UNCHANGED <<files, outside>>

-----------------------------------------------------------------------------
(* A commit that sqlite refuses, say because the disk is full.  Nobody rolls *)
(* the session back, so every later commit of the task fails as well.        *)

\* Before the try block of deploy_customer, or with nothing to undeploy: the task
\* ends.
RefusedBegin(t) ==
    LET c == Cust(t) IN
    /\ At(t, "queued") /\ Present(c)
    /\ task[t].op \in {"reinstall", "delete"} => row[c] = NULL
    /\ \/ UNCHANGED customer
       \/ task[t].op # "delete" /\ customer' = [customer EXCEPT ![c] = "deploying"]
    /\ End(t)
    /\ UNCHANGED <<row, files, outside>>

\* In the try block; that of the redeployment's compose_down is caught.
RefusedLog(t) ==
    /\ \/ At(t, "downed") /\ Break(t, "up")
       \/ (At(t, "upped") \/ At(t, "npmed") \/ At(t, "dnsed")) /\ Break(t, "undo")
    /\ UNCHANGED <<customer, row, files, outside>>

\* Step 11 is next.
Complete(t, proxy) ==
    LET c == Cust(t) IN
    /\ task[t] # NULL /\ CanLog(t)
    /\ \/ /\ At(t, "upped") /\ (task[t].hadRow => row[c] # NULL)
          /\ proxy = (task[t].hadRow /\ row[c].npm)
          /\ LocalMode \/ proxy
          /\ ~DnsConfigured \/ task[t].hadRow
       \/ /\ At(t, "npmed") /\ proxy = task[t].proxy
          /\ ~DnsConfigured \/ task[t].hadRow
       \/ At(t, "dnsed") /\ proxy = task[t].proxy

\* The row is written, and then the log row that says so is refused.
RefusedSuccess(t) ==
    /\ \E proxy \in BOOLEAN : Complete(t, proxy) /\ Write(t, proxy)
    /\ ~Conflict(t)
    /\ Break(t, "undo")
    /\ UNCHANGED <<files, outside>>

\* In the except block, which leaves the status as it is.
RefusedRollback(t) ==
    LET c == Cust(t) IN
    /\ At(t, "undone")
    /\ \E f \in IF task[t].made THEN AfterRmtree(files[c]) ELSE {files[c]} :
          files' = [files EXCEPT ![c] = f]
    /\ End(t)
    /\ UNCHANGED <<customer, row, outside>>

\* In undeploy_customer: after an await, or at its end, when the files are gone
\* and the row may be.
RefusedUndeploy(t) ==
    LET c == Cust(t) IN
    /\ task[t] # NULL
    /\ \/ (At(t, "uDowned") \/ At(t, "uNpmed")) /\ UNCHANGED <<row, files>>
       \/ /\ \/ At(t, "uDnsed")
             \/ ~DnsConfigured /\ Present(c) /\ At(t, "uNpmed")
             \/ ~DnsConfigured /\ Present(c) /\ At(t, "uDowned") /\ row[c] # NULL /\ ~row[c].npm
          /\ \E f \in AfterRmtree(files[c]) : files' = [files EXCEPT ![c] = f]
          /\ row' = row \/ row' = [row EXCEPT ![c] = NULL]
    /\ End(t)
    /\ UNCHANGED <<customer, outside>>

\* Of the two statuses after the compose call.
RefusedControl(t) ==
    At(t, "controlled") /\ End(t) /\ UNCHANGED <<customer, row, files, outside>>

Refused(t) ==
    /\ "db" \in Faults
    /\ \/ RefusedBegin(t) \/ RefusedLog(t) \/ RefusedSuccess(t) \/ RefusedRollback(t)
       \/ RefusedUndeploy(t) \/ RefusedControl(t)

-----------------------------------------------------------------------------
\* What a process death leaves of the directories: one that a task was
\* writing or removing may be torn.
FilesAfterCrash(t) ==
    {files} \cup
    (IF "torn" \in Faults /\ task[t].pc \in {"queued", "undone", "uDowned", "uNpmed", "uDnsed"}
     THEN {[files EXCEPT ![Cust(t)] = f] : f \in Torn(files[Cust(t)])} ELSE {})

\* The process dies with every request and background task; nothing resumes
\* them when it comes back.
Crash ==
    /\ "crash" \in Faults
    /\ \E t \in Tasks : task[t] # NULL /\ files' \in FilesAfterCrash(t)
    /\ task' = [t \in Tasks |-> NULL]
    /\ UNCHANGED <<customer, row, outside>>

Request(t, c) == Create(t, c) \/ ManualDeploy(t, c) \/ Delete(t, c) \/ Control(t, c)

DeployStep(t) ==
    \/ BeginDeploy(t) \/ DownForRedeploy(t) \/ ResumeAfterDown(t)
    \/ UpSucceeds(t) \/ UpFails(t) \/ ResumeAfterUp(t) \/ CreateProxyHost(t) \/ ResumeAfterProxy(t)
    \/ CreateDnsRecord(t) \/ ResumeAfterDns(t) \/ RollbackDown(t) \/ RollbackFiles(t)

UndeployStep(t) ==
    \/ BeginUndeploy(t) \/ DeleteWithoutRow(t) \/ DownForUndeploy(t) \/ ResumeUndeploy(t)
    \/ DeleteProxyHost(t) \/ ResumeAfterProxyDelete(t) \/ DeleteDnsRecord(t)
    \/ FinishUndeploy(t)

Step(t) == DeployStep(t) \/ UndeployStep(t) \/ ComposeControl(t) \/ ResumeControl(t) \/ Refused(t)

Next ==
    \/ \E t \in Tasks, c \in Customers : Request(t, c)
    \/ \E t \in Tasks : Step(t)
    \/ \E c \in Customers : CheckHealth(c) \/ UpdateCustomer(c)
    \/ Crash

Spec == Init /\ [][Next]_vars

\* The loop runs every task that can go on, and every awaited call returns:
\* subprocess, httpx and WinRM calls all have timeouts.
FairSpec == Spec /\ \A t \in Tasks : WF_vars(Step(t))

-----------------------------------------------------------------------------
(* Properties *)

Settled(c) == ~Busy(c)
Nothing(c) == stack[c] = NULL /\ files[c] = NoDir /\ ~npm[c] /\ ~dns[c]
InFlight(t, c, op) == task[t] # NULL /\ Cust(t) = c /\ task[t].op = op

\* The key in management.json is the one the management database was
\* encrypted with, through every redeploy, failure and interleaving:
\* deploy_customer reads the old key and renders the new file in one step.
KeyFitsData ==
    \A c \in Customers :
        files[c].data # NULL /\ files[c].key # NULL => files[c].key = files[c].data

\* A deployments row never outlives its customer: a deployment that was
\* under way while the customer was deleted does not put it back.
RowHasCustomer == \A c \in Customers : row[c] # NULL => Present(c)

\* A customer shown as active, with nothing in flight, has a row that says running
\* and containers that compose started on the port the row has.
ActiveIsStarted ==
    \A c \in Customers : Settled(c) /\ customer[c] = "active" =>
        /\ row[c] # NULL /\ row[c].status = "running"
        /\ stack[c] = [port |-> row[c].port, started |-> TRUE]

\* When the except block of deploy_customer is through with a first
\* deployment, nothing of it is left and the customer shows the error.
RollbackIsComplete ==
    [][\A t \in Tasks, c \in Customers :
          At(t, "undone") /\ Cust(t) = c /\ ~task[t].hadRow /\ task'[t] = NULL =>
              customer'[c] = "error" /\ Nothing(c)']_vars

\* A deleted customer leaves nothing behind.
DeletedLeavesNothing ==
    \A c \in Customers : Settled(c) /\ ~Present(c) => Nothing(c)

\* A redeploy or restart of a customer never moves it to another port.
PortIsStable ==
    [][\A c \in Customers : row[c] # NULL /\ row'[c] # NULL => row'[c].port = row[c].port]_vars

\* No two customers without a task share a port, in the table or in a compose file,
\* although allocate_port reserves nothing and two deployments that run at a time
\* may pick the same one: the unique column and the rollback settle it.
Holds(c, p) == Settled(c) /\ (files[c].port = p \/ (row[c] # NULL /\ row[c].port = p))
OnePortPerCustomer ==
    \A p \in Ports : \A c, d \in Customers : Holds(c, p) /\ Holds(d, p) => c = d

\* A redeployment with keep_data never loses the management database that was
\* there when it began.
KeepDataSurvives ==
    [][\A t \in Tasks : LET c == Cust(t) IN
          task[t] # NULL /\ task[t].op = "redeploy" /\ task[t].hadData /\ files[c].data # NULL =>
              files'[c].data # NULL]_vars

\* What an operator sees of a customer: the request that is being worked on, its
\* port, and what there is of it on the host.
RequestOf(c) ==
    IF Busy(c) THEN CHOOSE op \in Operations : \E t \in Tasks : InFlight(t, c, op) ELSE NULL
PortOf(c) == IF row[c] = NULL THEN NULL ELSE row[c].port

Changing(c) ==
    \E t \in Tasks, op \in {"create", "redeploy", "reinstall", "delete"} : InFlight(t, c, op)
Stands(c, started) ==
    /\ row[c] # NULL /\ files[c].port = row[c].port
    /\ stack[c] = [port |-> row[c].port, started |-> started]
ShapeOf(c) ==
    IF Changing(c) THEN "changing"
    ELSE IF row[c] = NULL /\ Nothing(c) THEN "nothing"
    ELSE IF row[c] # NULL /\ stack[c] = NULL /\ files[c] = NoDir THEN "stripped"
    ELSE IF Stands(c, TRUE) THEN "started"
    ELSE IF Stands(c, FALSE) THEN "halted" ELSE "broken"

Promise == INSTANCE CustomerContract WITH
    status <- customer,
    port <- [c \in Customers |-> PortOf(c)],
    request <- [c \in Customers |-> RequestOf(c)],
    shape <- [c \in Customers |-> ShapeOf(c)]

\* The handlers and their background tasks keep the API's promise: every
\* request has one of its outcomes, at the end of which the status, the port
\* and the host agree, whatever requests came before and however they failed.
KeepsPromise == Promise!Spec

\* Every deployment ends in a status other than "deploying".
DeployingEnds == \A c \in Customers : customer[c] = "deploying" ~> customer[c] # "deploying"

\* An accepted delete removes the customer.
DeleteCompletes ==
    \A c \in Customers : (\E t \in Tasks : InFlight(t, c, "delete")) ~> ~Present(c)

=============================================================================
