-------------------------- MODULE CustomerContract --------------------------
(***************************************************************************)
(* What the API promises an operator who sends one request at a time, and  *)
(* what DeployLifecycle implements: a request that was accepted has one of *)
(* a few outcomes, and what the API shows of a customer is what there is   *)
(* of it on the host.  The promise holds as long as docker takes           *)
(* containers down, stops and starts them, NPM and DNS delete what they    *)
(* are told to and the appliance does not die; compose up, NPM and DNS may *)
(* refuse to create anything.                                              *)
(***************************************************************************)
CONSTANTS Customers, Ports, NULL

VARIABLES
    status,    \* what the API shows, "absent" without a customer
    port,      \* the UDP port the customer was given
    request,   \* the request that is being worked on
    shape      \* what there is of the customer on the host

vars == <<status, port, request, shape>>

Deployments == {"create", "redeploy", "reinstall"}
Controls == {"stop", "start", "restart"}
Requests == Deployments \cup Controls \cup {"delete"}
Statuses == {"active", "inactive", "deploying", "error"}
Shapes ==
    { "nothing",    \* no containers, files, proxy host or record
      "started",    \* all containers were started, with the customer's port
      "halted",     \* the containers are there and were not all started
      "stripped",   \* a redeployment failed: no containers, no files
      "changing" }  \* a deployment or a deletion is at work

TypeOK ==
    /\ status \in [Customers -> Statuses \cup {"absent"}]
    /\ port \in [Customers -> Ports \cup {NULL}]
    /\ request \in [Customers -> Requests \cup {NULL}]
    /\ shape \in [Customers -> Shapes]

Init ==
    /\ status = [c \in Customers |-> "absent"]
    /\ port = [c \in Customers |-> NULL]
    /\ request = [c \in Customers |-> NULL]
    /\ shape = [c \in Customers |-> "nothing"]

Becomes(c, s, h) ==
    status' = [status EXCEPT ![c] = s] /\ shape' = [shape EXCEPT ![c] = h]
Answered(c) == request' = [request EXCEPT ![c] = NULL]

\* A request for a customer that the API knows, or a new one, is accepted.
Accept(c, op) ==
    /\ \A d \in Customers : request[d] = NULL
    /\ op = "create" <=> status[c] = "absent"
    /\ op \in Controls => port[c] # NULL
    /\ request' = [request EXCEPT ![c] = op]
    /\ \/ op \in Deployments /\ Becomes(c, "deploying", "changing")
       \/ op = "delete" /\ Becomes(c, "inactive", "changing")
       \/ op \in Controls /\ UNCHANGED <<status, shape>>
    /\ UNCHANGED port

\* A deployment gets under way; a reinstallation has given up the old port.
Begin(c) ==
    /\ request[c] \in Deployments
    /\ status' = [status EXCEPT ![c] = "deploying"]
    /\ \/ UNCHANGED port
       \/ request[c] = "reinstall" /\ port' = [port EXCEPT ![c] = NULL]
    /\ UNCHANGED <<request, shape>>

\* It succeeds, on the port the customer has or on one that nobody has.
Deployed(c) ==
    /\ request[c] \in Deployments
    /\ \E p \in Ports :
          /\ port[c] # NULL => p = port[c] /\ request[c] = "redeploy"
          /\ \A d \in Customers \ {c} : port[d] # p
          /\ port' = [port EXCEPT ![c] = p]
    /\ Becomes(c, "active", "started") /\ Answered(c)

\* It fails: a first deployment leaves nothing.
Failed(c) ==
    /\ request[c] \in Deployments
    /\ Becomes(c, "error", IF port[c] = NULL THEN "nothing" ELSE "stripped") /\ Answered(c)
    /\ UNCHANGED port

Deleted(c) ==
    /\ request[c] = "delete"
    /\ Becomes(c, "absent", "nothing") /\ Answered(c)
    /\ port' = [port EXCEPT ![c] = NULL]

Target(c) == IF request[c] = "stop" THEN "halted" ELSE "started"

\* Docker does what a stop, start or restart asks for.
Switch(c) ==
    /\ request[c] \in Controls /\ shape[c] \in {"started", "halted"}
    /\ shape' = [shape EXCEPT ![c] = Target(c)]
    /\ UNCHANGED <<status, port, request>>

\* Its answer: without a compose file nothing has happened.  A health check
\* that came in between may have found containers that do not run.
Switched(c) ==
    /\ request[c] \in Controls
    /\ \/ shape[c] = "stripped" /\ UNCHANGED status
       \/ /\ shape[c] = Target(c)
          /\ \E s \in {IF request[c] = "stop" THEN "inactive" ELSE "active", "error"} :
                status' = [status EXCEPT ![c] = s]
    /\ Answered(c)
    /\ UNCHANGED <<port, shape>>

\* A health check of a customer with containers shows what it finds: containers
\* that were started may run or not, others do not.
Check(c) ==
    /\ port[c] # NULL /\ shape[c] \in {"started", "halted", "changing"}
    /\ \E s \in {"active", "error"} :
          /\ shape[c] = "halted" => s = "error"
          /\ status' = [status EXCEPT ![c] = s]
    /\ UNCHANGED <<port, request, shape>>

Next ==
    \E c \in Customers :
        \/ \E op \in Requests : Accept(c, op)
        \/ Begin(c) \/ Deployed(c) \/ Failed(c) \/ Deleted(c)
        \/ Switch(c) \/ Switched(c) \/ Check(c)

Spec == Init /\ [][Next]_vars

=============================================================================
