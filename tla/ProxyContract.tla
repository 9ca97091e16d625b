--------------------------- MODULE ProxyContract ---------------------------
(***************************************************************************)
(* What deploy_customer and undeploy_customer rely on when they call       *)
(* create_proxy_host and delete_proxy_host, and what CreateProxyHost and   *)
(* DeleteProxyHost of DeployLifecycle take as one step: somewhere between  *)
(* call and return NPM makes or removes the host of the domain, and an id  *)
(* is told only if the host was made.                                      *)
(***************************************************************************)
CONSTANTS Domains, Calls, NULL

VARIABLES
    proxy,   \* NPM has a proxy host for the domain
    told,    \* the deployments row has its id
    job      \* the call in flight for each slot

vars == <<proxy, told, job>>

Job == [op : {"create", "delete"}, dom : Domains]

TypeOK ==
    /\ proxy \in [Domains -> BOOLEAN]
    /\ told \in [Domains -> BOOLEAN]
    /\ job \in [Calls -> Job \cup {NULL}]

Init ==
    /\ proxy = [d \in Domains |-> FALSE]
    /\ told = [d \in Domains |-> FALSE]
    /\ job = [t \in Calls |-> NULL]

\* At most one call for a domain; create without an id, delete with one.
Begin(t, j) ==
    /\ job[t] = NULL /\ \A u \in Calls : job[u] # NULL => job[u].dom # j.dom
    /\ told[j.dom] <=> j.op = "delete"
    /\ job' = [job EXCEPT ![t] = j]
    /\ UNCHANGED <<proxy, told>>

Works(t, op) == job[t] # NULL /\ job[t].op = op

Make(t) ==
    /\ Works(t, "create")
    /\ proxy' = [proxy EXCEPT ![job[t].dom] = TRUE]
    /\ UNCHANGED <<told, job>>

Remove(t) ==
    /\ Works(t, "delete")
    /\ proxy' = [proxy EXCEPT ![job[t].dom] = FALSE]
    /\ UNCHANGED <<told, job>>

\* An id is told only of a host that is there; delete tells nothing.
Return(t) ==
    /\ job[t] # NULL
    /\ \E id \in BOOLEAN :
          /\ id => Works(t, "create") /\ proxy[job[t].dom]
          /\ told' = [told EXCEPT ![job[t].dom] = id]
    /\ job' = [job EXCEPT ![t] = NULL]
    /\ UNCHANGED proxy

\* The appliance dies with its calls.
Crash == job' = [t \in Calls |-> NULL] /\ UNCHANGED <<proxy, told>>

Next ==
    \/ \E t \in Calls, j \in Job : Begin(t, j)
    \/ \E t \in Calls : Make(t) \/ Remove(t) \/ Return(t)
    \/ Crash

Spec == Init /\ [][Next]_vars
FairSpec == Spec /\ \A t \in Calls : WF_vars(Return(t))

=============================================================================
