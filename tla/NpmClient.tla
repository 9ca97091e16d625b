----------------------------- MODULE NpmClient -----------------------------
(***************************************************************************)
(* services/npm_service.py: how the appliance creates and deletes the      *)
(* proxy host of a customer over the REST API of Nginx Proxy Manager.      *)
(*                                                                         *)
(* Every request needs a login token.  One token is cached for the whole   *)
(* process; NPM may reject it at any time (it restarts, its keys change,   *)
(* the token runs out).  The first request of a call is repeated once with *)
(* a new token, the requests after it are not.                             *)
(*                                                                         *)
(* A request is two steps: NPM acts on it and the call gets its answer,    *)
(* then the loop resumes the call, which sends the next request.           *)
(*                                                                         *)
(* A domain stands for a customer's deployment; known[d] is what           *)
(* deploy_customer and undeploy_customer keep of it in npm_proxy_id.       *)
(***************************************************************************)
EXTENDS Integers, FiniteSets

CONSTANTS
    Domains,    \* the customers' domains
    Calls,      \* slots for calls in flight
    MaxIds,     \* ids of proxy hosts, so many that one is always unused
    NULL,       \* no value
    SslModes,   \* what config.ssl_mode may say, "none" without an admin_email
    Exclusive,  \* no two calls for one domain at a time
    Faults      \* what may go wrong

AllFaults ==
    { "drop",     \* NPM stops to accept the tokens it has issued
      "refuse",   \* NPM answers a request with an error
      "lost",     \* a connection breaks or times out, before or after NPM acts
      "cert",     \* Let's Encrypt does not issue a certificate
      "crash" }   \* the appliance process dies

Ids == 1 .. MaxIds
Modes == {"letsencrypt", "wildcard", "none"}

ASSUME DomainsAssumption == NULL \notin Domains
ASSUME IdsAssumption == MaxIds \in Nat /\ NULL \notin Nat
ASSUME SwitchesAssumption ==
    SslModes \subseteq Modes /\ Exclusive \in BOOLEAN /\ Faults \subseteq AllFaults

VARIABLES
    host,    \* NPM's proxy host of each domain
    issued,  \* domains NPM has a Let's Encrypt certificate for
    known,   \* the proxy host's id in the deployments row
    cache,   \* _token_cache
    call     \* the calls in flight

vars == <<host, issued, known, cache, call>>

\* ssl: a certificate is assigned and HTTPS forced; the two always change together.
Host == [id : Ids, ssl : BOOLEAN]
Token == [fresh : BOOLEAN,  \* the clock has not reached expires_at
          valid : BOOLEAN]  \* NPM accepts it

Operations == {"create", "delete", "test"}
\* The requests that _request_with_reauth makes, one for each operation.
First == [op \in Operations |->
             IF op = "create" THEN "post" ELSE IF op = "delete" THEN "delete" ELSE "list"]
SslRequests == {"inspect", "certificates", "reassign", "certify", "assign"}
Requests == {First[op] : op \in Operations} \cup {"login", "find", "show", "put"} \cup SslRequests
Answers == {"ok", "inUse", "unauthorized", "refused", "lost"}

\* One call: the request it waits for, the answer when NPM has given one, and its locals.
Call == [op : Operations, dom : Domains, mode : Modes, request : Requests,
         answer : Answers \cup {NULL},
         valid : BOOLEAN,         \* NPM accepts the token in its headers
         retried : BOOLEAN,       \* its first request was rejected once
         id : Ids \cup {NULL},    \* proxy_id
         ssl : BOOLEAN,           \* a certificate was in the last answer
         hit : BOOLEAN]           \* a fault struck one of its requests

ASSUME NullAssumption == NULL \notin Host \cup Call \cup Answers \cup [op : Operations, dom : Domains]

TypeOK ==
    /\ host \in [Domains -> Host \cup {NULL}]
    /\ issued \subseteq Domains
    /\ known \in [Domains -> Ids \cup {NULL}]
    /\ cache \in Token \cup {NULL}
    /\ call \in [Calls -> Call \cup {NULL}]

Init ==
    /\ host = [d \in Domains |-> NULL]
    /\ issued = {}
    /\ known = [d \in Domains |-> NULL]
    /\ cache = NULL
    /\ call = [t \in Calls |-> NULL]

Waits(t, request) ==
    call[t] # NULL /\ call[t].request = request /\ call[t].answer = NULL
Got(t, request) ==
    call[t] # NULL /\ call[t].request = request /\ call[t].answer # NULL
Calling(d) == \E t \in Calls : call[t] # NULL /\ call[t].dom = d /\ call[t].op # "test"
Dom(t) == call[t].dom

-----------------------------------------------------------------------------
(* NPM.  It has one proxy host per domain and never gives an id again.     *)

Unused(i) ==
    /\ \A d \in Domains : known[d] # i /\ (host[d] # NULL => host[d].id # i)
    /\ \A t \in Calls : call[t] # NULL => call[t].id # i
Fresh(i) == Unused(i) /\ \A j \in Ids : j < i => ~Unused(j)

\* The domain has the host the call means.
Has(t) == host[Dom(t)] # NULL /\ host[Dom(t)].id = call[t].id

\* NPM answers a, with an id and a certificate; or it has acted and the answer is lost.
Answered(t, a, id, ssl) ==
    \/ call' = [call EXCEPT ![t] = [@ EXCEPT !.answer = a, !.id = id, !.ssl = ssl]]
    \/ "lost" \in Faults /\ call' = [call EXCEPT ![t] = [@ EXCEPT !.answer = "lost", !.hit = TRUE]]
Answer(t, a) == Answered(t, a, call[t].id, call[t].ssl)

\* NPM does not act: the token is rejected, the request refused or lost on its
\* way.  Only the first request of a call has another try with a new token.
Rejected(t) ==
    /\ call[t] # NULL /\ call[t].answer = NULL
    /\ \E a \in {"unauthorized", "refused", "lost"} :
          /\ a = "unauthorized" => call[t].request # "login" /\ ~call[t].valid
          /\ a = "refused" => "refuse" \in Faults /\ (call[t].request = "login" \/ call[t].valid)
          /\ a = "lost" => "lost" \in Faults
          /\ call' = [call EXCEPT ![t] = [@ EXCEPT !.answer = a,
                         !.hit = call[t].hit \/ a # "unauthorized" \/ call[t].retried
                                 \/ call[t].request # First[call[t].op]]]
    /\ UNCHANGED <<host, issued, known, cache>>

\* POST /tokens
Login(t) ==
    /\ Waits(t, "login")
    /\ \/ call' = [call EXCEPT ![t] = [@ EXCEPT !.answer = "ok", !.valid = TRUE]]
       \/ "lost" \in Faults /\ call' = [call EXCEPT ![t] = [@ EXCEPT !.answer = "lost", !.hit = TRUE]]
    /\ UNCHANGED <<host, issued, known, cache>>

Serves(t, request) == Waits(t, request) /\ call[t].valid

\* POST /nginx/proxy-hosts
PostHost(t) ==
    /\ Serves(t, "post")
    /\ \/ /\ host[Dom(t)] # NULL
          /\ Answer(t, "inUse")
          /\ UNCHANGED host
       \/ /\ host[Dom(t)] = NULL
          /\ \E i \in Ids : /\ Fresh(i)
                            /\ host' = [host EXCEPT ![Dom(t)] = [id |-> i, ssl |-> FALSE]]
                            /\ Answered(t, "ok", i, FALSE)
    /\ UNCHANGED <<issued, known, cache>>

\* GET /nginx/proxy-hosts, searched for the domain
FindHost(t) ==
    /\ Serves(t, "find")
    /\ Answered(t, "ok", IF host[Dom(t)] = NULL THEN NULL ELSE host[Dom(t)].id, FALSE)
    /\ UNCHANGED <<host, issued, known, cache>>

\* GET /nginx/proxy-hosts/{id}
ShowHost(t) ==
    /\ Serves(t, "show") \/ Serves(t, "inspect")
    /\ \/ Has(t) /\ Answered(t, "ok", call[t].id, host[Dom(t)].ssl)
       \/ ~Has(t) /\ Answer(t, "refused")
    /\ UNCHANGED <<host, issued, known, cache>>

\* Variant: the update does not take over the certificate.
PutPlain(t) ==
    /\ Serves(t, "put")
    /\ \/ Has(t) /\ host' = [host EXCEPT ![Dom(t)].ssl = FALSE] /\ Answer(t, "ok")
       \/ ~Has(t) /\ Answer(t, "refused") /\ UNCHANGED host
    /\ UNCHANGED <<issued, known, cache>>

\* PUT /nginx/proxy-hosts/{id} with the certificate show found, if any
PutHost(t) ==
    /\ Serves(t, "put")
    /\ \/ Has(t) /\ host' = [host EXCEPT ![Dom(t)].ssl = call[t].ssl] /\ Answer(t, "ok")
       \/ ~Has(t) /\ Answer(t, "refused") /\ UNCHANGED host
    /\ UNCHANGED <<issued, known, cache>>

\* PUT /nginx/proxy-hosts/{id} with a certificate
AssignCertificate(t) ==
    /\ Serves(t, "assign") \/ Serves(t, "reassign")
    /\ \/ Has(t) /\ host' = [host EXCEPT ![Dom(t)].ssl = TRUE] /\ Answer(t, "ok")
       \/ ~Has(t) /\ Answer(t, "refused") /\ UNCHANGED host
    /\ UNCHANGED <<issued, known, cache>>

\* GET /nginx/certificates, searched for the domain
FindCertificate(t) ==
    /\ Serves(t, "certificates")
    /\ Answered(t, "ok", call[t].id, Dom(t) \in issued)
    /\ UNCHANGED <<host, issued, known, cache>>

\* POST /nginx/certificates
IssueCertificate(t) ==
    /\ Serves(t, "certify")
    /\ \/ issued' = issued \cup {Dom(t)} /\ Answer(t, "ok")
       \/ /\ "cert" \in Faults
          /\ call' = [call EXCEPT ![t] = [@ EXCEPT !.answer = "refused", !.hit = TRUE]]
          /\ UNCHANGED issued
    /\ UNCHANGED <<host, known, cache>>

\* DELETE /nginx/proxy-hosts/{id}
RemoveHost(t) ==
    /\ Serves(t, "delete")
    /\ \/ Has(t) /\ host' = [host EXCEPT ![Dom(t)] = NULL] /\ Answer(t, "ok")
       \/ ~Has(t) /\ Answer(t, "refused") /\ UNCHANGED host
    /\ UNCHANGED <<issued, known, cache>>

\* GET /nginx/proxy-hosts or /nginx/certificates for the settings page
ListForPage(t) ==
    Serves(t, "list") /\ Answer(t, "ok") /\ UNCHANGED <<host, issued, known, cache>>

\* NPM rejects from now on every token issued so far.
DropTokens ==
    /\ "drop" \in Faults
    /\ cache' = IF cache = NULL THEN NULL ELSE [cache EXCEPT !.valid = FALSE]
    /\ call' = [t \in Calls |-> IF call[t] = NULL THEN NULL ELSE [call[t] EXCEPT !.valid = FALSE]]
    /\ UNCHANGED <<host, issued, known>>

-----------------------------------------------------------------------------
(* The calls *)

\* time.time() reaches expires_at.
CacheExpires ==
    /\ cache # NULL /\ cache.fresh
    /\ cache' = [cache EXCEPT !.fresh = FALSE]
    /\ UNCHANGED <<host, issued, known, call>>

\* _get_token: the cached token and at once the first request, or a login.
Start(t, op, d, mode) ==
    LET cached == cache # NULL /\ cache.fresh IN
    /\ call[t] = NULL /\ (Exclusive => op = "test" \/ ~Calling(d))
    /\ call' = [call EXCEPT ![t] =
          [op |-> op, dom |-> d, mode |-> mode, request |-> IF cached THEN First[op] ELSE "login",
           answer |-> NULL, valid |-> cached /\ cache.valid, retried |-> FALSE,
           id |-> IF op = "delete" THEN known[d] ELSE NULL, ssl |-> FALSE, hit |-> FALSE]]
    /\ UNCHANGED <<host, issued, known, cache>>

\* Variant: a redeployment does not reuse the id in its row.
CreateAgain(t, d) == \E mode \in SslModes : Start(t, "create", d, mode)

\* Step 9 of deploy_customer: only without an id; undeploy_customer: only with one.
StartCreate(t, d) == known[d] = NULL /\ \E mode \in SslModes : Start(t, "create", d, mode)
StartDelete(t, d) == known[d] # NULL /\ Start(t, "delete", d, "none")
\* test_npm_connection and list_certificates
StartTest(t, d) == Start(t, "test", d, "none")

Send(t, request) ==
    /\ call' = [call EXCEPT ![t] = [@ EXCEPT !.request = request, !.answer = NULL]]
    /\ UNCHANGED <<host, issued, known, cache>>

\* The call returns; create tells id (NULL is an error), delete's result is
\* not looked at and the row goes.
Return(t, id) ==
    /\ call' = [call EXCEPT ![t] = NULL]
    /\ known' = IF call[t].op = "test" THEN known ELSE [known EXCEPT ![Dom(t)] = id]
    /\ UNCHANGED <<host, issued, cache>>

ResumeLogin(t) ==
    /\ Got(t, "login")
    /\ \/ /\ call[t].answer = "ok"
          /\ cache' = [fresh |-> TRUE, valid |-> call[t].valid]
          /\ call' = [call EXCEPT ![t] = [@ EXCEPT !.request = First[call[t].op], !.answer = NULL]]
          /\ UNCHANGED <<host, issued, known>>
       \/ call[t].answer # "ok" /\ Return(t, NULL)

\* Variant: every rejected request is tried again.
RetryForEver(t) ==
    /\ Got(t, First[call[t].op]) /\ call[t].answer = "unauthorized"
    /\ Send(t, "login")

\* Variant: a rejected request is not tried again.
NeverRetry(t) ==
    /\ Got(t, First[call[t].op]) /\ call[t].answer = "unauthorized"
    /\ Return(t, NULL)

\* _request_with_reauth: a rejected first request is tried again once.
Reauthenticate(t) ==
    /\ Got(t, First[call[t].op]) /\ call[t].answer = "unauthorized"
    /\ \/ /\ ~call[t].retried
          /\ call' = [call EXCEPT ![t] =
                         [@ EXCEPT !.request = "login", !.answer = NULL, !.retried = TRUE]]
          /\ UNCHANGED <<host, issued, known, cache>>
       \/ call[t].retried /\ Return(t, NULL)

\* _request_ssl: a wildcard certificate is assigned right away, without an
\* administrator's address nothing happens.
RequestSsl(t, id) ==
    \/ call[t].mode = "wildcard" /\ Send(t, "assign")
    \/ call[t].mode = "letsencrypt" /\ Send(t, "inspect")
    \/ call[t].mode = "none" /\ Return(t, id)

ResumePost(t) ==
    /\ Got(t, "post")
    /\ \/ call[t].answer = "ok" /\ RequestSsl(t, call[t].id)
       \/ call[t].answer = "inUse" /\ Send(t, "find")
       \/ call[t].answer \in {"refused", "lost"} /\ Return(t, NULL)

ResumeFind(t) ==
    /\ Got(t, "find")
    /\ \/ call[t].answer = "ok" /\ call[t].id # NULL /\ Send(t, "show")
       \/ ~(call[t].answer = "ok" /\ call[t].id # NULL) /\ Return(t, NULL)

\* An answer other than 200 leaves certificate_id 0 in the payload.
ResumeShow(t) ==
    /\ Got(t, "show")
    /\ \/ call[t].answer # "lost" /\ Send(t, "put")
       \/ call[t].answer = "lost" /\ Return(t, NULL)

\* A failed update is only logged.
ResumePut(t) ==
    /\ Got(t, "put")
    /\ \/ call[t].answer # "lost" /\ RequestSsl(t, call[t].id)
       \/ call[t].answer = "lost" /\ Return(t, NULL)

\* The host has a certificate, or NPM has one for the domain: assign it.
ResumeInspect(t) ==
    /\ Got(t, "inspect")
    /\ \/ call[t].answer = "ok" /\ call[t].ssl /\ Send(t, "reassign")
       \/ call[t].answer = "ok" /\ ~call[t].ssl /\ Send(t, "certificates")
       \/ call[t].answer # "ok" /\ Send(t, "certify")

ResumeCertificates(t) ==
    /\ Got(t, "certificates")
    /\ \/ call[t].answer = "ok" /\ call[t].ssl /\ Send(t, "reassign")
       \/ ~(call[t].answer = "ok" /\ call[t].ssl) /\ Send(t, "certify")

ResumeReassign(t) ==
    /\ Got(t, "reassign")
    /\ \/ call[t].answer = "ok" /\ Return(t, call[t].id)
       \/ call[t].answer # "ok" /\ Send(t, "certify")

ResumeCertify(t) ==
    /\ Got(t, "certify")
    /\ \/ call[t].answer = "ok" /\ Send(t, "assign")
       \/ call[t].answer # "ok" /\ Return(t, call[t].id)

\* Variant: a certificate that could not be assigned is reported as id 0.
ReturnZero(t) ==
    Got(t, "assign") /\ Return(t, IF call[t].answer = "ok" THEN call[t].id ELSE 0)

ResumeAssign(t) == Got(t, "assign") /\ Return(t, call[t].id)

\* test_npm_connection only reports; delete_proxy_host's failure is only logged.
ResumeLast(t) ==
    /\ Got(t, "delete") \/ Got(t, "list")
    /\ call[t].answer # "unauthorized"
    /\ Return(t, NULL)

\* The process dies: what NPM has stays, a deployment under way recorded no id.
Crash ==
    /\ "crash" \in Faults
    /\ cache' = NULL
    /\ call' = [t \in Calls |-> NULL]
    /\ UNCHANGED <<host, issued, known>>

-----------------------------------------------------------------------------

Npm(t) ==
    \/ Rejected(t) \/ Login(t) \/ PostHost(t) \/ FindHost(t) \/ ShowHost(t) \/ PutHost(t)
    \/ AssignCertificate(t) \/ FindCertificate(t) \/ IssueCertificate(t)
    \/ RemoveHost(t) \/ ListForPage(t)

Resume(t) ==
    \/ ResumeLogin(t) \/ Reauthenticate(t) \/ ResumePost(t) \/ ResumeFind(t) \/ ResumeShow(t)
    \/ ResumePut(t) \/ ResumeInspect(t) \/ ResumeCertificates(t) \/ ResumeReassign(t)
    \/ ResumeCertify(t) \/ ResumeAssign(t) \/ ResumeLast(t)

Next ==
    \/ \E t \in Calls, d \in Domains : StartCreate(t, d) \/ StartDelete(t, d) \/ StartTest(t, d)
    \/ \E t \in Calls : Npm(t) \/ Resume(t)
    \/ DropTokens \/ CacheExpires \/ Crash

Spec == Init /\ [][Next]_vars

\* Every request has a timeout, and the loop runs every call that got its answer.
FairSpec == Spec /\ \A t \in Calls : WF_vars(Npm(t) \/ Resume(t))

-----------------------------------------------------------------------------
(* Properties *)

\* What the callers see of the state: the requests and tokens are hidden.
JobOf(t) ==
    IF call[t] = NULL \/ call[t].op = "test" THEN NULL
    ELSE [op |-> call[t].op, dom |-> call[t].dom]
Contract == INSTANCE ProxyContract WITH
    proxy <- [d \in Domains |-> host[d] # NULL],
    told <- [d \in Domains |-> known[d] # NULL],
    job <- [t \in Calls |-> JobOf(t)]

\* The calls do what DeployLifecycle takes for one step each: an id is told
\* only of a host NPM has, whatever request failed or was repeated, and every
\* call returns.
MeetsContract == Contract!FairSpec

\* A call can make so many requests at most after the one it is at.  The longest
\* call finds its token rejected, the domain in use, a certificate that cannot
\* be assigned and has one issued.
RequestsAfter == [request \in Requests |->
    CASE request = "assign" -> 0
      [] request = "certify" -> 1
      [] request = "reassign" -> 2
      [] request = "certificates" -> 3
      [] request = "inspect" -> 4
      [] request = "put" -> 5
      [] request = "show" -> 6
      [] request = "find" -> 7
      [] request \in {"post", "delete", "list"} -> 8
      [] request = "login" -> 9]
RequestsLeft(t) ==
    RequestsAfter[call[t].request]
        + IF ~call[t].retried /\ call[t].request \in {"login", First[call[t].op]} THEN 2 ELSE 0

\* A call makes twelve requests at most, also when its token is rejected for
\* ever and NPM refuses everything: the next one is always nearer to the end.
CallsAreBounded ==
    [][\A t \in Calls :
          call[t] # NULL /\ call[t].answer # NULL /\ call'[t] # NULL /\ call'[t].answer = NULL =>
              RequestsLeft(t)' < RequestsLeft(t)]_vars

\* The id in the row is never another one than that of the domain's host:
\* deleting a customer cannot delete a host made after its own, whatever was
\* lost, retried or found in use before.
KnownIsRight ==
    \A d \in Domains : known[d] # NULL /\ host[d] # NULL => host[d].id = known[d]

\* A call of which no request was struck by a fault does what it is for, also
\* when the cached token is dead and when an earlier call left the domain's
\* host behind: create tells the id of the host, with HTTPS, and delete removes it.
CallSucceeds ==
    [][\A t \in Calls : Resume(t) /\ call'[t] = NULL /\ ~call[t].hit =>
          /\ call[t].op = "create" =>
                /\ host[Dom(t)] # NULL /\ known'[Dom(t)] = host[Dom(t)].id
                /\ call[t].mode # "none" => host[Dom(t)].ssl
          /\ call[t].op = "delete" => host[Dom(t)] = NULL]_vars

\* A host found in use keeps its certificate through the update, unless one
\* of the requests to it failed.
HttpsStays ==
    [][\A d \in Domains :
          host[d] # NULL /\ host[d].ssl /\ host'[d] # NULL =>
              host'[d].ssl \/ \E t \in Calls : call[t] # NULL /\ Dom(t) = d /\ call[t].hit]_vars

=============================================================================
