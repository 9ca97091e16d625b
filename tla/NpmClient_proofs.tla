-------------------------- MODULE NpmClient_proofs --------------------------
(***************************************************************************)
(* Theorems about NpmClient for every number of domains, calls and ids.    *)
(* All but the types and the number of requests need Exclusive: two calls  *)
(* for one domain at a time could remove the host under each other's feet. *)
(***************************************************************************)
EXTENDS NpmClient, TLAPS

-----------------------------------------------------------------------------
(* The inductive invariant.  Good says of one call, with the host h and the *)
(* recorded id k of its domain, what the steps until now have established.  *)

\* A call only makes the requests of its operation.
RightRequest(c) ==
    /\ c.op = "create" => c.request \notin {"delete", "list"}
    /\ c.op = "delete" => c.request \in {"login", "delete"}
    /\ c.op = "test" => c.request \in {"login", "list"}

\* A creation knows of no host, a removal has the recorded id.
JobFits(c, k) ==
    /\ c.op = "create" => k = NULL
    /\ c.op = "delete" => k # NULL /\ c.id = k

\* The requests of a creation once it has the host's id.
Later == {"show", "put"} \cup SslRequests

\* From the first answer on there is a host, and the call comes to know its id.
HostKnown(c, h) ==
    c.op = "create" =>
        /\ \/ c.request \in Later \cup {"find"}
           \/ c.request = "post" /\ c.answer \in {"ok", "inUse"}
           => h # NULL
        /\ \/ c.request \in Later
           \/ c.request \in {"post", "find"} /\ c.answer = "ok"
           => c.id = h.id

\* What NPM answers a call that no fault has struck.
Undisturbed(c, h) ==
    ~c.hit /\ c.answer # NULL =>
        \/ c.answer = "ok" /\ (c.request = "delete" => h = NULL)
        \/ c.answer = "inUse" /\ c.request = "post"
        \/ c.answer = "unauthorized" /\ c.request = First[c.op] /\ ~c.retried
        \/ c.answer = "refused" /\ c.request = "delete" /\ h = NULL

\* Such a call takes the host's certificate over and assigns one.
CertificateKept(c, h) ==
    c.op = "create" /\ ~c.hit =>
        /\ (c.request = "put" \/ (c.request = "show" /\ c.answer = "ok")) /\ h.ssl => c.ssl
        /\ c.request \in {"assign", "reassign"} /\ c.answer = "ok" => h.ssl

Good(c, h, k) ==
    /\ RightRequest(c)
    /\ JobFits(c, k)
    /\ HostKnown(c, h)
    /\ Undisturbed(c, h)
    /\ CertificateKept(c, h)

OneCallEach ==
    \A t, u \in Calls :
        /\ call[t] # NULL /\ call[u] # NULL
        /\ call[t].op # "test" /\ call[u].op # "test"
        /\ call[t].dom = call[u].dom
        => t = u

CallsGood == \A t \in Calls : call[t] # NULL => Good(call[t], host[Dom(t)], known[Dom(t)])

IInv == TypeOK /\ OneCallEach /\ KnownIsRight /\ CallsGood

\* No answer is none.
LEMMA NoAnswer ==
    NULL \notin {"ok", "inUse", "unauthorized", "refused", "lost"}
BY NullAssumption DEF Answers

LEMMA InitGood == Init => IInv
<1> SUFFICES ASSUME Init PROVE IInv
    OBVIOUS
<1>1. TypeOK
    BY DEF Init, TypeOK
<1> QED BY <1>1 DEF Init, IInv, OneCallEach, KnownIsRight, CallsGood

-----------------------------------------------------------------------------
(* How a step may change the state. *)

\* A request is answered or sent: the step touches one call and its host.
LEMMA RequestKeeps ==
    ASSUME IInv, NEW t \in Calls, call[t] # NULL,
           NEW c \in Call, c.op = call[t].op, c.dom = Dom(t),
           NEW h \in Host \cup {NULL},
           c.op = "test" => h = host[Dom(t)],
           c.op = "delete" => h \in {NULL, host[Dom(t)]},
           Good(c, h, known[Dom(t)]),
           call' = [call EXCEPT ![t] = c], host' = [host EXCEPT ![Dom(t)] = h],
           known' = known, cache' \in Token \cup {NULL}, issued' \subseteq Domains
    PROVE  IInv'
<1>1. TypeOK /\ OneCallEach /\ KnownIsRight /\ CallsGood /\ call[t] \in Call /\ Dom(t) \in Domains
    BY DEF IInv, TypeOK, Call, Dom
<1>2. TypeOK'
    BY <1>1 DEF TypeOK
<1>3. OneCallEach'
    BY <1>1 DEF OneCallEach, TypeOK, Dom
<1>4. KnownIsRight'
    <2>1. c.op \in {"create", "delete", "test"}
        BY DEF Call, Operations
    <2>2. c.op = "create" => known[Dom(t)] = NULL
        BY DEF Good, JobFits
    <2> QED BY <1>1, <2>1, <2>2 DEF KnownIsRight, TypeOK
<1>5. CallsGood'
    <2> SUFFICES ASSUME NEW u \in Calls, call'[u] # NULL, u # t
                 PROVE  Good(call[u], host'[Dom(u)], known[Dom(u)])
        BY <1>1 DEF CallsGood, TypeOK, Dom
    <2>1. call[u] \in Call /\ call[u] # NULL /\ Good(call[u], host[Dom(u)], known[Dom(u)])
        BY <1>1 DEF CallsGood, TypeOK
    <2>2. CASE host'[Dom(u)] = host[Dom(u)]
        BY <2>1, <2>2
    <2>3. CASE Dom(u) = Dom(t) /\ c.op # "test"
        <3>1. call[u].op = "test"
            BY <1>1, <2>1, <2>3 DEF OneCallEach, Dom
        <3> QED BY <2>1, <3>1 DEF Good, RightRequest, JobFits, HostKnown, Undisturbed, CertificateKept, First, Operations
    <2> QED BY <1>1, <2>1, <2>2, <2>3 DEF TypeOK
<1> QED BY <1>2, <1>3, <1>4, <1>5 DEF IInv

\* A call returns.
LEMMA ReturnKeeps ==
    ASSUME IInv, NEW t \in Calls, call[t] # NULL,
           NEW id \in Ids \cup {NULL}, Return(t, id),
           call[t].op # "test" /\ id # NULL /\ host[Dom(t)] # NULL => host[Dom(t)].id = id
    PROVE  IInv'
<1>1. TypeOK /\ OneCallEach /\ KnownIsRight /\ CallsGood /\ call[t] \in Call /\ Dom(t) \in Domains
    BY DEF IInv, TypeOK, Call, Dom
<1>2. TypeOK' /\ OneCallEach' /\ KnownIsRight'
    BY <1>1 DEF TypeOK, OneCallEach, KnownIsRight, Return, Dom
<1>3. CallsGood'
    <2> SUFFICES ASSUME NEW u \in Calls, call'[u] # NULL
                 PROVE  Good(call[u], host[Dom(u)], known'[Dom(u)])
        BY <1>1 DEF CallsGood, TypeOK, Dom, Return
    <2>1. u # t /\ call[u] \in Call /\ call[u] # NULL /\ Good(call[u], host[Dom(u)], known[Dom(u)])
        BY <1>1 DEF CallsGood, TypeOK, Return
    <2>2. CASE known'[Dom(u)] = known[Dom(u)]
        BY <2>1, <2>2
    <2>3. CASE Dom(u) = Dom(t) /\ call[t].op # "test"
        <3>1. call[u].op = "test"
            BY <1>1, <2>1, <2>3 DEF OneCallEach, Dom
        <3> QED BY <2>1, <3>1 DEF Good, JobFits
    <2> QED BY <1>1, <2>1, <2>2, <2>3 DEF TypeOK, Return
<1> QED BY <1>2, <1>3 DEF IInv

-----------------------------------------------------------------------------
(* NPM's steps *)

\* The same call after NPM's answer.
SameCall(c, d) ==
    /\ c.op = d.op /\ c.dom = d.dom /\ c.mode = d.mode
    /\ c.request = d.request /\ c.retried = d.retried

LEMMA AnsweredCall ==
    ASSUME TypeOK, NEW t \in Calls, call[t] # NULL,
           NEW a \in Answers, NEW id \in Ids \cup {NULL}, NEW ssl \in BOOLEAN,
           Answered(t, a, id, ssl)
    PROVE  \E c \in Call :
              /\ call' = [call EXCEPT ![t] = c] /\ SameCall(c, call[t])
              /\ \/ c.answer = a /\ c.id = id /\ c.ssl = ssl /\ c.hit = call[t].hit
                 \/ c.answer = "lost" /\ c.id = call[t].id /\ c.hit
<1> DEFINE c1 == [call[t] EXCEPT !.answer = a, !.id = id, !.ssl = ssl]
           c2 == [call[t] EXCEPT !.answer = "lost", !.hit = TRUE]
<1>1. call[t] \in Call
    BY DEF TypeOK
<1>2. c1 \in Call /\ SameCall(c1, call[t])
      /\ c1.answer = a /\ c1.id = id /\ c1.ssl = ssl /\ c1.hit = call[t].hit
    BY <1>1 DEF Call, SameCall
<1>3. c2 \in Call /\ SameCall(c2, call[t]) /\ c2.answer = "lost" /\ c2.id = call[t].id /\ c2.hit
    BY <1>1 DEF Call, SameCall, Answers
<1>4. call' = [call EXCEPT ![t] = c1] \/ call' = [call EXCEPT ![t] = c2]
    BY DEF Answered
<1> HIDE DEF c1, c2
<1> QED BY <1>2, <1>3, <1>4

\* The same with no certificate in the answer, and with one if there is one.
LEMMA AnsweredPlainly ==
    ASSUME TypeOK, NEW t \in Calls, call[t] # NULL, NEW id \in Ids \cup {NULL},
           Answered(t, "ok", id, FALSE) \/ (FindCertificate(t) /\ id = call[t].id)
    PROVE  \E c \in Call :
              /\ call' = [call EXCEPT ![t] = c] /\ SameCall(c, call[t])
              /\ \/ c.answer = "ok" /\ c.id = id
                 \/ c.answer = "lost" /\ c.id = call[t].id /\ c.hit
<1> DEFINE c1 == [call[t] EXCEPT !.answer = "ok", !.id = id, !.ssl = FALSE]
           c2 == [call[t] EXCEPT !.answer = "lost", !.hit = TRUE]
           c3 == [call[t] EXCEPT !.answer = "ok", !.id = id, !.ssl = Dom(t) \in issued]
<1>1. call[t] \in Call
    BY DEF TypeOK
<1>2. c1 \in Call /\ SameCall(c1, call[t]) /\ c1.answer = "ok" /\ c1.id = id
    BY <1>1 DEF Call, SameCall, Answers
<1>3. c2 \in Call /\ SameCall(c2, call[t]) /\ c2.answer = "lost" /\ c2.id = call[t].id /\ c2.hit
    BY <1>1 DEF Call, SameCall, Answers
<1>4. c3 \in Call /\ SameCall(c3, call[t]) /\ c3.answer = "ok" /\ c3.id = id
    <2>1. (Dom(t) \in issued) \in BOOLEAN
        OBVIOUS
    <2> QED BY <1>1, <2>1 DEF Call, SameCall, Answers
<1>5. \/ call' = [call EXCEPT ![t] = c1] \/ call' = [call EXCEPT ![t] = c2]
      \/ call' = [call EXCEPT ![t] = c3]
    BY DEF Answered, FindCertificate
<1> HIDE DEF c1, c2, c3
<1> QED BY <1>2, <1>3, <1>4, <1>5

\* The types of a call and of its domain.
LEMMA TypedCall ==
    ASSUME TypeOK, NEW t \in Calls, call[t] # NULL
    PROVE  /\ call[t] \in Call /\ Dom(t) \in Domains
           /\ host[Dom(t)] \in Host \cup {NULL} /\ known[Dom(t)] \in Ids \cup {NULL}
           /\ call[t].op \in Operations /\ call[t].request \in Requests
           /\ call[t].id \in Ids \cup {NULL} /\ call[t].ssl \in BOOLEAN /\ call[t].dom = Dom(t)
BY DEF TypeOK, Call, Dom

\* What the invariant gives for the call NPM serves.
LEMMA ServedCall ==
    ASSUME IInv, NEW t \in Calls, call[t] # NULL
    PROVE  /\ TypeOK /\ call[t] \in Call /\ Dom(t) \in Domains
           /\ host[Dom(t)] \in Host \cup {NULL} /\ known[Dom(t)] \in Ids \cup {NULL}
           /\ call[t].op \in Operations /\ call[t].request \in Requests
           /\ call[t].id \in Ids \cup {NULL} /\ call[t].ssl \in BOOLEAN /\ call[t].dom = Dom(t)
           /\ Good(call[t], host[Dom(t)], known[Dom(t)])
           /\ known[Dom(t)] # NULL /\ host[Dom(t)] # NULL => host[Dom(t)].id = known[Dom(t)]
BY DEF IInv, TypeOK, Call, Dom, CallsGood, KnownIsRight

\* The answer in c fits the request of d and what NPM made of its host, h of g.
Fits(c, d, h, g) ==
    /\ c.op = "create" =>
          /\ g # NULL => h # NULL /\ h.id = g.id
          /\ c.request = "post" /\ c.answer \in {"ok", "inUse"} => h # NULL
          /\ c.request \in Later => c.id = d.id
          /\ c.request \in {"post", "find"} /\ c.answer = "ok" => c.id = h.id
          /\ c.request \in {"put", "show"} /\ ~c.hit => c.ssl = h.ssl
          /\ c.request \in {"assign", "reassign"} /\ c.answer = "ok" => h.ssl
    /\ c.op = "delete" => c.id = d.id /\ h \in {NULL, g}
    /\ c.op = "test" => h = g
    /\ ~c.hit =>
          \/ c.answer = "ok" /\ (c.request = "delete" => h = NULL)
          \/ c.answer = "inUse" /\ c.request = "post"
          \/ c.answer = "refused" /\ c.request = "delete" /\ h = NULL

LEMMA AnsweredKeeps ==
    ASSUME IInv, NEW t \in Calls, call[t] # NULL,
           NEW c \in Call, NEW h \in Host \cup {NULL},
           SameCall(c, call[t]), Fits(c, call[t], h, host[Dom(t)]),
           call' = [call EXCEPT ![t] = c], host' = [host EXCEPT ![Dom(t)] = h],
           known' = known, cache' = cache, issued' \subseteq Domains
    PROVE  IInv'
<1>1. Good(c, h, known[Dom(t)])
    <2>1. Good(call[t], host[Dom(t)], known[Dom(t)])
        BY ServedCall
    <2>2. RightRequest(c) /\ JobFits(c, known[Dom(t)])
        BY <2>1 DEF Good, RightRequest, JobFits, SameCall, Fits
    <2>3. HostKnown(c, h)
        BY <2>1 DEF Good, HostKnown, SameCall, Later, SslRequests, Fits
    <2>4. Undisturbed(c, h)
        BY DEF Undisturbed, SameCall, Fits
    <2>5. CertificateKept(c, h)
        BY DEF CertificateKept, SameCall, Fits
    <2> QED BY <2>2, <2>3, <2>4, <2>5 DEF Good
<1>2. c.op = call[t].op /\ c.dom = Dom(t)
    BY DEF SameCall, Dom
<1>3. (c.op = "test" => h = host[Dom(t)]) /\ (c.op = "delete" => h \in {NULL, host[Dom(t)]})
    BY DEF Fits
<1>4. TypeOK
    BY DEF IInv
<1> QED BY <1>1, <1>2, <1>3, <1>4, RequestKeeps DEF TypeOK

\* A rejected request: the call goes on, struck by a fault unless it is the
\* first rejection of its token.
LEMMA RejectedCall ==
    ASSUME TypeOK, NEW t \in Calls, Rejected(t)
    PROVE  \E c \in Call, a \in {"unauthorized", "refused", "lost"} :
              /\ call' = [call EXCEPT ![t] = c] /\ SameCall(c, call[t])
              /\ c.answer = a /\ c.id = call[t].id
              /\ c.hit \/ (a = "unauthorized" /\ ~c.retried /\ c.request = First[c.op])
<1>1. call[t] # NULL
    BY DEF Rejected
<1>2. PICK a \in {"unauthorized", "refused", "lost"} :
          call' = [call EXCEPT ![t] = [call[t] EXCEPT !.answer = a,
                      !.hit = call[t].hit \/ a # "unauthorized" \/ call[t].retried
                              \/ call[t].request # First[call[t].op]]]
    BY DEF Rejected
<1> DEFINE b == call[t].hit \/ a # "unauthorized" \/ call[t].retried
                \/ call[t].request # First[call[t].op]
           c == [call[t] EXCEPT !.answer = a, !.hit = b]
<1>3. c \in Call /\ SameCall(c, call[t]) /\ c.answer = a /\ c.hit = b /\ c.id = call[t].id
    <2>1. call[t] \in Call /\ b \in BOOLEAN
        BY <1>1, TypedCall DEF Call
    <2> HIDE DEF b
    <2> QED BY <2>1 DEF Call, SameCall, Answers
<1>4. c.hit \/ (a = "unauthorized" /\ ~c.retried /\ c.request = First[c.op])
    BY <1>3 DEF SameCall
<1>5. call' = [call EXCEPT ![t] = c]
    BY <1>2
<1> HIDE DEF c, b
<1> QED BY <1>3, <1>4, <1>5

LEMMA RejectedKeeps ==
    ASSUME IInv, NEW t \in Calls, Rejected(t)
    PROVE  IInv'
<1>1. call[t] # NULL
    BY DEF Rejected
<1>2. PICK c \in Call, a \in {"unauthorized", "refused", "lost"} :
              /\ call' = [call EXCEPT ![t] = c] /\ SameCall(c, call[t])
              /\ c.answer = a /\ c.id = call[t].id
              /\ c.hit \/ (a = "unauthorized" /\ ~c.retried /\ c.request = First[c.op])
    BY RejectedCall DEF IInv
<1>3. Good(c, host[Dom(t)], known[Dom(t)])
    <2>1. Good(call[t], host[Dom(t)], known[Dom(t)])
        BY <1>1, ServedCall
    <2>2. RightRequest(c) /\ JobFits(c, known[Dom(t)]) /\ HostKnown(c, host[Dom(t)])
        BY <1>2, <2>1 DEF Good, RightRequest, JobFits, HostKnown, SameCall, Later, SslRequests
    <2>3. Undisturbed(c, host[Dom(t)])
        BY <1>2 DEF Undisturbed
    <2>4. CertificateKept(c, host[Dom(t)])
        <3>1. c.answer # "ok" /\ (c.request = "put" => c.hit)
            BY <1>1, <1>2, ServedCall DEF First, Operations, SameCall
        <3> QED BY <3>1 DEF CertificateKept
    <2> QED BY <2>2, <2>3, <2>4 DEF Good
<1>4. TypeOK /\ host[Dom(t)] \in Host \cup {NULL} /\ host' = [host EXCEPT ![Dom(t)] = host[Dom(t)]]
      /\ known' = known /\ cache' = cache /\ issued' = issued
    BY <1>1, ServedCall DEF Rejected, TypeOK
<1>5. c.op = call[t].op /\ c.dom = Dom(t)
    BY <1>2 DEF SameCall, Dom
<1> QED BY <1>1, <1>2, <1>3, <1>4, <1>5, RequestKeeps DEF TypeOK

LEMMA LoginCall ==
    ASSUME TypeOK, NEW t \in Calls, Login(t)
    PROVE  \E c \in Call :
              /\ call' = [call EXCEPT ![t] = c] /\ SameCall(c, call[t]) /\ c.id = call[t].id
              /\ c.answer = "ok" \/ (c.answer = "lost" /\ c.hit)
<1> DEFINE c1 == [call[t] EXCEPT !.answer = "ok", !.valid = TRUE]
           c2 == [call[t] EXCEPT !.answer = "lost", !.hit = TRUE]
<1>1. call[t] \in Call
    BY TypedCall DEF Login, Waits
<1>2. c1 \in Call /\ SameCall(c1, call[t]) /\ c1.id = call[t].id /\ c1.answer = "ok"
    BY <1>1 DEF Call, SameCall, Answers
<1>3. c2 \in Call /\ SameCall(c2, call[t]) /\ c2.id = call[t].id /\ c2.answer = "lost" /\ c2.hit
    BY <1>1 DEF Call, SameCall, Answers
<1>4. call' = [call EXCEPT ![t] = c1] \/ call' = [call EXCEPT ![t] = c2]
    BY DEF Login
<1> HIDE DEF c1, c2
<1> QED BY <1>2, <1>3, <1>4

LEMMA LoginKeeps ==
    ASSUME IInv, NEW t \in Calls, Login(t)
    PROVE  IInv'
<1>1. call[t] # NULL /\ call[t].request = "login"
    BY DEF Login, Waits
<1>2. PICK c \in Call :
          /\ call' = [call EXCEPT ![t] = c] /\ SameCall(c, call[t]) /\ c.id = call[t].id
          /\ c.answer = "ok" \/ c.hit
    BY LoginCall DEF IInv
<1>3. Good(c, host[Dom(t)], known[Dom(t)])
    BY <1>1, <1>2, ServedCall DEF Good, RightRequest, JobFits, HostKnown, Undisturbed,
        CertificateKept, SameCall, Later, SslRequests
<1>4. TypeOK /\ host[Dom(t)] \in Host \cup {NULL} /\ host' = [host EXCEPT ![Dom(t)] = host[Dom(t)]]
      /\ known' = known /\ cache' = cache /\ issued' = issued
    BY <1>1, ServedCall DEF Login, TypeOK
<1>5. c.op = call[t].op /\ c.dom = Dom(t)
    BY <1>2 DEF SameCall, Dom
<1> QED BY <1>1, <1>2, <1>3, <1>4, <1>5, RequestKeeps DEF TypeOK

\* A creation beyond its first request has its host.
LEMMA HasHost ==
    ASSUME IInv, NEW t \in Calls, call[t] # NULL, call[t].request \in Later
    PROVE  Has(t) /\ call[t].op = "create"
<1>1. call[t].op = "create"
    BY ServedCall DEF Good, RightRequest, Later, SslRequests, Operations
<1> QED BY <1>1, ServedCall DEF Good, HostKnown, Has

\* An answer that changes no host.
LEMMA ReadKeeps ==
    ASSUME IInv, NEW t \in Calls, call[t] # NULL, NEW c \in Call,
           SameCall(c, call[t]), Fits(c, call[t], host[Dom(t)], host[Dom(t)]),
           call' = [call EXCEPT ![t] = c],
           host' = host, known' = known, cache' = cache, issued' \subseteq Domains
    PROVE  IInv'
<1>1. host[Dom(t)] \in Host \cup {NULL} /\ host' = [host EXCEPT ![Dom(t)] = host[Dom(t)]]
    BY ServedCall DEF TypeOK
<1> QED BY <1>1, AnsweredKeeps

LEMMA PostHostKeeps ==
    ASSUME IInv, NEW t \in Calls, PostHost(t)
    PROVE  IInv'
<1>1. call[t] # NULL /\ call[t].request = "post" /\ call[t].op = "create"
    BY ServedCall DEF PostHost, Serves, Waits, Good, RightRequest, Operations
<1>2. TypeOK /\ known' = known /\ cache' = cache /\ issued' = issued /\ issued \subseteq Domains
    BY DEF PostHost, IInv, TypeOK
<1>3. CASE host[Dom(t)] # NULL /\ Answer(t, "inUse") /\ UNCHANGED host
    <2>1. PICK c \in Call :
              /\ call' = [call EXCEPT ![t] = c] /\ SameCall(c, call[t])
              /\ \/ c.answer = "inUse" /\ c.id = call[t].id /\ c.ssl = call[t].ssl /\ c.hit = call[t].hit
                 \/ c.answer = "lost" /\ c.id = call[t].id /\ c.hit
        BY <1>1, <1>2, <1>3, ServedCall, AnsweredCall DEF Answer, Answers
    <2>2. Fits(c, call[t], host[Dom(t)], host[Dom(t)])
        BY <1>1, <1>3, <2>1 DEF Fits, SameCall, Later, SslRequests
    <2> QED BY <1>1, <1>2, <1>3, <2>1, <2>2, ReadKeeps
<1>4. CASE host[Dom(t)] = NULL /\ \E i \in Ids :
              /\ host' = [host EXCEPT ![Dom(t)] = [id |-> i, ssl |-> FALSE]]
              /\ Answered(t, "ok", i, FALSE)
    <2>1. PICK i \in Ids : /\ host' = [host EXCEPT ![Dom(t)] = [id |-> i, ssl |-> FALSE]]
                           /\ Answered(t, "ok", i, FALSE)
        BY <1>4
    <2>2. PICK c \in Call :
              /\ call' = [call EXCEPT ![t] = c] /\ SameCall(c, call[t])
              /\ \/ c.answer = "ok" /\ c.id = i
                 \/ c.answer = "lost" /\ c.id = call[t].id /\ c.hit
        BY <1>1, <1>2, <2>1, AnsweredPlainly
    <2> DEFINE h == [id |-> i, ssl |-> FALSE]
    <2>3. h \in Host /\ h.id = i
        BY DEF Host
    <2>5. h # NULL /\ h \in Host \cup {NULL}
        BY <2>3, NullAssumption
    <2>4. Fits(c, call[t], h, host[Dom(t)])
        BY <1>1, <1>4, <2>2, <2>3, <2>5 DEF Fits, SameCall, Later, SslRequests
    <2> QED BY <1>1, <1>2, <2>1, <2>2, <2>4, <2>5, AnsweredKeeps
<1> QED BY <1>3, <1>4 DEF PostHost

LEMMA FindHostKeeps ==
    ASSUME IInv, NEW t \in Calls, FindHost(t)
    PROVE  IInv'
<1>1. call[t] # NULL /\ call[t].request = "find" /\ call[t].op = "create"
    BY ServedCall DEF FindHost, Serves, Waits, Good, RightRequest, Operations
<1>2. TypeOK /\ host' = host /\ known' = known /\ cache' = cache /\ issued' = issued /\ issued \subseteq Domains
    BY DEF FindHost, IInv, TypeOK
<1>3. host[Dom(t)] # NULL /\ host[Dom(t)].id \in Ids
    BY <1>1, ServedCall DEF Good, HostKnown, Host
<1>4. PICK c \in Call :
              /\ call' = [call EXCEPT ![t] = c] /\ SameCall(c, call[t])
              /\ \/ c.answer = "ok" /\ c.id = host[Dom(t)].id
                 \/ c.answer = "lost" /\ c.id = call[t].id /\ c.hit
    <2>1. Answered(t, "ok", host[Dom(t)].id, FALSE)
        BY <1>3 DEF FindHost
    <2> QED BY <1>1, <1>2, <1>3, <2>1, AnsweredPlainly
<1>5. Fits(c, call[t], host[Dom(t)], host[Dom(t)])
    BY <1>1, <1>3, <1>4 DEF Fits, SameCall, Later, SslRequests
<1> QED BY <1>1, <1>2, <1>4, <1>5, ReadKeeps

LEMMA ShowHostKeeps ==
    ASSUME IInv, NEW t \in Calls, ShowHost(t)
    PROVE  IInv'
<1>1. call[t] # NULL /\ call[t].request \in {"show", "inspect"}
    BY DEF ShowHost, Serves, Waits
<1>2. Has(t) /\ call[t].op = "create"
    BY <1>1, HasHost DEF Later, SslRequests
<1>3. TypeOK /\ host' = host /\ known' = known /\ cache' = cache /\ issued' = issued /\ issued \subseteq Domains
    BY DEF ShowHost, IInv, TypeOK
<1>4. host[Dom(t)].ssl \in BOOLEAN
    BY <1>1, <1>2, ServedCall DEF Has, Host
<1>5. PICK c \in Call :
              /\ call' = [call EXCEPT ![t] = c] /\ SameCall(c, call[t])
              /\ \/ c.answer = "ok" /\ c.id = call[t].id /\ c.ssl = host[Dom(t)].ssl /\ c.hit = call[t].hit
                 \/ c.answer = "lost" /\ c.id = call[t].id /\ c.hit
    <2>1. Answered(t, "ok", call[t].id, host[Dom(t)].ssl)
        BY <1>2 DEF ShowHost
    <2> QED BY <1>1, <1>3, <1>4, <2>1, ServedCall, AnsweredCall DEF Answers
<1>6. Fits(c, call[t], host[Dom(t)], host[Dom(t)])
    BY <1>1, <1>2, <1>5 DEF Fits, SameCall, Later, SslRequests, Has
<1> QED BY <1>1, <1>3, <1>5, <1>6, ReadKeeps

LEMMA PutHostKeeps ==
    ASSUME IInv, NEW t \in Calls, PutHost(t)
    PROVE  IInv'
<1>1. call[t] # NULL /\ call[t].request = "put"
    BY DEF PutHost, Serves, Waits
<1>2. Has(t) /\ call[t].op = "create"
    BY <1>1, HasHost DEF Later
<1>3. TypeOK /\ known' = known /\ cache' = cache /\ issued' = issued /\ issued \subseteq Domains
    BY DEF PutHost, IInv, TypeOK
<1>4. PICK c \in Call :
              /\ call' = [call EXCEPT ![t] = c] /\ SameCall(c, call[t])
              /\ \/ c.answer = "ok" /\ c.id = call[t].id /\ c.ssl = call[t].ssl /\ c.hit = call[t].hit
                 \/ c.answer = "lost" /\ c.id = call[t].id /\ c.hit
    BY <1>1, <1>2, <1>3, ServedCall, AnsweredCall DEF PutHost, Answer, Answers
<1> DEFINE h == [host[Dom(t)] EXCEPT !.ssl = call[t].ssl]
<1>5. host[Dom(t)] \in Host /\ call[t].ssl \in BOOLEAN
    BY <1>1, <1>2, ServedCall DEF Has
<1>6. h \in Host \cup {NULL} /\ h.id = host[Dom(t)].id /\ h.ssl = call[t].ssl /\ h # NULL
    BY <1>5, NullAssumption DEF Host
<1>7. host' = [host EXCEPT ![Dom(t)] = h]
    BY <1>2 DEF PutHost
<1> HIDE DEF h
<1>8. Fits(c, call[t], h, host[Dom(t)])
    BY <1>1, <1>2, <1>4, <1>6 DEF Fits, SameCall, Later, SslRequests, Has
<1> QED BY <1>1, <1>3, <1>4, <1>6, <1>7, <1>8, AnsweredKeeps

LEMMA AssignCertificateKeeps ==
    ASSUME IInv, NEW t \in Calls, AssignCertificate(t)
    PROVE  IInv'
<1>1. call[t] # NULL /\ call[t].request \in {"assign", "reassign"}
    BY DEF AssignCertificate, Serves, Waits
<1>2. Has(t) /\ call[t].op = "create"
    BY <1>1, HasHost DEF Later, SslRequests
<1>3. TypeOK /\ known' = known /\ cache' = cache /\ issued' = issued /\ issued \subseteq Domains
    BY DEF AssignCertificate, IInv, TypeOK
<1>4. PICK c \in Call :
              /\ call' = [call EXCEPT ![t] = c] /\ SameCall(c, call[t])
              /\ \/ c.answer = "ok" /\ c.id = call[t].id /\ c.ssl = call[t].ssl /\ c.hit = call[t].hit
                 \/ c.answer = "lost" /\ c.id = call[t].id /\ c.hit
    BY <1>1, <1>2, <1>3, ServedCall, AnsweredCall DEF AssignCertificate, Answer, Answers
<1> DEFINE h == [host[Dom(t)] EXCEPT !.ssl = TRUE]
<1>5. host[Dom(t)] \in Host
    BY <1>1, <1>2, ServedCall DEF Has
<1>6. h \in Host \cup {NULL} /\ h.id = host[Dom(t)].id /\ h.ssl /\ h # NULL
    BY <1>5, NullAssumption DEF Host
<1>7. host' = [host EXCEPT ![Dom(t)] = h]
    BY <1>2 DEF AssignCertificate
<1> HIDE DEF h
<1>8. Fits(c, call[t], h, host[Dom(t)])
    BY <1>1, <1>2, <1>4, <1>6 DEF Fits, SameCall, Later, SslRequests, Has
<1> QED BY <1>1, <1>3, <1>4, <1>6, <1>7, <1>8, AnsweredKeeps

LEMMA CertificatesKeep ==
    ASSUME IInv, NEW t \in Calls, FindCertificate(t) \/ IssueCertificate(t)
    PROVE  IInv'
<1>1. call[t] # NULL /\ call[t].request \in {"certificates", "certify"}
    BY DEF FindCertificate, IssueCertificate, Serves, Waits
<1>2. Has(t) /\ call[t].op = "create"
    BY <1>1, HasHost DEF Later, SslRequests
<1>3. TypeOK /\ Dom(t) \in Domains /\ host' = host /\ known' = known /\ cache' = cache /\ issued' \subseteq Domains
    BY <1>1, ServedCall DEF FindCertificate, IssueCertificate, TypeOK
<1>4. PICK c \in Call :
              /\ call' = [call EXCEPT ![t] = c] /\ SameCall(c, call[t])
              /\ c.id = call[t].id /\ (c.hit \/ c.answer = "ok")
    <2>1. CASE FindCertificate(t)
        <3>1. PICK id \in Ids \cup {NULL} : id = call[t].id
            BY <1>1, ServedCall
        <3> QED BY <1>1, <1>3, <2>1, <3>1, AnsweredPlainly
    <2>2. CASE IssueCertificate(t) /\ Answer(t, "ok")
        BY <1>1, <1>3, <2>2, ServedCall, AnsweredCall DEF Answer, Answers
    <2>3. CASE call' = [call EXCEPT ![t] = [@ EXCEPT !.answer = "refused", !.hit = TRUE]]
        <3> DEFINE c == [call[t] EXCEPT !.answer = "refused", !.hit = TRUE]
        <3>1. c \in Call /\ SameCall(c, call[t]) /\ c.id = call[t].id /\ c.hit
            BY <1>1, ServedCall DEF Call, SameCall, Answers
        <3>2. call' = [call EXCEPT ![t] = c]
            BY <2>3
        <3> HIDE DEF c
        <3> QED BY <3>1, <3>2
    <2> QED BY <2>1, <2>2, <2>3 DEF IssueCertificate
<1>5. Fits(c, call[t], host[Dom(t)], host[Dom(t)])
    BY <1>1, <1>2, <1>4 DEF Fits, SameCall, Later, SslRequests
<1> QED BY <1>1, <1>3, <1>4, <1>5, ReadKeeps

LEMMA RemoveHostKeeps ==
    ASSUME IInv, NEW t \in Calls, RemoveHost(t)
    PROVE  IInv'
<1>1. call[t] # NULL /\ call[t].request = "delete" /\ call[t].op = "delete"
    BY ServedCall DEF RemoveHost, Serves, Waits, Good, RightRequest, Operations
<1>2. TypeOK /\ known' = known /\ cache' = cache /\ issued' = issued /\ issued \subseteq Domains
    BY DEF RemoveHost, IInv, TypeOK
<1>3. CASE Has(t) /\ host' = [host EXCEPT ![Dom(t)] = NULL] /\ Answer(t, "ok")
    <2>1. PICK c \in Call :
              /\ call' = [call EXCEPT ![t] = c] /\ SameCall(c, call[t])
              /\ \/ c.answer = "ok" /\ c.id = call[t].id /\ c.ssl = call[t].ssl /\ c.hit = call[t].hit
                 \/ c.answer = "lost" /\ c.id = call[t].id /\ c.hit
        BY <1>1, <1>2, <1>3, ServedCall, AnsweredCall DEF Answer, Answers
    <2>2. Fits(c, call[t], NULL, host[Dom(t)])
        BY <1>1, <2>1 DEF Fits, SameCall
    <2> QED BY <1>1, <1>2, <1>3, <2>1, <2>2, AnsweredKeeps
<1>4. CASE ~Has(t) /\ Answer(t, "refused") /\ UNCHANGED host
    <2>1. host[Dom(t)] = NULL
        BY <1>1, <1>4, ServedCall DEF Good, JobFits, Has
    <2>2. PICK c \in Call :
              /\ call' = [call EXCEPT ![t] = c] /\ SameCall(c, call[t])
              /\ \/ c.answer = "refused" /\ c.id = call[t].id /\ c.ssl = call[t].ssl /\ c.hit = call[t].hit
                 \/ c.answer = "lost" /\ c.id = call[t].id /\ c.hit
        BY <1>1, <1>2, <1>4, ServedCall, AnsweredCall DEF Answer, Answers
    <2>3. Fits(c, call[t], host[Dom(t)], host[Dom(t)])
        BY <1>1, <2>1, <2>2 DEF Fits, SameCall
    <2> QED BY <1>1, <1>2, <1>4, <2>2, <2>3, ReadKeeps
<1> QED BY <1>3, <1>4 DEF RemoveHost

LEMMA ListForPageKeeps ==
    ASSUME IInv, NEW t \in Calls, ListForPage(t)
    PROVE  IInv'
<1>1. call[t] # NULL /\ call[t].request = "list" /\ call[t].op = "test"
    BY ServedCall DEF ListForPage, Serves, Waits, Good, RightRequest, Operations
<1>2. TypeOK /\ host' = host /\ known' = known /\ cache' = cache /\ issued' = issued /\ issued \subseteq Domains
    BY DEF ListForPage, IInv, TypeOK
<1>3. PICK c \in Call :
              /\ call' = [call EXCEPT ![t] = c] /\ SameCall(c, call[t])
              /\ \/ c.answer = "ok" /\ c.id = call[t].id /\ c.ssl = call[t].ssl /\ c.hit = call[t].hit
                 \/ c.answer = "lost" /\ c.id = call[t].id /\ c.hit
    BY <1>1, <1>2, ServedCall, AnsweredCall DEF ListForPage, Answer, Answers
<1>4. Fits(c, call[t], host[Dom(t)], host[Dom(t)])
    BY <1>1, <1>3 DEF Fits, SameCall
<1> QED BY <1>1, <1>2, <1>3, <1>4, ReadKeeps

LEMMA NpmKeeps ==
    ASSUME IInv, NEW t \in Calls, Npm(t)
    PROVE  IInv'
BY RejectedKeeps, LoginKeeps, PostHostKeeps, FindHostKeeps, ShowHostKeeps, PutHostKeeps,
   AssignCertificateKeeps, CertificatesKeep, RemoveHostKeeps, ListForPageKeeps DEF Npm

\* Whatever NPM does, the call it serves stays the same call.
LEMMA NpmCall ==
    ASSUME TypeOK, NEW t \in Calls, Npm(t)
    PROVE  call[t] # NULL /\ \E c \in Call :
              /\ call' = [call EXCEPT ![t] = c] /\ c.op = call[t].op /\ c.dom = Dom(t)
              /\ SameCall(c, call[t]) /\ c.answer # NULL
<1>1. call[t] # NULL
    BY DEF Npm, Rejected, Login, PostHost, FindHost, ShowHost, PutHost, AssignCertificate, FindCertificate,
        IssueCertificate, RemoveHost, ListForPage, Serves, Waits
<1>2. CASE Rejected(t) \/ Login(t)
    BY <1>1, <1>2, RejectedCall, LoginCall, NoAnswer DEF SameCall, Dom
<1>3. CASE \E a \in Answers, id \in Ids \cup {NULL}, ssl \in BOOLEAN : Answered(t, a, id, ssl)
    BY <1>1, <1>3, AnsweredCall, NullAssumption, NoAnswer DEF SameCall, Dom
<1>4. CASE FindCertificate(t)
    <2>1. PICK id \in Ids \cup {NULL} : id = call[t].id
        BY <1>1, TypedCall
    <2>2. \E c \in Call :
              /\ call' = [call EXCEPT ![t] = c] /\ SameCall(c, call[t])
              /\ \/ c.answer = "ok" /\ c.id = id
                 \/ c.answer = "lost" /\ c.id = call[t].id /\ c.hit
        BY <1>1, <1>4, <2>1, AnsweredPlainly
    <2> QED BY <1>1, <2>2, NoAnswer DEF SameCall, Dom
<1>5. CASE call' = [call EXCEPT ![t] = [@ EXCEPT !.answer = "refused", !.hit = TRUE]]
    <2> DEFINE c == [call[t] EXCEPT !.answer = "refused", !.hit = TRUE]
    <2>1. c \in Call /\ SameCall(c, call[t]) /\ c.answer = "refused"
        BY <1>1, TypedCall DEF Call, SameCall, Answers
    <2>2. call' = [call EXCEPT ![t] = c]
        BY <1>5
    <2> HIDE DEF c
    <2> QED BY <1>1, <2>1, <2>2, NoAnswer DEF SameCall, Dom
<1>6. ASSUME NEW a \in Answers, Answer(t, a)
      PROVE  \E id \in Ids \cup {NULL}, ssl \in BOOLEAN : Answered(t, a, id, ssl)
    BY <1>1, <1>6, TypedCall DEF Answer
<1>7. CASE PostHost(t)
    <2>1. CASE Answer(t, "inUse")
        BY <1>3, <1>6, <2>1 DEF Answers
    <2>2. CASE \E i \in Ids : Answered(t, "ok", i, FALSE)
        BY <1>3, <2>2 DEF Answers
    <2> QED BY <1>7, <2>1, <2>2 DEF PostHost
<1>8. CASE FindHost(t)
    <2>1. (IF host[Dom(t)] = NULL THEN NULL ELSE host[Dom(t)].id) \in Ids \cup {NULL}
        BY <1>1, TypedCall DEF Host
    <2> QED BY <1>3, <1>8, <2>1 DEF FindHost, Answers
<1>9. CASE ShowHost(t)
    <2>1. CASE Has(t) /\ Answered(t, "ok", call[t].id, host[Dom(t)].ssl)
        <3>1. call[t].id \in Ids \cup {NULL} /\ host[Dom(t)].ssl \in BOOLEAN
            BY <1>1, <2>1, TypedCall DEF Has, Host
        <3> QED BY <1>3, <2>1, <3>1 DEF Answers
    <2>2. CASE Answer(t, "refused")
        BY <1>3, <1>6, <2>2 DEF Answers
    <2> QED BY <1>9, <2>1, <2>2 DEF ShowHost
<1>10. CASE PutHost(t) \/ AssignCertificate(t) \/ RemoveHost(t) \/ ListForPage(t)
    <2>1. Answer(t, "ok") \/ Answer(t, "refused")
        BY <1>10 DEF PutHost, AssignCertificate, RemoveHost, ListForPage
    <2> QED BY <1>3, <1>6, <2>1 DEF Answers
<1>11. CASE IssueCertificate(t)
    BY <1>3, <1>5, <1>6, <1>11 DEF IssueCertificate, Answers
<1> QED BY <1>2, <1>4, <1>7, <1>8, <1>9, <1>10, <1>11 DEF Npm

\* NPM's steps keep the types, whatever the other calls do.
LEMMA NpmTypes ==
    ASSUME TypeOK, NEW t \in Calls, Npm(t)
    PROVE  TypeOK'
<1>1. call[t] # NULL /\ \E c \in Call : call' = [call EXCEPT ![t] = c]
    BY NpmCall
<1>2. call' \in [Calls -> Call \cup {NULL}]
    BY <1>1 DEF TypeOK
<1>3. Dom(t) \in Domains /\ call[t].ssl \in BOOLEAN
    BY <1>1, TypedCall
<1>4. host' \in [Domains -> Host \cup {NULL}]
    <2>1. ASSUME NEW i \in Ids
          PROVE  [id |-> i, ssl |-> FALSE] \in Host
        BY DEF Host
    <2>2. ASSUME NEW s \in BOOLEAN, host[Dom(t)] \in Host, host' = [host EXCEPT ![Dom(t)].ssl = s]
          PROVE  host' \in [Domains -> Host \cup {NULL}]
        BY <1>3, <2>2 DEF TypeOK, Host
    <2>3. Has(t) => host[Dom(t)] \in Host
        BY <1>1, TypedCall DEF Has
    <2>4. CASE PutHost(t) \/ AssignCertificate(t)
        BY <1>3, <2>2, <2>3, <2>4 DEF PutHost, AssignCertificate, TypeOK
    <2>5. CASE PostHost(t) \/ RemoveHost(t)
        BY <1>3, <2>1, <2>5 DEF PostHost, RemoveHost, TypeOK
    <2>6. CASE host' = host
        BY <2>6 DEF TypeOK
    <2> QED BY <2>4, <2>5, <2>6
            DEF Npm, Rejected, Login, FindHost, ShowHost, FindCertificate, IssueCertificate, ListForPage
<1>5. known' = known /\ cache' = cache /\ issued' \subseteq Domains
    BY <1>3 DEF Npm, Rejected, Login, PostHost, FindHost, ShowHost, PutHost, AssignCertificate,
        FindCertificate, IssueCertificate, RemoveHost, ListForPage, TypeOK
<1> QED BY <1>2, <1>4, <1>5 DEF TypeOK

-----------------------------------------------------------------------------
(* The steps of the calls *)

\* The call sends a request that is nearer to its end, or returns.
Forward(t) ==
    /\ call[t] # NULL
    /\ \/ \E c \in Call :
             /\ call' = [call EXCEPT ![t] = c]
             /\ RequestsAfter[c.request]
                   + (IF ~c.retried /\ c.request \in {"login", First[c.op]} THEN 2 ELSE 0)
                < RequestsLeft(t)
             /\ host' = host /\ known' = known /\ issued' = issued /\ cache' \in Token \cup {NULL}
       \/ \E id \in Ids \cup {NULL} : Return(t, id)

\* The requests in their order.
LEMMA RequestOrder ==
    /\ "assign" \in Requests /\ RequestsAfter["assign"] = 0
    /\ "certify" \in Requests /\ RequestsAfter["certify"] = 1
    /\ "reassign" \in Requests /\ RequestsAfter["reassign"] = 2
    /\ "certificates" \in Requests /\ RequestsAfter["certificates"] = 3
    /\ "inspect" \in Requests /\ RequestsAfter["inspect"] = 4
    /\ "put" \in Requests /\ RequestsAfter["put"] = 5
    /\ "show" \in Requests /\ RequestsAfter["show"] = 6
    /\ "find" \in Requests /\ RequestsAfter["find"] = 7
    /\ "login" \in Requests /\ RequestsAfter["login"] = 9
    /\ \A op \in Operations : First[op] \in Requests /\ RequestsAfter[First[op]] = 8
    /\ \A op \in Operations : First[op] \in {"post", "delete", "list"}
<1>1. \A op \in Operations : First[op] \in {"post", "delete", "list"}
    BY DEF First, Operations
<1>2. {"post", "delete", "list"} \subseteq Requests
    <2>1. First["create"] = "post" /\ First["delete"] = "delete" /\ First["test"] = "list"
        BY DEF First, Operations
    <2> QED BY <2>1 DEF Requests, Operations
<1>3. {"assign", "certify", "reassign", "certificates", "inspect", "put", "show", "find", "login"} \subseteq Requests
    BY DEF Requests, SslRequests
<1> QED BY <1>1, <1>2, <1>3 DEF RequestsAfter

\* After its first request a call sends only requests of a lower order.
LEMMA SendForward ==
    ASSUME TypeOK, NEW t \in Calls, call[t] # NULL, NEW request \in Requests, Send(t, request),
           request \notin {"login", "post", "delete", "list"},
           RequestsAfter[request] < RequestsAfter[call[t].request],
           RequestsAfter[request] \in Nat, RequestsAfter[call[t].request] \in Nat
    PROVE  Forward(t)
<1> DEFINE c == [call[t] EXCEPT !.request = request, !.answer = NULL]
<1>1. c \in Call /\ c.request = request /\ c.op \in Operations
    BY TypedCall DEF Call
<1>2. call' = [call EXCEPT ![t] = c] /\ host' = host /\ known' = known /\ issued' = issued
      /\ cache' \in Token \cup {NULL}
    BY DEF Send, TypeOK
<1> HIDE DEF c
<1>3. c.request \notin {"login", First[c.op]}
    BY <1>1, RequestOrder
<1>4. RequestsAfter[c.request] + 0 < RequestsLeft(t)
    BY <1>1 DEF RequestsLeft
<1> QED BY <1>1, <1>2, <1>3, <1>4 DEF Forward

\* What a request for a certificate does.
LEMMA RequestSslForward ==
    ASSUME TypeOK, NEW t \in Calls, call[t] # NULL, call[t].request \in {"post", "put"},
           RequestSsl(t, call[t].id)
    PROVE  Forward(t)
<1>1. call[t].id \in Ids \cup {NULL} /\ First["create"] = "post" /\ "create" \in Operations
    BY TypedCall DEF First, Operations
<1>2. RequestsAfter[call[t].request] \in {5, 8}
    BY <1>1, RequestOrder
<1>3. ASSUME NEW request \in {"assign", "inspect"}, Send(t, request)
      PROVE  Forward(t)
    <2>1. request \in Requests /\ RequestsAfter[request] \in {0, 4}
        BY RequestOrder
    <2> QED BY <1>2, <1>3, <2>1, SendForward
<1>4. CASE Return(t, call[t].id)
    BY <1>1, <1>4 DEF Forward
<1> QED BY <1>3, <1>4 DEF RequestSsl

\* A new login is followed by the first request; after a second rejection
\* there is none.
LEMMA LoginForward ==
    ASSUME TypeOK, NEW t \in Calls, ResumeLogin(t) \/ Reauthenticate(t)
    PROVE  Forward(t)
<1>1. call[t] # NULL
    BY DEF ResumeLogin, Reauthenticate, Got
<1>2. call[t] \in Call /\ call[t].op \in Operations /\ call[t].request \in Requests
    BY <1>1, TypedCall
<1>3. /\ First[call[t].op] \in Requests /\ First[call[t].op] # "login"
      /\ RequestsAfter[First[call[t].op]] = 8 /\ RequestsAfter["login"] = 9
    BY <1>2, RequestOrder
<1>4. CASE Return(t, NULL)
    BY <1>1, <1>4 DEF Forward
<1>5. CASE ResumeLogin(t) /\ call[t].answer = "ok" /\ ~Return(t, NULL)
    <2> DEFINE c == [call[t] EXCEPT !.request = First[call[t].op], !.answer = NULL]
    <2>1. c \in Call /\ c.request = First[call[t].op] /\ c.retried = call[t].retried /\ c.op = call[t].op
        BY <1>2, <1>3 DEF Call
    <2>2. /\ call' = [call EXCEPT ![t] = c] /\ call[t].request = "login"
          /\ host' = host /\ known' = known /\ issued' = issued
        BY <1>5 DEF ResumeLogin, Got
    <2>3. cache' \in Token
        <3>1. cache' = [fresh |-> TRUE, valid |-> call[t].valid]
            BY <1>5 DEF ResumeLogin
        <3>2. call[t].valid \in BOOLEAN
            BY <1>2 DEF Call
        <3> QED BY <3>1, <3>2 DEF Token
    <2> HIDE DEF c
    <2>4. RequestsAfter[c.request]
            + (IF ~c.retried /\ c.request \in {"login", First[c.op]} THEN 2 ELSE 0) < RequestsLeft(t)
        BY <1>3, <2>1, <2>2 DEF RequestsLeft
    <2> QED BY <1>1, <2>1, <2>2, <2>3, <2>4 DEF Forward
<1>6. CASE Reauthenticate(t) /\ ~call[t].retried /\ ~Return(t, NULL)
    <2> DEFINE c == [call[t] EXCEPT !.request = "login", !.answer = NULL, !.retried = TRUE]
    <2>1. c \in Call /\ c.request = "login" /\ c.retried
        BY <1>2, RequestOrder DEF Call
    <2>2. /\ call' = [call EXCEPT ![t] = c] /\ call[t].request = First[call[t].op]
          /\ host' = host /\ known' = known /\ issued' = issued /\ cache' = cache
        BY <1>6 DEF Reauthenticate, Got
    <2> HIDE DEF c
    <2>3. RequestsAfter[c.request]
            + (IF ~c.retried /\ c.request \in {"login", First[c.op]} THEN 2 ELSE 0) < RequestsLeft(t)
        BY <1>3, <1>6, <2>1, <2>2 DEF RequestsLeft
    <2> QED BY <1>1, <2>1, <2>2, <2>3 DEF Forward, TypeOK
<1> QED BY <1>4, <1>5, <1>6 DEF ResumeLogin, Reauthenticate

\* The same for all the requests of a call.
LEMMA ResumeForward ==
    ASSUME TypeOK, NEW t \in Calls, Resume(t)
    PROVE  Forward(t)
<1>1. CASE ResumeLogin(t) \/ Reauthenticate(t)
    BY <1>1, LoginForward
<1>2. CASE ~(ResumeLogin(t) \/ Reauthenticate(t))
    <2>1. call[t] # NULL
        BY <1>2 DEF Resume, ResumePost, ResumeFind, ResumeShow, ResumePut, ResumeInspect,
            ResumeCertificates, ResumeReassign, ResumeCertify, ResumeAssign, ResumeLast, Got
    <2>2. call[t].id \in Ids \cup {NULL} /\ NULL \in Ids \cup {NULL}
        BY <2>1, TypedCall
    <2>3. ASSUME NEW id \in Ids \cup {NULL}, Return(t, id)
          PROVE  Forward(t)
        BY <2>1, <2>3 DEF Forward
    <2>4. ASSUME NEW request \in Requests, Send(t, request),
                 request \notin {"login", "post", "delete", "list"},
                 RequestsAfter[request] < RequestsAfter[call[t].request],
                 RequestsAfter[request] \in Nat, RequestsAfter[call[t].request] \in Nat
          PROVE  Forward(t)
        BY <2>1, <2>4, SendForward
    <2>5. First["create"] = "post" /\ "create" \in Operations /\ RequestsAfter["post"] = 8
        BY RequestOrder DEF First, Operations
    <2>6. CASE ResumePost(t)
        BY <2>1, <2>2, <2>3, <2>4, <2>5, <2>6, RequestSslForward, RequestOrder DEF ResumePost, Got
    <2>7. CASE ResumePut(t)
        BY <2>1, <2>2, <2>3, <2>7, RequestSslForward DEF ResumePut, Got
    <2>8. CASE ResumeFind(t) \/ ResumeShow(t)
        BY <2>2, <2>3, <2>4, <2>8, RequestOrder DEF ResumeFind, ResumeShow, Got
    <2>9. CASE ResumeInspect(t) \/ ResumeCertificates(t) \/ ResumeReassign(t)
        BY <2>2, <2>3, <2>4, <2>9, RequestOrder DEF ResumeInspect, ResumeCertificates, ResumeReassign, Got
    <2>10. CASE ResumeCertify(t) \/ ResumeAssign(t) \/ ResumeLast(t)
        BY <2>2, <2>3, <2>4, <2>10, RequestOrder DEF ResumeCertify, ResumeAssign, ResumeLast, Got
    <2> QED BY <1>2, <2>6, <2>7, <2>8, <2>9, <2>10 DEF Resume
<1> QED BY <1>1, <1>2

\* Their steps keep the types.
LEMMA ResumeTypes ==
    ASSUME TypeOK, NEW t \in Calls, Forward(t)
    PROVE  TypeOK'
<1>1. Dom(t) \in Domains
    BY TypedCall DEF Forward
<1> QED BY <1>1 DEF Forward, Return, TypeOK


\* The call goes on with c in its place ...
Goes(t) ==
    /\ \E c \in Call : /\ call' = [call EXCEPT ![t] = c]
                       /\ c.op = call[t].op /\ c.dom = Dom(t)
                       /\ Good(c, host[Dom(t)], known[Dom(t)])
    /\ host' = host /\ known' = known /\ issued' = issued /\ cache' \in Token \cup {NULL}

\* What the operation is for.
Success(t, id) ==
    /\ call[t].op = "create" =>
          /\ host[Dom(t)] # NULL /\ id = host[Dom(t)].id
          /\ call[t].mode # "none" => host[Dom(t)].ssl
    /\ call[t].op = "delete" => host[Dom(t)] = NULL

\* ... or returns, an id only if it is the host's, and with success if no
\* request was struck.
Done(t, id) ==
    /\ Return(t, id) /\ id \in Ids \cup {NULL}
    /\ call[t].op # "test" /\ id # NULL =>
          call[t].op = "create" /\ host[Dom(t)] # NULL /\ host[Dom(t)].id = id
    /\ ~call[t].hit => Success(t, id)

Outcome(t) == call[t] # NULL /\ (Goes(t) \/ \E id : Done(t, id))

LEMMA GoesKeeps ==
    ASSUME IInv, NEW t \in Calls, call[t] # NULL, Goes(t)
    PROVE  IInv'
<1>1. PICK c \in Call : /\ call' = [call EXCEPT ![t] = c]
                        /\ c.op = call[t].op /\ c.dom = Dom(t)
                        /\ Good(c, host[Dom(t)], known[Dom(t)])
    BY DEF Goes
<1>2. TypeOK /\ host[Dom(t)] \in Host \cup {NULL} /\ host' = [host EXCEPT ![Dom(t)] = host[Dom(t)]]
    BY ServedCall DEF Goes, TypeOK
<1> QED BY <1>1, <1>2, RequestKeeps DEF Goes, TypeOK

LEMMA SendGoes ==
    ASSUME IInv, NEW t \in Calls, call[t] # NULL, NEW request \in Requests, Send(t, request),
           \A c \in Call :
              /\ c.op = call[t].op /\ c.dom = Dom(t) /\ c.id = call[t].id /\ c.ssl = call[t].ssl
              /\ c.hit = call[t].hit /\ c.request = request /\ c.answer = NULL
              => Good(c, host[Dom(t)], known[Dom(t)])
    PROVE  Outcome(t)
<1> DEFINE c == [call[t] EXCEPT !.request = request, !.answer = NULL]
<1>1. call[t] \in Call /\ TypeOK
    BY ServedCall
<1>2. /\ c \in Call /\ c.op = call[t].op /\ c.dom = Dom(t) /\ c.id = call[t].id /\ c.ssl = call[t].ssl
      /\ c.hit = call[t].hit /\ c.request = request /\ c.answer = NULL
    BY <1>1 DEF Call, Dom
<1>3. call' = [call EXCEPT ![t] = c] /\ host' = host /\ known' = known /\ issued' = issued /\ cache' = cache
    BY DEF Send
<1> HIDE DEF c
<1> QED BY <1>1, <1>2, <1>3 DEF Outcome, Goes, TypeOK

\* A login is followed by the first request.
LEMMA ResumeLoginOutcome ==
    ASSUME IInv, NEW t \in Calls, ResumeLogin(t)
    PROVE  Outcome(t)
<1>1. call[t] # NULL /\ call[t].request = "login" /\ call[t].answer # NULL
    BY DEF ResumeLogin, Got
<1>2. call[t] \in Call /\ call[t].op \in Operations /\ Good(call[t], host[Dom(t)], known[Dom(t)]) /\ TypeOK
    BY <1>1, ServedCall
<1>3. CASE call[t].answer # "ok" /\ Return(t, NULL)
    <2>1. call[t].hit
        BY <1>1, <1>2, <1>3 DEF Good, Undisturbed, First
    <2> QED BY <1>1, <1>3, <2>1 DEF Outcome, Done
<1>4. CASE /\ call[t].answer = "ok"
           /\ cache' = [fresh |-> TRUE, valid |-> call[t].valid]
           /\ call' = [call EXCEPT ![t] = [@ EXCEPT !.request = First[call[t].op], !.answer = NULL]]
           /\ UNCHANGED <<host, issued, known>>
    <2> DEFINE c == [call[t] EXCEPT !.request = First[call[t].op], !.answer = NULL]
    <2>1. First[call[t].op] \in Requests /\ cache' \in Token
        BY <1>2, <1>4 DEF First, Requests, Token, Call
    <2>2. /\ c \in Call /\ c.op = call[t].op /\ c.dom = Dom(t) /\ c.id = call[t].id
          /\ c.request = First[c.op] /\ c.answer = NULL
        BY <1>2, <2>1 DEF Call, Dom
    <2>3. call' = [call EXCEPT ![t] = c]
        BY <1>4
    <2> HIDE DEF c
    <2>4. Good(c, host[Dom(t)], known[Dom(t)])
        BY <1>2, <2>2, NoAnswer DEF Good, RightRequest, JobFits, HostKnown, Undisturbed, CertificateKept,
            First, Later, SslRequests, Operations
    <2> QED BY <1>1, <1>4, <2>1, <2>2, <2>3, <2>4 DEF Outcome, Goes
<1> QED BY <1>3, <1>4 DEF ResumeLogin

LEMMA ReauthenticateOutcome ==
    ASSUME IInv, NEW t \in Calls, Reauthenticate(t)
    PROVE  Outcome(t)
<1>1. call[t] # NULL /\ call[t].request = First[call[t].op] /\ call[t].answer = "unauthorized"
    BY DEF Reauthenticate, Got
<1>2. call[t] \in Call /\ call[t].op \in Operations /\ Good(call[t], host[Dom(t)], known[Dom(t)]) /\ TypeOK
    BY <1>1, ServedCall
<1>3. CASE call[t].retried /\ Return(t, NULL)
    <2>1. call[t].hit
        BY <1>1, <1>2, <1>3, NoAnswer DEF Good, Undisturbed
    <2> QED BY <1>1, <1>3, <2>1 DEF Outcome, Done
<1>4. CASE /\ call' = [call EXCEPT ![t] =
                          [@ EXCEPT !.request = "login", !.answer = NULL, !.retried = TRUE]]
           /\ UNCHANGED <<host, issued, known, cache>>
    <2> DEFINE c == [call[t] EXCEPT !.request = "login", !.answer = NULL, !.retried = TRUE]
    <2>1. /\ c \in Call /\ c.op = call[t].op /\ c.dom = Dom(t) /\ c.id = call[t].id
          /\ c.request = "login" /\ c.answer = NULL
        BY <1>2 DEF Call, Dom, Requests
    <2>2. call' = [call EXCEPT ![t] = c]
        BY <1>4
    <2> HIDE DEF c
    <2>3. Good(c, host[Dom(t)], known[Dom(t)])
        BY <1>2, <2>1 DEF Good, RightRequest, JobFits, HostKnown, Undisturbed, CertificateKept,
            Later, SslRequests, Operations
    <2> QED BY <1>1, <1>2, <1>4, <2>1, <2>2, <2>3 DEF Outcome, Goes, TypeOK
<1> QED BY <1>3, <1>4 DEF Reauthenticate

\* A creation that knows its host may ask for a certificate.
LEMMA RequestSslOutcome ==
    ASSUME IInv, NEW t \in Calls, call[t] # NULL, call[t].op = "create",
           host[Dom(t)] # NULL, call[t].id = host[Dom(t)].id, RequestSsl(t, call[t].id)
    PROVE  Outcome(t)
<1>1. call[t] \in Call /\ call[t].id \in Ids \cup {NULL} /\ Good(call[t], host[Dom(t)], known[Dom(t)])
    BY ServedCall
<1>2. ASSUME NEW request \in {"assign", "inspect"}, Send(t, request)
      PROVE  Outcome(t)
    <2>1. request \in Requests
        BY DEF Requests, SslRequests
    <2>2. ASSUME NEW c \in Call, c.op = "create", c.id = call[t].id, c.request = request, c.answer = NULL
          PROVE  Good(c, host[Dom(t)], known[Dom(t)])
        BY <1>1, <2>2, NoAnswer DEF Good, RightRequest, JobFits, HostKnown, Undisturbed,
            CertificateKept, Later, SslRequests
    <2> QED BY <1>2, <2>1, <2>2, SendGoes
<1>3. CASE call[t].mode = "none" /\ Return(t, call[t].id)
    BY <1>1, <1>3 DEF Outcome, Done, Success
<1> QED BY <1>2, <1>3 DEF RequestSsl

\* A creation: what the invariant says of an answered request.
LEMMA CreationAnswered ==
    ASSUME IInv, NEW t \in Calls, call[t] # NULL, call[t].answer # NULL,
           call[t].request \in Later \cup {"post", "find"}
    PROVE  /\ call[t] \in Call /\ call[t].op = "create" /\ call[t].id \in Ids \cup {NULL}
           /\ Good(call[t], host[Dom(t)], known[Dom(t)])
           /\ call[t].request \in Later \cup {"find"} \/ call[t].answer \in {"ok", "inUse"} => host[Dom(t)] # NULL
           /\ call[t].request \in Later \/ call[t].answer = "ok" => call[t].id = host[Dom(t)].id
           /\ \/ call[t].hit \/ call[t].answer = "ok"
              \/ call[t].request = "post" /\ call[t].answer \in {"inUse", "unauthorized"}
<1>1. call[t].op = "create"
    BY ServedCall DEF Good, RightRequest, Later, SslRequests, Operations
<1>2. Good(call[t], host[Dom(t)], known[Dom(t)]) /\ call[t] \in Call /\ call[t].id \in Ids \cup {NULL}
    BY ServedCall
<1>3. First["create"] = "post"
    BY DEF First, Operations
<1> QED BY <1>1, <1>2, <1>3 DEF Good, HostKnown, Undisturbed, Later, SslRequests

\* A creation that knows its host may send any later request, with the
\* certificate it has seen if that is put.
LEMMA CreationSends ==
    ASSUME IInv, NEW t \in Calls, call[t] # NULL, call[t].op = "create",
           NEW request \in Later \cup {"find"}, Send(t, request),
           host[Dom(t)] # NULL, request # "find" => call[t].id = host[Dom(t)].id,
           request = "put" /\ ~call[t].hit /\ host[Dom(t)].ssl => call[t].ssl
    PROVE  Outcome(t)
<1>1. request \in Requests
    BY DEF Requests, Later, SslRequests
<1>2. Good(call[t], host[Dom(t)], known[Dom(t)])
    BY ServedCall
<1>3. \A c \in Call :
              /\ c.op = call[t].op /\ c.dom = Dom(t) /\ c.id = call[t].id /\ c.ssl = call[t].ssl
              /\ c.hit = call[t].hit /\ c.request = request /\ c.answer = NULL
              => Good(c, host[Dom(t)], known[Dom(t)])
    BY <1>2, NoAnswer DEF Good, RightRequest, JobFits, HostKnown, Undisturbed,
        CertificateKept, Later, SslRequests
<1>4. ASSUME NEW c \in Call,
             /\ c.op = call[t].op /\ c.dom = Dom(t) /\ c.id = call[t].id /\ c.ssl = call[t].ssl
             /\ c.hit = call[t].hit /\ c.request = request /\ c.answer = NULL
      PROVE  Good(c, host[Dom(t)], known[Dom(t)])
    BY <1>3, <1>4
<1> QED BY <1>1, <1>4, SendGoes

\* A creation that was struck may return what it likes of its host.
LEMMA CreationReturns ==
    ASSUME IInv, NEW t \in Calls, call[t] # NULL, call[t].op = "create",
           NEW id \in Ids \cup {NULL}, Return(t, id),
           id # NULL => host[Dom(t)] # NULL /\ host[Dom(t)].id = id,
           ~call[t].hit => id # NULL /\ host[Dom(t)].ssl
    PROVE  Outcome(t)
BY DEF Outcome, Done, Success

LEMMA ResumePostOutcome ==
    ASSUME IInv, NEW t \in Calls, ResumePost(t)
    PROVE  Outcome(t)
<1>1. call[t] # NULL /\ call[t].request = "post" /\ call[t].answer # NULL
    BY DEF ResumePost, Got
<1>2. CASE call[t].answer = "ok" /\ RequestSsl(t, call[t].id)
    BY <1>1, <1>2, CreationAnswered, RequestSslOutcome
<1>3. CASE call[t].answer = "inUse" /\ Send(t, "find")
    BY <1>1, <1>3, CreationAnswered, CreationSends
<1>4. CASE call[t].answer \in {"refused", "lost"} /\ Return(t, NULL)
    BY <1>1, <1>4, CreationAnswered, CreationReturns
<1> QED BY <1>2, <1>3, <1>4 DEF ResumePost

LEMMA ResumeFindOutcome ==
    ASSUME IInv, NEW t \in Calls, ResumeFind(t)
    PROVE  Outcome(t)
<1>1. call[t] # NULL /\ call[t].request = "find" /\ call[t].answer # NULL
    BY DEF ResumeFind, Got
<1>2. CASE call[t].answer = "ok" /\ Send(t, "show")
    BY <1>1, <1>2, CreationAnswered, CreationSends DEF Later
<1>3. CASE ~(call[t].answer = "ok" /\ call[t].id # NULL) /\ Return(t, NULL)
    <2>1. call[t].hit
        <3>1. call[t].answer = "ok" => call[t].id # NULL
            BY <1>1, CreationAnswered, ServedCall, IdsAssumption DEF Host, Ids
        <3> QED BY <1>1, <1>3, <3>1, CreationAnswered
    <2> QED BY <1>1, <1>3, <2>1, CreationAnswered, CreationReturns
<1> QED BY <1>2, <1>3 DEF ResumeFind

LEMMA ResumeShowOutcome ==
    ASSUME IInv, NEW t \in Calls, ResumeShow(t)
    PROVE  Outcome(t)
<1>1. call[t] # NULL /\ call[t].request = "show" /\ call[t].answer # NULL /\ "show" \in Later
    BY DEF ResumeShow, Got, Later
<1>2. CASE call[t].answer # "lost" /\ Send(t, "put")
    <2>1. ~call[t].hit /\ host[Dom(t)].ssl => call[t].ssl
        BY <1>1, CreationAnswered DEF Good, CertificateKept
    <2> QED BY <1>1, <1>2, <2>1, CreationAnswered, CreationSends DEF Later
<1>3. CASE call[t].answer = "lost" /\ Return(t, NULL)
    BY <1>1, <1>3, CreationAnswered, CreationReturns
<1> QED BY <1>2, <1>3 DEF ResumeShow

LEMMA ResumePutOutcome ==
    ASSUME IInv, NEW t \in Calls, ResumePut(t)
    PROVE  Outcome(t)
<1>1. call[t] # NULL /\ call[t].request = "put" /\ call[t].answer # NULL /\ "put" \in Later
    BY DEF ResumePut, Got, Later
<1>2. CASE call[t].answer # "lost" /\ RequestSsl(t, call[t].id)
    BY <1>1, <1>2, CreationAnswered, RequestSslOutcome
<1>3. CASE call[t].answer = "lost" /\ Return(t, NULL)
    BY <1>1, <1>3, CreationAnswered, CreationReturns
<1> QED BY <1>2, <1>3 DEF ResumePut

\* inspect, certificates and reassign never return without a certificate.
LEMMA ResumeAssigningOutcome ==
    ASSUME IInv, NEW t \in Calls, ResumeInspect(t) \/ ResumeCertificates(t) \/ ResumeReassign(t)
    PROVE  Outcome(t)
<1>1. /\ call[t] # NULL /\ call[t].request \in Later /\ call[t].answer # NULL
      /\ {"reassign", "certificates", "certify"} \subseteq Later
    BY DEF ResumeInspect, ResumeCertificates, ResumeReassign, Got, Later, SslRequests
<1>2. CASE \E request \in {"reassign", "certificates", "certify"} : Send(t, request)
    BY <1>1, <1>2, CreationAnswered, CreationSends
<1>3. CASE Got(t, "reassign") /\ call[t].answer = "ok" /\ Return(t, call[t].id)
    <2>1. ~call[t].hit => host[Dom(t)].ssl
        BY <1>1, <1>3, CreationAnswered DEF Good, CertificateKept, Got
    <2>2. call[t].id # NULL
        BY <1>1, CreationAnswered, ServedCall, IdsAssumption DEF Host, Ids
    <2> QED BY <1>1, <1>3, <2>1, <2>2, CreationAnswered, CreationReturns
<1> QED BY <1>2, <1>3 DEF ResumeInspect, ResumeCertificates, ResumeReassign

LEMMA ResumeCertifyOutcome ==
    ASSUME IInv, NEW t \in Calls, ResumeCertify(t)
    PROVE  Outcome(t)
<1>1. call[t] # NULL /\ call[t].request = "certify" /\ call[t].answer # NULL /\ {"certify", "assign"} \subseteq Later
    BY DEF ResumeCertify, Got, Later, SslRequests
<1>2. CASE Send(t, "assign")
    BY <1>1, <1>2, CreationAnswered, CreationSends
<1>3. CASE call[t].answer # "ok" /\ Return(t, call[t].id)
    BY <1>1, <1>3, CreationAnswered, CreationReturns
<1> QED BY <1>2, <1>3 DEF ResumeCertify

LEMMA ResumeAssignOutcome ==
    ASSUME IInv, NEW t \in Calls, ResumeAssign(t)
    PROVE  Outcome(t)
<1>1. /\ call[t] # NULL /\ call[t].request = "assign" /\ call[t].answer # NULL
      /\ "assign" \in Later /\ Return(t, call[t].id)
    BY DEF ResumeAssign, Got, Later, SslRequests
<1>2. ~call[t].hit => host[Dom(t)].ssl
    BY <1>1, CreationAnswered DEF Good, CertificateKept
<1>3. call[t].id # NULL
    BY <1>1, CreationAnswered, ServedCall, IdsAssumption DEF Host, Ids
<1> QED BY <1>1, <1>2, <1>3, CreationAnswered, CreationReturns

LEMMA ResumeLastOutcome ==
    ASSUME IInv, NEW t \in Calls, ResumeLast(t)
    PROVE  Outcome(t)
<1>1. /\ call[t] # NULL /\ call[t].request \in {"delete", "list"} /\ call[t].answer # NULL
      /\ call[t].answer # "unauthorized" /\ Return(t, NULL)
    BY DEF ResumeLast, Got
<1>2. Good(call[t], host[Dom(t)], known[Dom(t)]) /\ call[t].op \in Operations
    BY <1>1, ServedCall
<1>3. ~call[t].hit => Success(t, NULL)
    BY <1>1, <1>2 DEF Good, RightRequest, Undisturbed, Success, Operations
<1> QED BY <1>1, <1>3 DEF Outcome, Done

\* A step of a call goes on or returns, with what the operation is for
\* unless a fault has struck it.
LEMMA ResumeOutcome ==
    ASSUME IInv, NEW t \in Calls, Resume(t)
    PROVE  Outcome(t)
BY ResumeLoginOutcome, ReauthenticateOutcome, ResumePostOutcome, ResumeFindOutcome,
   ResumeShowOutcome, ResumePutOutcome, ResumeAssigningOutcome, ResumeCertifyOutcome,
   ResumeAssignOutcome, ResumeLastOutcome DEF Resume

\* The steps of the calls keep the invariant.
LEMMA ResumeKeeps ==
    ASSUME IInv, NEW t \in Calls, Resume(t)
    PROVE  IInv'
<1>1. call[t] # NULL /\ (Goes(t) \/ \E id : Done(t, id))
    BY ResumeOutcome DEF Outcome
<1>2. ASSUME NEW id, Done(t, id)
      PROVE  IInv'
    BY <1>1, <1>2, ReturnKeeps DEF Done
<1> QED BY <1>1, <1>2, GoesKeeps

\* A call starts with a record that has asked nothing yet.
LEMMA StartedCall ==
    ASSUME TypeOK, NEW t \in Calls, NEW d \in Domains, NEW op \in Operations, NEW mode \in Modes,
           Start(t, op, d, mode)
    PROVE  \E c \in Call :
              /\ call' = [call EXCEPT ![t] = c]
              /\ c.op = op /\ c.dom = d /\ c.answer = NULL
              /\ c.request \in {"login", First[op]}
              /\ op = "delete" => c.id = known[d]
<1> DEFINE cached == cache # NULL /\ cache.fresh
           valid == cached /\ cache.valid
           request == IF cached THEN First[op] ELSE "login"
           id == IF op = "delete" THEN known[d] ELSE NULL
           c == [op |-> op, dom |-> d, mode |-> mode, request |-> request,
                 answer |-> NULL, valid |-> valid, retried |-> FALSE,
                 id |-> id, ssl |-> FALSE, hit |-> FALSE]
<1>1. call' = [call EXCEPT ![t] = c]
    BY DEF Start
<1>2. request \in Requests /\ request \in {"login", First[op]} /\ id \in Ids \cup {NULL}
      /\ (op = "delete" => id = known[d])
    BY DEF Requests, First, TypeOK
<1>3. valid \in BOOLEAN
    <2>1. cache # NULL => cache.valid \in BOOLEAN
        BY DEF TypeOK, Token
    <2> QED BY <2>1
<1> HIDE DEF request, id, valid, cached
<1>4. /\ c \in Call /\ c.op = op /\ c.dom = d /\ c.answer = NULL
      /\ c.request = request /\ c.id = id
    BY <1>2, <1>3 DEF Call
<1> HIDE DEF c
<1> QED BY <1>1, <1>2, <1>4

LEMMA StartKeeps ==
    ASSUME IInv, Exclusive, NEW t \in Calls, NEW d \in Domains, NEW op \in Operations,
           NEW mode \in Modes, Start(t, op, d, mode),
           op = "create" => known[d] = NULL, op = "delete" => known[d] # NULL
    PROVE  IInv'
<1>1. TypeOK /\ OneCallEach /\ KnownIsRight /\ CallsGood
    BY DEF IInv
<1>2. PICK c \in Call :
              /\ call' = [call EXCEPT ![t] = c]
              /\ c.op = op /\ c.dom = d /\ c.answer = NULL
              /\ c.request \in {"login", First[op]}
              /\ op = "delete" => c.id = known[d]
    BY <1>1, StartedCall
<1>3. /\ call[t] = NULL /\ (op = "test" \/ ~Calling(d))
      /\ host' = host /\ known' = known /\ cache' = cache /\ issued' = issued
    BY DEF Start
<1>4. Good(c, host[d], known[d])
    BY <1>2, NoAnswer DEF Good, RightRequest, JobFits, HostKnown, Undisturbed, CertificateKept,
        First, Later, SslRequests, Operations
<1>5. TypeOK' /\ KnownIsRight'
    BY <1>1, <1>2, <1>3 DEF TypeOK, KnownIsRight
<1>6. OneCallEach'
    BY <1>1, <1>2, <1>3 DEF TypeOK, OneCallEach, Calling
<1>7. CallsGood'
    BY <1>1, <1>2, <1>3, <1>4 DEF TypeOK, CallsGood, Dom
<1> QED BY <1>5, <1>6, <1>7 DEF IInv

\* A request starts a call that fits what is recorded.
LEMMA RequestStarts ==
    ASSUME NEW t \in Calls, NEW d \in Domains,
           StartCreate(t, d) \/ StartDelete(t, d) \/ StartTest(t, d)
    PROVE  \E op \in Operations, mode \in Modes :
              /\ Start(t, op, d, mode)
              /\ op = "create" => known[d] = NULL
              /\ op = "delete" => known[d] # NULL
BY SwitchesAssumption DEF StartCreate, StartDelete, StartTest, Operations, Modes

\* Tokens do not matter to the invariant.
LEMMA DropKeeps ==
    ASSUME IInv, DropTokens \/ CacheExpires
    PROVE  IInv'
<1>1. TypeOK /\ OneCallEach /\ KnownIsRight /\ CallsGood
    BY DEF IInv
<1>2. host' = host /\ known' = known /\ issued' = issued /\ cache' \in Token \cup {NULL}
    BY <1>1 DEF DropTokens, CacheExpires, TypeOK, Token
<1>3. CASE DropTokens
    <2>1. ASSUME NEW t \in Calls
          PROVE  /\ call'[t] \in Call \cup {NULL}
                 /\ call'[t] # NULL => /\ call[t] # NULL /\ call'[t].dom = call[t].dom /\ call'[t].op = call[t].op
                                       /\ Good(call[t], host[Dom(t)], known[Dom(t)]) => Good(call'[t], host[Dom(t)], known[Dom(t)])
        <3> DEFINE c == [call[t] EXCEPT !.valid = FALSE]
        <3>1. CASE call[t] = NULL
            BY <1>3, <3>1 DEF DropTokens
        <3>2. CASE call[t] # NULL
            <4>1. call'[t] = c /\ call[t] \in Call
                BY <1>1, <1>3, <3>2 DEF DropTokens, TypeOK
            <4>2. /\ c \in Call /\ SameCall(c, call[t]) /\ c.answer = call[t].answer /\ c.id = call[t].id
                  /\ c.ssl = call[t].ssl /\ c.hit = call[t].hit
                BY <4>1 DEF Call, SameCall
            <4> HIDE DEF c
            <4>3. Good(call[t], host[Dom(t)], known[Dom(t)]) => Good(c, host[Dom(t)], known[Dom(t)])
                BY <4>2 DEF Good, RightRequest, JobFits, HostKnown, Undisturbed, CertificateKept, SameCall
            <4> QED BY <3>2, <4>1, <4>2, <4>3 DEF SameCall
        <3> QED BY <3>1, <3>2
    <2>2. TypeOK'
        BY <1>1, <1>2, <1>3, <2>1 DEF TypeOK, DropTokens
    <2>3. OneCallEach' /\ KnownIsRight'
        BY <1>1, <1>2, <2>1 DEF OneCallEach, KnownIsRight
    <2>4. CallsGood'
        BY <1>1, <1>2, <2>1 DEF CallsGood, Dom
    <2> QED BY <2>2, <2>3, <2>4 DEF IInv
<1>4. CASE CacheExpires
    BY <1>1, <1>2, <1>4 DEF CacheExpires, IInv, TypeOK, OneCallEach, KnownIsRight, CallsGood, Dom
<1> QED BY <1>3, <1>4

LEMMA CrashKeeps ==
    ASSUME IInv, Crash
    PROVE  IInv'
BY DEF Crash, IInv, TypeOK, OneCallEach, KnownIsRight, CallsGood

LEMMA NextKeeps ==
    ASSUME Exclusive, IInv, [Next]_vars
    PROVE  IInv'
<1>1. ASSUME NEW t \in Calls, NEW d \in Domains,
             StartCreate(t, d) \/ StartDelete(t, d) \/ StartTest(t, d)
      PROVE  IInv'
    BY <1>1, RequestStarts, StartKeeps
<1>2. ASSUME NEW t \in Calls, Npm(t) \/ Resume(t)
      PROVE  IInv'
    BY <1>2, NpmKeeps, ResumeKeeps
<1>3. CASE UNCHANGED vars
    BY <1>3 DEF vars, IInv, TypeOK, OneCallEach, KnownIsRight, CallsGood, Dom
<1> QED BY <1>1, <1>2, <1>3, DropKeeps, CrashKeeps DEF Next

-----------------------------------------------------------------------------
(* Theorems *)

\* A dropped token is the only thing a call loses.
LEMMA DropCall ==
    ASSUME TypeOK, DropTokens, NEW t \in Calls
    PROVE  /\ call'[t] \in Call \cup {NULL}
           /\ call'[t] # NULL => call[t] # NULL /\ call'[t].answer = call[t].answer
<1> DEFINE c == [call[t] EXCEPT !.valid = FALSE]
<1>1. CASE call[t] = NULL
    BY <1>1 DEF DropTokens
<1>2. CASE call[t] # NULL
    <2>1. call'[t] = c /\ call[t] \in Call
        BY <1>2 DEF DropTokens, TypeOK
    <2>2. c \in Call /\ c.answer = call[t].answer
        BY <2>1 DEF Call
    <2> QED BY <1>2, <2>1, <2>2
<1> QED BY <1>1, <1>2

\* The steps outside the calls keep the types.
LEMMA SimpleTypes ==
    ASSUME TypeOK, UNCHANGED vars \/ DropTokens \/ CacheExpires \/ Crash
    PROVE  TypeOK'
<1>1. CASE DropTokens
    BY <1>1, DropCall DEF DropTokens, TypeOK, Token
<1>2. CASE CacheExpires
    BY <1>2 DEF CacheExpires, TypeOK, Token
<1> QED BY <1>1, <1>2 DEF vars, Crash, TypeOK

\* So does the start of a call.
LEMMA StartTypes ==
    ASSUME TypeOK, NEW t \in Calls, NEW d \in Domains, NEW op \in Operations, NEW mode \in Modes,
           Start(t, op, d, mode)
    PROVE  TypeOK'
<1>1. PICK c \in Call : call' = [call EXCEPT ![t] = c]
    BY StartedCall
<1> QED BY <1>1 DEF Start, TypeOK

\* A step keeps the types, whichever calls there are.
LEMMA NextTypes ==
    ASSUME TypeOK, [Next]_vars
    PROVE  TypeOK'
<1>1. ASSUME NEW t \in Calls, NEW d \in Domains,
             StartCreate(t, d) \/ StartDelete(t, d) \/ StartTest(t, d)
      PROVE  TypeOK'
    BY <1>1, RequestStarts, StartTypes
<1>2. ASSUME NEW t \in Calls, Npm(t) \/ Resume(t)
      PROVE  TypeOK'
    BY <1>2, NpmTypes, ResumeForward, ResumeTypes
<1>3. CASE UNCHANGED vars \/ DropTokens \/ CacheExpires \/ Crash
    BY <1>3, SimpleTypes
<1> QED BY <1>1, <1>2, <1>3 DEF Next

\* The invariant holds throughout.
LEMMA InvariantHolds ==
    ASSUME Exclusive
    PROVE  Spec => []IInv
<1>1. IInv /\ [Next]_vars => IInv'
    BY NextKeeps
<1> QED BY <1>1, InitGood, PTL DEF Spec

\* Every variable keeps its type, whatever fails and however many calls there
\* are: in particular create_proxy_host tells an id or nothing.
THEOREM TypeCorrect == Spec => []TypeOK
<1>1. Init => TypeOK
    BY DEF Init, TypeOK
<1>2. TypeOK /\ [Next]_vars => TypeOK'
    BY NextTypes
<1> QED BY <1>1, <1>2, PTL DEF Spec

\* A call makes twelve requests at most: every request it sends is nearer to
\* the end, however often NPM rejects, refuses or loses one.
THEOREM CallsEnd == Spec => CallsAreBounded
<1>1. ASSUME TypeOK, [Next]_vars, NEW t \in Calls,
             call[t] # NULL, call[t].answer # NULL, call'[t] # NULL, call'[t].answer = NULL
      PROVE  RequestsLeft(t)' < RequestsLeft(t)
    <2>1. call'[t] # call[t]
        BY <1>1
    <2>2. ASSUME NEW u \in Calls, NEW d \in Domains,
                 StartCreate(u, d) \/ StartDelete(u, d) \/ StartTest(u, d)
          PROVE  FALSE
        <3>1. PICK c \in Call : call' = [call EXCEPT ![u] = c]
            BY <1>1, <2>2, RequestStarts, StartedCall
        <3>2. call[u] = NULL
            BY <2>2 DEF StartCreate, StartDelete, StartTest, Start
        <3> QED BY <1>1, <2>1, <3>1, <3>2 DEF TypeOK
    <2>3. ASSUME NEW u \in Calls, Npm(u)
          PROVE  FALSE
        <3>1. PICK c \in Call : call' = [call EXCEPT ![u] = c] /\ c.answer # NULL
            BY <1>1, <2>3, NpmCall
        <3> QED BY <1>1, <2>1, <3>1 DEF TypeOK
    <2>4. ASSUME NEW u \in Calls, Resume(u)
          PROVE  RequestsLeft(t)' < RequestsLeft(t)
        <3>1. Forward(u)
            BY <1>1, <2>4, ResumeForward
        <3>2. u = t
            BY <1>1, <2>1, <3>1 DEF Forward, Return, TypeOK
        <3>3. ~\E id : Return(t, id)
            BY <1>1 DEF Return, TypeOK
        <3>4. PICK c \in Call :
                 /\ call' = [call EXCEPT ![t] = c]
                 /\ RequestsAfter[c.request]
                      + (IF ~c.retried /\ c.request \in {"login", First[c.op]} THEN 2 ELSE 0)
                    < RequestsLeft(t)
            BY <3>1, <3>2, <3>3 DEF Forward
        <3>5. call'[t] = c
            BY <1>1, <3>4 DEF TypeOK
        <3> QED BY <3>4, <3>5 DEF RequestsLeft
    <2>5. CASE UNCHANGED vars \/ CacheExpires \/ Crash
        BY <1>1, <2>1, <2>5 DEF vars, CacheExpires, Crash
    <2>6. CASE DropTokens
        BY <1>1, <2>6, DropCall
    <2> QED BY <1>1, <2>2, <2>3, <2>4, <2>5, <2>6 DEF Next
<1>2. TypeOK /\ [Next]_vars =>
        \A t \in Calls :
            call[t] # NULL /\ call[t].answer # NULL /\ call'[t] # NULL /\ call'[t].answer = NULL =>
                RequestsLeft(t)' < RequestsLeft(t)
    BY <1>1
<1> QED BY <1>2, TypeCorrect, PTL DEF CallsAreBounded, Spec

\* The id a deployment records is that of the domain's host, whatever was
\* lost, retried or found in use.
THEOREM KnownIdsAreRight ==
    ASSUME Exclusive
    PROVE  Spec => []KnownIsRight
<1>1. IInv => KnownIsRight
    BY DEF IInv
<1> QED BY <1>1, InvariantHolds, PTL

\* A call that no fault has struck does what it is for, however often its
\* tokens were rejected and whatever an earlier call left behind.
THEOREM CallsSucceed ==
    ASSUME Exclusive
    PROVE  Spec => CallSucceeds
<1>1. ASSUME IInv, NEW t \in Calls, Resume(t), call'[t] = NULL, ~call[t].hit
      PROVE  /\ call[t].op = "create" =>
                    /\ host[Dom(t)] # NULL /\ known'[Dom(t)] = host[Dom(t)].id
                    /\ call[t].mode # "none" => host[Dom(t)].ssl
             /\ call[t].op = "delete" => host[Dom(t)] = NULL
    <2>1. call[t] # NULL /\ (Goes(t) \/ \E id : Done(t, id))
        BY <1>1, ResumeOutcome DEF Outcome
    <2>2. ~Goes(t)
        BY <1>1, NullAssumption DEF Goes, IInv, TypeOK
    <2>3. PICK id : Done(t, id)
        BY <2>1, <2>2
    <2>4. known \in [Domains -> Ids \cup {NULL}] /\ Dom(t) \in Domains
        BY <1>1, <2>1, ServedCall DEF TypeOK
    <2>5. call[t].op = "create" => known'[Dom(t)] = id
        BY <2>3, <2>4 DEF Done, Return
    <2> QED BY <1>1, <2>3, <2>5 DEF Done, Success
<1>2. IInv => \A t \in Calls : Resume(t) /\ call'[t] = NULL /\ ~call[t].hit =>
          /\ call[t].op = "create" =>
                /\ host[Dom(t)] # NULL /\ known'[Dom(t)] = host[Dom(t)].id
                /\ call[t].mode # "none" => host[Dom(t)].ssl
          /\ call[t].op = "delete" => host[Dom(t)] = NULL
    BY <1>1
<1> QED BY <1>2, InvariantHolds, PTL DEF CallSucceeds

\* A host found in use keeps its certificate, unless a request failed.
THEOREM CertificatesStay ==
    ASSUME Exclusive
    PROVE  Spec => HttpsStays
<1>1. ASSUME IInv, [Next]_vars, NEW d \in Domains,
             host[d] # NULL, host[d].ssl, host'[d] # NULL
      PROVE  host'[d].ssl \/ \E t \in Calls : call[t] # NULL /\ Dom(t) = d /\ call[t].hit
    <2>1. CASE host' = host
        BY <1>1, <2>1
    <2>2. ASSUME NEW t \in Calls, PostHost(t) \/ RemoveHost(t)
          PROVE  host'[d].ssl
        BY <1>1, <2>2 DEF PostHost, RemoveHost, IInv, TypeOK
    <2>3. ASSUME NEW t \in Calls, AssignCertificate(t)
          PROVE  host'[d].ssl
        BY <1>1, <2>3 DEF AssignCertificate, IInv, TypeOK, Host
    <2>4. ASSUME NEW t \in Calls, PutHost(t)
          PROVE  host'[d].ssl \/ (call[t] # NULL /\ Dom(t) = d /\ call[t].hit)
        <3>1. call[t] # NULL /\ call[t].request = "put" /\ "put" \in Later
            BY <2>4 DEF PutHost, Serves, Waits, Later
        <3>2. Has(t) /\ call[t].op = "create" /\ Good(call[t], host[Dom(t)], known[Dom(t)])
            BY <1>1, <3>1, HasHost, ServedCall
        <3>3. host' = [host EXCEPT ![Dom(t)].ssl = call[t].ssl] /\ host \in [Domains -> Host \cup {NULL}]
            BY <1>1, <2>4, <3>2 DEF PutHost, IInv, TypeOK
        <3>4. CASE Dom(t) # d
            BY <1>1, <3>3, <3>4
        <3>5. CASE Dom(t) = d
            <4>1. host[d] \in Host /\ host'[d].ssl = call[t].ssl
                BY <1>1, <3>3, <3>5 DEF Host
            <4>2. ~call[t].hit => call[t].ssl
                BY <1>1, <3>1, <3>2, <3>5 DEF Good, CertificateKept
            <4> QED BY <3>1, <3>5, <4>1, <4>2
        <3> QED BY <3>4, <3>5
    <2>5. ASSUME NEW t \in Calls, Npm(t)
          PROVE  host' = host \/ PostHost(t) \/ RemoveHost(t) \/ AssignCertificate(t) \/ PutHost(t)
        BY <2>5 DEF Npm, Rejected, Login, FindHost, ShowHost, FindCertificate, IssueCertificate, ListForPage
    <2>6. ASSUME NEW t \in Calls, Resume(t)
          PROVE  host' = host
        BY <1>1, <2>6, ResumeOutcome DEF Outcome, Goes, Done, Return
    <2> QED BY <1>1, <2>1, <2>2, <2>3, <2>4, <2>5, <2>6
            DEF Next, vars, StartCreate, StartDelete, StartTest, Start, DropTokens, CacheExpires, Crash
<1>2. IInv /\ [Next]_vars => \A d \in Domains :
          host[d] # NULL /\ host[d].ssl /\ host'[d] # NULL =>
              host'[d].ssl \/ \E t \in Calls : call[t] # NULL /\ Dom(t) = d /\ call[t].hit
    BY <1>1
<1> QED BY <1>2, InvariantHolds, PTL DEF HttpsStays, Spec
-----------------------------------------------------------------------------
(* The calls implement ProxyContract.  Proxy, Told and Jobs are the values  *)
(* that INSTANCE ... WITH gives the variables of the contract.              *)

Proxy == [d \in Domains |-> host[d] # NULL]
Told == [d \in Domains |-> known[d] # NULL]
Jobs == [t \in Calls |-> JobOf(t)]

\* The jobs are jobs, and there is one at most for a domain.
LEMMA JobsFit ==
    ASSUME IInv, NEW t \in Calls
    PROVE  /\ call[t] = NULL => JobOf(t) = NULL
           /\ call[t] # NULL /\ call[t].op # "test" =>
                 JobOf(t) # NULL /\ JobOf(t).op = call[t].op /\ JobOf(t).dom = Dom(t)
           /\ JobOf(t) # NULL => call[t] # NULL /\ call[t].op # "test"
<1>1. CASE call[t] = NULL \/ call[t].op = "test"
    BY <1>1 DEF JobOf
<1>2. CASE call[t] # NULL /\ call[t].op # "test"
    <2>1. [op |-> call[t].op, dom |-> call[t].dom] \in [op : Operations, dom : Domains]
        BY <1>2, ServedCall DEF Dom
    <2> QED BY <1>2, <2>1, NullAssumption DEF JobOf, Dom
<1> QED BY <1>1, <1>2

\* As long as a call stays the same call, so do the jobs.
LEMMA JobsStay ==
    ASSUME IInv, NEW t \in Calls, call[t] # NULL, NEW c \in Call,
           call' = [call EXCEPT ![t] = c], c.op = call[t].op, c.dom = Dom(t)
    PROVE  Jobs' = Jobs
<1>1. c # NULL /\ call \in [Calls -> Call \cup {NULL}]
    BY NullAssumption DEF IInv, TypeOK
<1>2. ASSUME NEW u \in Calls
      PROVE  JobOf(u)' = JobOf(u)
    BY <1>1 DEF JobOf, Dom
<1> QED BY <1>2 DEF Jobs

\* NPM makes or removes the host of the domain it is asked for, or the
\* callers see nothing of its step.
LEMMA NpmRefines ==
    ASSUME IInv, NEW t \in Calls, Npm(t)
    PROVE  Contract!Make(t) \/ Contract!Remove(t) \/ UNCHANGED <<Proxy, Told, Jobs>>
<1>1. call[t] # NULL /\ Jobs' = Jobs
    BY NpmCall, JobsStay DEF IInv
<1>2. known' = known /\ host \in [Domains -> Host \cup {NULL}] /\ Dom(t) \in Domains
    BY <1>1, ServedCall DEF Npm, Rejected, Login, PostHost, FindHost, ShowHost, PutHost, AssignCertificate,
        FindCertificate, IssueCertificate, RemoveHost, ListForPage, IInv, TypeOK
<1>3. Told' = Told
    BY <1>2 DEF Told
<1>4. CASE Proxy' = Proxy
    BY <1>1, <1>3, <1>4
<1>5. CASE PostHost(t) /\ Proxy' # Proxy
    <2>1. PICK i \in Ids : host' = [host EXCEPT ![Dom(t)] = [id |-> i, ssl |-> FALSE]]
        BY <1>5 DEF PostHost, Proxy
    <2>2. [id |-> i, ssl |-> FALSE] # NULL
        <3>1. [id |-> i, ssl |-> FALSE] \in Host
            BY DEF Host
        <3> QED BY <3>1, NullAssumption
    <2>3. JobOf(t) # NULL /\ JobOf(t).op = "create" /\ JobOf(t).dom = Dom(t)
        <3>1. call[t].op = "create"
            BY <1>1, <1>5, ServedCall DEF PostHost, Serves, Waits, Good, RightRequest, Operations
        <3> QED BY <1>1, <3>1, JobsFit
    <2>4. Proxy' = [Proxy EXCEPT ![Dom(t)] = TRUE]
        <3>1. \A d \in Domains : (host'[d] # NULL) <=> (d = Dom(t) \/ host[d] # NULL)
            BY <1>2, <2>1, <2>2
        <3> QED BY <1>2, <3>1, Zenon DEF Proxy
    <2> QED BY <1>1, <1>3, <2>3, <2>4 DEF Contract!Make, Contract!Works, Proxy, Told, Jobs
<1>6. CASE RemoveHost(t) /\ Proxy' # Proxy
    <2>1. host' = [host EXCEPT ![Dom(t)] = NULL]
        BY <1>6 DEF RemoveHost, Proxy
    <2>2. JobOf(t) # NULL /\ JobOf(t).op = "delete" /\ JobOf(t).dom = Dom(t)
        <3>1. call[t].op = "delete"
            BY <1>1, <1>6, ServedCall DEF RemoveHost, Serves, Waits, Good, RightRequest, Operations
        <3> QED BY <1>1, <3>1, JobsFit
    <2>3. Proxy' = [Proxy EXCEPT ![Dom(t)] = FALSE]
        <3>1. \A d \in Domains : (host'[d] # NULL) <=> (d # Dom(t) /\ host[d] # NULL)
            BY <1>2, <2>1
        <3> QED BY <1>2, <3>1, Zenon DEF Proxy
    <2> QED BY <1>1, <1>3, <2>2, <2>3 DEF Contract!Remove, Contract!Works, Proxy, Told, Jobs
<1>7. CASE PutHost(t) \/ AssignCertificate(t)
    <2>1. CASE host' = host
        BY <1>4, <2>1 DEF Proxy
    <2>2. CASE host' # host
        <3>1. Has(t) /\ host[Dom(t)] # NULL /\ call[t].ssl \in BOOLEAN
            BY <1>1, <1>7, <2>2, ServedCall DEF PutHost, AssignCertificate, Has
        <3>2. PICK ssl \in BOOLEAN : host' = [host EXCEPT ![Dom(t)].ssl = ssl]
            BY <1>7, <2>2, <3>1 DEF PutHost, AssignCertificate
        <3>3. host'[Dom(t)] \in Host
            BY <1>2, <3>1, <3>2 DEF Host
        <3>4. \A d \in Domains : (host'[d] # NULL) <=> (host[d] # NULL)
            BY <1>2, <3>1, <3>2, <3>3, NullAssumption
        <3>5. Proxy' = Proxy
            BY <3>4, Zenon DEF Proxy
        <3> QED BY <1>4, <3>5
    <2> QED BY <2>1, <2>2
<1>8. CASE host' = host
    BY <1>4, <1>8 DEF Proxy
<1>9. host' = host \/ PostHost(t) \/ RemoveHost(t) \/ AssignCertificate(t) \/ PutHost(t)
    BY DEF Npm, Rejected, Login, FindHost, ShowHost, FindCertificate, IssueCertificate, ListForPage
<1> QED BY <1>4, <1>5, <1>6, <1>7, <1>8, <1>9
\* A call ends its job and tells an id only of a host that is there.
LEMMA ResumeRefines ==
    ASSUME IInv, NEW t \in Calls, Resume(t)
    PROVE  Contract!Return(t) \/ UNCHANGED <<Proxy, Told, Jobs>>
<1>1. call[t] # NULL /\ (Goes(t) \/ \E id : Done(t, id))
    BY ResumeOutcome DEF Outcome
<1>2. host' = host /\ Proxy' = Proxy
    BY <1>1 DEF Goes, Done, Return, Proxy
<1>3. CASE Goes(t)
    <2>1. Jobs' = Jobs
        BY <1>1, <1>3, JobsStay DEF Goes
    <2> QED BY <1>2, <1>3, <2>1 DEF Goes, Told
<1>4. ASSUME NEW id, Done(t, id)
      PROVE  Contract!Return(t) \/ UNCHANGED <<Proxy, Told, Jobs>>
    <2>1. /\ call \in [Calls -> Call \cup {NULL}] /\ known \in [Domains -> Ids \cup {NULL}]
          /\ Dom(t) \in Domains /\ call' = [call EXCEPT ![t] = NULL]
        BY <1>1, <1>4, ServedCall DEF Done, Return, TypeOK
    <2>2. Jobs' = [Jobs EXCEPT ![t] = NULL]
        <3>1. \A u \in Calls : JobOf(u)' = IF u = t THEN NULL ELSE JobOf(u)
            BY <2>1 DEF JobOf
        <3> QED BY <3>1 DEF Jobs
    <2>3. CASE call[t].op = "test"
        <3>1. JobOf(t) = NULL /\ known' = known
            BY <1>1, <1>4, <2>3, JobsFit DEF Done, Return
        <3>2. Jobs' = Jobs
            BY <2>2, <3>1 DEF Jobs
        <3> QED BY <1>2, <3>1, <3>2 DEF Told
    <2>4. CASE call[t].op # "test"
        <3>1. /\ JobOf(t) # NULL /\ JobOf(t).op = call[t].op /\ JobOf(t).dom = Dom(t)
              /\ known' = [known EXCEPT ![Dom(t)] = id]
              /\ id # NULL => call[t].op = "create" /\ host[Dom(t)] # NULL
            BY <1>1, <1>4, <2>4, JobsFit DEF Done, Return
        <3>2. PICK told \in BOOLEAN : told <=> id # NULL
            <4> DEFINE told == id # NULL
            <4> QED BY told \in BOOLEAN
        <3>3. Told' = [Told EXCEPT ![Dom(t)] = told]
            <4>1. \A d \in Domains : (known'[d] # NULL) <=> IF d = Dom(t) THEN told ELSE known[d] # NULL
                BY <2>1, <3>1, <3>2
            <4> QED BY <2>1, <3>2, <4>1, Zenon DEF Told
        <3>4. told => Contract!Works(t, "create") /\ Proxy[Dom(t)]
            BY <2>1, <3>1, <3>2 DEF Contract!Works, Proxy
        <3> QED BY <1>2, <2>2, <3>1, <3>2, <3>3, <3>4 DEF Contract!Return, Proxy, Told, Jobs
    <2> QED BY <2>3, <2>4
<1> QED BY <1>1, <1>3, <1>4

\* The deployment and the removal begin a job, the settings page none.
LEMMA RequestRefines ==
    ASSUME IInv, Exclusive, NEW t \in Calls, NEW d \in Domains,
           StartCreate(t, d) \/ StartDelete(t, d) \/ StartTest(t, d)
    PROVE  (\E j \in Contract!Job : Contract!Begin(t, j)) \/ UNCHANGED <<Proxy, Told, Jobs>>
<1>1. PICK op \in Operations, mode \in Modes :
          /\ Start(t, op, d, mode)
          /\ op = "create" => known[d] = NULL
          /\ op = "delete" => known[d] # NULL
    BY RequestStarts
<1>2. PICK c \in Call : call' = [call EXCEPT ![t] = c] /\ c.op = op /\ c.dom = d
    BY <1>1, StartedCall DEF IInv
<1>3. /\ call[t] = NULL /\ (op = "test" \/ ~Calling(d)) /\ host' = host /\ known' = known
      /\ call \in [Calls -> Call \cup {NULL}] /\ c # NULL
    BY <1>1, NullAssumption DEF Start, IInv, TypeOK
<1>4. Proxy' = Proxy /\ Told' = Told
    BY <1>3 DEF Proxy, Told
<1>5. CASE op = "test"
    <2>1. \A u \in Calls : JobOf(u)' = JobOf(u)
        BY <1>2, <1>3, <1>5 DEF JobOf
    <2> QED BY <1>4, <2>1 DEF Jobs
<1>6. CASE op # "test"
    <2> DEFINE j == [op |-> op, dom |-> d]
    <2>1. j \in Contract!Job /\ j.op = op /\ j.dom = d
        BY <1>6 DEF Contract!Job, Operations
    <2>2. Jobs' = [Jobs EXCEPT ![t] = j]
        <3>1. \A u \in Calls : JobOf(u)' = IF u = t THEN j ELSE JobOf(u)
            BY <1>2, <1>3, <1>6 DEF JobOf
        <3> QED BY <3>1 DEF Jobs
    <2>3. Jobs[t] = NULL /\ \A u \in Calls : Jobs[u] # NULL => Jobs[u].dom # j.dom
        <3>1. Jobs[t] = NULL
            BY <1>3, JobsFit DEF Jobs
        <3>2. ASSUME NEW u \in Calls, JobOf(u) # NULL
              PROVE  JobOf(u).dom # d
            <4>1. call[u] # NULL /\ call[u].op # "test" /\ JobOf(u).dom = Dom(u)
                BY <3>2, JobsFit
            <4> QED BY <1>3, <1>6, <4>1 DEF Calling, Dom
        <3> QED BY <2>1, <3>1, <3>2 DEF Jobs
    <2>4. Told[d] <=> op = "delete"
        BY <1>1, <1>6 DEF Told, Operations
    <2> HIDE DEF j
    <2> QED BY <1>4, <2>1, <2>2, <2>3, <2>4 DEF Contract!Begin, Proxy, Told, Jobs
<1> QED BY <1>5, <1>6

\* The calls do what DeployLifecycle takes for one step each, for every
\* number of domains, calls and ids.
THEOREM ImplementsContract ==
    ASSUME Exclusive
    PROVE  Spec => Contract!Spec
<1>1. Init => Contract!Init
    BY DEF Init, Contract!Init, JobOf
<1>2. ASSUME IInv, [Next]_vars
      PROVE  [Contract!Next]_(Contract!vars)
    <2>1. ASSUME NEW t \in Calls, NEW d \in Domains,
                 StartCreate(t, d) \/ StartDelete(t, d) \/ StartTest(t, d)
          PROVE  [Contract!Next]_(Contract!vars)
        BY <1>2, <2>1, RequestRefines DEF Contract!Next, Contract!vars, Proxy, Told, Jobs
    <2>2. ASSUME NEW t \in Calls, Npm(t) \/ Resume(t)
          PROVE  [Contract!Next]_(Contract!vars)
        BY <1>2, <2>2, NpmRefines, ResumeRefines DEF Contract!Next, Contract!vars, Proxy, Told, Jobs
    <2>3. CASE DropTokens
        <3>1. \A u \in Calls : JobOf(u)' = JobOf(u)
            <4>1. ASSUME NEW u \in Calls, call[u] # NULL
                  PROVE  call'[u] # NULL /\ call'[u].op = call[u].op /\ call'[u].dom = call[u].dom
                <5>1. call[u] \in Call /\ call'[u] = [call[u] EXCEPT !.valid = FALSE]
                    BY <1>2, <2>3, <4>1, ServedCall DEF DropTokens
                <5>2. [call[u] EXCEPT !.valid = FALSE] \in Call
                    BY <5>1 DEF Call
                <5>3. call'[u] # NULL
                    BY <5>1, <5>2, NullAssumption
                <5> QED BY <5>1, <5>3 DEF Call
            <4>2. ASSUME NEW u \in Calls, call[u] = NULL
                  PROVE  call'[u] = NULL
                BY <2>3, <4>2 DEF DropTokens
            <4> QED BY <4>1, <4>2 DEF JobOf
        <3> QED BY <2>3, <3>1 DEF DropTokens, Contract!vars
    <2>4. CASE Crash
        <3>1. \A u \in Calls : JobOf(u)' = NULL
            BY <2>4 DEF Crash, JobOf
        <3> QED BY <2>4, <3>1 DEF Crash, Contract!Next, Contract!Crash
    <2>5. CASE CacheExpires \/ UNCHANGED vars
        <3>1. host' = host /\ known' = known /\ call' = call
            BY <2>5 DEF CacheExpires, vars
        <3>2. \A u \in Calls : JobOf(u)' = JobOf(u)
            BY <3>1 DEF JobOf
        <3> QED BY <3>1, <3>2 DEF Contract!vars
    <2> QED BY <1>2, <2>1, <2>2, <2>3, <2>4, <2>5 DEF Next
<1> QED BY <1>1, <1>2, InvariantHolds, PTL DEF Spec, Contract!Spec
=============================================================================
