----------------------- MODULE ClientSettings_proofs -----------------------
(***************************************************************************)
(* Theorems about ClientSettings for every number of customers, requests,  *)
(* days and faults.                                                        *)
(***************************************************************************)
EXTENDS ClientSettings, TLAPS

-----------------------------------------------------------------------------
(* Types *)

LEMMA NewTokenTyped == NewToken \in Row /\ NewToken.left > 0 /\ NewToken.since = 0
  BY DaysAssumption DEF NewToken, Row

LEMMA NewJobTyped ==
    ASSUME TypeOK, NEW kind \in {"push", "pushAll", "paste", "renew"}, NEW c \in Customers,
           NEW pc \in {"get", "put", "mint", "verify"}
    PROVE  NewJob(kind, c, pc) \in Job
  BY BoundsAssumption DEF NewJob, Job

LEMMA SetTyped ==
    ASSUME TypeOK, NEW j \in Jobs, NEW r \in Job \cup {NULL}, Set(j, r)
    PROVE  job' \in [Jobs -> Job \cup {NULL}]
  BY DEF TypeOK, Set

\* The push goes on with a job of its type, or ends.
LEMMA PushNextTyped ==
    ASSUME TypeOK, NEW j \in Jobs, NEW r \in Job, PushNext(j, r)
    PROVE  job' \in [Jobs -> Job \cup {NULL}]
  <1>1. CASE End(j)
    BY <1>1, SetTyped DEF End
  <1>2. ASSUME NEW c \in r.todo, NEW rest \in SUBSET (r.todo \ {c}), NEW gone \in BOOLEAN,
               Set(j, [r EXCEPT !.cust = c, !.todo = rest, !.pc = "get", !.others = 0, !.gone = gone])
        PROVE  job' \in [Jobs -> Job \cup {NULL}]
    <2>1. c \in Customers /\ rest \in SUBSET Customers /\ 0 \in 0 .. MaxEdits
      BY BoundsAssumption DEF Job
    <2>2. [r EXCEPT !.cust = c, !.todo = rest, !.pc = "get", !.others = 0, !.gone = gone] \in Job
      BY <2>1 DEF Job
    <2>3. QED
      BY <1>2, <2>2, SetTyped
  <1>3. QED
    BY <1>1, <1>2 DEF PushNext

LEMMA PushedTyped ==
    ASSUME TypeOK, NEW j \in Jobs, NEW r \in Job, Pushed(j, r)
    PROVE  job' \in [Jobs -> Job \cup {NULL}]
  BY PushNextTyped, SetTyped DEF Pushed, End

\* The renewal goes on with a job of its type, or ends.
LEMMA RenewNextTyped ==
    ASSUME TypeOK, NEW r \in Job, NEW excuses \in SUBSET Customers, RenewNext(r, excuses)
    PROVE  job' \in [Jobs -> Job \cup {NULL}] /\ excused' \subseteq Customers
  <1>1. Scheduler \in Jobs /\ r.todo \subseteq Customers
    BY DEF Jobs, Job
  <1>2. CASE End(Scheduler) /\ excused' \in {excuses, excuses \cup r.todo}
    BY <1>1, <1>2, SetTyped DEF End
  <1>3. ASSUME NEW c \in r.todo, NEW good \in SUBSET Customers,
               Set(Scheduler, [r EXCEPT !.cust = c, !.todo = @ \ {c}, !.pc = "mint", !.good = good]),
               excused' = excuses
        PROVE  job' \in [Jobs -> Job \cup {NULL}] /\ excused' \subseteq Customers
    <2>1. [r EXCEPT !.cust = c, !.todo = @ \ {c}, !.pc = "mint", !.good = good] \in Job
      BY <1>1, <1>3 DEF Job
    <2>2. QED
      BY <1>1, <1>3, <2>1, SetTyped
  <1>4. ASSUME NEW c \in r.todo,
               Set(Scheduler, [r EXCEPT
                       !.cust = c, !.todo = @ \ {c}, !.pc = "mint",
                       !.good = IF ~r.expired THEN @
                                ELSE {d \in Customers : Works(d)}]),
               excused' = excuses
        PROVE  job' \in [Jobs -> Job \cup {NULL}] /\ excused' \subseteq Customers
    <2>1. (IF ~r.expired THEN r.good ELSE {d \in Customers : Works(d)}) \in SUBSET Customers
      BY DEF Job
    <2>2. QED
      BY <1>3, <1>4, <2>1
  <1>5. QED
    BY <1>2, <1>4 DEF RenewNext
\* The parts of a job.
LEMMA JobParts ==
    ASSUME TypeOK, NEW j \in Jobs, job[j] # NULL
    PROVE  /\ job[j] \in Job /\ job[j].cust \in Customers /\ job[j].good \in SUBSET Customers
           /\ job[j].todo \in SUBSET Customers /\ job[j].pair \in Pairs
           /\ job[j].others \in 0 .. MaxEdits
           /\ job[j].pushed \in SUBSET Customers /\ job[j].struck \in SUBSET Customers
           /\ job[j].held \in SUBSET Customers /\ job[j].expired \in BOOLEAN
  BY DEF TypeOK, Job

\* A step of a request changes that request.
LEMMA RequestTyped ==
    ASSUME TypeOK, NEW j \in Requests, NEW c \in Customers,
           PushAll(j) \/ Push(j, c) \/ Paste(j, c) \/ JobStep(j)
    PROVE  /\ job' \in [Jobs -> Job \cup {NULL}]
           /\ \E r : job' = [job EXCEPT ![j] = r]
  <1> j \in Jobs
    BY DEF Jobs
  <1>1. ASSUME NEW r, PushNext(j, r) \/ Pushed(j, r) \/ End(j) PROVE \E s : job' = [job EXCEPT ![j] = s]
    BY <1>1 DEF PushNext, Pushed, Set, End
  <1>2. CASE PushAll(j)
    <2>1. PICK p \in Pairs, d \in Customers :
             PushNext(j, [NewJob("pushAll", d, "get") EXCEPT
                             !.pair = p, !.todo = {e \in Customers : row[e] # NULL},
                             !.held = {e \in Customers : HasToken(e)},
                             !.good = {e \in Customers : Works(e)}])
      BY <1>2 DEF PushAll
    <2>2. NewJob("pushAll", d, "get") \in Job
      BY NewJobTyped
    <2>3. [NewJob("pushAll", d, "get") EXCEPT
              !.pair = p, !.todo = {e \in Customers : row[e] # NULL},
              !.held = {e \in Customers : HasToken(e)},
              !.good = {e \in Customers : Works(e)}] \in Job
      BY <2>2 DEF Job
    <2>4. QED
      BY <1>1, <2>1, <2>3, PushNextTyped
  <1>3. CASE Push(j, c)
    <2>1. PICK p \in Pairs : Set(j, [NewJob("push", c, "get") EXCEPT !.pair = p])
      BY <1>3 DEF Push
    <2>2. NewJob("push", c, "get") \in Job
      BY NewJobTyped
    <2>3. [NewJob("push", c, "get") EXCEPT !.pair = p] \in Job
      BY <2>2 DEF Job
    <2>4. QED
      BY <2>1, <2>3, SetTyped DEF Set
  <1>4. CASE Paste(j, c)
    <2>1. PICK good \in SUBSET Customers : Set(j, [NewJob("paste", c, "get") EXCEPT !.good = good])
      BY <1>4 DEF Paste
    <2>2. NewJob("paste", c, "get") \in Job
      BY NewJobTyped
    <2>3. [NewJob("paste", c, "get") EXCEPT !.good = good] \in Job
      BY <2>2 DEF Job
    <2>4. QED
      BY <2>1, <2>3, SetTyped DEF Set
  <1>5. CASE VerifyPasted(j)
    BY <1>5, SetTyped DEF VerifyPasted, End, Set
  <1>6. CASE GetSettings(j)
    <2>1. job[j] \in Job /\ Cust(j) \in Customers
      BY <1>6, JobParts DEF GetSettings, At, Cust
    <2>2. CASE Answered(j) /\ Set(j, [job[j] EXCEPT !.pc = "put", !.others = instance[Cust(j)].others])
      <3>1. instance[Cust(j)].others \in 0 .. MaxEdits
        BY <2>1, <2>2 DEF Answered, TypeOK, Instance
      <3>2. [job[j] EXCEPT !.pc = "put", !.others = instance[Cust(j)].others] \in Job
        BY <2>1, <3>1 DEF Job
      <3>3. QED
        BY <2>2, <3>2, SetTyped DEF Set
    <2>3. CASE Fails(j) /\ Pushed(j, [job[j] EXCEPT !.struck = @ \cup Struck(j)])
      <3>1. Struck(j) \in SUBSET Customers
        BY <2>1 DEF Struck
      <3>2. [job[j] EXCEPT !.struck = @ \cup Struck(j)] \in Job
        BY <2>1, <3>1 DEF Job
      <3>3. QED
        BY <1>1, <2>3, <3>2, PushedTyped
    <2>4. QED
      BY <1>6, <2>2, <2>3 DEF GetSettings
  <1>7. CASE PutSettings(j)
    <2>1. job[j] \in Job /\ Cust(j) \in Customers
      BY <1>7, JobParts DEF PutSettings, At, Cust
    <2>2. CASE Pushed(j, [job[j] EXCEPT !.pushed = @ \cup {Cust(j)}])
      <3>1. [job[j] EXCEPT !.pushed = @ \cup {Cust(j)}] \in Job
        BY <2>1 DEF Job
      <3>2. QED
        BY <1>1, <2>2, <3>1, PushedTyped
    <2>3. CASE Pushed(j, [job[j] EXCEPT !.struck = @ \cup Struck(j)])
      <3>1. Struck(j) \in SUBSET Customers
        BY <2>1 DEF Struck
      <3>2. [job[j] EXCEPT !.struck = @ \cup Struck(j)] \in Job
        BY <2>1, <3>1 DEF Job
      <3>3. QED
        BY <1>1, <2>3, <3>2, PushedTyped
    <2>4. QED
      BY <1>7, <2>2, <2>3 DEF PutSettings
  <1>8. QED
    BY <1>2, <1>3, <1>4, <1>5, <1>6, <1>7 DEF JobStep
\* A step of the renewal changes the renewal.
LEMMA RenewalTyped ==
    ASSUME TypeOK, StartRenewal \/ MintToken \/ StoreRenewed
    PROVE  /\ job' \in [Jobs -> Job \cup {NULL}] /\ excused' \subseteq Customers
           /\ \E r : job' = [job EXCEPT ![Scheduler] = r]
  <1>0. Scheduler \in Jobs
    BY DEF Jobs
  <1>1. ASSUME NEW r, NEW e, RenewNext(r, e) \/ End(Scheduler) \/ Set(Scheduler, r)
        PROVE \E s : job' = [job EXCEPT ![Scheduler] = s]
    BY <1>1 DEF RenewNext, Set, End
  <1>2. CASE StartRenewal
    <2>1. PICK due \in SUBSET Customers, c \in Customers :
             RenewNext([NewJob("renew", c, "mint") EXCEPT
                           !.todo = due, !.good = {d \in Customers : Works(d)}], excused)
      BY <1>2 DEF StartRenewal
    <2>2. NewJob("renew", c, "mint") \in Job
      BY NewJobTyped
    <2>3. [NewJob("renew", c, "mint") EXCEPT
              !.todo = due, !.good = {d \in Customers : Works(d)}] \in Job
      BY <2>2 DEF Job
    <2>4. QED
      BY <1>1, <2>1, <2>3, RenewNextTyped DEF TypeOK
  <1>3. ASSUME At(Scheduler, "mint") \/ At(Scheduler, "verify")
        PROVE  /\ job[Scheduler] \in Job /\ job[Scheduler].todo \subseteq Customers
               /\ excused \cup Struck(Scheduler) \in SUBSET Customers
               /\ [job[Scheduler] EXCEPT !.pc = "verify"] \in Job
               /\ [job[Scheduler] EXCEPT !.expired = TRUE] \in Job
    <2>1. job[Scheduler] \in Job
      BY <1>0, <1>3, JobParts DEF At
    <2>2. excused \cup Struck(Scheduler) \in SUBSET Customers
      BY <1>0, <1>3, JobParts DEF At, Struck, Cust, TypeOK
    <2>3. QED
      BY <2>1, <2>2 DEF Job
  <1>4. CASE MintToken
    BY <1>0, <1>1, <1>3, <1>4, RenewNextTyped, SetTyped DEF MintToken, TypeOK
  <1>5. CASE StoreRenewed
    BY <1>0, <1>1, <1>3, <1>5, RenewNextTyped, SetTyped DEF StoreRenewed, End, TypeOK
  <1>6. QED
    BY <1>2, <1>4, <1>5

LEMMA NewDayTyped == TypeOK /\ NewDay => TypeOK'
  <1> SUFFICES ASSUME TypeOK, NewDay PROVE TypeOK'
    OBVIOUS
  <1>1. ASSUME NEW c \in Customers PROVE row'[c] \in Row \cup {NULL}
    <2>1. CASE HasToken(c)
      <3>1. row[c] \in Row /\ row[c].left \in 0 .. Life /\ row[c].since \in 0 .. Life
        BY <2>1 DEF HasToken, TypeOK, Row
      <3>2. row'[c] = [row[c] EXCEPT !.left = IF @ = 0 THEN 0 ELSE @ - 1,
                                     !.since = IF @ = Life THEN Life ELSE @ + 1]
        BY <2>1 DEF NewDay
      <3>3. (IF row[c].left = 0 THEN 0 ELSE row[c].left - 1) \in 0 .. Life
        BY <3>1, DaysAssumption
      <3>4. (IF row[c].since = Life THEN Life ELSE row[c].since + 1) \in 0 .. Life
        BY <3>1, DaysAssumption
      <3>5. QED
        BY <3>1, <3>2, <3>3, <3>4 DEF Row
    <2>2. CASE ~HasToken(c)
      BY <2>2 DEF NewDay, TypeOK
    <2>3. QED
      BY <2>1, <2>2
  <1>2. ASSUME NEW c \in Customers PROVE missed'[c] \in 0 .. Life
    <2>1. missed[c] \in 0 .. Life /\ 0 \in 0 .. Life
      BY DaysAssumption DEF TypeOK
    <2>2. missed'[c] \in {0, missed[c]} \/ (missed[c] < Life /\ missed'[c] = missed[c] + 1)
      BY DEF NewDay
    <2>3. QED
      BY <2>1, <2>2, DaysAssumption
  <1>3. row' \in [Customers -> Row \cup {NULL}]
    BY <1>1 DEF NewDay
  <1>4. missed' \in [Customers -> 0 .. Life]
    BY <1>2 DEF NewDay
  <1>5. /\ claimed' = FALSE /\ faults' = 0 /\ excused' = {}
        /\ instance' = instance /\ job' = job
    BY DEF NewDay
  <1>6. claimed' \in BOOLEAN /\ faults' \in 0 .. MaxFaults /\ excused' \subseteq Customers
    <2>1. claimed' \in BOOLEAN
      BY <1>5
    <2>2. faults' \in 0 .. MaxFaults
      BY <1>5, BoundsAssumption
    <2>3. excused' \subseteq Customers
      BY <1>5
    <2>4. QED
      BY <2>1, <2>2, <2>3
  <1>7. QED
    BY <1>3, <1>4, <1>5, <1>6 DEF TypeOK

LEMMA ActiveCustomer ==
    ASSUME TypeOK, NEW j \in Requests, PushAll(j) \/ JobStep(j)
    PROVE  \E c \in Customers : TRUE
  <1>1. CASE PushAll(j)
    BY <1>1 DEF PushAll
  <1>2. CASE JobStep(j)
    BY <1>2, JobParts DEF JobStep, GetSettings, PutSettings, VerifyPasted, At, Jobs
  <1>3. QED
    BY <1>1, <1>2

LEMMA TypeStep == TypeOK /\ [Next]_vars => TypeOK'
  <1> SUFFICES ASSUME TypeOK, [Next]_vars PROVE TypeOK'
    OBVIOUS
  <1>1. ASSUME NEW j \in Requests, NEW c \in Customers,
               PushAll(j) \/ Push(j, c) \/ Paste(j, c) \/ JobStep(j)
        PROVE  TypeOK'
    <2>1. job' \in [Jobs -> Job \cup {NULL}]
      BY <1>1, RequestTyped
    <2>2. CASE PushAll(j) \/ Push(j, c) \/ Paste(j, c)
      BY <2>1, <2>2 DEF PushAll, Push, Paste, TypeOK
    <2>3. faults \in 0 .. MaxFaults /\ (Fails(j) \/ Answered(j) => faults' \in 0 .. MaxFaults)
      BY BoundsAssumption DEF Fails, Answered, TypeOK
    <2>4. CASE GetSettings(j)
      BY <2>1, <2>3, <2>4 DEF GetSettings, TypeOK
    <2>5. CASE PutSettings(j)
      <3>1. job[j] \in Job /\ Settings(job[j]) \in Instance
        BY <2>5, JobParts DEF PutSettings, At, Jobs, Settings, Instance
      <3>2. instance' \in [Customers -> Instance \cup {NULL}]
        BY <2>5, <3>1 DEF PutSettings, TypeOK
      <3>3. QED
        BY <2>1, <2>3, <2>5, <3>2 DEF PutSettings, TypeOK
    <2>6. CASE VerifyPasted(j)
      BY <2>1, <2>3, <2>6, NewTokenTyped DEF VerifyPasted, TypeOK
    <2>7. QED
      BY <1>1, <2>2, <2>4, <2>5, <2>6 DEF JobStep
  <1>2. CASE StartRenewal \/ MintToken \/ StoreRenewed
    <2>1. job' \in [Jobs -> Job \cup {NULL}] /\ excused' \subseteq Customers
      BY <1>2, RenewalTyped
    <2>2. CASE StartRenewal
      BY <2>1, <2>2 DEF StartRenewal, TypeOK
    <2>3. CASE MintToken
      BY <2>1, <2>3, BoundsAssumption DEF MintToken, Answered, Fails, TypeOK
    <2>4. CASE StoreRenewed
      BY <2>1, <2>4, BoundsAssumption, NewTokenTyped DEF StoreRenewed, Answered, Fails, TypeOK
    <2>5. QED
      BY <1>2, <2>2, <2>3, <2>4
  <1>3. ASSUME NEW c \in Customers, Down(c) PROVE TypeOK'
    <2>1. instance' \in [Customers -> Instance \cup {NULL}]
      BY <1>3 DEF Down, TypeOK
    <2>2. row' \in [Customers -> Row \cup {NULL}]
      BY <1>3 DEF Down, TypeOK, HasToken, Row
    <2>3. ASSUME NEW j \in Jobs, job[j] # NULL PROVE [job[j] EXCEPT !.good = @ \ {c}] \in Job
      BY <2>3 DEF TypeOK, Job
    <2>4. job' \in [Jobs -> Job \cup {NULL}]
      BY <1>3, <2>3 DEF Down
    <2>5. QED
      BY <1>3, <2>1, <2>2, <2>4 DEF Down, TypeOK
  <1>4. ASSUME NEW c \in Customers, Remove(c) PROVE TypeOK'
    BY <1>4, BoundsAssumption DEF Remove, TypeOK
  <1>5. ASSUME NEW c \in Customers, Up(c) PROVE TypeOK'
    <2>1. [pair |-> Disabled, others |-> 0] \in Instance
      BY BoundsAssumption DEF Instance
    <2>2. [token |-> "none", left |-> 0, since |-> 0] \in Row
      BY DaysAssumption DEF Row
    <2>3. QED
      BY <1>5, <2>1, <2>2, NewTokenTyped DEF Up, TypeOK
  <1>6. ASSUME NEW c \in Customers, Edit(c) PROVE TypeOK'
    <2>1. instance[c] \in Instance
      BY <1>6 DEF Edit, TypeOK
    <2>2. [instance[c] EXCEPT !.others = @ + 1] \in Instance
      BY <1>6, <2>1, BoundsAssumption DEF Edit, Instance
    <2>3. instance' \in [Customers -> Instance \cup {NULL}]
      BY <1>6, <2>2 DEF Edit, TypeOK
    <2>4. QED
      BY <1>6, <2>3 DEF Edit, TypeOK
  <1>7. CASE Restart
    <2>1. faults' \in 0 .. MaxFaults
      BY <1>7, BoundsAssumption DEF Restart, TypeOK
    <2>2. job' \in [Jobs -> Job \cup {NULL}] /\ claimed' = FALSE
      BY <1>7 DEF Restart
    <2>3. QED
      BY <1>7, <2>1, <2>2 DEF Restart, TypeOK
  <1>8. CASE UNCHANGED vars
    BY <1>8 DEF vars, TypeOK
  <1>9. ASSUME NEW j \in Requests, PushAll(j) \/ JobStep(j) PROVE TypeOK'
    BY <1>1, <1>9, ActiveCustomer
  <1>10. QED
    BY <1>1, <1>2, <1>3, <1>4, <1>5, <1>6, <1>7, <1>8, <1>9, NewDayTyped DEF Next

\* Every variable keeps its type, whatever is removed or deployed anew while a
\* request is under way, for any customers, requests, days and faults.
THEOREM TypeCorrect == Spec => []TypeOK
  <1>1. Init => TypeOK
    <2>1. 0 \in 0 .. MaxFaults /\ 0 \in 0 .. Life /\ FALSE \in BOOLEAN
      BY BoundsAssumption, DaysAssumption
    <2>2. QED
      BY <2>1 DEF Init, TypeOK
  <1>2. QED
    BY <1>1, TypeStep, PTL DEF Spec
-----------------------------------------------------------------------------
(* The inductive invariant.  A token is only taken for good, in a request  *)
(* or a row, while the instance that made it runs (GoodRuns, OwnRuns).     *)
(* An overdue token, one that works and should be renewed, is one the      *)
(* renewal still has to come to, or was excused today (Renewing, Renewed), *)
(* so the days in missed keep up with its age (Counted).                   *)

GoodRuns == \A j \in Jobs : job[j] # NULL => \A c \in job[j].good : instance[c] # NULL
OwnRuns ==
    \A c \in Customers :
        row[c] # NULL /\ row[c].token = "own" => instance[c] # NULL /\ row[c].left = Life - row[c].since

Overdue(c) == Works(c) /\ Due(c)
Renewed == claimed /\ job[Scheduler] = NULL => \A c \in Customers : Overdue(c) => c \in excused
Renewing ==
    LET r == job[Scheduler] IN
    r # NULL => /\ claimed
                /\ \A c \in Customers : Overdue(c) => c \in r.good /\ c \in excused \cup r.todo \cup {r.cust}
Counted ==
    \A c \in Customers :
        row[c] # NULL /\ row[c].token = "own" /\ row[c].since > RenewAfter =>
            missed[c] >= row[c].since - RenewAfter - 1

\* Between the requests of a push what was read is what is there.
ReadIsCurrent ==
    \A j \in Requests :
        At(j, "put") /\ Cust(j) \in job[j].good => job[j].others = instance[Cust(j)].others

\* A push to all has still to come to whoever it has not come to.
Reaches(r) ==
    r.kind = "pushAll" =>
        r.good \subseteq r.held /\ r.good \subseteq r.pushed \cup r.struck \cup r.todo \cup {r.cust}
Pending == \A j \in Requests : job[j] # NULL => Reaches(job[j])
-----------------------------------------------------------------------------
(* What the steps of a push and of the renewal do to their job.            *)

LEMMA PushNextDoes ==
    ASSUME TypeOK, NEW j \in Jobs, NEW r \in Job, PushNext(j, r)
    PROVE  \/ /\ job'[j] = NULL
              /\ r.todo \cap r.held = {} \/ \E d \in Customers : row[d] = NULL
           \/ \E s \in Job :
                /\ job'[j] = s /\ s.pc = "get" /\ s.kind = r.kind
                /\ s.good = r.good /\ s.held = r.held /\ s.pushed = r.pushed /\ s.struck = r.struck
                /\ r.todo \cap r.held \subseteq s.todo \cup {s.cust}
  <1>1. CASE End(j) /\ (r.todo \cap r.held = {} \/ \E d \in r.todo : row[d] = NULL)
    BY <1>1 DEF End, Set, TypeOK, Job
  <1>2. ASSUME NEW c \in r.todo, NEW rest \in SUBSET (r.todo \ {c}), NEW gone \in BOOLEAN,
               \A d \in r.todo \ (rest \cup {c}) : d \notin r.held,
               Set(j, [r EXCEPT !.cust = c, !.todo = rest, !.pc = "get", !.others = 0, !.gone = gone])
        PROVE  \E s \in Job :
                /\ job'[j] = s /\ s.pc = "get" /\ s.kind = r.kind
                /\ s.good = r.good /\ s.held = r.held /\ s.pushed = r.pushed /\ s.struck = r.struck
                /\ r.todo \cap r.held \subseteq s.todo \cup {s.cust}
    <2> DEFINE s == [r EXCEPT !.cust = c, !.todo = rest, !.pc = "get", !.others = 0, !.gone = gone]
    <2>1. c \in Customers /\ rest \in SUBSET Customers /\ 0 \in 0 .. MaxEdits
      BY BoundsAssumption DEF Job
    <2>2. /\ s \in Job /\ s.pc = "get" /\ s.kind = r.kind /\ s.cust = c /\ s.todo = rest
          /\ s.good = r.good /\ s.held = r.held /\ s.pushed = r.pushed /\ s.struck = r.struck
      BY <2>1 DEF Job
    <2>3. job'[j] = s
      BY <1>2 DEF Set, TypeOK
    <2> HIDE DEF s
    <2>4. QED
      BY <1>2, <2>2, <2>3
  <1>3. QED
    BY <1>1, <1>2 DEF PushNext

\* The same of a push that is over for its customer.
LEMMA PushedDoes ==
    ASSUME TypeOK, NEW j \in Jobs, NEW r \in Job, Pushed(j, r)
    PROVE  \/ /\ job'[j] = NULL
              /\ r.kind = "push" \/ r.gone \/ r.todo \cap r.held = {} \/ \E d \in Customers : row[d] = NULL
           \/ \E s \in Job :
                /\ job'[j] = s /\ s.pc = "get" /\ s.kind = r.kind
                /\ s.good = r.good /\ s.held = r.held /\ s.pushed = r.pushed /\ s.struck = r.struck
                /\ r.todo \cap r.held \subseteq s.todo \cup {s.cust}
  <1>1. CASE (r.kind = "push" \/ r.gone) /\ End(j)
    BY <1>1 DEF End, Set, TypeOK
  <1>2. CASE PushNext(j, r)
    BY <1>2, PushNextDoes
  <1>3. QED
    BY <1>1, <1>2 DEF Pushed

LEMMA RenewNextDoes ==
    ASSUME TypeOK, NEW r \in Job, NEW excuses \in SUBSET Customers, RenewNext(r, excuses)
    PROVE  \/ job'[Scheduler] = NULL /\ excuses \cup r.todo \subseteq excused'
           \/ \E s \in Job :
                /\ job'[Scheduler] = s /\ excused' = excuses
                /\ r.todo \subseteq s.todo \cup {s.cust}
                /\ s.good = r.good \/ s.good = {d \in Customers : Works(d)}
  <1>0. Scheduler \in Jobs /\ r.todo \subseteq Customers
    BY DEF Jobs, Job
  <1>1. CASE End(Scheduler) /\ excuses \cup r.todo \subseteq excused'
    BY <1>0, <1>1 DEF End, Set, TypeOK
  <1>2. ASSUME NEW c \in r.todo, NEW good \in SUBSET Customers,
               good = r.good \/ good = {d \in Customers : Works(d)},
               Set(Scheduler, [r EXCEPT !.cust = c, !.todo = @ \ {c}, !.pc = "mint", !.good = good]),
               excused' = excuses
        PROVE  \E s \in Job :
                /\ job'[Scheduler] = s /\ excused' = excuses
                /\ r.todo \subseteq s.todo \cup {s.cust}
                /\ s.good = r.good \/ s.good = {d \in Customers : Works(d)}
    <2> DEFINE s == [r EXCEPT !.cust = c, !.todo = @ \ {c}, !.pc = "mint", !.good = good]
    <2>1. s \in Job /\ s.cust = c /\ s.todo = r.todo \ {c} /\ s.good = good
      BY <1>0, <1>2 DEF Job
    <2>2. job'[Scheduler] = s
      BY <1>0, <1>2 DEF Set, TypeOK
    <2> HIDE DEF s
    <2>3. QED
      BY <1>2, <2>1, <2>2
  <1>3. ASSUME NEW c \in r.todo,
               Set(Scheduler, [r EXCEPT
                       !.cust = c, !.todo = @ \ {c}, !.pc = "mint",
                       !.good = IF ~r.expired THEN @
                                ELSE {d \in Customers : Works(d)}]),
               excused' = excuses
        PROVE  \E s \in Job :
                /\ job'[Scheduler] = s /\ excused' = excuses
                /\ r.todo \subseteq s.todo \cup {s.cust}
                /\ s.good = r.good \/ s.good = {d \in Customers : Works(d)}
    <2>1. (IF ~r.expired THEN r.good ELSE {d \in Customers : Works(d)}) \in SUBSET Customers
      BY DEF Job
    <2>2. QED
      BY <1>2, <1>3, <2>1
  <1>4. QED
    BY <1>1, <1>3 DEF RenewNext
-----------------------------------------------------------------------------
(* Each step keeps the invariant.                                          *)

TokenInv == GoodRuns /\ OwnRuns /\ Renewed /\ Renewing /\ Counted

\* A new token in a row is neither overdue nor old.
LEMMA NewTokenFits ==
    ASSUME TypeOK, NEW c \in Customers, row' = [row EXCEPT ![c] = NewToken]
    PROVE  /\ row'[c] # NULL /\ row'[c].left = Life - row'[c].since
           /\ ~(row'[c].since > RenewAfter) /\ ~Overdue(c)'
           /\ \A d \in Customers : d # c => row'[d] = row[d]
  <1>1. row'[c] = NewToken /\ \A d \in Customers : d # c => row'[d] = row[d]
    BY DEF TypeOK
  <1>2. NewToken \in Row
    BY NewTokenTyped
  <1>3. NewToken # NULL
    BY <1>2, RecordsAssumption
  <1>4. NewToken.left = Life /\ NewToken.since = 0
    BY DEF NewToken
  <1>5. QED
    BY <1>1, <1>3, <1>4, DaysAssumption DEF Overdue, Due

\* Tokens that stay as they are, or are new, keep the invariant of rows.
LEMMA RowsKept ==
    ASSUME TypeOK, OwnRuns, Counted, missed' = missed,
           \A c \in Customers : instance[c] # NULL => instance'[c] # NULL,
           \/ row' = row
           \/ \E c \in Customers : instance'[c] # NULL /\ row' = [row EXCEPT ![c] = NewToken]
    PROVE  OwnRuns' /\ Counted' /\ \A c \in Customers : Overdue(c)' => Overdue(c)
  <1>1. CASE row' = row
    BY <1>1 DEF OwnRuns, Counted, Overdue, Works, Due, HasToken
  <1>2. ASSUME NEW c \in Customers, instance'[c] # NULL, row' = [row EXCEPT ![c] = NewToken]
        PROVE  OwnRuns' /\ Counted' /\ \A d \in Customers : Overdue(d)' => Overdue(d)
    <2>1. /\ row'[c].left = Life - row'[c].since
          /\ ~(row'[c].since > RenewAfter) /\ ~Overdue(c)'
          /\ \A d \in Customers : d # c => row'[d] = row[d]
      BY <1>2, NewTokenFits
    <2>2. QED
      BY <1>2, <2>1 DEF OwnRuns, Counted, Overdue, Works, Due, HasToken
  <1>3. QED
    BY <1>1, <1>2

\* A customer's token that works has its instance.
LEMMA WorkingRuns ==
    ASSUME OwnRuns, NEW c \in Customers, Works(c)
    PROVE  instance[c] # NULL
  BY DEF OwnRuns, Works

LEMMA RequestDoes ==
    ASSUME TypeOK, GoodRuns, OwnRuns, NEW j \in Requests, NEW c \in Customers,
           PushAll(j) \/ Push(j, c) \/ Paste(j, c) \/ JobStep(j)
    PROVE  /\ \A k \in Jobs : k # j => job'[k] = job[k]
           /\ UNCHANGED <<claimed, excused, missed>>
           /\ \A d \in Customers : instance[d] # NULL => instance'[d] # NULL
           /\ \/ row' = row
              \/ \E d \in Customers : instance'[d] # NULL /\ row' = [row EXCEPT ![d] = NewToken]
           /\ job'[j] # NULL => \A d \in job'[j].good : instance[d] # NULL
  <1>0. j \in Jobs
    BY DEF Jobs
  <1>1. \A k \in Jobs : k # j => job'[k] = job[k]
    BY RequestTyped, <1>0 DEF TypeOK
  <1>2. UNCHANGED <<claimed, excused, missed>>
    BY DEF PushAll, Push, Paste, JobStep, GetSettings, PutSettings, VerifyPasted
  <1>3. \A d \in Customers : instance[d] # NULL => instance'[d] # NULL
    <2>1. CASE PutSettings(j)
      <3>1. job[j] \in Job /\ Settings(job[j]) \in Instance
        BY <1>0, <2>1, JobParts DEF PutSettings, At, Settings, Instance
      <3>2. Settings(job[j]) # NULL
        BY <3>1, RecordsAssumption
      <3>3. QED
        BY <2>1, <3>2 DEF PutSettings, TypeOK
    <2>2. CASE ~PutSettings(j)
      BY <2>2 DEF PushAll, Push, Paste, JobStep, GetSettings, VerifyPasted
    <2>3. QED
      BY <2>1, <2>2
  <1>4. \/ row' = row
        \/ \E d \in Customers : instance'[d] # NULL /\ row' = [row EXCEPT ![d] = NewToken]
    <2>1. CASE VerifyPasted(j)
      <3>1. Cust(j) \in Customers
        BY <1>0, <2>1, JobParts DEF VerifyPasted, At, Cust
      <3>2. QED
        BY <2>1, <3>1 DEF VerifyPasted, Answered
    <2>2. CASE ~VerifyPasted(j)
      BY <2>2 DEF PushAll, Push, Paste, JobStep, GetSettings, PutSettings
    <2>3. QED
      BY <2>1, <2>2
  <1>5. ASSUME job'[j] # NULL, NEW d \in job'[j].good PROVE instance[d] # NULL
    <2>1. CASE PushAll(j)
      <3>1. PICK p \in Pairs, e \in Customers :
               PushNext(j, [NewJob("pushAll", e, "get") EXCEPT
                               !.pair = p, !.todo = {f \in Customers : row[f] # NULL},
                               !.held = {f \in Customers : HasToken(f)},
                               !.good = {f \in Customers : Works(f)}])
        BY <2>1 DEF PushAll
      <3> DEFINE r == [NewJob("pushAll", e, "get") EXCEPT
                          !.pair = p, !.todo = {f \in Customers : row[f] # NULL},
                          !.held = {f \in Customers : HasToken(f)},
                          !.good = {f \in Customers : Works(f)}]
      <3>2. NewJob("pushAll", e, "get") \in Job
        BY NewJobTyped
      <3>3. r \in Job /\ r.good = {f \in Customers : Works(f)}
        BY <3>2 DEF Job
      <3>4. PushNext(j, r)
        BY <3>1
      <3> HIDE DEF r
      <3>5. job'[j].good = r.good
        BY <1>0, <1>5, <3>3, <3>4, PushNextDoes
      <3>6. QED
        BY <1>5, <3>3, <3>5, WorkingRuns
    <2>2. CASE Push(j, c)
      <3>1. PICK p \in Pairs : Set(j, [NewJob("push", c, "get") EXCEPT !.pair = p])
        BY <2>2 DEF Push
      <3>2. job'[j].good = {e \in {c} : Works(e)}
        BY <1>0, <3>1 DEF Set, NewJob, TypeOK
      <3>3. QED
        BY <1>5, <3>2, WorkingRuns
    <2>3. CASE Paste(j, c)
      <3>1. PICK works \in BOOLEAN :
               Set(j, [NewJob("paste", c, "get") EXCEPT
                          !.good = IF works /\ instance[c] # NULL THEN {c} ELSE {}])
        BY <2>3 DEF Paste
      <3>2. job'[j].good = IF works /\ instance[c] # NULL THEN {c} ELSE {}
        BY <1>0, <3>1 DEF Set, NewJob, TypeOK
      <3>3. QED
        BY <1>5, <3>2
    <2>4. CASE VerifyPasted(j)
      BY <1>0, <1>5, <2>4 DEF VerifyPasted, End, Set, TypeOK
    <2>5. ASSUME NEW r \in Job, r.good = job[j].good, job[j] # NULL, Pushed(j, r) PROVE instance[d] # NULL
      <3>1. job'[j].good = r.good
        BY <1>0, <1>5, <2>5, PushedDoes
      <3>2. QED
        BY <1>0, <1>5, <2>5, <3>1 DEF GoodRuns
    <2>6. ASSUME At(j, "get") \/ At(j, "put")
          PROVE  /\ job[j] # NULL /\ job[j] \in Job /\ Cust(j) \in Customers
                 /\ [job[j] EXCEPT !.struck = @ \cup Struck(j)] \in Job
                 /\ [job[j] EXCEPT !.struck = @ \cup Struck(j)].good = job[j].good
                 /\ [job[j] EXCEPT !.pushed = @ \cup {Cust(j)}] \in Job
                 /\ [job[j] EXCEPT !.pushed = @ \cup {Cust(j)}].good = job[j].good
      <3>1. job[j] # NULL /\ job[j] \in Job /\ Cust(j) \in Customers
        BY <1>0, <2>6, JobParts DEF At, Cust
      <3>2. Struck(j) \in SUBSET Customers
        BY <3>1 DEF Struck
      <3>3. QED
        BY <3>1, <3>2 DEF Job
    <2>7. CASE GetSettings(j)
      <3>1. CASE Set(j, [job[j] EXCEPT !.pc = "put", !.others = instance[Cust(j)].others])
        <4>1. job'[j].good = job[j].good
          BY <1>0, <2>6, <2>7, <3>1 DEF GetSettings, Set, TypeOK, Job
        <4>2. QED
          BY <1>0, <1>5, <2>6, <2>7, <4>1 DEF GoodRuns, GetSettings
      <3>2. CASE Pushed(j, [job[j] EXCEPT !.struck = @ \cup Struck(j)])
        BY <2>5, <2>6, <2>7, <3>2 DEF GetSettings
      <3>3. QED
        BY <2>7, <3>1, <3>2 DEF GetSettings
    <2>8. CASE PutSettings(j)
      BY <2>5, <2>6, <2>8 DEF PutSettings
    <2>9. QED
      BY <2>1, <2>2, <2>3, <2>4, <2>7, <2>8 DEF JobStep
  <1>6. QED
    BY <1>1, <1>2, <1>3, <1>4, <1>5
LEMMA RequestKeeps ==
    ASSUME TypeOK, TokenInv, NEW j \in Requests, NEW c \in Customers,
           PushAll(j) \/ Push(j, c) \/ Paste(j, c) \/ JobStep(j)
    PROVE  TokenInv'
  <1>1. /\ \A k \in Jobs : k # j => job'[k] = job[k]
        /\ claimed' = claimed /\ excused' = excused /\ missed' = missed
        /\ \A d \in Customers : instance[d] # NULL => instance'[d] # NULL
        /\ \/ row' = row
           \/ \E d \in Customers : instance'[d] # NULL /\ row' = [row EXCEPT ![d] = NewToken]
        /\ job'[j] # NULL => \A d \in job'[j].good : instance[d] # NULL
    BY RequestDoes DEF TokenInv
  <1>2. OwnRuns' /\ Counted' /\ \A d \in Customers : Overdue(d)' => Overdue(d)
    BY <1>1, RowsKept DEF TokenInv
  <1>3. job'[Scheduler] = job[Scheduler]
    BY <1>1, SlotsAssumption DEF Jobs
  <1>4. Renewed' /\ Renewing'
    BY <1>1, <1>2, <1>3 DEF TokenInv, Renewed, Renewing
  <1>5. ASSUME NEW k \in Jobs, job'[k] # NULL, NEW d \in job'[k].good PROVE instance'[d] # NULL
    <2>1. instance[d] # NULL
      BY <1>1, <1>5 DEF TokenInv, GoodRuns
    <2>2. d \in Customers
      <3>1. job'[k] \in Job
        BY <1>5, TypeStep DEF Next, TypeOK
      <3>2. QED
        BY <1>5, <3>1 DEF Job
    <2>3. QED
      BY <1>1, <2>1, <2>2
  <1>6. QED
    BY <1>2, <1>4, <1>5 DEF TokenInv, GoodRuns

\* A renewal that goes on, or ends, after its customer was served, failed or
\* raised.
LEMMA RenewNextKeeps ==
    ASSUME TypeOK, GoodRuns, OwnRuns, NEW r \in Job, NEW excuses \in SUBSET Customers,
           RenewNext(r, excuses), claimed',
           \A d \in r.good : instance[d] # NULL,
           \A d \in Customers : Overdue(d)' => Overdue(d) /\ d \in r.good /\ d \in excuses \cup r.todo
    PROVE  Renewed' /\ Renewing' /\ (job'[Scheduler] # NULL => \A d \in job'[Scheduler].good : instance[d] # NULL)
  <1>1. CASE job'[Scheduler] = NULL /\ excuses \cup r.todo \subseteq excused'
    BY <1>1 DEF Renewed, Renewing
  <1>2. ASSUME NEW s \in Job, job'[Scheduler] = s, excused' = excuses,
               r.todo \subseteq s.todo \cup {s.cust},
               s.good = r.good \/ s.good = {d \in Customers : Works(d)}
        PROVE  Renewed' /\ Renewing' /\ (job'[Scheduler] # NULL => \A d \in job'[Scheduler].good : instance[d] # NULL)
    <2>1. s # NULL
      BY RecordsAssumption
    <2>2. ASSUME NEW d \in Customers, Overdue(d)' PROVE d \in s.good /\ d \in excuses \cup s.todo \cup {s.cust}
      BY <1>2, <2>2 DEF Overdue
    <2>3. \A d \in s.good : instance[d] # NULL
      BY <1>2, WorkingRuns
    <2>4. QED
      BY <1>2, <2>1, <2>2, <2>3 DEF Renewed, Renewing
  <1>3. QED
    BY <1>1, <1>2, RenewNextDoes

LEMMA RenewalKeeps ==
    ASSUME TypeOK, TokenInv, StartRenewal \/ MintToken \/ StoreRenewed
    PROVE  TokenInv'
  <1>0. Scheduler \in Jobs
    BY DEF Jobs
  <1> PICK r, c : r = job[Scheduler] /\ c = Cust(Scheduler)
    OBVIOUS
  <1>1. /\ instance' = instance /\ missed' = missed
        /\ \A k \in Jobs : k # Scheduler => job'[k] = job[k]
    <2>1. \E s : job' = [job EXCEPT ![Scheduler] = s]
      BY RenewalTyped
    <2>2. QED
      BY <2>1 DEF StartRenewal, MintToken, StoreRenewed, TypeOK
  <1> DEFINE Rest == /\ Renewed' /\ Renewing'
                     /\ job'[Scheduler] # NULL => \A d \in job'[Scheduler].good : instance[d] # NULL
  <1>2. ASSUME r # NULL
        PROVE  /\ r \in Job /\ c = r.cust /\ c \in Customers /\ claimed
               /\ r.todo \in SUBSET Customers
               /\ \A d \in r.good : instance[d] # NULL
               /\ \A d \in Customers : Overdue(d) => d \in r.good /\ d \in excused \cup r.todo \cup {c}
               /\ excused \cup Struck(Scheduler) \in SUBSET Customers
    <2>1. r \in Job /\ c = r.cust /\ c \in Customers /\ r.todo \in SUBSET Customers
      BY <1>0, <1>2, JobParts DEF Cust
    <2>2. Struck(Scheduler) \subseteq Customers /\ excused \subseteq Customers
      BY <2>1 DEF Struck, TypeOK
    <2>3. QED
      BY <1>0, <1>2, <2>1, <2>2 DEF TokenInv, GoodRuns, Renewing
  \* A customer whose renewal fails without a fault is not overdue.
  <1>3. ASSUME r # NULL, Fails(Scheduler), NEW d \in Customers, Overdue(d)
        PROVE  d \in r.good /\ d \in (excused \cup Struck(Scheduler)) \cup r.todo
    <2>1. d \in r.good /\ d \in excused \cup r.todo \cup {c} /\ instance[d] # NULL
      BY <1>2, <1>3
    <2>2. d = c => faults' = faults + 1 /\ faults \in Nat
      BY <1>3, <2>1, BoundsAssumption DEF Fails, TypeOK
    <2>3. d = c => Struck(Scheduler) = {c}
      BY <2>2 DEF Struck
    <2>4. QED
      BY <2>1, <2>3
  <1>4. CASE StartRenewal
    <2>1. PICK due \in SUBSET {d \in Customers : Due(d) \/ MayBeDue(d)}, e \in Customers :
             /\ {d \in Customers : Due(d)} \subseteq due
             /\ RenewNext([NewJob("renew", e, "mint") EXCEPT
                              !.todo = due, !.good = {d \in Customers : Works(d)}], excused)
      BY <1>4 DEF StartRenewal
    <2> DEFINE s == [NewJob("renew", e, "mint") EXCEPT
                        !.todo = due, !.good = {d \in Customers : Works(d)}]
    <2>2. NewJob("renew", e, "mint") \in Job
      BY NewJobTyped
    <2>3. s \in Job /\ s.todo = due /\ s.good = {d \in Customers : Works(d)}
      BY <2>2 DEF Job
    <2>4. RenewNext(s, excused)
      BY <2>1
    <2> HIDE DEF s
    <2>5. claimed' /\ row' = row
      BY <1>4 DEF StartRenewal
    <2>6. \A d \in s.good : instance[d] # NULL
      BY <2>3, WorkingRuns DEF TokenInv
    <2>7. \A d \in Customers : Overdue(d) => d \in s.good /\ d \in excused \cup s.todo
      BY <2>1, <2>3 DEF Overdue
    <2>8. \A d \in Customers : Overdue(d)' => Overdue(d)
      BY <2>5 DEF Overdue, Works, Due, HasToken
    <2>9. excused \in SUBSET Customers
      BY DEF TypeOK
    <2>10. Rest
      BY <2>3, <2>4, <2>5, <2>6, <2>7, <2>8, <2>9, RenewNextKeeps DEF TokenInv
    <2>11. OwnRuns' /\ Counted'
      BY <1>1, <2>5, RowsKept DEF TokenInv
    <2>12. QED
      BY <1>1, <2>10, <2>11 DEF TokenInv, GoodRuns
  <1>5. ASSUME r # NULL, Fails(Scheduler), RenewNext(r, excused \cup Struck(Scheduler)),
               row' = row, claimed' = claimed
        PROVE  Rest
    <2>1. \A d \in Customers : Overdue(d)' => Overdue(d)
      BY <1>5 DEF Overdue, Works, Due, HasToken
    <2>2. \A d \in Customers : Overdue(d)' =>
             Overdue(d) /\ d \in r.good /\ d \in (excused \cup Struck(Scheduler)) \cup r.todo
      BY <1>3, <1>5, <2>1
    <2>3. claimed'
      BY <1>2, <1>5
    <2>4. QED
      BY <1>2, <1>5, <2>2, <2>3, RenewNextKeeps DEF TokenInv
  <1>6. CASE MintToken
    <2>1. r # NULL /\ row' = row /\ claimed' = claimed
      BY <1>6 DEF MintToken, At
    <2>2. ASSUME Set(Scheduler, [r EXCEPT !.pc = "verify"]), excused' = excused PROVE Rest
      <3>1. [r EXCEPT !.pc = "verify"] \in Job
        BY <1>2, <2>1 DEF Job
      <3>2. job'[Scheduler] = [r EXCEPT !.pc = "verify"]
        BY <1>0, <2>2 DEF Set, TypeOK
      <3>3. /\ job'[Scheduler].good = r.good /\ job'[Scheduler].todo = r.todo
            /\ job'[Scheduler].cust = r.cust /\ job'[Scheduler] # NULL
        BY <1>2, <2>1, <3>1, <3>2, RecordsAssumption DEF Job
      <3>4. \A d \in Customers : Overdue(d)' => Overdue(d)
        BY <2>1 DEF Overdue, Works, Due, HasToken
      <3>5. QED
        BY <1>2, <2>1, <2>2, <3>3, <3>4 DEF Renewed, Renewing
    <2>3. Rest
      BY <1>5, <1>6, <2>1, <2>2 DEF MintToken
    <2>4. OwnRuns' /\ Counted'
      BY <1>1, <2>1, RowsKept DEF TokenInv
    <2>5. QED
      BY <1>1, <2>3, <2>4 DEF TokenInv, GoodRuns
  <1>7. CASE StoreRenewed
    <2>1. r # NULL /\ claimed' = claimed
      BY <1>7 DEF StoreRenewed, At
    <2>2. CASE /\ instance[c] # NULL /\ row' = [row EXCEPT ![c] = NewToken]
               /\ RenewNext([r EXCEPT !.expired = TRUE], excused)
      <3> DEFINE s == [r EXCEPT !.expired = TRUE]
      <3>1. s \in Job /\ s.good = r.good /\ s.todo = r.todo /\ RenewNext(s, excused)
        BY <1>2, <2>1, <2>2 DEF Job
      <3>2. OwnRuns' /\ Counted' /\ \A d \in Customers : Overdue(d)' => Overdue(d)
        BY <1>1, <1>2, <2>1, <2>2, RowsKept DEF TokenInv
      <3>3. ~Overdue(c)'
        BY <1>2, <2>1, <2>2, NewTokenFits
      <3>4. excused \in SUBSET Customers /\ claimed'
        BY <1>2, <2>1 DEF TypeOK
      <3>5. \A d \in Customers : Overdue(d)' => d # c
        BY <3>3
      <3> HIDE DEF s
      <3>6. Rest
        BY <1>2, <2>1, <3>1, <3>2, <3>4, <3>5, RenewNextKeeps DEF TokenInv
      <3>7. QED
        BY <1>1, <3>2, <3>6 DEF TokenInv, GoodRuns
    <2>3. CASE row[c] = NULL /\ End(Scheduler) /\ excused' = excused \cup r.todo /\ row' = row
      <3>1. job'[Scheduler] = NULL
        BY <1>0, <2>3 DEF End, Set, TypeOK
      <3>2. OwnRuns' /\ Counted' /\ \A d \in Customers : Overdue(d)' => Overdue(d)
        BY <1>1, <2>3, RowsKept DEF TokenInv
      <3>3. ~Overdue(c)
        BY <2>3 DEF Overdue, Works
      <3>4. Renewed' /\ Renewing'
        BY <1>2, <2>1, <2>3, <3>1, <3>2, <3>3 DEF Renewed, Renewing
      <3>5. QED
        BY <1>1, <3>1, <3>2, <3>4 DEF TokenInv, GoodRuns
    <2>4. CASE Fails(Scheduler) /\ RenewNext(r, excused \cup Struck(Scheduler)) /\ row' = row
      <3>1. OwnRuns' /\ Counted'
        BY <1>1, <2>4, RowsKept DEF TokenInv
      <3>2. Rest
        BY <1>5, <2>1, <2>4
      <3>3. QED
        BY <1>1, <3>1, <3>2 DEF TokenInv, GoodRuns
    <2>5. QED
      BY <1>7, <2>2, <2>3, <2>4 DEF StoreRenewed, Answered
  <1>8. QED
    BY <1>4, <1>6, <1>7
LEMMA DownKeeps ==
    ASSUME TypeOK, TokenInv, NEW c \in Customers, Down(c)
    PROVE  TokenInv'
  <1>1. /\ instance'[c] = NULL /\ \A d \in Customers : d # c => instance'[d] = instance[d] /\ row'[d] = row[d]
        /\ row'[c] # NULL => row'[c].token # "own"
        /\ claimed' = claimed /\ excused' = excused /\ missed' = missed
    <2>1. CASE HasToken(c)
      <3>1. row'[c] = [row[c] EXCEPT !.token = "foreign"] /\ row[c] \in Row
        BY <2>1 DEF Down, TypeOK, HasToken
      <3>2. row'[c].token = "foreign"
        BY <3>1 DEF Row
      <3>3. QED
        BY <2>1, <3>2 DEF Down, TypeOK
    <2>2. CASE ~HasToken(c)
      BY <2>2 DEF Down, TypeOK, HasToken
    <2>3. QED
      BY <2>1, <2>2
  <1>2. ~Overdue(c)' /\ \A d \in Customers : d # c => (Overdue(d)' <=> Overdue(d))
    BY <1>1 DEF Overdue, Works, Due, HasToken
  <1>3. ASSUME NEW j \in Jobs
        PROVE  /\ job[j] = NULL <=> job'[j] = NULL
               /\ job[j] # NULL => /\ job'[j].good = job[j].good \ {c}
                                   /\ job'[j].todo = job[j].todo /\ job'[j].cust = job[j].cust
    <2>1. job[j] # NULL => [job[j] EXCEPT !.good = @ \ {c}] \in Job
      BY DEF TypeOK, Job
    <2>2. QED
      BY <2>1, RecordsAssumption DEF Down, TypeOK, Job
  <1>4. GoodRuns'
    BY <1>1, <1>3 DEF TokenInv, GoodRuns, TypeOK, Job
  <1>5. OwnRuns' /\ Counted'
    BY <1>1 DEF TokenInv, OwnRuns, Counted
  <1>6. Scheduler \in Jobs
    BY DEF Jobs
  <1>7. Renewed'
    BY <1>1, <1>2, <1>3, <1>6 DEF TokenInv, Renewed
  <1>8. Renewing'
    BY <1>1, <1>2, <1>3, <1>6 DEF TokenInv, Renewing
  <1>9. QED
    BY <1>4, <1>5, <1>7, <1>8 DEF TokenInv

LEMMA OutsideKeeps ==
    ASSUME TypeOK, TokenInv, NEW c \in Customers, Remove(c) \/ Up(c) \/ Edit(c)
    PROVE  TokenInv'
  <1>1. /\ job' = job /\ claimed' = claimed /\ excused' = excused /\ missed' = missed
        /\ \A d \in Customers : instance[d] # NULL => instance'[d] # NULL
    <2>1. CASE Up(c)
      <3>1. [pair |-> Disabled, others |-> 0] \in Instance
        BY BoundsAssumption DEF Instance
      <3>2. QED
        BY <2>1, <3>1, RecordsAssumption DEF Up, TypeOK
    <2>2. CASE Remove(c)
      BY <2>2 DEF Remove
    <2>3. CASE Edit(c)
      <3>1. instance[c] \in Instance
        BY <2>3 DEF Edit, TypeOK
      <3>2. [instance[c] EXCEPT !.others = @ + 1] \in Instance
        BY <2>3, <3>1, BoundsAssumption DEF Edit, Instance
      <3>3. QED
        BY <2>3, <3>2, RecordsAssumption DEF Edit, TypeOK
    <2>4. QED
      BY <2>1, <2>2, <2>3
  <1>2. OwnRuns' /\ Counted' /\ \A d \in Customers : Overdue(d)' => Overdue(d)
    <2>1. CASE row' = row \/ (Up(c) /\ row' = [row EXCEPT ![c] = NewToken])
      <3>1. Up(c) => instance'[c] # NULL
        <4>1. [pair |-> Disabled, others |-> 0] \in Instance
          BY BoundsAssumption DEF Instance
        <4>2. QED
          BY <4>1, RecordsAssumption DEF Up, TypeOK
      <3>2. QED
        BY <1>1, <2>1, <3>1, RowsKept DEF TokenInv
    <2>2. CASE row' = [row EXCEPT ![c] = NULL]
      BY <1>1, <2>2 DEF TokenInv, OwnRuns, Counted, Overdue, Works, Due, HasToken, TypeOK
    <2>3. CASE row' = [row EXCEPT ![c] = [token |-> "none", left |-> 0, since |-> 0]]
      <3>1. row'[c].token = "none" /\ \A d \in Customers : d # c => row'[d] = row[d]
        BY <2>3 DEF TypeOK
      <3>2. OwnRuns' /\ Counted'
        BY <1>1, <3>1 DEF TokenInv, OwnRuns, Counted
      <3>3. \A d \in Customers : Overdue(d)' => Overdue(d)
        BY <3>1 DEF Overdue, Works, Due, HasToken
      <3>4. QED
        BY <3>2, <3>3
    <2>4. \/ row' = row \/ (Up(c) /\ row' = [row EXCEPT ![c] = NewToken])
          \/ row' = [row EXCEPT ![c] = NULL]
          \/ row' = [row EXCEPT ![c] = [token |-> "none", left |-> 0, since |-> 0]]
      <3>1. Up(c) => \/ row' = row \/ row' = [row EXCEPT ![c] = NewToken]
                     \/ row' = [row EXCEPT ![c] = [token |-> "none", left |-> 0, since |-> 0]]
        BY DEF Up
      <3>2. Remove(c) => row' = [row EXCEPT ![c] = NULL]
        BY DEF Remove
      <3>3. Edit(c) => row' = row
        BY DEF Edit
      <3>4. QED
        BY <3>1, <3>2, <3>3
    <2>5. QED
      BY <2>1, <2>2, <2>3, <2>4
  <1>3. GoodRuns'
    <2>1. ASSUME NEW j \in Jobs, job[j] # NULL PROVE job[j].good \subseteq Customers
      BY <2>1 DEF TypeOK, Job
    <2>2. QED
      BY <1>1, <2>1 DEF TokenInv, GoodRuns
  <1>4. Renewed' /\ Renewing'
    BY <1>1, <1>2 DEF TokenInv, Renewed, Renewing
  <1>5. QED
    BY <1>2, <1>3, <1>4 DEF TokenInv

\* A day passes: who is overdue and was not excused has been renewed.
LEMMA NewDayKeeps ==
    ASSUME TypeOK, TokenInv, NewDay
    PROVE  TokenInv'
  <1>1. job' = job /\ instance' = instance /\ claimed' = FALSE /\ \A j \in Jobs : job[j] = NULL
    BY DEF NewDay
  <1>2. ASSUME NEW c \in Customers, row'[c] # NULL, row'[c].token = "own"
        PROVE  /\ instance'[c] # NULL /\ row'[c].left = Life - row'[c].since
               /\ row'[c].since > RenewAfter => missed'[c] >= row'[c].since - RenewAfter - 1
    <2>1. HasToken(c) /\ row[c] \in Row /\ row[c].token = "own"
          /\ row'[c] = [row[c] EXCEPT !.left = IF @ = 0 THEN 0 ELSE @ - 1,
                                      !.since = IF @ = Life THEN Life ELSE @ + 1]
      BY <1>2 DEF NewDay, TypeOK, HasToken, Row
    <2> PICK left, since : left = row[c].left /\ since = row[c].since
      OBVIOUS
    <2>2. left \in 0 .. Life /\ since \in 0 .. Life /\ missed[c] \in 0 .. Life
      BY <2>1 DEF Row, TypeOK
    <2>3. instance[c] # NULL /\ left = Life - since
          /\ (since > RenewAfter => missed[c] >= since - RenewAfter - 1)
      BY <2>1 DEF TokenInv, OwnRuns, Counted, HasToken
    <2>4. /\ row'[c].left = IF left = 0 THEN 0 ELSE left - 1
          /\ row'[c].since = IF since = Life THEN Life ELSE since + 1
      BY <2>1 DEF Row
    <2>5. Works(c) <=> left > 0
      BY <2>1 DEF Works, HasToken
    <2>6. Due(c) <=> since > RenewAfter
      BY <2>1 DEF Due
    <2>7. Overdue(c) => c \in excused \/ ~claimed
      BY <1>1 DEF TokenInv, Renewed, Jobs
    <2>8. missed'[c] = IF ~(left > 0 /\ since > RenewAfter)
                       THEN (IF left > 0 THEN 0 ELSE missed[c])
                       ELSE IF missed[c] < Life THEN missed[c] + 1 ELSE missed[c]
      BY <2>1, <2>5, <2>6, <2>7 DEF NewDay, Overdue
    <2>9. row'[c].left = Life - row'[c].since
      BY <2>2, <2>3, <2>4, DaysAssumption
    <2>10. row'[c].since > RenewAfter => missed'[c] >= row'[c].since - RenewAfter - 1
      <3>1. CASE left > 0 /\ since > RenewAfter
        BY <2>2, <2>3, <2>4, <2>8, <3>1, DaysAssumption
      <3>2. CASE left > 0 /\ ~(since > RenewAfter)
        BY <2>2, <2>3, <2>4, <2>8, <3>2, DaysAssumption
      <3>3. CASE ~(left > 0)
        BY <2>2, <2>3, <2>4, <2>8, <3>3, DaysAssumption
      <3>4. QED
        BY <3>1, <3>2, <3>3
    <2>11. QED
      BY <1>1, <2>3, <2>9, <2>10
  <1>3. OwnRuns' /\ Counted'
    BY <1>2 DEF OwnRuns, Counted
  <1>4. GoodRuns' /\ Renewed' /\ Renewing'
    BY <1>1 DEF GoodRuns, Renewed, Renewing, Jobs
  <1>5. QED
    BY <1>3, <1>4 DEF TokenInv

LEMMA TokenStep == TypeOK /\ TokenInv /\ [Next]_vars => TokenInv'
  <1> SUFFICES ASSUME TypeOK, TokenInv, [Next]_vars PROVE TokenInv'
    OBVIOUS
  <1>1. ASSUME NEW j \in Requests, PushAll(j) \/ JobStep(j) PROVE TokenInv'
    BY <1>1, ActiveCustomer, RequestKeeps
  <1>2. ASSUME NEW j \in Requests, NEW c \in Customers, Push(j, c) \/ Paste(j, c) PROVE TokenInv'
    BY <1>2, RequestKeeps
  <1>3. CASE Restart
    BY <1>3 DEF Restart, TokenInv, GoodRuns, OwnRuns, Renewed, Renewing, Counted, Works, Due, HasToken, Overdue, Jobs
  <1>4. CASE UNCHANGED vars
    BY <1>4 DEF vars, TokenInv, GoodRuns, OwnRuns, Renewed, Renewing, Counted, Works, Due, HasToken, Overdue
  <1>5. QED
    BY <1>1, <1>2, <1>3, <1>4, RenewalKeeps, DownKeeps, OutsideKeeps, NewDayKeeps DEF Next

LEMMA TokenAlways == Spec => []TokenInv
  <1>1. Init => TokenInv
    BY DEF Init, TokenInv, GoodRuns, OwnRuns, Renewed, Renewing, Counted, Jobs
  <1>2. QED
    BY <1>1, TokenStep, TypeCorrect, PTL DEF Spec

\* However many customers there are and whatever happens to the others, the
\* token of a customer only expires after its renewal failed or did not run on
\* each of the days between the first on which it was due and the expiry.
THEOREM TokensLast == Spec => []OnlyMissedTokensExpire
  <1>1. TypeOK /\ TokenInv => OnlyMissedTokensExpire
    <2> SUFFICES ASSUME TypeOK, TokenInv, NEW c \in Customers, row[c] # NULL,
                        row[c].token = "own", row[c].left = 0
                 PROVE  missed[c] >= Life - RenewAfter - 1
      BY DEF OnlyMissedTokensExpire
    <2>1. row[c].left = Life - row[c].since /\ row[c].since \in 0 .. Life
      BY DEF TokenInv, OwnRuns, TypeOK, Row
    <2>2. row[c].since = Life
      BY <2>1, DaysAssumption
    <2>3. QED
      BY <2>2, DaysAssumption DEF TokenInv, Counted
  <1>2. QED
    BY <1>1, TypeCorrect, TokenAlways, PTL
-----------------------------------------------------------------------------
(* What is stored, what is pushed and what is kept.                        *)

StoredWorks(c) ==
    Written(c) /\ ~(instance[c] # NULL /\ instance'[c] = NULL) => Works(c)' /\ instance'[c] # NULL

LEMMA StoredStep ==
    ASSUME TypeOK, TokenInv, [Next]_vars, NEW c \in Customers
    PROVE  StoredWorks(c)
  <1>1. ASSUME NEW d \in Customers, instance'[d] # NULL, row' = [row EXCEPT ![d] = NewToken]
        PROVE  StoredWorks(c)
    <2>1. CASE c = d
      <3>1. row'[c] = NewToken /\ row'[c] # NULL
        BY <1>1, <2>1, NewTokenFits DEF TypeOK
      <3>2. row'[c].token = "own" /\ row'[c].left > 0
        BY <3>1, DaysAssumption DEF NewToken
      <3>3. Works(c)'
        BY <3>1, <3>2 DEF Works
      <3>4. QED
        BY <1>1, <2>1, <3>3 DEF StoredWorks
    <2>2. CASE c # d
      BY <1>1, <2>2, NewTokenFits DEF StoredWorks, Written
    <2>3. QED
      BY <2>1, <2>2
  <1>2. CASE row'[c] = row[c]
    BY <1>2 DEF StoredWorks, Written
  <1>3. ASSUME NEW j \in Requests, NEW d \in Customers,
               PushAll(j) \/ Push(j, d) \/ Paste(j, d) \/ JobStep(j)
        PROVE  StoredWorks(c)
    BY <1>1, <1>2, <1>3, RequestDoes DEF TokenInv
  <1>4. CASE StartRenewal \/ MintToken
    BY <1>2, <1>4 DEF StartRenewal, MintToken
  <1>5. CASE StoreRenewed
    <2>1. Cust(Scheduler) \in Customers
      BY <1>5, JobParts DEF StoreRenewed, At, Cust, Jobs
    <2>2. \/ row' = row
          \/ instance'[Cust(Scheduler)] # NULL /\ row' = [row EXCEPT ![Cust(Scheduler)] = NewToken]
      BY <1>5 DEF StoreRenewed, Answered
    <2>3. QED
      BY <1>1, <1>2, <2>1, <2>2
  <1>6. ASSUME NEW d \in Customers, Down(d) PROVE StoredWorks(c)
    BY <1>2, <1>6 DEF Down, StoredWorks, TypeOK
  <1>7. ASSUME NEW d \in Customers, Remove(d) PROVE StoredWorks(c)
    BY <1>2, <1>7 DEF Remove, StoredWorks, Written, TypeOK
  <1>8. ASSUME NEW d \in Customers, Up(d) PROVE StoredWorks(c)
    <2>1. [pair |-> Disabled, others |-> 0] \in Instance
      BY BoundsAssumption DEF Instance
    <2>2. instance'[d] # NULL
      BY <1>8, <2>1, RecordsAssumption DEF Up, TypeOK
    <2>3. CASE row' = [row EXCEPT ![d] = [token |-> "none", left |-> 0, since |-> 0]]
      <3>1. row'[d].token = "none"
        BY <2>3 DEF TypeOK
      <3>2. QED
        BY <1>2, <2>3, <3>1 DEF StoredWorks, Written, TypeOK
    <2>4. row' = row \/ row' = [row EXCEPT ![d] = NewToken]
             \/ row' = [row EXCEPT ![d] = [token |-> "none", left |-> 0, since |-> 0]]
      BY <1>8 DEF Up
    <2>5. QED
      BY <1>1, <1>2, <2>2, <2>3, <2>4
  <1>9. CASE NewDay
    <2>1. CASE HasToken(c)
      <3>1. row[c].since \in 0 .. Life /\ row[c] \in Row
        BY <2>1 DEF HasToken, TypeOK, Row
      <3>2. row'[c].since = IF row[c].since = Life THEN Life ELSE row[c].since + 1
        BY <1>9, <2>1, <3>1 DEF NewDay, Row
      <3>3. row'[c].since # 0
        BY <3>1, <3>2, DaysAssumption
      <3>4. QED
        BY <3>3 DEF StoredWorks, Written
    <2>2. CASE ~HasToken(c)
      BY <1>2, <1>9, <2>2 DEF NewDay
    <2>3. QED
      BY <2>1, <2>2
  <1>10. CASE Restart \/ UNCHANGED vars \/ \E d \in Customers : Edit(d)
    BY <1>2, <1>10 DEF Restart, vars, Edit
  <1>11. QED
    BY <1>3, <1>4, <1>5, <1>6, <1>7, <1>8, <1>9, <1>10, ActiveCustomer DEF Next

\* However a deployment, a rollback or a removal falls into the requests of a
\* renewal or of a pasted token, the row takes a token only from the instance
\* that runs.
THEOREM StoredTokensWork == Spec => StoredTokenWorks
  <1>1. TypeOK /\ TokenInv /\ [Next]_vars => [\A c \in Customers : StoredWorks(c)]_vars
    BY StoredStep
  <1>2. QED
    BY <1>1, TypeCorrect, TokenAlways, PTL DEF Spec, StoredTokenWorks, StoredWorks
\* What a step of a request does to the settings, and to its own job.
LEMMA RequestReads ==
    ASSUME TypeOK, GoodRuns, ReadIsCurrent, NEW j \in Requests, NEW c \in Customers,
           PushAll(j) \/ Push(j, c) \/ Paste(j, c) \/ JobStep(j)
    PROVE  /\ \A d \in Customers : instance[d] # NULL => instance'[d].others = instance[d].others
           /\ (At(j, "put") /\ Cust(j) \in job[j].good => job[j].others = instance[Cust(j)].others)'
  <1>0. j \in Jobs
    BY DEF Jobs
  <1>1. ASSUME NEW d \in Customers, instance[d] # NULL PROVE instance'[d].others = instance[d].others
    <2>1. CASE PutSettings(j) /\ instance' # instance
      <3>1. At(j, "put") /\ Cust(j) \in job[j].good /\ instance' = [instance EXCEPT ![Cust(j)] = Settings(job[j])]
        BY <2>1 DEF PutSettings, Answered
      <3>2. Settings(job[j]).others = instance[Cust(j)].others
        BY <3>1 DEF ReadIsCurrent, Settings
      <3>3. QED
        BY <3>1, <3>2 DEF TypeOK
    <2>2. CASE instance' = instance
      BY <2>2
    <2>3. QED
      BY <2>1, <2>2 DEF PushAll, Push, Paste, JobStep, GetSettings, VerifyPasted
  <1> DEFINE Fine == (At(j, "put") /\ Cust(j) \in job[j].good => job[j].others = instance[Cust(j)].others)'
  <1>2. ASSUME job'[j] = NULL \/ job'[j].pc = "get" PROVE Fine
    BY <1>2 DEF At
  <1>3. ASSUME NEW r \in Job, PushNext(j, r) \/ Pushed(j, r) PROVE Fine
    BY <1>0, <1>2, <1>3, PushNextDoes, PushedDoes
  <1>4. CASE PushAll(j)
    <2>1. PICK p \in Pairs, e \in Customers :
             PushNext(j, [NewJob("pushAll", e, "get") EXCEPT
                             !.pair = p, !.todo = {f \in Customers : row[f] # NULL},
                             !.held = {f \in Customers : HasToken(f)},
                             !.good = {f \in Customers : Works(f)}])
      BY <1>4 DEF PushAll
    <2>2. NewJob("pushAll", e, "get") \in Job
      BY NewJobTyped
    <2>3. [NewJob("pushAll", e, "get") EXCEPT
              !.pair = p, !.todo = {f \in Customers : row[f] # NULL},
              !.held = {f \in Customers : HasToken(f)},
              !.good = {f \in Customers : Works(f)}] \in Job
      BY <2>2 DEF Job
    <2>4. QED
      BY <1>1, <1>3, <2>1, <2>3
  <1>5. CASE Push(j, c) \/ Paste(j, c)
    <2>1. job'[j].pc = "get"
      BY <1>0, <1>5 DEF Push, Paste, Set, NewJob, TypeOK
    <2>2. QED
      BY <1>1, <1>2, <2>1
  <1>6. CASE VerifyPasted(j)
    <2>1. job'[j] = NULL
      BY <1>0, <1>6 DEF VerifyPasted, End, Set, TypeOK
    <2>2. QED
      BY <1>1, <1>2, <2>1
  <1>7. ASSUME At(j, "get") \/ At(j, "put")
        PROVE  /\ job[j] \in Job
               /\ [job[j] EXCEPT !.struck = @ \cup Struck(j)] \in Job
               /\ [job[j] EXCEPT !.pushed = @ \cup {Cust(j)}] \in Job
    <2>1. job[j] # NULL /\ job[j] \in Job /\ Cust(j) \in Customers
      BY <1>0, <1>7, JobParts DEF At, Cust
    <2>2. Struck(j) \in SUBSET Customers
      BY <2>1 DEF Struck
    <2>3. QED
      BY <2>1, <2>2 DEF Job
  <1>8. CASE PutSettings(j)
    <2>1. Fine
      BY <1>3, <1>7, <1>8 DEF PutSettings
    <2>2. QED
      BY <1>1, <2>1
  <1>9. CASE GetSettings(j)
    <2>1. ASSUME Set(j, [job[j] EXCEPT !.pc = "put", !.others = instance[Cust(j)].others]) PROVE Fine
      <3>1. job[j] \in Job /\ instance' = instance
        BY <1>7, <1>9 DEF GetSettings
      <3>2. job'[j] = [job[j] EXCEPT !.pc = "put", !.others = instance[Cust(j)].others]
        BY <1>0, <2>1 DEF Set, TypeOK
      <3>3. job'[j].others = instance[Cust(j)].others /\ job'[j].cust = job[j].cust
        BY <3>1, <3>2 DEF Job
      <3>4. QED
        BY <3>1, <3>3 DEF Cust
    <2>2. Fine
      BY <1>3, <1>7, <1>9, <2>1 DEF GetSettings
    <2>3. QED
      BY <1>1, <2>2
  <1>10. QED
    BY <1>4, <1>5, <1>6, <1>8, <1>9 DEF JobStep

EditKept(c) == instance[c] # NULL /\ instance'[c] # NULL => instance'[c].others >= instance[c].others

LEMMA ReadStep ==
    ASSUME CustomersWait, TypeOK, GoodRuns, ReadIsCurrent, [Next]_vars
    PROVE  ReadIsCurrent' /\ \A c \in Customers : EditKept(c)
  <1>0. \A c \in Customers : instance[c] # NULL => instance[c].others \in Int
    BY BoundsAssumption DEF TypeOK, Instance
  <1> DEFINE Goal == ReadIsCurrent' /\ \A c \in Customers : EditKept(c)
  <1>1. ASSUME UNCHANGED <<instance, job>> \/ (instance' = instance /\ \A j \in Requests : job'[j] = NULL)
        PROVE  Goal
    BY <1>0, <1>1 DEF ReadIsCurrent, EditKept, At, Cust
  <1>2. ASSUME NEW j \in Requests, NEW c \in Customers,
               PushAll(j) \/ Push(j, c) \/ Paste(j, c) \/ JobStep(j)
        PROVE  Goal
    <2>1. \A k \in Requests : k # j => job'[k] = job[k]
      BY <1>2, RequestTyped DEF TypeOK, Jobs
    <2>2. /\ \A d \in Customers : instance[d] # NULL => instance'[d].others = instance[d].others
          /\ (At(j, "put") /\ Cust(j) \in job[j].good => job[j].others = instance[Cust(j)].others)'
      BY <1>2, RequestReads
    <2>3. ASSUME NEW k \in Requests, k # j, At(k, "put")', Cust(k)' \in job'[k].good
          PROVE  job'[k].others = instance'[Cust(k)'].others
      <3>1. At(k, "put") /\ Cust(k)' = Cust(k) /\ job'[k] = job[k]
        BY <2>1, <2>3 DEF At, Cust
      <3>2. Cust(k) \in Customers /\ instance[Cust(k)] # NULL
        BY <2>3, <3>1, JobParts DEF GoodRuns, At, Cust, Jobs
      <3>3. QED
        BY <2>2, <2>3, <3>1, <3>2 DEF ReadIsCurrent
    <2>4. ReadIsCurrent'
      BY <2>2, <2>3 DEF ReadIsCurrent
    <2>5. QED
      BY <1>0, <2>2, <2>4 DEF EditKept
  <1>3. CASE StartRenewal \/ MintToken \/ StoreRenewed
    <2>1. \A k \in Requests : job'[k] = job[k]
      BY <1>3, RenewalTyped, SlotsAssumption DEF TypeOK, Jobs
    <2>2. instance' = instance
      BY <1>3 DEF StartRenewal, MintToken, StoreRenewed
    <2>3. QED
      BY <1>0, <2>1, <2>2 DEF ReadIsCurrent, EditKept, At, Cust
  <1>4. ASSUME NEW c \in Customers, Down(c) PROVE Goal
    <2>1. ASSUME NEW j \in Requests
          PROVE  /\ job[j] = NULL <=> job'[j] = NULL
                 /\ job[j] # NULL => /\ job'[j].good = job[j].good \ {c} /\ job'[j].pc = job[j].pc
                                     /\ job'[j].others = job[j].others /\ job'[j].cust = job[j].cust
      <3>1. job[j] # NULL => job[j] \in Job /\ [job[j] EXCEPT !.good = @ \ {c}] \in Job
        BY DEF TypeOK, Job, Jobs
      <3>2. QED
        BY <1>4, <3>1, RecordsAssumption DEF Down, Jobs, Job
    <2>2. instance' = [instance EXCEPT ![c] = NULL]
      BY <1>4 DEF Down
    <2>3. \A d \in Customers : EditKept(d)
      BY <1>0, <2>2 DEF EditKept, TypeOK
    <2>4. ASSUME NEW j \in Requests, At(j, "put")', Cust(j)' \in job'[j].good
          PROVE  job'[j].others = instance'[Cust(j)'].others
      <3>1. At(j, "put") /\ Cust(j)' = Cust(j) /\ Cust(j) # c /\ Cust(j) \in job[j].good
        BY <2>1, <2>4 DEF At, Cust
      <3>2. instance'[Cust(j)] = instance[Cust(j)]
        BY <2>2, <3>1 DEF TypeOK
      <3>3. QED
        BY <2>1, <3>1, <3>2 DEF ReadIsCurrent, At
    <2>5. QED
      BY <2>3, <2>4 DEF ReadIsCurrent
  <1>5. ASSUME NEW c \in Customers, Up(c) \/ Edit(c) PROVE Goal
    <2>1. \A d \in Customers : d # c => instance'[d] = instance[d]
      BY <1>5 DEF Up, Edit, TypeOK
    <2>2. EditKept(c)
      <3>1. CASE Up(c)
        BY <3>1 DEF Up, EditKept
      <3>2. CASE Edit(c)
        <4>1. instance[c] \in Instance /\ instance'[c] = [instance[c] EXCEPT !.others = @ + 1]
          BY <3>2 DEF Edit, TypeOK
        <4>2. instance'[c].others = instance[c].others + 1 /\ instance[c].others \in Int
          BY <4>1, BoundsAssumption DEF Instance
        <4>3. QED
          BY <4>2 DEF EditKept
      <3>3. QED
        BY <1>5, <3>1, <3>2
    <2>3. ASSUME NEW j \in Requests, At(j, "put"), Cust(j) \in job[j].good PROVE Cust(j) # c
      BY <1>5, <2>3 DEF Up, Edit, GoodRuns, Jobs, At
    <2>4. job' = job
      BY <1>5 DEF Up, Edit
    <2>5. ASSUME NEW j \in Requests, At(j, "put"), Cust(j) \in job[j].good
          PROVE  job[j].others = instance'[Cust(j)].others
      <3>1. Cust(j) \in Customers
        BY <2>5, JobParts DEF At, Cust, Jobs
      <3>2. QED
        BY <2>1, <2>3, <2>5, <3>1 DEF ReadIsCurrent
    <2>6. ReadIsCurrent'
      BY <2>4, <2>5 DEF ReadIsCurrent, At, Cust
    <2>7. QED
      BY <1>0, <2>1, <2>2, <2>6 DEF EditKept
  <1>6. ASSUME NEW c \in Customers, Remove(c) PROVE Goal
    BY <1>1, <1>6 DEF Remove
  <1>7. CASE NewDay \/ Restart \/ UNCHANGED vars
    BY <1>1, <1>7 DEF NewDay, Restart, vars, Jobs
  <1>8. QED
    BY <1>2, <1>3, <1>4, <1>5, <1>6, <1>7, ActiveCustomer DEF Next

\* As long as customers wait for the second request of a push, no push,
\* renewal or deployment undoes what they have set in their instance.
THEOREM EditsStay ==
    ASSUME CustomersWait
    PROVE  Spec => EditsAreKept
  <1>1. Init => ReadIsCurrent
    BY DEF Init, ReadIsCurrent, At, Jobs
  <1>2. TypeOK /\ TokenInv /\ ReadIsCurrent /\ [Next]_vars => ReadIsCurrent'
    BY ReadStep DEF TokenInv
  <1>3. TypeOK /\ TokenInv /\ ReadIsCurrent /\ [Next]_vars => [\A c \in Customers : EditKept(c)]_vars
    BY ReadStep DEF TokenInv
  <1>4. QED
    BY <1>1, <1>2, <1>3, TypeCorrect, TokenAlways, PTL DEF Spec, EditsAreKept, EditKept
\* The push to all goes on after a customer that it has pushed, that was struck
\* or whose token is no good, and ends when there is none left with a token.
LEMMA PushedReaches ==
    ASSUME TypeOK, NEW j \in Jobs, NEW r \in Job, Pushed(j, r), Reaches(r),
           r.kind = "pushAll" => r.cust \in r.pushed \cup r.struck \/ r.cust \notin r.good
    PROVE  /\ job'[j] # NULL => Reaches(job'[j])
           /\ job'[j] = NULL /\ r.kind = "pushAll" /\ ~r.gone /\ (\A c \in Customers : row[c] # NULL) =>
                 r.good \cap r.todo = {}
  <1>1. ASSUME NEW s \in Job, job'[j] = s, s.kind = r.kind,
               s.good = r.good, s.held = r.held, s.pushed = r.pushed, s.struck = r.struck,
               r.todo \cap r.held \subseteq s.todo \cup {s.cust}
        PROVE  s # NULL /\ Reaches(s)
    BY <1>1, RecordsAssumption DEF Reaches
  <1>2. QED
    BY <1>1, PushedDoes DEF Reaches

LEMMA RequestReaches ==
    ASSUME TypeOK, GoodRuns, Pending, NEW j \in Requests, NEW c \in Customers,
           PushAll(j) \/ Push(j, c) \/ Paste(j, c) \/ JobStep(j)
    PROVE  /\ job'[j] # NULL => Reaches(job'[j])
           /\ /\ job[j] # NULL /\ job'[j] = NULL /\ job[j].kind = "pushAll" /\ ~job[j].gone
              /\ \A d \in Customers : row[d] # NULL
              => job[j].good \cap job[j].todo = {}
  <1>0. j \in Jobs
    BY DEF Jobs
  <1> DEFINE Ends == /\ job[j] # NULL /\ job'[j] = NULL /\ job[j].kind = "pushAll" /\ ~job[j].gone
                     /\ \A d \in Customers : row[d] # NULL
  <1>1. CASE PushAll(j)
    <2>1. PICK p \in Pairs, e \in Customers :
             PushNext(j, [NewJob("pushAll", e, "get") EXCEPT
                             !.pair = p, !.todo = {f \in Customers : row[f] # NULL},
                             !.held = {f \in Customers : HasToken(f)},
                             !.good = {f \in Customers : Works(f)}])
      BY <1>1 DEF PushAll
    <2> DEFINE r == [NewJob("pushAll", e, "get") EXCEPT
                        !.pair = p, !.todo = {f \in Customers : row[f] # NULL},
                        !.held = {f \in Customers : HasToken(f)},
                        !.good = {f \in Customers : Works(f)}]
    <2>2. NewJob("pushAll", e, "get") \in Job
      BY NewJobTyped
    <2>3. /\ r \in Job /\ r.todo = {f \in Customers : row[f] # NULL}
          /\ r.held = {f \in Customers : HasToken(f)} /\ r.good = {f \in Customers : Works(f)}
      BY <2>2 DEF Job
    <2>4. PushNext(j, r) /\ r.good \subseteq r.todo \cap r.held
      BY <2>1, <2>3 DEF Works, HasToken
    <2> HIDE DEF r
    <2>5. job'[j] = NULL \/ Reaches(job'[j])
      BY <1>0, <2>3, <2>4, PushNextDoes DEF Reaches
    <2>6. job[j] = NULL
      BY <1>1 DEF PushAll
    <2>7. QED
      BY <2>5, <2>6
  <1>2. CASE Push(j, c) \/ Paste(j, c)
    <2>1. job[j] = NULL /\ job'[j].kind # "pushAll"
      BY <1>0, <1>2 DEF Push, Paste, Set, NewJob, TypeOK
    <2>2. QED
      BY <2>1 DEF Reaches
  <1>3. CASE VerifyPasted(j)
    BY <1>0, <1>3 DEF VerifyPasted, End, Set, TypeOK
  <1>4. ASSUME At(j, "get") \/ At(j, "put")
        PROVE  /\ job[j] # NULL /\ job[j] \in Job /\ Reaches(job[j]) /\ Cust(j) = job[j].cust
               /\ Struck(j) \in SUBSET Customers /\ Cust(j) \in Customers
               /\ Cust(j) \in job[j].good => instance[Cust(j)] # NULL
    <2>1. job[j] # NULL /\ job[j] \in Job /\ Cust(j) \in Customers /\ Cust(j) = job[j].cust
      BY <1>0, <1>4, JobParts DEF At, Cust
    <2>2. QED
      BY <1>0, <2>1 DEF Struck, GoodRuns, Pending, Reaches
  \* The customer of a request that failed was struck, or its token is no good.
  <1>5. ASSUME At(j, "get") \/ At(j, "put"), Fails(j),
               Pushed(j, [job[j] EXCEPT !.struck = @ \cup Struck(j)])
        PROVE  /\ job'[j] # NULL => Reaches(job'[j])
               /\ Ends => job[j].good \cap job[j].todo = {}
    <2> DEFINE r == [job[j] EXCEPT !.struck = @ \cup Struck(j)]
    <2>1. /\ r \in Job /\ r.kind = job[j].kind /\ r.good = job[j].good /\ r.held = job[j].held
          /\ r.todo = job[j].todo /\ r.cust = job[j].cust /\ r.gone = job[j].gone
          /\ r.pushed = job[j].pushed /\ r.struck = job[j].struck \cup Struck(j)
      BY <1>4, <1>5 DEF Job
    <2>2. Cust(j) \in job[j].good => faults' = faults + 1 /\ faults \in Nat
      BY <1>4, <1>5, BoundsAssumption DEF Fails, TypeOK
    <2>3. Cust(j) \in job[j].good => Cust(j) \in Struck(j)
      BY <2>2 DEF Struck
    <2>4. Pushed(j, r)
      BY <1>5
    <2> HIDE DEF r
    <2>5. Reaches(r)
      BY <1>4, <1>5, <2>1 DEF Reaches
    <2>6. QED
      BY <1>0, <1>4, <1>5, <2>1, <2>3, <2>4, <2>5, PushedReaches
  <1>6. CASE GetSettings(j)
    <2>1. ASSUME Answered(j), Set(j, [job[j] EXCEPT !.pc = "put", !.others = instance[Cust(j)].others])
          PROVE  job'[j] # NULL /\ Reaches(job'[j])
      <3>1. job'[j] = [job[j] EXCEPT !.pc = "put", !.others = instance[Cust(j)].others]
        BY <1>0, <2>1 DEF Set, TypeOK
      <3>2. job[j] \in Job /\ Reaches(job[j])
        BY <1>4, <1>6 DEF GetSettings
      <3>3. instance[Cust(j)].others \in 0 .. MaxEdits
        BY <1>4, <1>6, <2>1 DEF GetSettings, Answered, TypeOK, Instance
      <3>4. job'[j] \in Job
        BY <3>1, <3>2, <3>3 DEF Job
      <3>5. QED
        BY <3>1, <3>2, <3>4, RecordsAssumption DEF Job, Reaches
    <2>2. QED
      BY <1>5, <1>6, <2>1 DEF GetSettings
  <1>7. CASE PutSettings(j)
    <2>1. CASE Pushed(j, [job[j] EXCEPT !.pushed = @ \cup {Cust(j)}])
      <3> DEFINE r == [job[j] EXCEPT !.pushed = @ \cup {Cust(j)}]
      <3>1. /\ r \in Job /\ r.kind = job[j].kind /\ r.good = job[j].good /\ r.held = job[j].held
            /\ r.todo = job[j].todo /\ r.cust = job[j].cust /\ r.gone = job[j].gone
            /\ r.struck = job[j].struck /\ r.pushed = job[j].pushed \cup {Cust(j)}
        BY <1>4, <1>7 DEF PutSettings, Job
      <3>2. Pushed(j, r)
        BY <2>1
      <3> HIDE DEF r
      <3>3. Reaches(r)
        BY <1>4, <1>7, <3>1 DEF PutSettings, Reaches
      <3>4. QED
        BY <1>0, <1>4, <1>7, <3>1, <3>2, <3>3, PushedReaches DEF PutSettings
    <2>2. QED
      BY <1>5, <1>7, <2>1 DEF PutSettings
  <1>8. QED
    BY <1>1, <1>2, <1>3, <1>6, <1>7 DEF JobStep

\* What a step means for the push to all of one job.
ReachesOn(j) ==
    /\ job'[j] # NULL => Reaches(job'[j])
    /\ /\ job[j] # NULL /\ job'[j] = NULL /\ job[j].kind = "pushAll" /\ ~job[j].gone
       /\ faults' = faults /\ \A c \in Customers : row[c] # NULL
       => job[j].good \cap job[j].todo = {}

LEMMA PendingStep ==
    ASSUME TypeOK, GoodRuns, Pending, [Next]_vars, NEW j \in Requests
    PROVE  ReachesOn(j)
  <1>0. j \in Jobs /\ (job[j] # NULL => job[j] \in Job /\ Reaches(job[j]))
    BY DEF Jobs, TypeOK, Pending
  <1>1. ASSUME job'[j] = job[j] PROVE ReachesOn(j)
    BY <1>0, <1>1 DEF ReachesOn
  <1>2. ASSUME NEW k \in Requests, NEW c \in Customers,
               PushAll(k) \/ Push(k, c) \/ Paste(k, c) \/ JobStep(k)
        PROVE  ReachesOn(j)
    <2>1. CASE k = j
      BY <1>2, <2>1, RequestReaches DEF ReachesOn
    <2>2. CASE k # j
      <3>1. job'[j] = job[j]
        BY <1>0, <1>2, <2>2, RequestTyped DEF TypeOK
      <3>2. QED
        BY <1>1, <3>1
    <2>3. QED
      BY <2>1, <2>2
  <1>3. CASE StartRenewal \/ MintToken \/ StoreRenewed
    <2>1. job'[j] = job[j]
      BY <1>0, <1>3, RenewalTyped, SlotsAssumption DEF TypeOK
    <2>2. QED
      BY <1>1, <2>1
  <1>4. ASSUME NEW c \in Customers, Down(c) PROVE ReachesOn(j)
    <2>1. CASE job[j] = NULL
      BY <1>0, <1>1, <1>4, <2>1 DEF Down
    <2>2. CASE job[j] # NULL
      <3>1. job'[j] = [job[j] EXCEPT !.good = @ \ {c}]
        BY <1>0, <1>4, <2>2 DEF Down
      <3>2. /\ job'[j] \in Job /\ job'[j].good \subseteq job[j].good /\ job'[j].kind = job[j].kind
            /\ job'[j].held = job[j].held /\ job'[j].pushed = job[j].pushed
            /\ job'[j].struck = job[j].struck /\ job'[j].todo = job[j].todo /\ job'[j].cust = job[j].cust
        BY <1>0, <2>2, <3>1 DEF Job
      <3>3. QED
        BY <1>0, <2>2, <3>2, RecordsAssumption DEF ReachesOn, Reaches
    <2>3. QED
      BY <2>1, <2>2
  <1>5. ASSUME NEW c \in Customers, Remove(c) \/ Up(c) \/ Edit(c) PROVE ReachesOn(j)
    BY <1>1, <1>5 DEF Remove, Up, Edit
  <1>6. CASE NewDay \/ UNCHANGED vars
    BY <1>1, <1>6 DEF NewDay, vars
  <1>7. CASE Restart
    <2>1. job'[j] = NULL /\ faults' # faults
      BY <1>0, <1>7, BoundsAssumption DEF Restart, TypeOK
    <2>2. QED
      BY <2>1 DEF ReachesOn
  <1>8. QED
    BY <1>2, <1>3, <1>4, <1>5, <1>6, <1>7, ActiveCustomer DEF Next

\* A push to all that ends without a restart, and with the rows of all the
\* customers there, has come to every customer whose token was good, however
\* many there are and whatever the pushes to the others came to.
THEOREM PushesReachEveryone == Spec => EveryoneIsPushed
  <1> DEFINE Reached(j) ==
        LET r == job[j] IN
        /\ r # NULL /\ r.kind = "pushAll" /\ job'[j] = NULL /\ faults' = faults
        /\ ~r.gone /\ \A c \in Customers : row[c] # NULL
        => r.good \subseteq r.pushed \cup r.struck \cup {r.cust}
  <1>1. Init => Pending
    BY DEF Init, Pending, Jobs
  <1>2. TypeOK /\ TokenInv /\ Pending /\ [Next]_vars => Pending'
    BY PendingStep DEF TokenInv, Pending, ReachesOn, Reaches
  <1>3. TypeOK /\ TokenInv /\ Pending /\ [Next]_vars => [\A j \in Requests : Reached(j)]_vars
    <2> SUFFICES ASSUME TypeOK, TokenInv, Pending, [Next]_vars, NEW j \in Requests PROVE Reached(j)
      OBVIOUS
    <2>1. ReachesOn(j)
      BY PendingStep DEF TokenInv
    <2>2. QED
      BY <2>1 DEF ReachesOn, Pending, Reaches
  <1>4. QED
    BY <1>1, <1>2, <1>3, TypeCorrect, TokenAlways, PTL DEF Spec, EveryoneIsPushed
=============================================================================
