--------------------------- MODULE ClientSettings ---------------------------
(***************************************************************************)
(* The API tokens of the customers' NetBird instances and the settings     *)
(* that are pushed with them (services/netbird_client_update_service.py):  *)
(* the daily renewal of the scheduler, a token pasted by hand, and the     *)
(* push to one customer or to all.                                         *)
(*                                                                         *)
(* A day is a step; a request or a run of the renewal never outlasts one.  *)
(* A request to an instance and what the program does with the answer up   *)
(* to its next request are one step: an answered call is resumed before a  *)
(* deployment, with its many awaits, has got from one end to the other.    *)
(***************************************************************************)
EXTENDS Integers, FiniteSets

CONSTANTS
    Customers,
    Requests,       \* slots for requests in flight
    Scheduler,      \* the slot of the renewal
    Pairs,          \* values of (version, always) an operator pushes
    Disabled,       \* the value a new instance has
    Life,           \* days a token lives (365 in the code)
    RenewAfter,     \* _TOKEN_RENEW_AFTER_DAYS (300 in the code)
    CustomersWait,  \* customers do not edit settings while a push is under way
    MaxFaults,      \* requests that fail and restarts, in a day
    MaxEdits,       \* bound on the edits an instance counts
    NULL

Jobs == Requests \cup {Scheduler}

ASSUME SlotsAssumption == Scheduler \notin Requests
ASSUME DaysAssumption == Life \in Nat /\ RenewAfter \in Nat /\ RenewAfter < Life
ASSUME BoundsAssumption ==
    MaxFaults \in Nat /\ MaxEdits \in Nat /\ CustomersWait \in BOOLEAN /\ Disabled \in Pairs

VARIABLES
    row,        \* the deployments row of each customer
    instance,   \* the account settings of its NetBird
    job,        \* the requests and the renewal in flight
    claimed,    \* _last_token_renewal_date is today
    faults,     \* faults of today
    excused,    \* customers whose renewal a fault prevented today, which no variable keeps
    missed      \* days on which a token was due and not renewed for that reason, likewise

vars == <<row, instance, job, claimed, faults, excused, missed>>

\* token: there is none, the instance that runs made it, or one before it did.
\* left: days until it expires.  since: days since netbird_api_token_renewed_at.
Row == [token : {"none", "own", "foreign"}, left : 0 .. Life, since : 0 .. Life]
\* others: the settings that no push is about, by the number of edits to them.
Instance == [pair : Pairs, others : 0 .. MaxEdits]

\* held: customers with a token when the rows were loaded.  good: those for
\* whom the token in hand is one that the instance accepts.  expired: the rows
\* have been committed since and are read again.  struck: requests for them
\* failed by a fault.
Job == [kind : {"push", "pushAll", "paste", "renew"},
        pc : {"get", "put", "mint", "verify"},
        cust : Customers, todo : SUBSET Customers,
        held : SUBSET Customers, good : SUBSET Customers,
        pair : Pairs, others : 0 .. MaxEdits,
        gone : BOOLEAN,            \* dep.customer was None when its turn came
        expired : BOOLEAN,
        pushed : SUBSET Customers, \* reported with success
        struck : SUBSET Customers]

ASSUME RecordsAssumption == NULL \notin Row \cup Instance \cup Job

TypeOK ==
    /\ row \in [Customers -> Row \cup {NULL}]
    /\ instance \in [Customers -> Instance \cup {NULL}]
    /\ job \in [Jobs -> Job \cup {NULL}]
    /\ claimed \in BOOLEAN /\ faults \in 0 .. MaxFaults
    /\ excused \subseteq Customers /\ missed \in [Customers -> 0 .. Life]

Init ==
    /\ row = [c \in Customers |-> NULL]
    /\ instance = [c \in Customers |-> NULL]
    /\ job = [j \in Jobs |-> NULL]
    /\ claimed = FALSE /\ faults = 0
    /\ excused = {} /\ missed = [c \in Customers |-> 0]

-----------------------------------------------------------------------------

At(j, pc) == job[j] # NULL /\ job[j].pc = pc
Cust(j) == job[j].cust
HasToken(c) == row[c] # NULL /\ row[c].token # "none"
Works(c) == row[c] # NULL /\ row[c].token = "own" /\ row[c].left > 0
NewToken == [token |-> "own", left |-> Life, since |-> 0]
Set(j, r) == job' = [job EXCEPT ![j] = r]
End(j) == Set(j, NULL)

\* The instance answers the request of job j, or it fails: nobody listens, the
\* token is refused, or a fault strikes.
Answered(j) == instance[Cust(j)] # NULL /\ Cust(j) \in job[j].good /\ UNCHANGED faults
Fails(j) ==
    \/ (instance[Cust(j)] = NULL \/ Cust(j) \notin job[j].good) /\ UNCHANGED faults
    \/ faults < MaxFaults /\ faults' = faults + 1
Struck(j) == IF faults' = faults THEN {} ELSE {Cust(j)}

NewJob(kind, c, pc) ==
    [kind |-> kind, pc |-> pc, cust |-> c, todo |-> {},
     held |-> {}, good |-> {d \in {c} : Works(d)},
     pair |-> Disabled, others |-> 0, gone |-> FALSE, expired |-> FALSE,
     pushed |-> {}, struck |-> {}]

-----------------------------------------------------------------------------
(* push_auto_update_settings, for one customer or for all                  *)

\* set_customer_netbird_updates: without a row or a token it answers 4xx.
Push(j, c) ==
    /\ job[j] = NULL /\ HasToken(c)
    /\ \E p \in Pairs : Set(j, [NewJob("push", c, "get") EXCEPT !.pair = p])
    /\ UNCHANGED <<row, instance, claimed, faults, excused, missed>>

\* The loop of apply_netbird_client_updates_to_all comes to its next row with
\* a token, passing others, or to its end.  A row without a token whose
\* customer is gone raises.
PushNext(j, r) ==
    \/ \E c \in r.todo \cap r.held : \E rest \in SUBSET (r.todo \ {c}), gone \in BOOLEAN :
          /\ \A d \in r.todo \ (rest \cup {c}) : d \notin r.held /\ row[d] # NULL
          /\ gone => row[c] = NULL
          /\ Set(j, [r EXCEPT !.cust = c, !.todo = rest, !.pc = "get", !.others = 0, !.gone = gone])
    \/ (\E d \in r.todo \ r.held : row[d] = NULL) /\ End(j)
    \/ r.todo \cap r.held = {} /\ (\A d \in r.todo : row[d] # NULL) /\ End(j)

PushAll(j) ==
    /\ job[j] = NULL
    /\ \E p \in Pairs, c \in Customers :
          PushNext(j, [NewJob("pushAll", c, "get") EXCEPT
                          !.pair = p, !.todo = {d \in Customers : row[d] # NULL},
                          !.held = {d \in Customers : HasToken(d)},
                          !.good = {d \in Customers : Works(d)}])
    /\ UNCHANGED <<row, instance, claimed, faults, excused, missed>>

\* Variant: the first customer that fails ends the loop.
GiveUpPush(j, r) ==
    IF r.pushed = job[j].pushed \/ r.kind = "push" THEN End(j) ELSE PushNext(j, r)

\* The push of one customer is over: its result is reported; that of a
\* customer that was gone raises.
Pushed(j, r) ==
    IF r.kind = "push" \/ r.gone THEN End(j) ELSE PushNext(j, r)

GetSettings(j) ==
    LET c == Cust(j) IN
    /\ At(j, "get") /\ job[j].kind # "paste"
    /\ \/ Answered(j) /\ Set(j, [job[j] EXCEPT !.pc = "put", !.others = instance[c].others])
       \/ Fails(j) /\ Pushed(j, [job[j] EXCEPT !.struck = @ \cup Struck(j)])
    /\ UNCHANGED <<row, instance, claimed, excused, missed>>

\* Variant: only the two fields are sent, and the PUT sets the others to their
\* defaults.
Patch(r) == [pair |-> r.pair, others |-> 0]

\* Variant: the version is left out.
Unset(r) == [pair |-> NULL, others |-> r.others]

\* The whole settings object, with the two fields overwritten.
Settings(r) == [pair |-> r.pair, others |-> r.others]

\* The answer to a PUT that took effect may be lost.
PutSettings(j) ==
    LET c == Cust(j)
        took == instance' = [instance EXCEPT ![c] = Settings(job[j])]
    IN
    /\ At(j, "put")
    /\ \/ Answered(j) /\ took /\ Pushed(j, [job[j] EXCEPT !.pushed = @ \cup {c}])
       \/ /\ Fails(j)
          /\ UNCHANGED instance \/ (instance[c] # NULL /\ c \in job[j].good /\ took)
          /\ Pushed(j, [job[j] EXCEPT !.struck = @ \cup Struck(j)])
    /\ UNCHANGED <<row, claimed, excused, missed>>

-----------------------------------------------------------------------------
(* set_customer_netbird_api_token                                          *)

\* The operator pastes a token just made, or one that does not work.
Paste(j, c) ==
    /\ job[j] = NULL /\ row[c] # NULL
    /\ \E works \in BOOLEAN :
          Set(j, [NewJob("paste", c, "get") EXCEPT
                     !.good = IF works /\ instance[c] # NULL THEN {c} ELSE {}])
    /\ UNCHANGED <<row, instance, claimed, faults, excused, missed>>

\* Variant: the token is stored as it is.
StoreUnverified(j) ==
    LET c == Cust(j) IN
    /\ At(j, "get") /\ job[j].kind = "paste"
    /\ row' = IF row[c] = NULL THEN row
              ELSE [row EXCEPT ![c] = [NewToken EXCEPT !.token =
                                          IF c \in job[j].good THEN "own" ELSE "foreign"]]
    /\ End(j)
    /\ UNCHANGED <<instance, claimed, faults, excused, missed>>

\* Stored only if the instance answers with it; a row that is gone raises.
VerifyPasted(j) ==
    LET c == Cust(j) IN
    /\ At(j, "get") /\ job[j].kind = "paste"
    /\ \/ /\ Answered(j)
          /\ row' = IF row[c] = NULL THEN row ELSE [row EXCEPT ![c] = NewToken]
       \/ Fails(j) /\ UNCHANGED row
    /\ End(j)
    /\ UNCHANGED <<instance, claimed, excused, missed>>

-----------------------------------------------------------------------------
(* _token_renewal_tick                                                     *)

\* The loop comes to its next row, or ends.  Rows that expired are read
\* again; one that is gone, or has no token any more, raises.
RenewNext(r, excuses) ==
    \/ r.todo = {} /\ End(Scheduler) /\ excused' = excuses
    \/ \E c \in r.todo :
          \/ /\ r.expired => HasToken(c)
             /\ Set(Scheduler, [r EXCEPT
                       !.cust = c, !.todo = @ \ {c}, !.pc = "mint",
                       !.good = IF ~r.expired THEN @
                                ELSE {d \in Customers : Works(d)}])
             /\ excused' = excuses
          \/ /\ r.expired /\ ~HasToken(c)
             /\ End(Scheduler)
             /\ excused' = excuses \cup r.todo

\* Renewed more than RenewAfter days ago; on the day itself the hour decides.
Due(c) == HasToken(c) /\ row[c].since > RenewAfter
MayBeDue(c) == HasToken(c) /\ row[c].since >= RenewAfter

StartRenewal ==
    /\ job[Scheduler] = NULL /\ ~claimed
    /\ claimed' = TRUE
    /\ \E due \in SUBSET {c \in Customers : Due(c) \/ MayBeDue(c)} :
          /\ {c \in Customers : Due(c)} \subseteq due
          /\ \E c \in Customers :
                RenewNext([NewJob("renew", c, "mint") EXCEPT
                             !.todo = due, !.good = {d \in Customers : Works(d)}], excused)
    /\ UNCHANGED <<row, instance, faults, missed>>

\* Variant: a renewal that failed is stamped like one that did not.
StampFailed ==
    LET c == Cust(Scheduler) IN
    /\ At(Scheduler, "mint")
    /\ \/ /\ Answered(Scheduler)
          /\ Set(Scheduler, [job[Scheduler] EXCEPT !.pc = "verify"])
          /\ UNCHANGED <<row, excused>>
       \/ /\ Fails(Scheduler)
          /\ row' = IF row[c] = NULL THEN row ELSE [row EXCEPT ![c].since = 0]
          /\ RenewNext(job[Scheduler], excused \cup Struck(Scheduler))
    /\ UNCHANGED <<instance, claimed, missed>>

\* renew_token: it finds its user and makes a new token ...
MintToken ==
    /\ At(Scheduler, "mint")
    /\ \/ /\ Answered(Scheduler)
          /\ Set(Scheduler, [job[Scheduler] EXCEPT !.pc = "verify"])
          /\ UNCHANGED excused
       \/ /\ Fails(Scheduler)
          /\ RenewNext(job[Scheduler], excused \cup Struck(Scheduler))
    /\ UNCHANGED <<row, instance, claimed, missed>>

\* ... which it tries, and the row takes it; a row that is gone raises.  The
\* token before it is left to expire.
StoreRenewed ==
    LET c == Cust(Scheduler)
        r == job[Scheduler]
    IN
    /\ At(Scheduler, "verify")
    /\ \/ /\ Answered(Scheduler) /\ row[c] # NULL
          /\ row' = [row EXCEPT ![c] = NewToken]
          /\ RenewNext([r EXCEPT !.expired = TRUE], excused)
       \/ /\ Answered(Scheduler) /\ row[c] = NULL
          /\ End(Scheduler)
          /\ excused' = excused \cup r.todo
          /\ UNCHANGED row
       \/ /\ Fails(Scheduler)
          /\ RenewNext(r, excused \cup Struck(Scheduler))
          /\ UNCHANGED row
    /\ UNCHANGED <<instance, claimed, missed>>

-----------------------------------------------------------------------------
(* Deployment and removal, whose detail is in DeployLifecycle              *)

\* The containers and the data go: the first part of a removal, or the
\* rollback of a deployment.
Down(c) ==
    /\ instance[c] # NULL
    /\ instance' = [instance EXCEPT ![c] = NULL]
    /\ row' = IF HasToken(c) THEN [row EXCEPT ![c].token = "foreign"] ELSE row
    /\ job' = [j \in Jobs |-> IF job[j] = NULL THEN NULL
                              ELSE [job[j] EXCEPT !.good = @ \ {c}]]
    /\ UNCHANGED <<claimed, faults, excused, missed>>

\* The row goes, with or without the containers.
Remove(c) ==
    /\ row[c] # NULL
    /\ \/ instance[c] = NULL /\ UNCHANGED faults
       \/ instance[c] # NULL /\ faults < MaxFaults /\ faults' = faults + 1
    /\ row' = [row EXCEPT ![c] = NULL]
    /\ UNCHANGED <<instance, job, claimed, excused, missed>>

\* deploy_customer sets up a new instance; the token of the setup call goes
\* into the row, if there is one, else a row that was there keeps its token.
Up(c) ==
    /\ instance[c] = NULL
    /\ instance' = [instance EXCEPT ![c] = [pair |-> Disabled, others |-> 0]]
    /\ \/ row' = [row EXCEPT ![c] = NewToken]
       \/ row' = IF row[c] # NULL THEN row
                 ELSE [row EXCEPT ![c] = [token |-> "none", left |-> 0, since |-> 0]]
    /\ UNCHANGED <<job, claimed, faults, excused, missed>>

\* The customer changes settings in the dashboard.
Edit(c) ==
    /\ instance[c] # NULL /\ instance[c].others < MaxEdits
    /\ CustomersWait => \A j \in Jobs : ~(At(j, "put") /\ Cust(j) = c)
    /\ instance' = [instance EXCEPT ![c].others = @ + 1]
    /\ UNCHANGED <<row, job, claimed, faults, excused, missed>>

\* A day without the hour of the renewal is one on which another loop took it.
NewDay ==
    /\ \A j \in Jobs : job[j] = NULL
    /\ row' = [c \in Customers |->
                  IF HasToken(c)
                  THEN [row[c] EXCEPT !.left = IF @ = 0 THEN 0 ELSE @ - 1,
                                      !.since = IF @ = Life THEN Life ELSE @ + 1]
                  ELSE row[c]]
    /\ missed' = [c \in Customers |->
                     IF ~(Works(c) /\ Due(c)) THEN (IF Works(c) \/ ~HasToken(c) THEN 0 ELSE missed[c])
                     ELSE IF (c \in excused \/ ~claimed) /\ missed[c] < Life THEN missed[c] + 1
                     ELSE missed[c]]
    /\ claimed' = FALSE /\ faults' = 0 /\ excused' = {}
    /\ UNCHANGED <<instance, job>>

\* The process restarts, with an empty _last_token_renewal_date.
Restart ==
    /\ faults < MaxFaults /\ faults' = faults + 1
    /\ job' = [j \in Jobs |-> NULL]
    /\ claimed' = FALSE
    /\ UNCHANGED <<row, instance, excused, missed>>

JobStep(j) == GetSettings(j) \/ PutSettings(j) \/ VerifyPasted(j)

Next ==
    \/ \E j \in Requests : PushAll(j) \/ JobStep(j)
    \/ \E j \in Requests, c \in Customers : Push(j, c) \/ Paste(j, c)
    \/ StartRenewal \/ MintToken \/ StoreRenewed
    \/ \E c \in Customers : Down(c) \/ Remove(c) \/ Up(c) \/ Edit(c)
    \/ NewDay \/ Restart

Spec == Init /\ [][Next]_vars

-----------------------------------------------------------------------------
(* Properties *)

\* A token that the instance of the customer made expires in the row only if
\* its renewal failed, or did not run, on every day between the first on which
\* it was due and the last on which it worked: a row that raises, a customer
\* that fails or is replaced does not cost the others more than that day.
OnlyMissedTokensExpire ==
    \A c \in Customers :
        row[c] # NULL /\ row[c].token = "own" /\ row[c].left = 0 =>
            missed[c] >= Life - RenewAfter - 1

\* A token that is written to a row works at that moment, also when the
\* instance was replaced while the token was made or tried.
Written(c) == row'[c] # NULL /\ row'[c].since = 0 /\ row'[c] # row[c] /\ row'[c].token # "none"
StoredTokenWorks ==
    [][\A c \in Customers : Written(c) /\ ~(instance[c] # NULL /\ instance'[c] = NULL) =>
              Works(c)' /\ instance'[c] # NULL]_vars

\* When apply-all answers, every customer that had a working token at the
\* start and whose instance stayed has been pushed or was struck by a fault,
\* whatever the requests for the others came to.
EveryoneIsPushed ==
    [][\A j \in Requests :
          LET r == job[j] IN
          /\ r # NULL /\ r.kind = "pushAll" /\ job'[j] = NULL /\ faults' = faults
          /\ ~r.gone /\ \A c \in Customers : row[c] # NULL
          => r.good \subseteq r.pushed \cup r.struck \cup {r.cust}]_vars

\* An edit of the customer is never undone, unless it fell between the two
\* requests of a push.
EditsAreKept ==
    [][\A c \in Customers :
          instance[c] # NULL /\ instance'[c] # NULL => instance'[c].others >= instance[c].others]_vars

=============================================================================
