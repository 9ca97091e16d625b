# A TLA+ model of NetBirdMSP-Appliance

NetBirdMSP-Appliance runs one NetBird instance per customer of a managed
service provider. A FastAPI process keeps customers and deployments in sqlite,
renders an instance directory per customer, starts its containers with docker
compose, and makes a proxy host in Nginx Proxy Manager (NPM) and a record in a
Windows DNS zone. This directory holds TLA+ modules of the program, TLC
configurations that check them on small instances, and TLAPS proofs.

## 1. Inventory

| Part (source under `src/`) | State it keeps | Operations | Talks to | Hard behaviour | What makes it correct |
|---|---|---|---|---|---|
| Customer API (`app/routers/customers.py`) | rows of `customers` | create, update, delete; the first and last leave a background task | orchestration, in a session of its own | the task runs after the response, beside other requests | a delete removes the customer and all it had; a subdomain is used once |
| Deployment API (`app/routers/deployments.py`) | rows of `deployments` | deploy with or without data, start, stop, restart, health, image update, API token | orchestration, image service | no lock: two operations may overlap on one customer | statuses show what runs; kept data stays |
| Orchestration (`app/services/netbird_service.py`) | nothing of its own: locals of coroutines across awaits | deploy (11 steps and a rollback), undeploy, stop/start/restart, health | docker, NPM, DNS, ports, files, database | every await is an interleaving point and a point of failure; the row is written last; commits can fail | rollback and undeploy are complete, the datastore key fits, the containers of a customer shown active were started on its port |
| Docker stacks (`app/services/docker_service.py`) | containers (outside) | compose up, down, stop, start, restart, status by name filter | docker | half-made stacks, timeouts, a name filter that matches substrings | results are looked at |
| Port allocation (`app/services/port_manager.py`) | none; reads rows and probes the network | allocate | database, kernel | chosen early, recorded late | one port per customer |
| Templates (`templates/`) | files of an instance | rendered by deploy | compose, management server | rewritten under running containers | key and port agree with the database |
| NPM client (`app/services/npm_service.py`) | a login token cached for the process | create a host with its certificate, delete it, test; the first request of a call logs in again once | NPM | dead tokens, lost answers, a domain in use, certificates that are not issued | one host per domain, its id and no other recorded, its certificate kept |
| DNS client (`app/services/dns_service.py`) | DNS records (outside) | create (remove, then add), delete | WinRM | failure between the two | no leftover |
| Database (`app/database.py`, `app/models.py`) | all rows | sessions | sqlite | foreign keys and the unique port only bite at commit; a failed commit blocks the session; unchanged values are not written | rows reference each other |
| Scheduler (`app/services/scheduler_service.py`) | dates and times of the last runs, a process-wide task | poll every minute: token renewal, update check, automatic restart | images, client update, orchestration | loops over rows across awaits, which one deleted row can end; claims before success; minutes skipped | at most one run a day, and one every day; restarts spaced; deleted and stopped customers left alone; no token lost |
| Image updates (`app/services/image_service.py`, `update_log_service.py`) | images, container names, `update_run_logs` | pull, status, recreate containers, repair names | docker | interrupted recreation; runs beside deploy and delete | no customer lost on the way; the log says what happened |
| Client version push (`app/services/netbird_client_update_service.py`) | an API token per row; settings inside each instance | push to one customer or all, paste a token, renew tokens | NetBird API | read-modify-write over HTTP; instances replaced meanwhile; a loop over customers of which one fails | other settings stay; everyone is pushed; what is stored works; tokens do not run out |
| Self-update (`app/services/update_service.py`, `update.sh`) | a progress record in memory, backups, the checkout, image tags | check, trigger, read the progress | the git server, docker, a detached helper container | two triggers; the record dies with the process it describes; the process replaces itself; threads beside the event loop; tags that are stale | never without a backup, also when two updates overlap; the record settles; what the appliance lacks is offered |
| Monitoring API (`app/routers/monitoring.py`) | none | read; pull images and update all in the background | images | overlapping jobs | — |
| Settings (`app/routers/settings.py`, `app/utils/config.py`) | the one `system_config` row | read, write, test connections | everything | a setting changes between a deployment and its removal | removal finds what deployment made |
| Login and users (`app/routers/auth.py`, `users.py`, LDAP, `security.py`, `dependencies.py`) | users, MFA secrets, tokens | log in, MFA steps, user administration | LDAP | several steps with tokens between them; directory and local accounts | somebody can always log in and administer |
| Validation, web interface, installation, dependency checks | — | — | — | — | — |

How they meet: all handlers, background tasks and the scheduler run on **one
asyncio event loop**. Code between two `await`s is atomic with respect to the
rest of the program; awaited docker, NPM and DNS calls are where other tasks
run. Only the self-update works in threads beside the loop. There is no lock on
a customer anywhere. `PROJECT.json` lists every
component with its status, and the hazards with the lines where they bite.

## 2. Modules

| Module | What it is |
|---|---|
| `DeployLifecycle` | the life of a customer instance: requests, background tasks, docker, NPM, DNS, files, rows, faults and crashes, and the properties |
| `MCDeployLifecycle` | instances for TLC |
| `DeployLifecycle_proofs` | type correctness; the datastore key |
| `DeployLifecycleRows_proofs` | rows and customers; the stable port; the lemmas on ports for one deployment at a time |
| `DeployLifecycleOutside_proofs` | rows and the world outside: active customers are started, ports are unique, rollback and deletion leave nothing; the refinement of `CustomerContract`; redeployments keep the data |
| `CustomerContract` | what the API promises of a customer, and `DeployLifecycle` implements |
| `SelfUpdate` | the update of the appliance: request, thread, helper container, progress record, versions, backups |
| `MCSelfUpdate`, `SelfUpdate_proofs` | its instance and its theorems |
| `ImageUpdates` | updates of the NetBird images: the daily run, the buttons, recreation and repair of containers, the log |
| `MCImageUpdates`, `ImageUpdates_proofs` | its instances and its theorems |
| `NpmClient` | the calls of the NPM client, request by request |
| `ProxyContract` | what its callers rely on: one step somewhere between call and return |
| `MCNpmClient`, `NpmClient_proofs` | its instance, its theorems and the refinement |
| `AutoRestart` | `DeployLifecycle` together with the scheduler's automatic restart |
| `MCAutoRestart`, `AutoRestart_proofs` | its instances, its theorems and the refinement |
| `ClientSettings` | the API tokens of the instances, their renewal, and the settings pushed with them |
| `MCClientSettings`, `ClientSettings_proofs` | its instance and its theorems |

How they fit together. `AutoRestart` extends `DeployLifecycle`: the scheduler's
restart is one of its tasks, and the composed system implements
`DeployLifecycle`, so what is proved of it with overlapping requests holds beside
the scheduler. `CustomerContract` is what is left of `DeployLifecycle` for an operator who
sends one request at a time.
`NpmClient` is the inside of two steps of `DeployLifecycle`, `CreateProxyHost` and
`DeleteProxyHost`; `ProxyContract` says what these steps take for granted, and
`NpmClient` implements it. `ImageUpdates` and `ClientSettings` stand beside: each
has the deployment and the deletion of a customer as actions of a step or two, whose
detail is `DeployLifecycle`'s. `SelfUpdate` shares no state with the rest.

### DeployLifecycle

State, per customer:

* `customer` — `customers.status`, or `"absent"` without a row;
* `row` — the `deployments` row: port, whether it has an `npm_proxy_id`, status;
* `files` — the instance directory: port in `docker-compose.yml`, key in
  `management.json`, key the management database under `data/` was made with;
* `stack` — the compose project: the relay's port and whether it is `started`, that is, compose has
  started every container and none was stopped since. Whether they run, and are healthy, is up to
  them: `wait_for_healthy` asks for 90 s and its answer is only logged
  (`netbird_service.py:219-224`), so a customer whose containers exit at once becomes active as well.
  Docker restarts them (`unless-stopped`), so a started relay keeps its port;
* `npm`, `dns` — the proxy host and the record exist.

and `task`, the requests and background tasks in flight, each a record of the
coroutine's position (`pc`) and the locals it uses after an await:
`allocated_port`, whether `existing_deployment` was found, `npm_proxy_id`,
`instance_dir`, whether its session is unusable after a failed commit, what the
compose call returned, and which columns its commit will write. `hadData`, whether there was a
management database before a deployment, is a history that no step reads.

Actions follow the awaits. An awaited call is two steps: what the outside
system does (`pc = "up"`), and the loop resuming the coroutine (`"upped"`),
because other tasks run in between. Everything between two awaits is one step:

| Action | Code |
|---|---|
| `Create`, `ManualDeploy`, `Delete`, `UpdateCustomer` | the handlers, each a single step |
| `BeginDeploy` with `Prepare` | `deploy_customer` from its start to the first await: port, key, directory, files |
| `BreaksOff` (inside `Prepare`) | making the directory, rendering a file or committing a log row raises on the way (`"write"`, `"db"`); files may be half written (`HalfWritten`), and the `except` block comes next |
| `DownForRedeploy`, `ResumeAfterDown`, `UpSucceeds`, `UpFails` | `compose_down` of a redeploy, `compose_up` |
| `ResumeAfterUp` | health wait, whatever it finds, set-up call (both block the loop), the reread `npm_proxy_id` |
| `CreateProxyHost`, `ResumeAfterProxy`, `CreateDnsRecord`, `ResumeAfterDns` | steps 9 and 10 |
| `Record` (inside the resume steps) | step 11, with the unique-port conflict |
| `RollbackDown`, `RollbackFiles` | the `except` block |
| `BeginUndeploy` … `FinishUndeploy`, `DeleteWithoutRow` | `undeploy_customer`, and what its caller does next without an await |
| `Control`, `ComposeControl`, `ResumeControl` | stop, start, restart |
| `RefusedBegin` … `RefusedControl` (`Refused`) | a commit that sqlite refuses for reasons of its own, a full disk, say (`"db"`), at each commit of a task; that of a request handler is answered 500 and changes nothing |
| `CheckHealth` | `get_customer_health`, which may find started containers that do not run |
| `Crash` | the process dies; nothing resumes the tasks; with the fault `"torn"` it may leave a directory half written (`FilesAfterCrash`) |

What sqlalchemy and sqlite do is part of the steps, because the code relies on
it: a row that another task deleted raises when it is read after a commit; a log
row for a customer that is gone fails its foreign key; after a failed commit
the session refuses everything until it is rolled back, which nobody does (so
`customer.status = "error"` of the rollback is lost); a column is written only
if its value differs from the one loaded; the unique relay port fails the
commit of the second row.

Abstractions:

* A customer is identified with its subdomain. sqlite gives the id of the last
  row again after its deletion, and the same subdomain gets the same directory,
  project and domain, so a task of the deleted customer meets the new one, as
  it may in the code. A row that was deleted and inserted again is taken as
  the same row.
* The proxy host is a Boolean: its id only matters as set or not set. The relay
  secret is written and never read back. The dashboard port is the base port
  plus the customer's id, so it never collides.
* Settings are constants of a run: `LocalMode` (the base domain is a test
  domain, no proxy hosts), `DnsConfigured`, the port range. `init_db` always
  makes the configuration row, so `if not config` never happens.
* `ProbeSeesHost` says whether the port probe shares the host's network. The
  repository's compose file puts the appliance on a bridge network, so the
  runs use `FALSE`.
* `Prefixed` says which customers' containers docker's substring filter returns.
* `stop` and `restart` of a project without containers are taken as successful,
  `start` as failing, which is what compose does.
* `Overlap = FALSE` restricts the model to operators who wait for one operation
  on a customer to end before the next. The program does not enforce it; runs
  and theorems that use it say so.
* `Faults` is the set of outside faults a run allows (see the module).

### CustomerContract

State, per customer: the `status` the API shows, its `port`, the `request` being worked
on, and the `shape` of what is on the host (nothing, started, halted, stripped by a failed
redeployment, changing). A request is accepted, works, and ends in one of a few outcomes:
`Deployed`, `Failed`, `Deleted`, `Switched`. There are no containers, files, hosts,
records or awaits in it.

`DeployLifecycle` maps its variables by `RequestOf`, `PortOf` and `ShapeOf`. The last is
`"broken"`, no shape of the contract, wherever row, files, containers, proxy host and record do not
agree; while a deployment or a removal works it is `"changing"`. So the mapping says after each request that they agree,
and the outcomes say which status goes with which shape.

The promise is made for one task at a time, docker that takes containers down, starts and stops them, NPM and DNS
that delete what they are told to, no crash, no refused commit and no status written by hand. Compose up, NPM and DNS may refuse to
create anything, files may fail to be written, and the ports may run out. "Started" promises what compose
reported, not that the containers run: the code does not promise more.

### SelfUpdate

State: `status`, the module variable `_update_status`; `thread`, the update
threads; the repository (`branch` with its last commit and tag, `newest`, the
newest tag of any branch); `source`, the checkout in `/app-source`, and `fetched`, the last tag of the
branch that git knows there; `image` and
`running`, the image tagged latest and the one that runs, each with the code in
it and the version baked in; `helper`; and the database as the number of
commits made (`db`), checkpointed (`main`) and in the backup.

| Action | Code |
|---|---|
| `Trigger`, `Start` | the request (`settings.py:357`) that tests the record, and the thread that sets it |
| `BackUp`, `Pull`, `StartBuild`, `Build`, `Launch` | the steps of `trigger_update`, each ending in the next or in `Fail` |
| `FetchTags`, `ReadCommit`, `ReadTag` | `git fetch --tags`, whose failure nobody looks at, `git rev-parse` and `git describe`, which finds the last tag *that was fetched* |
| `Swap` | the helper container recreates the appliance's container: a new process, an empty record |
| `Restart` | docker restarts the container; threads and record are gone |
| `Push`, `TagElsewhere`, `Commit`, `Checkpoint` | git server and sqlite, external |

A version is a commit and a tag, each unknown (`0`) when git does not tell.
`NeedsUpdate` is the comparison of `check_for_updates`: tags where both are
known, else commits.

The record says running only once the thread has set it, so a second request that comes before is accepted too
(`settings.py:389`), and so is one after a restart of the process. The threads then share
checkout, image tag and helper; the model has two of them.

### ImageUpdates

State: per service the version on Docker Hub (`hub`) and the pulled one
(`local`); `customer` (deployed, deleting between compose down and the removal
of the directory, absent); `box[c][s]`, the containers of a service under its
name (`named`) and under the hash-prefixed name compose gives to the one it
replaces (`orphan`); `job`, the coroutines; the last `log` entry's status; and
the schedule: `clock` relative to the configured minute, `lastRun`, and `runs`
started today, which the program does not keep.

| Action | Code |
|---|---|
| `Tick` | `_tick`, with its claim of the day |
| `Click` | the requests that pull, update all customers, update one |
| `CheckImage`, `Checked`, `PullImage`, `Pulled` | `check_all_images`, `pull_all_images`: a gather, one service at a time in any order |
| `List`, `ListRaises` | the loop without an await over all deployments, repairing names on the way |
| `NextCustomer`, `RepairCustomer`, `RepairRaises`, `StartCompose`, `Composed` | `update_customer_containers` and the loops around it |
| `Recreate`, `Hang` | docker compose at one service (rename, create, remove: three steps), and the 300 s timeout that kills it |
| `Record` | `record_run` |
| `LoadPage` | the dashboard's status query, which repairs |
| `Deploy`, `Down`, `Remove` | `deploy_customer` and `undeploy_customer`, coarsely |
| `Release`, `Elapse`, `MoveCheckTime`, `Crash` | surroundings |

Abstractions: an image is its version, a number, and newer means greater.
Repairing a customer is one step, over all its services; the program asks
docker service by service. Compose recreates a container only if its image is
not the pulled one. The short caching of a page's status is left out. The
customers of a run are taken in any order. The requests and the nightly loop
run the same job with another `kind`; a pulled image is never removed.

### NpmClient and ProxyContract

State: per domain the proxy host NPM has (`host`: its id and whether it serves
HTTPS) and the id in the deployments row (`known`); the domains NPM has a
certificate for (`issued`); the cached token (`cache`: whether its time is up and whether NPM
still takes it, which the program does not know); and the calls in flight, each
with its operation, the request it has sent, the answer, and the locals
`proxy_id` and `certificate_id`.

A request is two steps, NPM's and the call's, so calls interleave at every
request:

| Action | Code |
|---|---|
| `StartCreate`, `StartDelete`, `StartTest` | `create_proxy_host`, `delete_proxy_host`, `test_npm_connection` up to the first request: the cached token, or a login |
| `ResumeLogin`, `Reauthenticate` | `_get_token`, and the one retry of `_request_with_reauth` |
| `ResumePost`, `ResumeFind`, `ResumeShow`, `ResumePut` | `create_proxy_host`, also with the domain in use |
| `ResumeInspect`, `ResumeCertificates`, `ResumeReassign`, `ResumeCertify`, `ResumeAssign` | `_request_ssl` and its helpers, for each `ssl_mode` |
| `ResumeLast` | the end of a delete or a test |
| `Login`, `PostHost`, … `RemoveHost`, `Rejected`, `DropTokens` | NPM, external: it acts and answers, acts and the answer is lost, or rejects, refuses or never sees the request |
| `CacheExpires`, `Crash` | time, and the process |

Only the first request of a call is repeated with a new token; a later one that
is rejected fails the call. That is the code's rule, and so a rejection there
counts as a fault (`hit`). `hit` is kept by no variable of the program.

Abstractions: a host's certificate and `ssl_forced` change together and are one
Boolean. NPM never gives an id again and has one host per domain. `MaxIds` must
leave an unused id in each state. Streams and dead code are left out.
`Exclusive` says that no two calls for one domain are in flight, which is
`Overlap = FALSE` of `DeployLifecycle`.

### AutoRestart

State beside that of `DeployLifecycle`: `tick`, the tick in progress (the
customer it asks, the rows it has still to come to, which of them were due when
it loaded them, and whether the rows have expired since); `cooling`, the rows whose
`last_auto_restart_at` is recent; `spared`, the customers that a cooldown should protect,
which no variable of the program keeps.

| Action | Code |
|---|---|
| `Wake` | `_auto_restart_tick` loads all rows |
| `Answers` | the dashboard answers; on to the next row that is due |
| `RestartUnreachable` | it does not: the log entry, whose commit expires every row, and `restart_customer` up to its compose call |
| `RestartCompose`, `RestartDone` | the compose call; the statuses, and the stamp whatever came of it |
| `CooldownPasses` | `auto_restart_cooldown_minutes` of the configuration, or 30 (`scheduler_service.py:242`), measured between the starts of ticks |
| `SystemRequest`, `SystemStep`, `Loaded`, `SystemCrash` | the steps of `DeployLifecycle`, with the stamp going with its row |

sqlalchemy reads a row again when it is used after a commit. Until the first
restart of a tick its rows are those it loaded; after it each is read when its
turn comes, and one that is gone raises and ends the tick (`Advance`).

Abstractions: the rows are taken in any order. `setup_url` is always set for a
row with a status the tick looks at, so the fallback to the container's address never
happens. A row deleted and inserted again while a tick holds it is taken as the same row.
`Overlap` is `TRUE`, because the scheduler asks nobody; `Alone` restricts the
requests among themselves to operators who wait. With NPM in front, a dead instance is
answered for by NPM's 502, so a restart only comes with `LocalMode` or when NPM
itself is silent; the runs use `LocalMode`. The commits of a tick succeed, and so do those of the tasks
beside it (`PollerAssumption` excludes `"db"`). A crash during a restart, before the stamp,
forfeits what `spared` promises.

### ClientSettings

State: per customer the `row` (the token, and the days since its renewal and to its expiry) and
the `instance` that runs (the pair of settings the appliance pushes, and a count of the
edits to the others); `job`, requests and the renewal in flight; `claimed`,
`_last_token_renewal_date`; and `excused` and `missed`, on which day a fault prevented a renewal,
which no variable keeps. A token is `own` if the instance that runs made it,
`foreign` if one before it did.

| Action | Code |
|---|---|
| `Push`, `PushAll`, `PushNext` | `set_customer_netbird_updates`; `apply_netbird_client_updates_to_all` and its loop |
| `GetSettings`, `PutSettings` | `push_auto_update_settings`: the whole object read, changed and written back |
| `Paste`, `VerifyPasted` | `set_customer_netbird_api_token` |
| `StartRenewal`, `RenewNext`, `MintToken`, `StoreRenewed` | `_token_renewal_tick` and `renew_token` |
| `Down`, `Remove`, `Up` | deployment, rollback and removal, coarsely; `Up` with the token of the set-up call |
| `Edit`, `NewDay`, `Restart` | the customer in its dashboard, time, the process |

A request and what the program does with the answer, up to the next request, are one step: a deployment
needs many awaits from one end to the other, an answer is picked up at
the next turn of the loop. Instances are still replaced between any two requests of a job. A day is a
step, and no job outlasts it. The day of a renewal has an hour, so on the day itself the age
may or may not be past the limit (`MayBeDue`).

`CustomersWait` says that the customer edits nothing between the two requests of a
push. The program cannot see to that (see the limits).

## 3. Runs

Deadlock is checked in each. The bounds are in the guards, but for one constraint:
`auto_restart` checks the states in which a crash has left half a deployment or half a
removal and does not explore them further (`NothingHalfDone`; `overlap` does).

| Run | Instance | Shows |
|---|---|---|
| `serial_faults` | 3 customers, 1 task, 2 ports, NPM and DNS; writing files, compose up, NPM creation and DNS creation may fail | `TypeOK`; a deleted customer leaves nothing; the rollback of a first deployment takes everything back, also when no port is left; the API keeps what `CustomerContract` promises (`KeepsPromise`) |
| `parallel_customers` | 2 customers, 2 tasks in parallel (not on one customer), 2 ports, local mode; writing files, up and down may fail | an active customer was started on its port; no two customers hold one port, and no port moves, also when both tasks picked the same |
| `overlap` | 1 customer, 2 tasks that overlap, with NPM, without DNS; every fault of files, sqlite, compose and NPM but half-removed and torn directories, crashes, the status error written by hand | the key fits the data; no row without a customer |
| `liveness_faults` | 1 customer, DNS, local mode, one operator and the automatic restart; writing and removing files, every compose call and the removal of the record may fail | deploying ends, and somebody works on it as long as it shows; an accepted delete completes, and is not given up; a customer whose containers are down is restarted |
| `auto_restart` | 2 customers, one operator and a tick, failing compose calls, crashes | a restart never brings back what a deletion took down; a cooldown lies between two restarts of a customer |
| `npm_client` | 1 domain, 2 calls (one may be a test), 5 ids, every fault, all SSL modes | a recorded id is the host's; an undisturbed call does its work; a host found in use keeps its certificate; a call makes twelve requests at most (`CallsAreBounded`: the measure `RequestsLeft` falls with each); the client implements `ProxyContract`, where every call returns |
| `client_settings` | 2 customers, 1 request and the renewal, a token lives 4 days and is renewed after 1, 1 fault a day, 1 edit per instance | a token only runs out after a failure on each day it was due; what is stored works; a push to all reaches everyone it can; an edit outside a push stays |
| `self_update` | 2 threads that may overlap, 1 push, 1 commit; backup, pull, the fetch of tags, reading the version, build and the start of the helper may fail, restarts at any time | the helper waits only with a backup (`SwapHasBackup`); a tag of the branch that the running code lacks is offered, whatever of its own version the appliance knows (`NewsIsOffered`); a started update settles |
| `image_updates` | 1 customer with 2 services, the poller and one manual job, 2 versions, up to 2 faults or interventions; deletion overlaps | no service loses its container; one run a day; an entry that says success is true |
| `image_backlog` | the same with 1 service, fair | what is released is pulled; what is pulled reaches the customers, also when Docker Hub has nothing new; both unless days are missed for ever |

Bounds. Each property speaks of at most two customers, and two suffice for
everything that relates customers (ports, name filters); three are used where
they compete for two ports. Two tasks are enough for one to act between
any two steps of another, and so are two jobs and two update threads. Two keys tell an old from
a new one. Two versions of an image are enough for a container to be outdated
and for a replacement to be newer. Two services let compose be stopped
between them. `MaxTroubles` bounds faults, clicks, page loads, redeployments and
moved check times together; two let a run be interrupted and repaired, or be
hit twice. `DeployLifecycle` has no such bound. In `overlap` the DNS calls, which touch nothing that its
properties speak of, are left out; the other awaits stay. Symmetry (tasks, keys, customers,
services) is used only in runs without liveness properties. `NpmClient` is
checked with one domain because domains share only the token, which another call may drop or
renew whatever its domain; five ids leave an unused one in each state of two calls. In
`client_settings` four days of life and renewal after one leave two days on
which a token is due and still works, so a renewal that fails once gets
another try; two customers let one fail or be removed in a loop over both.
`MaxFaults` is renewed every day, so a fault may strike on each.

Fairness. `FairSpec` of each module is weak fairness of each task's, thread's or
job's next step: the event loop runs whatever is ready, and every awaited call
and every command ends, by answer or by timeout (`_run_cmd`, httpx, WinRM,
`subprocess.run(timeout=...)`). In `SelfUpdate` the helper acts too, after its
three seconds. In `ImageUpdates` the clock goes on, the poller looks at it
(`Tick`), though not always in the configured minute, and an accepted delete ends. In `NpmClient` NPM's part is fair with the call's, since each
request has a timeout, which is one of the answers. In `AutoRestart` the tick is fair,
because the poll loop comes round every minute, and the end of a cooldown is strongly fair: it is noticed only
between two ticks, and the loop sleeps between ticks. Nothing is assumed of requests, pushes
or releases. `liveness_faults` has no crashes, because nothing resumes
a task after one; the liveness runs of the other modules have.
`ClientSettings` has no liveness property: that tokens last is stated in days, as safety.

Refinement. `npm_client` checks `MeetsContract`, that is
`ProxyContract` with its fairness, under the mapping that forgets
requests and tokens and keeps whether a host exists and whether its id is recorded. `serial_faults`
checks `KeepsPromise`, that is `CustomerContract` under the mapping above; it states no liveness, which `liveness_faults` does for
`DeployLifecycle` itself. That
`AutoRestart` implements `DeployLifecycle` is proved, not run.

Each property of a passing run has a mutant: an operator of the module, marked
`Variant:`, which states a plausible mistake at one place of the code. With it
in place of the original the run reports the property violated.

### Where the code and its text differ

| Run | The text | What happens |
|---|---|---|
| `keep_data_lost` | keep_data "preserve[s] existing NetBird data" | a customer is created and works; a redeploy finds its database (`hadData`), compose up fails, and the rollback removes the directory with it |
| `stopped_restarted` | restarts are "skipped for deployments that aren't running/failed (e.g. intentionally stopped …)" | a customer stopped while the tick asks its dashboard does not answer for that reason, and is started |

### Limits

What the model allows and the program does not prevent. Where a constant or a
fault is named, the passing runs exclude it, and TLC finds the property named
with it violated as soon as it is allowed.

* **An active customer whose containers do not run.** If the containers are not healthy after 90 s, that is logged and
  the deployment goes on to `active` and `running` (`netbird_service.py:219-224`, `376`). `ActiveIsStarted` therefore says
  "started", no more; the health check or the automatic restart notice later.
* **A proxy host that stays** (`"npmDelete"`, `"npmLost"`). `undeploy_customer`
  does not look at the result of `delete_proxy_host`
  (`netbird_service.py:438`) and deletes the row that has its id
  (`DeletedLeavesNothing`).
* **A rollback that leaves proxy host and record** (two tasks with one port).
  The `except` block removes containers and files only; if the last commit
  fails, the proxy host and the record it made stay (`RollbackIsComplete`;
  `netbird_service.py:384`, against "comprehensive rollback" in line 18).
* **The probe sees nothing** (`ProbeSeesHost`). The appliance's compose file puts
  it on a bridge network, where ports bound by other containers do not show,
  so the probe of `port_manager.py:30` adds nothing. The runs use `FALSE`.
* **A lost key** (`"rmtree"`, or `"crash"` with `"torn"`). If `management.json` is
  removed and `data/` is left, the next deployment generates a key the database was not encrypted with
  (`netbird_service.py:89`, against lines 84-86).
* **A status that is not written.** `start_customer` assigns the statuses it
  loaded before the await; sqlalchemy writes only what changed, so a status
  another request set meanwhile stays (`netbird_service.py:505`).
* **Deploying for ever** (`"crash"`, `"db"`; two tasks with one port). A
  failed commit makes the session refuse the status `error`, a death leaves no
  one to write it; `DeployingEnds` then fails. Deploying again helps.
* **An update that stays running** (`"raise"`, `"swap"`). An exception other
  than a timeout of the build ends the thread without a word
  (`update_service.py:384-400`), and the result of the helper is not looked at.
  The record says running and every later request is answered 409 until the
  appliance is restarted (`UpdateSettles`).
* **A failure that is none** (`"launch"`). A start of the helper that times out is shown as
  failed and may update the appliance all the same.
* **Two updates.** Two requests before the first thread has started are both accepted
  (`settings.py:389`); their threads share the checkout, and each backs up and builds. What is built
  may be newer than the version baked into it. `SwapHasBackup` and `NewsIsOffered` hold all the same.
* **A phantom offer.** The appliance may offer what it runs: if `git fetch --tags` failed, which nobody looks at
  (`update_service.py:320-327`), `git describe` finds an older tag and that is baked in; if git could not be asked, the
  version is unknown (`"version"`); and `tags?limit=1` asks the whole repository, so a tag on another branch
  is offered and updating does not install it. `NewsIsOffered` is the direction that holds: nothing new is hidden.
* **A missed check.** The loop sleeps 60 s and then works, so the
  configured minute can pass between two looks, and the check waits for the next day. `NewsArrives` and
  `BacklogClears` say that it comes in the end, unless days are missed for ever (`Missed`).
* **Containers of a deleted customer** (`Overlap`). An image update between
  compose down and the removal of the directory brings them back
  (`DeletedIsGone`; `image_service.py:379-402`). `ServiceKept`, `LogHonest` and
  the liveness properties hold with `Overlap = TRUE` and are run so.
* **A stopped customer** that is updated is started, since `compose up` starts
  what it finds.
* **No answer is no update.** If Docker Hub does not answer, the run is logged as
  `no_update` (`image_service.py:225`), like one that found nothing.
* **Names that nest.** The repair's filter matches substrings; a neighbour's container
  is renamed if one subdomain ends with another and the name is
  free. `ImageUpdates` gives each customer its own boxes. The health check has the same filter
  (`docker_service.py:205`): with `Prefixed <- SharedPrefix` the containers of `acme2` make
  `acme` active (`ActiveIsStarted`).
* **Deleting after a crash** (`"crash"`). The row is written last. If the process dies before,
  `undeploy_customer` finds no row and does nothing, and containers, proxy host and data stay
  (`DeletedLeavesNothing`; `netbird_service.py:425`, against "All containers, data, and NPM
  entries are removed").
* **One port twice** (two tasks). Two deployments in flight read the same table and may take the same
  port (`port_manager.py:71`); the second compose up or the second commit fails. `OnePortPerCustomer` says that rows and
  compose files are unique once both have ended; a proxy host and a record that the second one made stay, and its
  customer goes on to say deploying (see above).
* **Redeployments that lose the data** (`"write"`, `"db"`, `"up"`, `"down"`, `"crash"`, or two tasks). Whatever fails once
  `instance_dir` is set, a template or a log row included (`netbird_service.py:163-203`), ends in the rollback, which removes
  the data of a redeployment too; `keep_data_lost` shows the case of compose up.
* **A backup without the log.** The database is in WAL mode and only its main file is copied:
  commits not yet checkpointed are not in the backup (`BackupIsComplete`; `update_service.py:243`).
* **A stopped customer that runs.** The automatic restart that meets a stop starts the
  customer (`stopped_restarted`). If it loaded its row before the stop was written, sqlalchemy has nothing to write
  at its end and the row goes on to say stopped.
* **A restart during a redeployment.** The automatic restart does not ask whether anybody works on a
  customer. One that ends after the rollback writes the status active for a customer that has just lost its containers.
* **A tick that ends early.** A row deleted while the tick or the renewal holds it raises and
  ends the loop for the customers behind it, until the next minute or day. `UnservedIsRestarted` and
  `OnlyMissedTokensExpire` say what is left.
* **A restart without a stamp** (`"crash"`). A process that dies between a restart and its
  stamp restarts the customer again when it is back.
* **A 502 is an answer.** With NPM in front, a dead instance answers with NPM's error page
  and is not restarted; `check_dashboard_reachable` only asks whether anything answers.
* **A certificate lost** (`npm_service.py:379`). If reading a host found in use fails with an
  answer, it is updated with certificate 0. `HttpsStays` excepts calls with a failed request.
* **No certificate, and none later.** If the certificate is not issued, the log tells the operator to
  redeploy; a redeployment with data reuses the proxy host and asks for none.
* **An old token for a deletion.** The docstring of `delete_proxy_host` says "fresh JWT" (`npm_service.py:686`); it takes
  the cached one, with the same retry as the other calls.
* **An edit between two requests** (`CustomersWait = FALSE`). The push writes back the whole
  settings object it has read (`netbird_client_update_service.py:106`); what the customer changed in between is
  undone (`EditsAreKept`).
* **A push to all that ends with an error.** A customer deleted while the loop works raises; those
  behind it are not pushed and nothing is reported (`monitoring.py:277`). `EveryoneIsPushed` excludes it.
* **Pasted tokens.** A token pasted by hand is taken to live 365 days; one that
  lives shorter is not renewed in time.
* **A token of an instance that is gone.** If the set-up call of a redeployment without data
  fails, the row keeps the token of the instance before (`netbird_service.py:352`); pushes and renewals then
  fail until one is pasted.
* **One loop.** `wait_for_healthy` and the set-up call sleep on the event loop
  (`netbird_service.py:219`), so every other request waits up to minutes. They are one step here.

## 4. Proofs

`tlapm` checks these for all values of the constants that satisfy the modules'
assumptions: any number of customers, tasks, ports, threads, services, jobs and versions.

DeployLifecycle:

* **TypeCorrect**, `Spec => []TypeOK`. The inductive invariant adds `PortKnown`:
  a task beyond the allocation, in one of the positions whose step writes the
  port into the row, has a port. Without it `Record` could write `NULL`.
* **KeyAlwaysFits**, `Spec => []KeyFitsData` when neither `rmtree` nor a crash
  tears a directory (`"rmtree"` and `"torn"` are not in `Faults`), for any overlap
  and any other fault. `KeyFitsData` alone is not inductive: `KeyInv` adds that data
  never stands without a key and compose file, which is why a key is only
  generated where there is no database. The assumption is needed (see the lost
  key above).
* **RowAlwaysHasCustomer**, `Spec => []RowHasCustomer`, with no assumption on
  faults or overlap. The invariant is inductive with the types: each step that
  writes a row checks the customer in the same step, each step that removes a
  customer has no row or removes it too.
* **PortNeverMoves**, `Spec => PortIsStable` when operations on a customer do not
  overlap, for any faults, customers and tasks. `PortInv` is needed because
  the port a redeploy writes at its end is the one it read at its start: no two
  tasks work on one customer (`OneTaskEach`), and a task that saw a row has
  that row's port until it ends (`RowKnown`).
* **ActiveIsAlwaysStarted**, `Spec => []ActiveIsStarted`, for any number of tasks on different customers,
  with compose up and down, NPM, DNS and the writing of files failing as they like and containers that are healthy or not. Assumed: operations on one
  customer do not overlap, names do not nest, no status is written by hand, docker does what start, stop and restart
  ask for, no directory is left half removed, no commit is refused but for a port that is taken, no crash. `Sound` says of each customer that the row, the files, the containers and the two statuses
  agree (`Rests`), or which of them the task working on it has changed so far (`Works`); a stop, start or restart
  knows before its await which statuses it will write, hence `WillWrite` and `Writes`. `UpDiffer`, no two started
  relays on one port, is what lets compose up fail by itself, so that a port taken twice ends in a failed
  commit or a failed start and never in a customer called active.
* **PortsAreUnique**, `Spec => []OnePortPerCustomer`, under the same assumptions, so also while any number of deployments pick the
  same port at the same time. It follows from the same invariant: the rows differ (`RowsDiffer`), because the commit of a
  second one fails, and the directory of a customer at rest has its row's port or is gone (`FilesAgree`), because the
  rollback of the loser removes its own. For one deployment at a time there is the lemma `UniqueStep`
  (under `SolePort`, only one task ever allocates a port), which needs no assumption but that of the commits and is what the theorems below rest on.
* **RollbackAlwaysComplete** and **DeletedAlwaysLeavesNothing**, with one task at a time, where compose
  down and the removals succeed, no commit is refused and the process does not die; the writing of files, compose up, the proxy host, the record, start and restart
  may fail. One invariant, `NeatInv`: a customer at rest without a row has nothing outside, the row knows of the
  proxy host if there is one, and there is no directory without a compose file (`Tidy`). While a task runs, what is there is what its own rollback will
  look for (`TidyDeploy`), or what the removal has still to come to (`TidyUndeploy`).
* **PromiseIsKept**, `Spec => KeepsPromise`: `DeployLifecycle` implements `CustomerContract`, where the writing of files, compose up, NPM's creation and the
  record's may fail. `PromiseInv` joins what
  the three theorems before it need (`Sound`, `Tidy`) and that rows have customers, and adds `Aims`: a first deployment and
  one that follows a removal have no row yet, so that only a redeployment leaves a customer stripped, and a stop, start or restart only fails for
  want of a compose file. There is one lemma per action; most show nothing, because the shape of a
  customer being deployed or removed stays `"changing"` and that of the others only depends on what is
  theirs.

No assumption of these five is there for the proof's convenience, those of `PortsAreUnique` excepted: with any one of them
dropped, TLC finds the property violated on two customers (`serial_faults` or `parallel_customers` with the fault, the second
task or the switch added). `PortsAreUnique` is violated with `"rmtree"` and with `"crash"`; what it assumes of commits, control,
names and manual statuses comes with the invariant, and dropping one of these TLC finds no violation on two
customers. With one task, `Overlap` makes no difference.

* **RedeploymentsKeepData**, `Spec => KeepDataSurvives`: a redeployment with data keeps the data that was there when it
  began (`hadData`), with one task at a time, for any faults but `"write"`, `"db"`, `"up"`, `"down"` and `"crash"`. The
  property is the one that `keep_data_lost` refutes with `"up"`; the theorem says which other ways there are to lose the data, and that there are
  no more. Each assumption is needed: what cannot be written or committed ends in the rollback, and with two tasks both
  may take one port, and the second compose up fails. The
  invariant `DataInv` does not rest on those above, because names may nest and removals fail here. Containers are on the port of their
  directory and of their row (`Placed`), and those without a row belong to the first deployment that has just started
  them (`Housed`). So the port is free when compose up comes to it (`UpPortIsFree`), the commit succeeds, and a deployment
  is only rolled back before it has made a file (`Safe`). It allows any number of restarts beside the one task that
  deploys or removes (`SoleWorker`).

SelfUpdate:

* **TypeCorrect**, `Spec => []TypeOK`.
* **NoSwapWithoutBackup**, `Spec => []SwapHasBackup`, with no assumption: also
  when updates overlap. A thread beyond its backup implies one, and the only step that takes
  the backup's mark away starts a new process, which has no threads and no helper.
* **NewsIsAlwaysOffered**, `Spec => []NewsIsOffered`, with no assumption on faults, on threads or on how they overlap. The reason
  is one order kept from stage to stage: a version that was read, or baked in, has a commit and a tag no newer than those of its code (`Labels`), and the code is a state the branch
  has been in (`Precedes`), whether the tags were fetched or not, and whichever thread has pulled since. `HistoryInv` says so of checkout, thread, image
  and container. So the tag that the running image names is not past the one it has, and a newer tag on the
  branch differs from it (`HistoryIsOffered`); an image that knows no tag is compared by its commit.

ImageUpdates:

* **UpdatesTypeCorrect**, `Spec => []TypeOK`, with `CurrentKnown`: a job that works
  on a customer has one.
* **OneRunADay**, `Spec => []OneRunPerDay`. `RunIsClaimed` adds that a run of today
  is claimed.
* **NoServiceLost**, `Spec => []ServiceKept`, with no assumption on faults or
  overlap. The danger is compose's last step, which removes the container it
  renamed: another call, a repair or a timeout in between could have made it the last one. `IInv` says why not:
  no container is newer than its pulled image, nor that newer than Docker
  Hub's (`Contained`, `Pulls`), and what a compose call is about to remove
  is older than what stands in its place (`HeldOlder`), so a container with that version
  under the hash-prefixed name is not alone. `QuietStep` disposes of every step that
  only repairs names and starts no compose call; `OutcomeSafe` is the case
  analysis of compose at one service.
* **LogIsHonest**, `Spec => []LogHonest`, with no assumption on faults or overlap. A customer counted
  early in a run must still be up to date when the entry is written, however many jobs have been at its containers since.
  `Lasts` is the reason, proved of every step: as long as a customer is deployed no step takes the newest container of a service
  away, for which the one under the hash-prefixed name must never be the newer (`Ordered`). `Honest` says what a job has established: it wants no more than was pulled, who it has counted has that, and
  so has each service that the compose call under way has already created.

NpmClient:

* **TypeCorrect**, `Spec => []TypeOK`, and **CallsEnd**, `Spec => CallsAreBounded`, for any domains, calls and ids, also
  when calls for one domain overlap. `RequestOrder` is the reason for the second: in each operation a
  request comes later in one fixed order than the one before, and the retry after a rejected token, which
  goes back to a login, happens once (`Forward`).
* **KnownIdsAreRight** (`[]KnownIsRight`), **CallsSucceed**, **CertificatesStay**
  (`HttpsStays`) and **ImplementsContract** (`Spec => Contract!Spec`), under `Exclusive`: two calls for a domain could remove
  the host under each other's feet. They follow
  from one invariant. `Good` says of a call what its steps have established so far: it
  makes only the requests of its operation (`RightRequest`), knows of no id
  or the recorded one when it begins (`JobFits`), has the host's id from the answer on
  that contains it (`HostKnown`), meets only the answers an unhurt NPM gives as long as no
  fault struck it (`Undisturbed`), and has taken over the certificate before it writes the
  host back (`CertificateKept`). Because another call never works on the domain (`OneCallEach`), each fact
  survives the steps of the others.

AutoRestart:

* **ImplementsLifecycle**, `SystemSpec => Spec`: each step of the system is a step of
  `DeployLifecycle` or none. **SystemTypeCorrect** and **RestartsKeepRows** (`[]RowHasCustomer`) follow from
  the theorems there, and so does **RestartsKeepKeys** (`[]KeyFitsData`, where no directory is torn).
* **RestartsKeepData**, `KeepDataSurvives` with one request at a time and without `"write"`, `"up"`, `"down"` and `"crash"`: a restart makes no containers and moves none.
* **RestartsAlwaysSpaced**, `SystemSpec => RestartsAreSpaced`, for any faults, crashes and requests.
  The stamp is only written after the restart. In between, the tick
  itself is the reason that the customer is not restarted again: it has left the customer behind
  (`NotAgain`), the rows it loaded and has not come to were due (`DueIsSpared`), and who is spared is stamped or being
  restarted (`Stamped`). A removed row takes its stamp along (`HasRow`).
* **DeletedAlwaysStaysDeleted**, `SystemSpec => DeletedStaysDeleted`, for any customers, faults and crashes, with requests
  that do not meet on one customer (`Alone`, or one operator). `LoneInv`: a customer has one request's task at most (`OneEach`), is
  there as long as it has one (`Attended`), and a task is where its operation can get to (`Roles`), so that beside a removal there is no task that
  gets to compose up. What a restart would start is gone when compose down has returned, also if it
  began before. With overlapping requests it is false.
* **DeployingIsAlwaysWorkedOn** (`[]DeployingIsWorkedOn`) and **DeleteNeverGivenUp** (`DeleteIsNotGivenUp`), with one
  request at a time, no crash and no commit refused but for a port or a row, for any other fault and any overlap with restarts. `WorkInv`: a request's task has its session
  in order and its customer present, an undeployment has its row until it removes it, and the port a commit will write is in no other row; so
  neither the last commit nor that of the rollback is refused. A restart may write a status over that of
  a deployment, but never `"deploying"`.

ClientSettings:

* **TypeCorrect**, `Spec => []TypeOK`.
* **TokensLast**, `[]OnlyMissedTokensExpire`, for any life and renewal age. The invariant `TokenInv`:
  a token counts as good, in a row or a job, only while the instance that made it runs
  (`OwnRuns`, `GoodRuns`); an overdue token is one the renewal has still to come to, is at, or was excused
  (`Renewing`; `Renewed` when it is over); so the days in `missed` keep up with its age (`Counted`).
* **StoredTokensWork**, `StoredTokenWorks`: from the same invariant, since whoever replaces an
  instance takes its token from the jobs' `good`.
* **PushesReachEveryone**, `EveryoneIsPushed`. `Pending`: whoever had a good token is pushed, struck,
  at the head of the loop or still behind it.
* **EditsStay**, `EditsAreKept` under `CustomersWait`. `ReadIsCurrent`: between the two requests of a push
  what was read is what the instance has.

Each proof has one step per action. Temporal steps are the last ones only.

Model-checked only: the liveness properties (fairness is out of the prover's
reach), `DeployingEnds`, `DeleteCompletes`, `UnservedIsRestarted`, `UpdateSettles`, `NewsArrives`, `BacklogClears`,
and the fairness of `MeetsContract`, of which `Contract!Spec` is proved. Each invariant and
each action property of a passing run is a theorem. Two of the liveness properties have a proved half: `CallsEnd` for the
calls of the NPM client, and `DeployingIsAlwaysWorkedOn` with `DeleteNeverGivenUp` for tasks that end.

## 5. Not modelled

* **Settings** (`settings.py`, `config.py`). Each request writes the one row of settings in one step.
  What could go wrong is a removal under another base domain, data directory or DNS zone than the deployment
  (`netbird_service.py:426`): it looks in the wrong place and leaves what it does not find. A model of that needs
  the outside systems of `DeployLifecycle` once per setting, and its instances are at the limit of
  what TLC explores in minutes. Settings are constants of a run.
* **Login, MFA, directory and users** (`auth.py`, `users.py`, `ldap_service.py`, `security.py`,
  `dependencies.py`). Handlers of one step over one row of `users`; nothing else in the appliance
  depends on these rows, and what could be asked of them is access control, which is another
  kind of review.
* **Migrations** (`database.py`). Run once at the start, before any request.
* **`update.sh`, the installer, the container build**. Scripts run by hand, from the host.
* **Validation, the web interface, formatting, logging, statistics.** No state the server reads back.
* **Time spans.** Blocking calls and timeouts are modelled by their outcomes, the minute of the daily
  check and the days of a token as steps.

What could be added, in this order: a measure that falls with each step of a task of `DeployLifecycle`, as
`RequestsLeft` does for the calls of the NPM client; settings as variables in a model of their
own with one outside system.
