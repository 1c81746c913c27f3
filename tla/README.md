# Cyclope Central: TLA+ models, checks and proofs

Cyclope Central is a remote monitoring platform: a FastAPI backend on
PostgreSQL, a Go agent on every managed device, a Next.js dashboard.  This
directory models the parts of it in which several requests, agents or restarts
meet on the same rows, states what must hold there, checks it with TLC on small
instances and proves the most important results with TLAPS for every instance.

## 1. The system

| Component | State | Operations | Talks to |
|---|---|---|---|
| Job queue (`core/jobs.py`, `api/jobs.py`, `/agent/jobs` of `api/agent.py`) | `agent_jobs`, `agent_job_results`, `agent_job_events` | create, list, get, cancel (operators); poll, start, complete (agents) | agents over HTTP, the database |
| Agent job loop (`agent/internal/checkin/jobs.go`, `checkin.go`) | the batch in hand, the running handler | tick, poll, start, execute, complete | job queue |
| Check-in and inventory (`/agent/checkin`, `api/inventory.py`) | `devices`, `agents`, `device_checkins`, inventory tables | check-in, upsert | alert evaluation, in the same transaction |
| Alert evaluation (`core/alerts.py`, `api/alerts.py`) | `alert_rules`, `alerts`, `alert_events` | evaluate, acknowledge, resolve | notifications, in the same transaction |
| Notifications (`core/notifications.py`, `api/notifications.py`) | channels, rules, `notification_deliveries` | enqueue, process pending, edit channels and rules | SMTP and webhooks |
| Enrollment (`/agent/enroll`, `core/enrollment.py`) | `enrollment_tokens`, `devices`, `agents`; the agent's config file | enroll, revoke, save config | check-in and jobs, through the device secret |
| Device presence (`api/devices.py`) | `devices.status`, `is_online`, `last_seen_at` | list, get | written by check-ins and by readers |
| Sessions (`core/security.py`, `api/auth.py`) | `refresh_tokens`, `users.is_active` | login, refresh, logout | every operator route |
| Users and bootstrap (`api/users.py`, `core/bootstrap.py`, `scripts/create-owner-user.py`, `scripts/create-enrollment-token.py`) | `users`, `organizations` | setup, create, patch, disable, enable; scripts that add an owner or an organization | sessions |
| Remote access (`api/remote.py`) | providers, links, audits | create provider, upsert link, launch | check-in |
| Windows service (`internal/service`, `main.go`) | service state, worker goroutine, config file | install, start, stop, uninstall; Execute | agent loops, the service control manager |
| MSP operations, platform modules, dashboard, configuration, frontend, deployment | see `PROJECT.json` | single inserts and reads, or build files | |

### How the parts run

Every HTTP request gets a SQLAlchemy session of its own (`db/session.py`:
`autocommit=False, autoflush=False`) and runs on a thread of its own.  The
database is at READ COMMITTED, and apart from enrolment (`with_for_update`)
no handler locks what it reads.  A handler therefore

1. SELECTs rows, which become objects in memory and are not refreshed;
2. decides and changes the objects;
3. writes the changed columns in one flush and commits.

Between 1 and 3 any other request may commit.  That is the source of most
hard behaviours below, and the reason why the models give a request a slot in
which it stays until it commits, is refused or is lost.

### What is hard

`PROJECT.json` lists every hazard with its line.  In groups:

* **overlapping requests**: start, complete, cancel, poll and list race on
  `agent_jobs.status`; acknowledge and resolve race with check-ins;
  refreshes of one token race with each other;
* **lost answers and timeouts**: the agent gives up after 15 s while the server
  goes on; an answer that is lost leaves jobs assigned that no later poll
  returns, and a rotated secret nobody stored;
* **crashes**: an agent that stops in a handler, a delivery worker that stops
  between sending and committing, an enroll command that stops while it rewrites
  the config file;
* **stopping**: a service is reported as stopped while its worker may still be in
  a call or a handler, and may be started again next to it;
* **no background work**: jobs expire, devices go offline and notifications
  leave only when somebody calls;
* **duplicates the schema allows**: default alert rules, devices, remote access
  links, inventory rows;
* **names that are not unique**: agents make their `machine_identifier` of host name, system and
  architecture, so machines that share them share a device and a secret;
* **columns written from an old copy**: the ORM writes the columns that differ from
  what was loaded, so a request may leave another one's value or undo it.

### What makes each component correct

* Job queue: results belong to runs, are recorded once and agree with the
  status; jobs are worked on by their own device only; none expires early;
  oldest first; terminal states are final.
* Agent loop: no handler is entered twice; every recorded result is the outcome
  of a real run; every job comes to rest.
* Alerts: at most one active alert per device and rule; a cleared condition
  closes the alerts of every rule row that is still evaluated.
* Notifications: one delivery per new alert and route; a status says what really
  happened to the message; tries are bounded.
* Enrollment: a token is used at most `max_uses` times; the secret an agent holds
  is the one the server expects, until its `machine_identifier` is enrolled again.
* Sessions: a refresh token is good for one refresh; logout ends the session.
* Users and bootstrap: setup is open to anybody, but not while there is an active owner; users
  are changed by owners of their own organization only.
* Check-in, presence, remote access: what is shown of a device is what its last
  check-in reported, a launch goes where it said, and a device seen lately is not
  shown offline.
* Windows service: at most one worker talks to the server; after a restart that
  follows an enrolment only the new credentials are used; a request to stop is
  settled even if the worker hangs.

## 2. Plan

| Order | Module | Models | Composed with | Status |
|---|---|---|---|---|
| 1 | `JobLifecycle` | abstract: the promised life of a job | refined by `JobServer` | done |
| 2 | `JobServer` | the job tables and overlapping requests | | done, proofs in `JobServerProofs` |
| 3 | `AgentJobs` | the Go job loop against the server | extends `JobServer` | done, proofs in `AgentJobsProofs` |
| 4 | `Alerts` | rules, check-in evaluation, acknowledge, resolve | | done, proofs in `AlertsProofs` |
| 5 | `Notifications` | deliveries and delivery workers | enqueued where `Alerts` opens alerts | done, proofs in `NotificationsProofs` |
| 6 | `Enrollment` | tokens, device secrets, the agent's config | | done, proofs in `EnrollmentProofs` |
| 6a | `Enrolments` | abstract: enrolments one after the other | refined by `Enrollment` | done |
| 7 | `Accounts` | refresh tokens, users, setup | | done, proofs in `AccountsProofs` |
| 8 | `Devices` | presence, inventory and remote link of a device | the check-in of `Alerts`, seen from its other tables | done, proofs in `DevicesProofs` |
| 9 | `AgentService` | Windows service control against the worker, the stop command and the config file | the worker's loop is the one of `AgentJobs`, seen from outside | done, proofs in `AgentServiceProofs` |
| 10 | `Devices`, extended | `security_statuses` and `update_statuses` | | done |

Accounts were planned as two modules; they are one because the setup issues a
refresh token and edits decide who may make them, and whether setup is open.

Abstract specifications: `JobLifecycle`, which `JobServer` with one slot is proved to
implement, and `Enrolments`, which `Enrollment` is proved to implement however its requests
overlap; `AgentJobs` is proved to be a client of `JobServer` like any other.  What remains
open: abstract specifications of sessions (login, refresh, logout as instants), of a
delivery and of a device's inventory, refined by `Accounts`, `Notifications` and `Devices`
where requests do not overlap; the composition of `Alerts` and
`Notifications` (every alert opened has its deliveries): now `Enqueue` stands for the
check-in in the one, and the other does not see the deliveries.

## 3. The modules

### JobServer: the job queue

| Model | Code |
|---|---|
| `status`, `assignee`, `device`, `stamp` | columns of `agent_jobs` (`stamp` is the rank of `created_at`) |
| `due[j]` | `expires_at` of `j` has passed; `TimePasses` sets it at any moment after the job exists |
| `result`, `events` | the one row of `agent_job_results`, the event types in `agent_job_events` |
| `req[s]` | a request in flight: what it asks and what it has read (`sweep`, `batch`) |
| `SendCreate`, `CreateBegin`, `CreateCommit` | `create_device_job`: the transaction takes its time stamp when it starts, the row shows when it commits |
| `ExpireSelect`, `AssignSelect`, `PollCommit` | `poll_jobs`: the two SELECTs of `expire_jobs` and `assign_jobs_for_agent`, then the commit |
| `ExpireSelect`, `ListCommit` | `list_device_jobs`, `get_job` |
| `LoadJob`, `StartCommit` / `CompleteCommit` / `CancelCommit` | load and check the row; write it back |
| `Reject` | 403, 404, 409, and a cancel of a job that has ended |
| `CompleteConflict` | the unique `job_id` of `agent_job_results` refuses a second result, and the whole transaction with it |
| `Abort` | a request that is lost or whose worker dies; `get_db` rolls back |

Any client that knows a device's secret may call the agent routes in any order:
`JobServer` does not assume the agent behaves.  Devices and their agents are
identified (`agents.install_id` is unique).  `get_job` is modelled by the sweep
it shares with `list_device_jobs`; it has one more stale copy, of the job it was
asked for, which can only make its own UPDATE empty.

`JobLifecycle` is what the API promises: each request at one instant.  `JobServer`
states the refinement (`Promised`, with `state <- status`; `KeepsPromise`).  It
holds with one slot, which is checked and proved, and fails with two, which is finding F2.
What two and more requests leave of it is `RestIsFinal`: a job in a terminal state that no
request in flight has read (`HasRead`, `AtRest`) never leaves it.

### AgentJobs: the agent's job loop

`AgentJobs` extends `JobServer`.  `proc[p]` is the goroutine of one agent process:
idle with the rest of a batch, waiting for an answer in a slot, or in a handler.
`Poll`, `PollAnswer`, `StartNext`, `StartAnswer`, `Execute`, `CompleteAnswer` and
`ErrorAnswer` follow `ProcessJobs` line by line.  `GiveUp` is the client's
timeout or the end of the process: the request stays in its slot and may still
commit.  Operators keep sending requests of their own.  `runs` counts entries of a
handler and `reported` the outcomes, as history.

### Alerts: evaluation inside a check-in, and operators

| Model | Code |
|---|---|
| `facts[d]` | the rule keys whose `_eval_*` would be active on the next check-in of `d` |
| `rule`, `alert` | committed rows of `alert_rules` and `alerts` |
| `lock[d]` | the row lock that the flushed UPDATE of the device row holds until the commit |
| `SendCheckin`, `LockDevice`, `EnsureRules`, `EvaluateRule`, `CheckinCommit` | `checkin_agent` up to its flush; `ensure_default_alert_rules`; one turn of the loop of `evaluate_device_alerts`; the commit |
| `Detected` | what of `facts` an evaluation sees: never `device_offline`, because the check-in itself has just set `last_seen_at`, and never `high_memory_usage`, because `checkin_agent` leaves `memory_used_bytes` out of the payload |
| `SendOperator`, `LoadAlert`, `OperatorCommit`, `NothingToDo` | `acknowledge_alert`, `resolve_alert`: load, check, write back |
| `Abort` | a request that is lost or fails |
| `Change` | the environment: the device's state changes |

Which of several rules with one key an evaluation uses is a choice: the SELECT has
no order and the dictionary keeps the last.  `_apply_result` then looks for alerts of that row
alone.  An alert of another row of the key is closed by nobody but an operator, unless a
later evaluation happens to choose its row again: `ClearedAlertsClose` is therefore stated of each
row of a key, under the condition that check-ins of the device go on using it (`KeepsUsing`), which
is so where a key has one row.  `inventory_not_refreshed` is one of
the keys, but the repository's own agent sends its inventory with every check-in.

### Notifications: deliveries and passes

| Model | Code |
|---|---|
| `routes`, `enabled` | the pairs of enabled rule and channel whose filters match, and the channels' `enabled` |
| `draft[a]` | rows that `enqueue_alert_notifications` has added in a check-in not yet committed |
| `row[d]` | a `notification_deliveries` row: status and attempts |
| `pass[w]` | the rows that a call of `process_pending_deliveries` has loaded, what is left of them, its copies |
| `Enqueue`, `CheckinCommits`, `CheckinFails` | the alert's transaction |
| `SelectPending`, `Send`, `SendFails`, `SkipDisabled`, `PassCommits` | the pass, one `process_delivery` at a time, one commit for the batch |
| `Crash` | the process dies in a pass |
| `tries`, `arrived` | history: what really went out |
| `shared` | history: deliveries that two passes had loaded at the same time |

A send that raises may still have reached its channel.  Nothing in the repository
calls `process_pending_deliveries`: the workers are whatever a deployment runs
(a timer, a script), hence their number is a constant.

### Enrollment: tokens, devices, secrets, config files

| Model | Code |
|---|---|
| `uses`, `expired`, `lock` | `enrollment_tokens`: `uses`; `expires_at` passed or `revoked_at` set; the lock of `with_for_update` |
| `device`, `agent` | `machine_identifier` of each `devices` row; per `install_id` the `agents` row |
| `req[s]` | a request: the device chosen or added, the `device_id` of the agents row it loaded, the new secret |
| `Hosts`, `Name` | config files, on any machine, and the `machine_identifier` that `MachineIdentifier` (`checkin.go`) makes where the file is: host name, system, architecture |
| `awaits[s]`, `file` | the config file of the enroll command that waits for the answer to a request; the credentials in each config file |
| `SendEnroll` | `cyclope-agent enroll`; any number of commands may run at a time, for one config file, too |
| `LockToken`, `RefuseToken`, `FindDevice`, `FindAgent`, `EnrollCommit` | `enroll_agent` from SELECT to SELECT to commit |
| `EnrollConflict` | the unique `install_id` refuses the second agents row |
| `Assigned` | the ORM's UPDATE writes `device_id` only where it differs from what was loaded |
| `SaveConfig`, `SaveFails`, `GiveUp`, `HearRefusal` | `main.go` after `client.Enroll`; the client's 15 s |
| `Install` | `install-agent.ps1` writes a config file without credentials |
| `via`, `enrolled`, `met`, `current` | history: the token a device was created with; enrolments per token; requests that have met another of their `machine_identifier`; config files that hold the answer to a request which met no other, their identifier not enrolled again since |

The server finds the agents row by `machine_identifier`.  A second machine of the same name, a
clone, or a second config file on one machine gets the row of the first and replaces its secret,
which voids the first's although it missed no answer.  `FileMatchesServer` says what
remains: credentials saved from an enrolment that met no rival stay good until an enrolment of that
identifier is carried out again.  Two rivals may be saved in the other order than they
were committed, even if no answer is lost, and leave a file with a void secret.

`Enrolments` is what the route promises: an enrolment takes effect at one instant and as a
whole, a use, a device of the machine, a secret nobody has had in the agents table.
`Enrollment` implements it (`EnrollsAtOnce`, with the tables mapped to themselves), rivals or
not.  What the promise leaves open is what the code leaves open: a machine may get a second
device from a second token, and the answer may never arrive.

### Accounts: sessions, users, setup

| Model | Code |
|---|---|
| `org`, `user`, `token` | rows of `organizations`, `users`, `refresh_tokens` |
| `req[s]` | a request from its first read on: the user or token it is about, the caller's organization |
| `session`, `raced`, `ended` | history: the login a token descends from; logins two requests of which overlapped; logins that a logout has ended |
| `locked` | history: setups in flight that began beside an active owner, as long as there has been one all the time (`WatchSetups`) |
| `LoginLoads`, `LoginCommit` | `login`: an active user; `issue_refresh_token` |
| `FindToken`, `RefreshLoads`, `RefreshCommit`, `LogoutCommit` | `refresh` and `logout`: `find_valid_refresh_token`, the user's row, revoke and issue |
| `Expire` | `expires_at` passes |
| `Authenticate`, `AuthenticateSelf`, `LoadTarget`, `EditCommit` | `require_permission("users:manage")`, `_require_same_org_user`, then `patch_user`, `disable_user` or `enable_user`; the row of callers who edit themselves is loaded once |
| `CreateCommit` | `create_user` |
| `CountOrganizations`, `CountOwners`, `SetupCommit` | `setup_required`, `create_first_owner`; the request begins with the second of the two times it asks |
| `ScriptAddsOwner` | the owner script, where setup is complete |
| `ScriptAddsOrganization` | `create-enrollment-token.py` inserts the organization of its `--organization` if there is none, at any time, with or without owners |
| `Refuse` | 401, 403, 404, 409, a failure, or nothing to write |

E-mail addresses, names and passwords are reasons to refuse, and any request may
be refused.  An edit of what is as asked already writes nothing.

### Devices: presence, inventory, remote access link

| Model | Code |
|---|---|
| `recent` | `last_seen_at` is within `device_offline_after_seconds`; `TimePasses` ends it |
| `online` | `devices.is_online`, with which `devices.status` is always written |
| `inv`, `security`, `rows[i]` | the `device_inventories` row; the `security_statuses` row, which also stands for `update_statuses`; in each table with many rows, the check-ins whose rows it has |
| `links` | the rows of `remote_device_links` of the device, by what they say, in the order of their commits |
| `req[s]` | a request: what it has loaded, where it is in its DELETEs, what they took |
| `ReadBegin`, `ReadCommit` | `list_devices`, `get_device`: `_sync_status` on the row as loaded |
| `PingBegin`, `PingCommit` | a check-in without inventory, with or without remote access (`telling`) |
| `ReportBegin`, `DeleteBegin`, `DeleteEnd`, `LoadSecurity`, `ReportCommit` | a check-in with inventory, again with or without remote access: `upsert_inventory`, whose payload may have a security status (`full`) or not |
| `FindLink`, `StoreLink` | `upsert_rustdesk_status`, for the check-ins that tell of remote access (`remote`); the two `if`s of `checkin_agent` are independent |
| `Linked` | the link that `upsert_rustdesk_status` has found is updated, and one inserted where it has found none |
| `Launchable` | where `launch_device_remote` may lead: it takes any link of the device |
| `Flush`, `Clashes` | `db.flush()`: the UPDATE of `devices` takes the lock; the unique `device_id` of `device_inventories` and of `security_statuses` refuses a second row |
| `Abort` | a request that fails; its DELETEs are undone |
| `latest`, `told`, `blurred` | history: the last report and which reports were in flight with it; what the security status may say after the last report of one; a write from an outdated copy |
| `pointed`, `req[s].crossed` | history: what the link may say after the last check-in with remote access; was another of them in flight with this one? |

What a check-in reports is chosen when it is written, and whether it has a security status when
that is looked at: nothing in the code depends on either before, and TLC has fewer states to visit.
Of two check-ins that are the first with remote access both may insert a link, for nothing makes
`remote_device_links.device_id` unique.  The unique `device_inventories` row stops the second only
if both are also the first with an inventory; with a row that is older, or without an inventory, the
device has two links from then on, each later check-in updates either, and a launch may take the
other.

A DELETE finds the rows committed when it begins and waits for any other request
that has deleted one of them.  Rows committed in between it does not find: that
is how rows of two check-ins stay side by side.  A request is taken to be shorter than
the off-line time (300 s by default), so the `last_seen_at` it writes is recent.

### AgentService: the agent as a Windows service

| Model | Code |
|---|---|
| `service`, `deleted` | what the service control manager says of the service; whether it is marked for deletion |
| `proc[p]` | a service process: where `main` and `Execute` are, what the worker goroutine does, the credentials it has read, a stop request in its channel, whether `cancel` was called, what is left of its 20 s |
| `stopper[k]` | a `service stop` command: whether it waits, what is left of its 30 s, whether it has asked lately |
| `file` | the config file; `os.WriteFile` truncates it first |
| `renewed`, `restarted` | history: was the service started since the file was written; since the request to stop |
| `Install`, `Start`, `Stop`, `Query`, `Uninstall` | the functions of `service_windows.go` behind `handleServiceCommand` |
| `Truncate`, `Write` | `SaveToFile` in an `enroll` command, which may die in between |
| `Load`, `Execute`, `ReportRunning`, `HandleStop`, `ReportStopped`, `Exit`, `Crash` | a process from `LoadFromFile` through `windowsHandler.Execute` to its end |
| `Call`, `Refused`, `Answer`, `Wake`, `Return` | `RunWithIntervals` in the worker |
| `Shutdown`, `Remove`, `Asked`, the states of `service` | the manager, which is not in the repository |
| `Tick` | ten seconds |

The manager is taken to behave as follows: it delivers Stop and Shutdown only to a service that
reported Running; a stopped service can be started while the old process is still leaving; a service
marked for deletion goes once it is stopped and no command has it open.  The `done` case of the
outer `select` of `Execute` (`service_windows.go:62`) is left out: `RunWithIntervals` returns only
when its context has been cancelled, which happens in the other case.  `OneWorkerTalks` is what the
theorem `AtMostOnce` of `AgentJobs` assumes of a device's processes (`OneProcessPerDevice`) as far
as the service can provide it: an operator may still run the agent by hand next to it, and a handler
that was running at the stop may end after the new process has started.

## 4. Runs

| Run | Question | Bounds and why they suffice |
|---|---|---|
| `job_server_race` | what do the tables keep whatever overlaps, and from when on is a job that has ended left alone? | 1 job, 2 devices, 3 slots: three requests are needed for two completions against a third writer; rows of different jobs interact only through the batch, checked below; the types are checked in `agent_jobs` (`AgentTypeOK` contains `TypeOK`) |
| `job_server_serial` | one request at a time: is the promised life kept, are jobs handed out in order? | 3 jobs and batches of 2, so that a batch can leave one behind; 1 slot by definition |
| `agent_jobs` | can a handler run twice, or report what never happened, and does every job come to rest? | 1 device and its process, 1 job; 2 slots: one for an abandoned request, one for its successor or an operator; fairness as below. That batches of several jobs change nothing is proved |
| `job_server_unexpired` | finding F1 | 1 job, 1 slot |
| `job_server_terminal` | finding F2 | 1 job, 2 slots |
| `alerts_checkins` | can there be two active alerts of one rule, and do alerts follow the device's conditions in the end? | 2 devices, 2 rule rows and 1 key, so that first check-ins make duplicates; 2 slots: two check-ins, or one and an operator's late request; 3 alert ids: one under each row and one that was reopened, past alerts being reused. Conditions come and go on one of the devices only (`OneTroubled`) |
| `alerts_duplicate_rules` | finding F3 | 2 devices, 2 rule rows, 2 slots |
| `notifications` | do rows tell the truth when passes overlap and die, are tries bounded and outcomes final where they do not, does every delivery get an outcome? | 2 alerts, so that a failing row stands in front of another; 2 workers, batches of 1, a retry limit of 2, 1 crash; the theorems cover larger batches |
| `enrollment` | do enrolments that overlap, clash and die leave what whole ones would (`Enrolments`), can a use be spent twice, does everybody get the token's lock in the end? | 1 `machine_identifier` and 2 config files that share it, tokens of 1 and 2 uses, 2 devices, 2 slots: two rivals, or an abandoned request and its successor; 5 secrets: in each file, at the server and in two requests |
| `accounts` | what do rotation, logout, user administration and setup guarantee, whatever organizations a script adds? | 2 slots: the overlaps that matter are of two requests; 2 tokens: a token and its successor, or two sessions; 2 users, 2 organizations |
| `devices` | what does the server still say of a device when its requests overlap? | 2 slots, 2 tables, so that two check-ins may be at different DELETEs; 3 check-in names: two in flight and the latest; 2 values of the single rows' columns; presence and links, which have nothing to do with each other, are looked at one at a time (`PresenceOrLinks`) |
| `agent_service` | who talks to the server with which credentials, does stopping end? | 2 processes: one on its way out and its successor; 1 stop command; ticks of 10 s, hence a grace of 2 and a patience of 3, the code's 20 s and 30 s |

A finished alert's id is used again, as if old rows were forgotten; so are slots,
secrets and check-in names.

Two runs check liveness, where TLC's symmetry is no use, and bound the choice of names instead:
`AnyUnused` of `MCAlerts` and of `MCEnrollment` lets a request take one free slot rather than any,
and a new row one free identity.  The states that are left out are renamings of those that are
not; a request stays in its slot to the end, so a run that is fair to each request stays so under the
renaming.  In `MCEnrollment` a token also expires only while that makes a difference.  `OneTroubled`
bounds what the environment does, which is under no fairness.

Identical constants are symmetric wherever no liveness is checked.  With the bounds
as they are, each run ends within a few minutes on two cores.  Every property has
a mutant in `PROJECT.json`: a plausible bug of the code, written as a
"Faulty variant" next to the definition it would replace, which TLC finds.
No run switches the deadlock check off: time or a client can always go on, or
a request can be sent.

### Fairness

`Fairness` of `AgentJobs` asks that the clock goes on, that a request that can go
on does, that a running agent's ticker fires for
ever, that its client does not wait for ever (the 15 s timeout), and, as strong
fairness, that polls are not lost for ever: each may be lost or time out, but not
all.  Nothing is asked of operators, starts or completions.

`FairCheckins` of `Alerts` asks that a check-in or operator's request that can go
on does, and that each device gets a check-in
committed again and again, because the agent's ticker sends one every five minutes
and does not stop after failures.  `FairWorkers` of `Notifications` asks that the process
that makes passes goes on making them: the repository leaves that to the
deployment, and without it nothing is delivered at all.  `FairServer` of `Enrollment` asks that a
request goes on and that the database does not pass over a waiting request
for ever (PostgreSQL queues waiters for a row); the clients may vanish at any time.
`Fairness` of `AgentService` asks that time passes, however much happens meanwhile (strong
fairness of `Tick`), that `Execute` is scheduled and that a stop command goes on asking.
The worker may hang in a handler for ever, and a process need not come up.

## 5. Findings

* **F1** (`job_server_unexpired`): a poll sweeps an overdue queued job in memory and then
  selects it again as queued, because the session does not autoflush.  The job
  gets an "expired" event, ends "assigned" and is run.
* **F2** (`job_server_terminal`): overlapping requests take a job out of a terminal state.  The
  theorems `RestHolds` and `TerminalHolds` say where this ends: only a request that had read the
  job before it ended can do it, and none when requests do not overlap.
* **F3** (`alerts_duplicate_rules`): the first check-ins of two devices both insert the default
  rules, and later a device has two active alerts for one condition.  `SettledKeepsPromise` proves
  that this is the only way: once each key has one rule and no check-in is left that has not seen it,
  no device ever has two active alerts of a key again.  The same duplicates also break
  "auto-resolves active or acknowledged alerts when conditions clear" (`Architecture.md:61`): the alert
  of a row that later evaluations do not choose stays open.  `ClearedAlertsClose` of
  `alerts_checkins`, where duplicates occur, holds only row by row, of the rows in use.

Read in the code while modelling, and part of the models, but without a run of their own:

* nothing expires a job unless its agent polls or somebody lists or gets it (`core/jobs.py:76`);
* `device_offline` is evaluated only in a check-in of the device itself, which has just
  made it online: a device that stays away gets no alert (`core/alerts.py:185`);
* `memory_used_bytes` never reaches the evaluation, hence no `high_memory_usage` alert
  (`core/alerts.py:217`, `api/agent.py:180`);
* a pass that dies before its only commit forgets its attempts, so a message may be tried more
  often than `notification_retry_limit`; `TriesAreBounded` says by how much;
* nothing calls `process_pending_deliveries`;
* `README.md:37` says that the setup is switched off once an owner exists: it comes back
  when the last active owner is disabled or demoted (`api/users.py:68`), and setups that began before
  the first owner was committed still get through; `SetupStaysLocked` says which cannot.  Nor does a
  setup mean that there is one organization: `create-enrollment-token.py:27` adds them at any time;
* `machine_identifier` is not unique (`checkin.go:236`), but `agents.install_id`, which is the same, is
  taken to be one machine's (`api/agent.py:118`): machines of one name void each other's secrets;
* `remote_device_link.py:12` calls a link the latest reported mapping of a device, which may
  have two of them (`api/remote.py:123`); `LinkIsLatest` says when;
* the inventory is the latest one only if check-ins do not overlap
  (`Architecture.md:57`; `InventoryIsLatest` and `HardwareIsLatest` say what remains).

## 6. Proofs

`JobServerProofs` proves, for any number of jobs, devices and overlapping requests, the type
invariant, `StatusMatchesResult`, the action properties `ResultIsKept` and `RestIsFinal`, and three
more invariants that no run repeats: `ResultNeedsStart`, `AssignedAtHome` and
`ExpiredOnlyWhenDue`.  The invariants are not inductive: when a request commits,
only what it read earlier justifies the write.  `JobInv` therefore says what
stays true of a read however old it is: rows never go away and keep their
device, a job once started stays started, an overdue job stays overdue
(`ReadsAreRows`), and a job is created by one request (`CreatesAreFresh`).  `RestIsFinal` needs
both halves of `AtRest`: a request only writes what it has read (`HasRead`), and a job in a terminal
state is read by no sweep, batch or check that would let a request go on.

Where requests do not overlap (`OneSlot`, an explicit hypothesis) it proves three things more.
`PromiseHolds` is the refinement: with one slot what a request has read is still so when it commits
(`ReadsAreCurrent`), hence every commit is a step of `JobLifecycle` and everything else a stutter.
`TerminalHolds` is the promise that F2 breaks: a request that is alone has read no job in a terminal
state, so that `RestIsFinal` covers every job.  `OrderHolds` says that jobs are handed out oldest
first: time stamps grow (`StampsGrow`), a poll's batch is the oldest of what is queued
(`BatchesAreOldest`), and a job without a row has no events, so that a new one, which is the
youngest, overtakes nobody (`OrderInv`).

`AgentJobsProofs` proves type correctness, truthful results and that an agent only holds jobs of its
own for any number of agent processes, several on one device included, and at-most-once execution
for one process per device (`OneProcessPerDevice`, an explicit hypothesis of `AtMostOnce` alone: two
processes can run a job twice).  The argument follows a job: it is in the read batch of at most one
poll, or in at most one process's hands, or started; once it has left "queued" no later poll can
hand it out.  That is `HeldOnce`, the one part of `AgentInv` under the hypothesis; the rest of it
relies on no two processes waiting for one request (`SlotsAreOwn`). `AgentsAreClients` is a
refinement: the agents' loops, seen from the server, are requests that `JobServer` allows, so that
all the theorems of `JobServerProofs` hold of `AgentSpec`, too. The assumptions are those of the
modules: `JobsAssumption`, `NoneAssumption`, `BatchAssumption`, `HomeAssumption`.

`AlertsProofs` proves `OneActivePerRule`.  Nothing in the schema forbids a second
active alert; the argument is the device row.  `AlertInv` says that a check-in past its
flush holds the lock of its device (`CheckinsHoldLocks`), that its rules are different
rows (`RulesAreDistinct`), and that what it has decided to open nobody has
opened since (`OpensAreFresh`): another check-in of the device would need the lock, and an
operator never makes an alert active.

What finding F3 leaves of the stronger `OneActivePerKey` is proved as well.  A rule keeps its key
and is never deleted (`RulesAreKept`); active alerts are of committed rules, and what a check-in
uses or is about to insert is a rule of its key (`KeyInv`).  Let every key have one rule, and let
every check-in in flight have found it or not have looked yet (`Settled`): nobody can insert a
second one from then on, so that `Settled` stays and two active alerts of a key are two of one
rule.  That is `SettledKeepsPromise`.  While requests do not overlap there is never a second rule to
begin with (`SerialKeepsPromise`).

`NotificationsProofs` proves `SentMeansArrived` and `FailedMeansTried` for any number of workers and
crashes, and, of a delivery that no two passes had loaded at the same time (`shared`), that its
outcome is final and its tries are bounded (`OutcomesAreFinal`, `TriesAreBounded`).  What makes the
first two inductive is that every copy of a row, committed, not yet committed or loaded by a pass,
is `Justified` by what really happened, and that a justified claim stays so however old it gets.
For the last one `CountInv` adds how far the attempts of a row and of its loaded copy may be behind
the tries: the passes that died, and the one try of the pass that has the row.  However many passes
overlap on it, a delivery that has an outcome has one for good (`SettledStaysSettled`): only which
one may change, because a commit does not write back a status it loaded.  With one process making
the passes nothing is ever shared (`NothingShared`), hence outcomes are final and tries bounded
without exception (`OneWorkerKeepsPromise`).

`EnrollmentProofs` proves that `max_uses` bounds the enrolments of a token, that one token
never creates two devices of a machine, and that an agents row points to a committed
device of its machine.  `HoldersLock` says that a request past its first SELECT
holds the token's lock and the token still has a use left; `DevicesAreChosen` that a new
device belongs to one request and no enrolment with the same token has added one;
`LoadedAgentsStay` that an agents row that was found is still there at the commit.  The same
facts make each commit one whole enrolment and every other step a stutter, which is
the refinement `EnrollmentIsAtOnce`.  It needs that a
new secret is nobody's until it is committed (`SecretsAreNew`), and that the device the
agents row ends up with is of the machine even where it is a rival's (`AssignedDevice`).
`FileMatchesServer` needs no bound on the enroll commands that run at a time or on the machines that
share an identifier.  It rests on `Alone`: a request that has met no other of its identifier is the
only one.  When it is answered the agents row therefore still is what its answer says
(`AnswersAreStored`), and no config file of the identifier is current until it is saved
(`AnswersAreNews`).

`AccountsProofs` proves all the properties of its run.  A session is safe because a
request of it that overlaps no other holds its newest token (`HoldsNewest`), so
that nothing is left which could bring it back after a logout (`NoneReturns`).  Setup
is locked because every user belongs to an organization that exists and organizations are never
deleted (`Belong`): a setup that began beside an active owner has counted an organization, and as
long as there is an active owner its second count finds one, whatever else was added in between
(`LockedKnow`).  Organizations stay apart because nobody moves a user
(`LoadedOwn`): the check made when the row was loaded still holds at the commit.  Whatever
overlaps, a token that is over stays so and none changes hands (`OverHolds`): what a raced
session has too many of are new tokens.  Without overlaps (`OneSlot`) there are none, and the
exceptions of `OneTokenPerSession` and `LogoutEndsSession` fall away; a setup then goes
ahead only while there is no active owner at all (`SerialKeepsPromise`).

`DevicesProofs` proves all the properties of its run.  `DevicesInv` says what a
request can rely on: its copy of the devices row is the row, unless somebody has written
it since (`Currents`); reports in flight have met each other (`Met`); rows that its
DELETEs have not found are of reports it has met (`LeavesMet`); a report that has
met none has the present inventory (`LoadedInv`); and one that was alone when it loaded the security
status has the present one (`LoadedSecurity`).  Check-ins with remote access in flight together know
so (`Crossed`), and one that is past its search for a link and is not crossed has found what the link
says now, or no link because there is none (`FoundLinks`).

`AgentServiceProofs` proves the safety properties of its run for any number of processes and stop
commands and any deadlines, the command's later than `Execute`'s (`GraceAssumption`).
`ServiceInv` says that at most one process is up, that is, the one the manager speaks of
(`OneUp`, `Shown`), and that every other one has been cancelled, so that its worker can
send nothing (`Workers`); that a process started since the last enrolment has read the
new file (`Renewed`); and that a command which waits has more time left than
`Execute` has, unless there was another start (`InTime`).

The theorems of these modules rest on the constants being what they say
(`KeysAssumption`, `NumbersAssumption`, `LimitsAssumption`, `MaxUsesAssumption`, `RolesAssumption`,
`NTablesAssumption`, `GraceAssumption`, and that null is no value: `NullAssumption`, `NoneAssumption`).
Model-checked only is liveness, which is beyond the prover: `EveryJobSettles`,
`ClearedAlertsClose`, `PersistentConditionsAlert`, `DeliveriesSettle`, `RequestsAreServed`
and `StopSettles`.

## 7. Not modelled

`PROJECT.json` gives the reason for each component.  MSP operations and platform modules insert
rows and list them; what is inserted is hardly ever changed, nothing reads it to decide, and where a
row is selected before it is inserted (a documentation category, a portal role, a dashboard preference)
a second copy does no harm.  Of remote access the providers are inserted and listed, and a
launch inserts an audit row; its links are part of `Devices`.  An agent run by hand
next to its service is left out of `AgentService`.

Abstracted inside the modelled components: payload validation (a refused create changes nothing),
output text, audit rows, organizations (all models but `Accounts` are of one), what a handler
computes, thresholds of alert rules, filters of notification rules, the text of alerts and
messages.  Nothing in the repository disables an alert rule or sets `revoked_at` of a token; the
latter is covered by `Expire`, as a change made in the database.
