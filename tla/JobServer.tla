------------------------------ MODULE JobServer ------------------------------
(***************************************************************************)
(* The job table of the backend and the HTTP requests that work on it      *)
(* (backend/app/core/jobs.py, api/jobs.py and the /agent/jobs routes of    *)
(* api/agent.py).                                                          *)
(*                                                                         *)
(* Every request runs in a SQLAlchemy session of its own on a thread of    *)
(* its own, at READ COMMITTED and, except for enrolment, without row       *)
(* locks.  A handler first SELECTs, then decides in memory, and its writes *)
(* reach the table in one commit.  A request is therefore a small state    *)
(* machine in a slot of `req`: what it read may be stale when it commits.  *)
(* Any client that holds a device's credentials may call the agent routes, *)
(* in any order; AgentJobs restricts them to the calls the Go agent makes. *)
(***************************************************************************)
EXTENDS Naturals, FiniteSets

CONSTANTS
    Jobs,        \* the identities of jobs that may ever be created
    Devices,     \* enrolled devices; agents.install_id is unique, so a device
                 \* also names its one agent
    Slots,       \* requests the server works on at the same time
    BatchLimit,  \* jobs handed out by one poll (5 in the code)
    None         \* SQL NULL

ASSUME JobsAssumption  == IsFiniteSet(Jobs)
ASSUME NoneAssumption  == None \notin Jobs \cup Devices
ASSUME BatchAssumption == BatchLimit \in Nat \ {0}

VARIABLES
    status,    \* agent_jobs.status, "none" while there is no row
    assignee,  \* agent_jobs.assigned_agent_id
    device,    \* agent_jobs.device_id
    stamp,     \* rank of agent_jobs.created_at, 0 when not yet taken
    due,       \* has agent_jobs.expires_at passed?
    result,    \* agent_job_results: the status of the job's one row
    events,    \* agent_job_events: the event types recorded for the job
    req        \* the request in each slot

table == <<status, assignee, device, stamp, result, events>>
jobVars == <<status, assignee, device, stamp, due, result, events, req>>

Open     == {"queued", "assigned", "running"}
Terminal == {"succeeded", "failed", "canceled", "expired"}

EventTypes == {"created", "assigned", "started", "completed", "failed",
               "canceled", "expired"}

Operations == {"create", "poll", "list", "start", "complete", "cancel"}

(***************************************************************************)
(* phase: "sent" (not yet looked at), "swept" (expire_jobs has run in      *)
(* memory), "loaded" (every read is done, only the commit is left).        *)
(***************************************************************************)
Request == [op    : Operations \cup {"idle"},
            dev   : Devices \cup {None},
            job   : Jobs \cup {None},
            ok    : BOOLEAN,
            phase : {"sent", "swept", "loaded"},
            sweep : SUBSET Jobs,
            batch : SUBSET Jobs]

NoRequest == [op |-> "idle", dev |-> None, job |-> None, ok |-> FALSE,
              phase |-> "sent", sweep |-> {}, batch |-> {}]

Init ==
    /\ status   = [j \in Jobs |-> "none"]
    /\ assignee = [j \in Jobs |-> None]
    /\ device   = [j \in Jobs |-> None]
    /\ stamp    = [j \in Jobs |-> 0]
    /\ due      = [j \in Jobs |-> FALSE]
    /\ result   = [j \in Jobs |-> "none"]
    /\ events   = [j \in Jobs |-> {}]
    /\ req      = [s \in Slots |-> NoRequest]

-----------------------------------------------------------------------------
At(s, op, phase) == req[s].op = op /\ req[s].phase = phase

Send(s, op, d, j, ok) ==
    /\ req[s] = NoRequest
    /\ req' = [req EXCEPT ![s] =
                  [op |-> op, dev |-> d, job |-> j, ok |-> ok,
                   phase |-> "sent", sweep |-> {}, batch |-> {}]]
    /\ UNCHANGED <<table, due>>

Answered(s) == req' = [req EXCEPT ![s] = NoRequest]

\* Faulty variant: jobs handed out but never started are not swept.
OverdueUnlessAssigned(d) ==
    {j \in Jobs : device[j] = d /\ status[j] \in {"queued", "running"} /\ due[j]}

(***************************************************************************)
(* The rows expire_jobs selects for a device.                              *)
(***************************************************************************)
Overdue(d) == {j \in Jobs : device[j] = d /\ status[j] \in Open /\ due[j]}

\* Faulty variant: assigned jobs are handed out again, for agents that lost the answer.
QueuedOrAssigned(d) ==
    {j \in Jobs : device[j] = d /\ status[j] \in {"queued", "assigned"}}

\* Faulty variant: ORDER BY created_at DESC.
Newest(Q) ==
    {j \in Q : Cardinality({i \in Q : stamp[i] > stamp[j]}) < BatchLimit}

(***************************************************************************)
(* ORDER BY created_at LIMIT BatchLimit over the queued rows of a device.  *)
(***************************************************************************)
Queued(d) == {j \in Jobs : device[j] = d /\ status[j] = "queued"}

Oldest(Q) ==
    {j \in Q : Cardinality({i \in Q : stamp[i] < stamp[j]}) < BatchLimit}

(***************************************************************************)
(* require_agent_job: the job is of the caller's device and is assigned to *)
(* nobody or to the caller.                                                *)
(***************************************************************************)
MayWorkOn(d, j) == device[j] = d /\ assignee[j] \in {None, d}

-----------------------------------------------------------------------------
(* POST /devices/{id}/jobs.  created_at is now() of the transaction, taken *)
(* by its first statement; the row becomes visible at the commit.          *)
SendCreate(s, d, j) ==
    /\ stamp[j] = 0
    /\ \A t \in Slots : ~(req[t].op = "create" /\ req[t].job = j)
    /\ Send(s, "create", d, j, FALSE)

CreateBegin(s) ==
    /\ At(s, "create", "sent")
    /\ stamp' = [stamp EXCEPT ![req[s].job] =
                    1 + Cardinality({i \in Jobs : stamp[i] > 0})]
    /\ req' = [req EXCEPT ![s].phase = "loaded"]
    /\ UNCHANGED <<status, assignee, device, due, result, events>>

CreateCommit(s) ==
    LET j == req[s].job IN
    /\ At(s, "create", "loaded")
    /\ status' = [status EXCEPT ![j] = "queued"]
    /\ device' = [device EXCEPT ![j] = req[s].dev]
    /\ events' = [events EXCEPT ![j] = @ \cup {"created"}]
    /\ Answered(s)
    /\ UNCHANGED <<assignee, stamp, due, result>>

(***************************************************************************)
(* expire_jobs: the SELECT, and the in-memory change to "expired".  It is  *)
(* the first step of a poll and of list_device_jobs / get_job.             *)
(***************************************************************************)
ExpireSelect(s) ==
    /\ At(s, "poll", "sent") \/ At(s, "list", "sent")
    /\ req' = [req EXCEPT ![s].sweep = Overdue(req[s].dev),
                          ![s].phase = IF req[s].op = "poll" THEN "swept"
                                                             ELSE "loaded"]
    /\ UNCHANGED <<table, due>>

(***************************************************************************)
(* assign_jobs_for_agent after expire_jobs.  The session does not          *)
(* autoflush, so this SELECT still sees the swept rows as queued, and a    *)
(* job in both sets ends up "assigned".                                    *)
(***************************************************************************)
AssignSelect(s) ==
    /\ At(s, "poll", "swept")
    /\ req' = [req EXCEPT ![s].batch = Oldest(Queued(req[s].dev)),
                          ![s].phase = "loaded"]
    /\ UNCHANGED <<table, due>>

(***************************************************************************)
(* Flush and commit of a poll (batch may be non-empty) or of a list / get  *)
(* (batch is empty).                                                       *)
(***************************************************************************)
SweepAndAssign(s) ==
    LET E == req[s].sweep
        B == req[s].batch
    IN
    /\ status' = [j \in Jobs |-> IF j \in B THEN "assigned"
                                 ELSE IF j \in E THEN "expired" ELSE status[j]]
    /\ assignee' = [j \in Jobs |-> IF j \in B THEN req[s].dev ELSE assignee[j]]
    /\ events' = [j \in Jobs |-> events[j]
                        \cup (IF j \in E THEN {"expired"} ELSE {})
                        \cup (IF j \in B THEN {"assigned"} ELSE {})]
    /\ Answered(s)
    /\ UNCHANGED <<device, stamp, due, result>>

PollCommit(s) == At(s, "poll", "loaded") /\ SweepAndAssign(s)
ListCommit(s) == At(s, "list", "loaded") /\ SweepAndAssign(s)

(***************************************************************************)
(* POST /agent/jobs/{id}/start.                                            *)
(***************************************************************************)
MayStart(d, j) == MayWorkOn(d, j) /\ status[j] \in {"assigned", "queued"}

StartCommit(s) ==
    LET j == req[s].job IN
    /\ At(s, "start", "loaded")
    /\ status'   = [status EXCEPT ![j] = "running"]
    /\ assignee' = [assignee EXCEPT ![j] = req[s].dev]
    /\ events'   = [events EXCEPT ![j] = @ \cup {"started"}]
    /\ Answered(s)
    /\ UNCHANGED <<device, stamp, due, result>>

(***************************************************************************)
(* POST /agent/jobs/{id}/complete.  agent_job_results.job_id is unique:    *)
(* the commit of a second result fails as a whole.                         *)
(***************************************************************************)
MayComplete(d, j) == MayWorkOn(d, j) /\ status[j] = "running"

\* Faulty variant: the result is stored with ON CONFLICT DO NOTHING.
CompleteCommitKeepFirst(s) ==
    LET j       == req[s].job
        outcome == IF req[s].ok THEN "succeeded" ELSE "failed"
    IN
    /\ At(s, "complete", "loaded")
    /\ status' = [status EXCEPT ![j] = outcome]
    /\ result' = [result EXCEPT ![j] = IF @ = "none" THEN outcome ELSE @]
    /\ Answered(s)
    /\ UNCHANGED <<assignee, device, stamp, due, events>>

\* Faulty variant: the result is stored with ON CONFLICT DO UPDATE.
CompleteCommitReplace(s) ==
    LET j       == req[s].job
        outcome == IF req[s].ok THEN "succeeded" ELSE "failed"
    IN
    /\ At(s, "complete", "loaded")
    /\ status' = [status EXCEPT ![j] = outcome]
    /\ result' = [result EXCEPT ![j] = outcome]
    /\ Answered(s)
    /\ UNCHANGED <<assignee, device, stamp, due, events>>

CompleteCommit(s) ==
    LET j       == req[s].job
        outcome == IF req[s].ok THEN "succeeded" ELSE "failed"
    IN
    /\ At(s, "complete", "loaded")
    /\ result[j] = "none"
    /\ status' = [status EXCEPT ![j] = outcome]
    /\ result' = [result EXCEPT ![j] = outcome]
    /\ events' = [events EXCEPT ![j] =
                    @ \cup {IF req[s].ok THEN "completed" ELSE "failed"}]
    /\ Answered(s)
    /\ UNCHANGED <<assignee, device, stamp, due>>

CompleteConflict(s) ==
    /\ At(s, "complete", "loaded")
    /\ result[req[s].job] # "none"
    /\ Answered(s)
    /\ UNCHANGED <<table, due>>

(***************************************************************************)
(* POST /jobs/{id}/cancel.                                                 *)
(***************************************************************************)
\* Faulty variant: cancel does not return early on terminal jobs.
MayCancelAlways(j) == status[j] # "none"

MayCancel(j) == status[j] \in Open

CancelCommit(s) ==
    LET j == req[s].job IN
    /\ At(s, "cancel", "loaded")
    /\ status' = [status EXCEPT ![j] = "canceled"]
    /\ events' = [events EXCEPT ![j] = @ \cup {"canceled"}]
    /\ Answered(s)
    /\ UNCHANGED <<assignee, device, stamp, due, result>>

(***************************************************************************)
(* start, complete and cancel load the row and check it.  A request whose  *)
(* check fails is answered 404, 403 or 409 (cancel of a terminal job: 200) *)
(* and changes nothing.                                                    *)
(***************************************************************************)
Allowed(s) ==
    LET r == req[s] IN
    \/ r.op = "start"    /\ MayStart(r.dev, r.job)
    \/ r.op = "complete" /\ MayComplete(r.dev, r.job)
    \/ r.op = "cancel"   /\ MayCancel(r.job)

Checks == {"start", "complete", "cancel"}

LoadJob(s) ==
    /\ req[s].op \in Checks /\ req[s].phase = "sent"
    /\ Allowed(s)
    /\ req' = [req EXCEPT ![s].phase = "loaded"]
    /\ UNCHANGED <<table, due>>

Reject(s) ==
    /\ req[s].op \in Checks /\ req[s].phase = "sent"
    /\ ~Allowed(s)
    /\ Answered(s)
    /\ UNCHANGED <<table, due>>

(***************************************************************************)
(* A request that never reaches its commit: lost on the way, an exception, *)
(* a worker that dies.  get_db closes the session, which rolls it back.    *)
(***************************************************************************)
Abort(s) ==
    /\ req[s] # NoRequest
    /\ Answered(s)
    /\ UNCHANGED <<table, due>>

(***************************************************************************)
(* The clock passes expires_at of a job.                                   *)
(***************************************************************************)
TimePasses(j) ==
    /\ status[j] # "none"
    /\ ~due[j]
    /\ due' = [due EXCEPT ![j] = TRUE]
    /\ UNCHANGED <<table, req>>

-----------------------------------------------------------------------------
OperatorSends ==
    \E s \in Slots :
        \/ \E d \in Devices, j \in Jobs : SendCreate(s, d, j)
        \/ \E d \in Devices : Send(s, "list", d, None, FALSE)
        \/ \E j \in Jobs : Send(s, "cancel", None, j, FALSE)

ClientSends ==
    \E s \in Slots, d \in Devices :
        \/ Send(s, "poll", d, None, FALSE)
        \/ \E j \in Jobs :
            \/ Send(s, "start", d, j, FALSE)
            \/ \E ok \in BOOLEAN : Send(s, "complete", d, j, ok)

(* Steps inside the server that leave the request unanswered.              *)
Works(s) == CreateBegin(s) \/ ExpireSelect(s) \/ AssignSelect(s) \/ LoadJob(s)

OperatorCommit(s) == CreateCommit(s) \/ ListCommit(s) \/ CancelCommit(s)

AgentCommit(s) == PollCommit(s) \/ StartCommit(s) \/ CompleteCommit(s)

Fails(s) == Reject(s) \/ CompleteConflict(s) \/ Abort(s)

Next ==
    \/ OperatorSends
    \/ ClientSends
    \/ \E s \in Slots : Works(s) \/ OperatorCommit(s) \/ AgentCommit(s) \/ Fails(s)
    \/ \E j \in Jobs : TimePasses(j)

Spec == Init /\ [][Next]_jobVars

-----------------------------------------------------------------------------
(* Type invariant of the job tables and of the requests in flight.         *)
TypeOK ==
    /\ status   \in [Jobs -> {"none"} \cup Open \cup Terminal]
    /\ assignee \in [Jobs -> Devices \cup {None}]
    /\ device   \in [Jobs -> Devices \cup {None}]
    /\ stamp    \in [Jobs -> Nat]
    /\ due      \in [Jobs -> BOOLEAN]
    /\ result   \in [Jobs -> {"none", "succeeded", "failed"}]
    /\ events   \in [Jobs -> SUBSET EventTypes]
    /\ req      \in [Slots -> Request]

(***************************************************************************)
(* Whatever the clients call and however requests overlap, a result row is *)
(* only ever written for a job some agent has started (complete_job        *)
(* demands "running", and only start_job sets it).                         *)
(***************************************************************************)
ResultNeedsStart == \A j \in Jobs : result[j] # "none" => "started" \in events[j]

(***************************************************************************)
(* A job shown as succeeded or failed has the result row that says the     *)
(* same, also when two completions of one job race: the unique job_id      *)
(* makes the later one fail together with its status change.               *)
(***************************************************************************)
StatusMatchesResult ==
    \A j \in Jobs : status[j] \in {"succeeded", "failed"} => result[j] = status[j]

(***************************************************************************)
(* A recorded result is never replaced (agent_job_results has one row per  *)
(* job and complete_job only inserts).                                     *)
(***************************************************************************)
ResultIsKept ==
    [][\A j \in Jobs : result[j] # "none" => result'[j] = result[j]]_jobVars

(***************************************************************************)
(* A job in a terminal state that no request in flight has read stays as   *)
(* it is: from then on sweeps, polls, starts, completions and              *)
(* cancellations all leave it alone, however they overlap.  So a job that  *)
(* does leave a terminal state (see TerminalIsFinal) was read before.      *)
(***************************************************************************)
HasRead(s, j) ==
    \/ j \in req[s].sweep \cup req[s].batch
    \/ req[s].op \in Checks /\ req[s].phase = "loaded" /\ req[s].job = j

AtRest(j) == status[j] \in Terminal /\ \A s \in Slots : ~HasRead(s, j)

RestIsFinal ==
    [][\A j \in Jobs : AtRest(j) => AtRest(j)' /\ status'[j] = status[j]]_jobVars

(***************************************************************************)
(* Only the agent of the job's own device is ever recorded as working on   *)
(* it (poll's device filter and require_agent_job).                        *)
(***************************************************************************)
AssignedAtHome == \A j \in Jobs : assignee[j] \in {None, device[j]}

(***************************************************************************)
(* A job is declared expired only after its expires_at has passed.         *)
(***************************************************************************)
ExpiredOnlyWhenDue == \A j \in Jobs : "expired" \in events[j] => due[j]

(***************************************************************************)
(* Jobs of a device are handed out oldest first: none is still queued once *)
(* a younger one was assigned.  It holds while requests do not overlap; a  *)
(* create that commits late is older than what was handed out before it.   *)
(***************************************************************************)
OldestFirst ==
    \A i, j \in Jobs :
        /\ stamp[i] < stamp[j]
        /\ device[i] = device[j]
        /\ "assigned" \in events[j]
        => status[i] # "queued"

(***************************************************************************)
(* The promised life of a job, read off the status column: it is kept when *)
(* requests do not overlap.                                                *)
(***************************************************************************)
Promised == INSTANCE JobLifecycle WITH state <- status

KeepsPromise == Promised!Spec

(***************************************************************************)
(* docs/Architecture.md: a poll "assigns unexpired queued jobs only", so   *)
(* no job that the poll itself has just swept as expired is handed out.    *)
(***************************************************************************)
AssignsUnexpiredOnly == \A s \in Slots : req[s].sweep \cap req[s].batch = {}

(***************************************************************************)
(* docs/Architecture.md: succeeded, failed, canceled and expired are       *)
(* terminal states, so a job never leaves them.                            *)
(***************************************************************************)
TerminalIsFinal ==
    [][\A j \in Jobs : status[j] \in Terminal => status'[j] = status[j]]_jobVars
=============================================================================
