------------------------------ MODULE AgentJobs ------------------------------
(***************************************************************************)
(* The Go agent's job loop (agent/internal/checkin/jobs.go, checkin.go)    *)
(* driving the server of JobServer.  One goroutine per agent process polls,*)
(* and then, job by job, reports the start, runs the handler and reports   *)
(* the result; any error drops the rest of the batch until the next tick.  *)
(* The HTTP client gives up after 15 s while the request may still be      *)
(* worked on: it goes on in its slot with nobody waiting for the answer.   *)
(***************************************************************************)
EXTENDS JobServer

CONSTANTS
    Procs,  \* agent processes
    Home    \* Home[p]: the device whose credentials process p loaded

ASSUME HomeAssumption == Home \in [Procs -> Devices]

(* One agent process per device: the service runs and nobody starts the    *)
(* `jobs` command next to it.                                              *)
OneProcessPerDevice == \A p, q \in Procs : Home[p] = Home[q] => p = q

VARIABLES
    proc,      \* the job loop of each process
    runs,      \* how often the handler of a job was entered (2: twice or more)
    reported   \* history: the outcomes of the handler runs of a job

vars == <<status, assignee, device, stamp, due, result, events, req,
          proc, runs, reported>>

(***************************************************************************)
(* pc: "idle" between two calls (todo is what is left of the batch),       *)
(* "running" in a handler, the others waiting for the answer in `slot`.    *)
(***************************************************************************)
Waiting == {"polling", "starting", "completing"}

Process == [pc : {"idle", "running"} \cup Waiting, slot : Slots \cup {None},
            todo : SUBSET Jobs, job : Jobs \cup {None}]

Resting == [pc |-> "idle", slot |-> None, todo |-> {}, job |-> None]

AgentInit ==
    /\ Init
    /\ proc = [p \in Procs |-> Resting]
    /\ runs = [j \in Jobs |-> 0]
    /\ reported = [j \in Jobs |-> {}]

Awaits(p, s) == proc[p].pc \in Waiting /\ proc[p].slot = s
Awaited(s) == \E p \in Procs : Awaits(p, s)

-----------------------------------------------------------------------------
(* A tick of the job ticker with no batch left: PollJobs.                  *)
Poll(p, s) ==
    /\ proc[p] = Resting
    /\ Send(s, "poll", Home[p], None, FALSE)
    /\ proc' = [proc EXCEPT ![p] = [pc |-> "polling", slot |-> s, todo |-> {}, job |-> None]]
    /\ UNCHANGED <<runs, reported>>

\* Faulty variant: an empty answer decodes to a list with one null job.
PollAnswerWithNull(p, s) ==
    /\ Awaits(p, s)
    /\ PollCommit(s)
    /\ proc' = [proc EXCEPT ![p] = [Resting EXCEPT !.todo =
                    IF req[s].batch = {} THEN {None} ELSE req[s].batch]]
    /\ UNCHANGED <<runs, reported>>

PollAnswer(p, s) ==
    /\ Awaits(p, s)
    /\ PollCommit(s)
    /\ proc' = [proc EXCEPT ![p] = [Resting EXCEPT !.todo = req[s].batch]]
    /\ UNCHANGED <<runs, reported>>

(***************************************************************************)
(* The next job of the batch, in the order of the answer: StartJob.        *)
(***************************************************************************)
StartNext(p, s, j) ==
    /\ proc[p].pc = "idle"
    /\ j \in proc[p].todo
    /\ \A i \in proc[p].todo : stamp[j] <= stamp[i]
    /\ Send(s, "start", Home[p], j, FALSE)
    /\ proc' = [proc EXCEPT ![p] = [pc |-> "starting", slot |-> s,
                                    todo |-> @.todo \ {j}, job |-> j]]
    /\ UNCHANGED <<runs, reported>>

(***************************************************************************)
(* A 2xx answer to the start: ExecuteJob is entered.                       *)
(***************************************************************************)
StartAnswer(p, s) ==
    /\ Awaits(p, s)
    /\ StartCommit(s)
    /\ proc' = [proc EXCEPT ![p].pc = "running", ![p].slot = None]
    /\ runs' = [runs EXCEPT ![proc[p].job] = IF @ = 0 THEN 1 ELSE 2]
    /\ UNCHANGED reported

\* Faulty variant: a failed handler is reported as succeeded.
ExecuteAlwaysOk(p, s, ok) ==
    /\ proc[p].pc = "running"
    /\ Send(s, "complete", Home[p], proc[p].job, TRUE)
    /\ proc' = [proc EXCEPT ![p].pc = "completing", ![p].slot = s]
    /\ reported' = [reported EXCEPT ![proc[p].job] =
                      @ \cup {IF ok THEN "succeeded" ELSE "failed"}]
    /\ UNCHANGED runs

(***************************************************************************)
(* The handler returns (for refresh_inventory after one more check-in,     *)
(* whose failure turns the result into a failure): CompleteJob.            *)
(***************************************************************************)
Execute(p, s, ok) ==
    /\ proc[p].pc = "running"
    /\ Send(s, "complete", Home[p], proc[p].job, ok)
    /\ proc' = [proc EXCEPT ![p].pc = "completing", ![p].slot = s]
    /\ reported' = [reported EXCEPT ![proc[p].job] =
                      @ \cup {IF ok THEN "succeeded" ELSE "failed"}]
    /\ UNCHANGED runs

CompleteAnswer(p, s) ==
    /\ Awaits(p, s)
    /\ CompleteCommit(s)
    /\ proc' = [proc EXCEPT ![p] = [Resting EXCEPT !.todo = proc[p].todo]]
    /\ UNCHANGED <<runs, reported>>

(***************************************************************************)
(* A status outside 2xx or a broken connection: ProcessJobs returns the    *)
(* error and the rest of the batch is forgotten.                           *)
(***************************************************************************)
ErrorAnswer(p, s) ==
    /\ Awaits(p, s)
    /\ Fails(s)
    /\ proc' = [proc EXCEPT ![p] = Resting]
    /\ UNCHANGED <<runs, reported>>

(***************************************************************************)
(* The client's timeout, or the end of the process (stop, crash, reboot):  *)
(* the request it waited for, if any, goes on without it.                  *)
(***************************************************************************)
GiveUp(p) ==
    /\ proc[p] # Resting
    /\ proc' = [proc EXCEPT ![p] = Resting]
    /\ UNCHANGED <<jobVars, runs, reported>>

(***************************************************************************)
(* Server steps no agent process sees.                                     *)
(***************************************************************************)
Unseen(s) ==
    /\ \/ Works(s)
       \/ OperatorCommit(s)
       \/ ~Awaited(s) /\ (AgentCommit(s) \/ Fails(s))
    /\ UNCHANGED <<proc, runs, reported>>

Operator == OperatorSends /\ UNCHANGED <<proc, runs, reported>>

Tick(j) == TimePasses(j) /\ UNCHANGED <<proc, runs, reported>>

ProcStep(p) ==
    \/ GiveUp(p)
    \/ \E s \in Slots :
        \/ Poll(p, s) \/ PollAnswer(p, s)
        \/ \E j \in Jobs : StartNext(p, s, j)
        \/ StartAnswer(p, s)
        \/ \E ok \in BOOLEAN : Execute(p, s, ok)
        \/ CompleteAnswer(p, s) \/ ErrorAnswer(p, s)

AgentNext ==
    \/ Operator
    \/ \E j \in Jobs : Tick(j)
    \/ \E s \in Slots : Unseen(s)
    \/ \E p \in Procs : ProcStep(p)

AgentSpec == AgentInit /\ [][AgentNext]_vars

(***************************************************************************)
(* Fairness.  The ticker of a running agent fires for ever, and requests   *)
(* do not fail for ever: whatever a request can do infinitely often, it    *)
(* does (strong fairness, since Abort and GiveUp may cut any single one    *)
(* short).  Nothing is asked of operators.                                 *)
(***************************************************************************)
Fairness ==
    /\ \A j \in Jobs : WF_vars(Tick(j))
    /\ \A p \in Procs :
        /\ SF_vars(\E s \in Slots : Poll(p, s))
        /\ WF_vars(GiveUp(p))
    /\ \A s \in Slots :
        /\ SF_vars(Unseen(s) /\ At(s, "poll", "sent") /\ ExpireSelect(s))
        /\ SF_vars(Unseen(s) /\ AssignSelect(s))
        /\ WF_vars(Unseen(s))
        /\ SF_vars(PollCommit(s) /\ (Unseen(s) \/ \E p \in Procs : PollAnswer(p, s)))

FairSpec == AgentSpec /\ Fairness

-----------------------------------------------------------------------------
(* Type invariant of the agents and of the history.                        *)
AgentTypeOK ==
    /\ TypeOK
    /\ proc \in [Procs -> Process]
    /\ runs \in [Jobs -> 0..2]
    /\ reported \in [Jobs -> SUBSET {"succeeded", "failed"}]

(***************************************************************************)
(* With one agent process per device, the handler of a job is entered at   *)
(* most once, although polls, starts and their answers may be lost, late   *)
(* or repeated and the process may be restarted at any moment.             *)
(***************************************************************************)
ExecutedAtMostOnce == \A j \in Jobs : runs[j] <= 1

(***************************************************************************)
(* A recorded result is the outcome of a run of the handler that really    *)
(* took place.                                                             *)
(***************************************************************************)
ResultIsTruthful ==
    \A j \in Jobs : result[j] # "none" => runs[j] > 0 /\ result[j] \in reported[j]

(***************************************************************************)
(* An agent only ever runs jobs of the device whose credentials it holds.  *)
(***************************************************************************)
Held(p) == proc[p].todo \cup ({proc[p].job} \ {None})

RunsAtHome == \A p \in Procs : \A j \in Held(p) : device[j] = Home[p]

(***************************************************************************)
(* Every created job comes to rest: from some moment on its status is      *)
(* terminal for good, whatever answers were lost and whichever stale       *)
(* commits still had to land.                                              *)
(***************************************************************************)
EveryJobSettles ==
    \A j \in Jobs : status[j] # "none" ~> [](status[j] \in Terminal)
=============================================================================
