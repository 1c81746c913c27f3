----------------------------- MODULE AgentService -----------------------------
(***************************************************************************)
(* The agent as a Windows service (agent/internal/service, the `run` and   *)
(* `service` commands of main.go, RunWithIntervals): Execute answers the   *)
(* service control manager while a worker goroutine checks in and polls    *)
(* for jobs, and `service stop` waits until the manager says Stopped.      *)
(*                                                                         *)
(* Stopped is reported while the process is still there: it ends when      *)
(* Execute, svc.Run and main have returned, and the service may have been  *)
(* started anew by then.  A process reads the config file once, which the  *)
(* `enroll` command rewrites in place whenever it likes.                   *)
(*                                                                         *)
(* The manager itself is not in src/ and modelled from how it is used.  A  *)
(* process outside of the service (`run`, `jobs`) is left out, see         *)
(* OneProcessPerDevice of AgentJobs; for overlapping `enroll` commands see *)
(* module Enrollment.                                                      *)
(***************************************************************************)
EXTENDS Naturals

CONSTANTS
    Procs,     \* service processes that may exist at a time
    Stoppers,  \* `service stop` commands that may overlap
    Grace,     \* ticks a worker is given to end (20 s)
    Patience   \* ticks a `service stop` command waits (30 s)

ASSUME GraceAssumption == Grace \in Nat /\ Patience \in Nat /\ Grace < Patience

VARIABLES
    service,  \* what the manager says of the service
    deleted,  \* is the service marked for deletion?
    proc,     \* service processes
    stopper,  \* `service stop` commands
    file,     \* the config file: credentials, none, or truncated to be written
    renewed   \* history: was the service started since the file was written?

vars == <<service, deleted, proc, stopper, file, renewed>>
config == <<file, renewed>>

ServiceState == {"absent", "stopped", "start pending", "running", "stop pending"}

(***************************************************************************)
(* main: "created", then "loaded" with the config until Execute is         *)
(* entered, "spawned" once the worker is started, "serving" in the select  *)
(* of Execute, "stopping" in the inner one, "leaving" when Execute has     *)
(* returned.  worker: "busy" in local work (a payload, a job handler),     *)
(* which does not look at the context and may take for ever; "calling" the *)
(* server; "waiting" in the select of RunWithIntervals; "none" before and  *)
(* "ended" after.  creds: those it has loaded, "old" when the file is      *)
(* rewritten.  asked: is a Stop or Shutdown request in the channel?        *)
(* cancelled: has cancel been called?  left: ticks until                   *)
(* time.After(20 * time.Second) fires.                                     *)
(***************************************************************************)
Process ==
    [main      : {"none", "created", "loaded", "spawned", "serving", "stopping", "leaving"},
     worker    : {"none", "busy", "calling", "waiting", "ended"},
     creds     : {"none", "old", "current"},
     asked     : BOOLEAN,
     cancelled : BOOLEAN,
     left      : 0..Grace]

NoProcess == [main |-> "none", worker |-> "none", creds |-> "none", asked |-> FALSE,
              cancelled |-> FALSE, left |-> 0]

(***************************************************************************)
(* pc: waiting for Stopped or how the last one ended.  left: ticks until   *)
(* the deadline; queried: has it asked since the last tick?  Then history, *)
(* restarted: was the service started since the request to stop?           *)
(***************************************************************************)
Command ==
    [pc : {"done", "waiting", "timed out"}, left : 0..Patience, queried : BOOLEAN,
     restarted : BOOLEAN]

NoCommand == [pc |-> "done", left |-> 0, queried |-> FALSE, restarted |-> FALSE]

(* Not installed, not enrolled.                                            *)
Init ==
    /\ service = "absent"
    /\ deleted = FALSE
    /\ proc = [p \in Procs |-> NoProcess]
    /\ stopper = [k \in Stoppers |-> NoCommand]
    /\ file = "none"
    /\ renewed = FALSE

Waits(k) == stopper[k].pc = "waiting"

-----------------------------------------------------------------------------
(* The commands.  Those that the manager refuses change nothing.           *)
Install ==
    /\ service = "absent"
    /\ service' = "stopped"
    /\ UNCHANGED <<deleted, proc, stopper, config>>

(* The manager starts `cyclope-agent run`.                                 *)
Start(p) ==
    /\ service = "stopped"
    /\ ~deleted
    /\ proc[p].main = "none"
    /\ service' = "start pending"
    /\ proc' = [proc EXCEPT ![p] = [NoProcess EXCEPT !.main = "created"]]
    /\ stopper' = [k \in Stoppers |->
                     IF Waits(k) THEN [stopper[k] EXCEPT !.restarted = TRUE] ELSE stopper[k]]
    /\ renewed' = (file = "written")
    /\ UNCHANGED <<deleted, file>>

Asked == [p \in Procs |->
            IF proc[p].main = "serving" THEN [proc[p] EXCEPT !.asked = TRUE] ELSE proc[p]]

(* Control(svc.Stop), which a service accepts only while it is running.    *)
Stop(k) ==
    /\ ~Waits(k)
    /\ service = "running"
    /\ proc' = Asked
    /\ stopper' = [stopper EXCEPT ![k] = [pc |-> "waiting", left |-> Patience,
                                          queried |-> FALSE, restarted |-> FALSE]]
    /\ UNCHANGED <<service, deleted, config>>

(* The system shuts down.                                                  *)
Shutdown ==
    /\ service = "running"
    /\ proc' = Asked
    /\ UNCHANGED <<service, deleted, stopper, config>>

Uninstall ==
    /\ service # "absent"
    /\ ~deleted
    /\ deleted' = TRUE
    /\ UNCHANGED <<service, proc, stopper, config>>

(* The manager deletes a marked service once nobody has it open.           *)
Remove ==
    /\ deleted
    /\ service = "stopped"
    /\ \A k \in Stoppers : ~Waits(k)
    /\ service' = "absent"
    /\ deleted' = FALSE
    /\ UNCHANGED <<proc, stopper, config>>

-----------------------------------------------------------------------------
\* Faulty variant: never too late.
QueryForEver(k) ==
    /\ Waits(k)
    /\ stopper' = [stopper EXCEPT ![k] = IF service = "stopped" THEN NoCommand
                                         ELSE [stopper[k] EXCEPT !.queried = TRUE]]
    /\ UNCHANGED <<service, deleted, proc, config>>

TimedOut(c) == [c EXCEPT !.pc = "timed out", !.queried = FALSE]

\* Faulty variant: looks at the clock before it looks at the status.
QueryTooLate(k) ==
    /\ Waits(k)
    /\ stopper' = [stopper EXCEPT ![k] =
                     IF stopper[k].left = 0 THEN TimedOut(stopper[k])
                     ELSE IF service = "stopped" THEN NoCommand
                     ELSE [stopper[k] EXCEPT !.queried = TRUE]]
    /\ UNCHANGED <<service, deleted, proc, config>>

(* Query, every 500 ms: Stopped, or too late, or once more.                *)
Query(k) ==
    /\ Waits(k)
    /\ stopper' = [stopper EXCEPT ![k] =
                     IF service = "stopped" THEN NoCommand
                     ELSE IF stopper[k].left = 0 THEN TimedOut(stopper[k])
                     ELSE [stopper[k] EXCEPT !.queried = TRUE]]
    /\ UNCHANGED <<service, deleted, proc, config>>

(***************************************************************************)
(* `enroll` has new credentials, and os.WriteFile truncates the file, then *)
(* writes it; the command may die in between.                              *)
(***************************************************************************)
Truncate ==
    /\ file # "truncated"
    /\ file' = "truncated"
    /\ renewed' = FALSE
    /\ proc' = [p \in Procs |-> IF proc[p].creds = "current"
                                THEN [proc[p] EXCEPT !.creds = "old"] ELSE proc[p]]
    /\ UNCHANGED <<service, deleted, stopper>>

Write ==
    /\ file = "truncated"
    /\ file' \in {"written", "none"}
    /\ UNCHANGED <<service, deleted, proc, stopper, renewed>>

-----------------------------------------------------------------------------
\* Faulty variant: the credentials are not among what is saved.
LoadSettings(p) ==
    /\ proc[p].main = "created"
    /\ proc' = [proc EXCEPT ![p].main = "loaded"]
    /\ UNCHANGED <<service, deleted, stopper, config>>

(* LoadFromFile, with Default, which has no credentials, when it fails.    *)
Load(p) ==
    /\ proc[p].main = "created"
    /\ proc' = [proc EXCEPT ![p].main = "loaded",
                            ![p].creds = IF file = "written" THEN "current" ELSE "none"]
    /\ UNCHANGED <<service, deleted, stopper, config>>

(* Execute: the worker is started, then the service reported as running.   *)
Execute(p) ==
    /\ proc[p].main = "loaded"
    /\ proc' = [proc EXCEPT ![p].main = "spawned", ![p].worker = "busy"]
    /\ UNCHANGED <<service, deleted, stopper, config>>

ReportRunning(p) ==
    /\ proc[p].main = "spawned"
    /\ service' = "running"
    /\ proc' = [proc EXCEPT ![p].main = "serving"]
    /\ UNCHANGED <<deleted, stopper, config>>

\* Faulty variant: the worker is not told.
HandleStopUncancelled(p) ==
    /\ proc[p].main = "serving"
    /\ proc[p].asked
    /\ service' = "stop pending"
    /\ proc' = [proc EXCEPT ![p].main = "stopping", ![p].asked = FALSE, ![p].left = Grace]
    /\ UNCHANGED <<deleted, stopper, config>>

(***************************************************************************)
(* Stop and Shutdown.  (The worker does not end before, so the other case  *)
(* of the select is never ready: RunWithIntervals returns only when it has *)
(* been cancelled.)                                                        *)
(***************************************************************************)
HandleStop(p) ==
    /\ proc[p].main = "serving"
    /\ proc[p].asked
    /\ service' = "stop pending"
    /\ proc' = [proc EXCEPT ![p].main = "stopping", ![p].asked = FALSE,
                            ![p].cancelled = TRUE, ![p].left = Grace]
    /\ UNCHANGED <<deleted, stopper, config>>

Over(p) == proc[p].main = "stopping" /\ (proc[p].worker = "ended" \/ proc[p].left = 0)

\* Faulty variant: waits for the worker, however long it takes.
ReportStoppedPatiently(p) ==
    /\ proc[p].main = "stopping"
    /\ proc[p].worker = "ended"
    /\ service' = "stopped"
    /\ proc' = [proc EXCEPT ![p].main = "leaving"]
    /\ UNCHANGED <<deleted, stopper, config>>

(* The worker has ended, or time.After fires.                              *)
ReportStopped(p) ==
    /\ Over(p)
    /\ service' = "stopped"
    /\ proc' = [proc EXCEPT ![p].main = "leaving"]
    /\ UNCHANGED <<deleted, stopper, config>>

(* main returns, and with it all goroutines end.                           *)
Exit(p) ==
    /\ proc[p].main = "leaving"
    /\ proc' = [proc EXCEPT ![p] = NoProcess]
    /\ UNCHANGED <<service, deleted, stopper, config>>

(* Any other end of the process: a panic, a kill, no log file.  Install    *)
(* asks for no recovery action.                                            *)
Crash(p) ==
    /\ proc[p].main \notin {"none", "leaving"}
    /\ service' = "stopped"
    /\ proc' = [proc EXCEPT ![p] = NoProcess]
    /\ UNCHANGED <<deleted, stopper, config>>

-----------------------------------------------------------------------------
(***************************************************************************)
(* RunWithIntervals, whose calls fail at once when the context has been    *)
(* cancelled, or without credentials.  Its select takes any case that is   *)
(* ready: a cancelled worker may be woken by a ticker once more.           *)
(***************************************************************************)
WorkerMoves(p, from, to) ==
    /\ proc[p].worker = from
    /\ proc' = [proc EXCEPT ![p].worker = to]
    /\ UNCHANGED <<service, deleted, stopper, config>>

MayCall(p) == ~proc[p].cancelled /\ proc[p].creds # "none"

Call(p)    == MayCall(p) /\ WorkerMoves(p, "busy", "calling")
Refused(p) == ~MayCall(p) /\ WorkerMoves(p, "busy", "waiting")
Answer(p)  == \E to \in {"busy", "waiting"} : WorkerMoves(p, "calling", to)
Wake(p)    == WorkerMoves(p, "waiting", "busy")
Return(p)  == proc[p].cancelled /\ WorkerMoves(p, "waiting", "ended")

-----------------------------------------------------------------------------
(***************************************************************************)
(* Ten seconds.  Long enough for every query, and for Execute to do what   *)
(* it has been asked.                                                      *)
(***************************************************************************)
Tick ==
    /\ \A p \in Procs : ~(proc[p].main = "serving" /\ proc[p].asked) /\ ~Over(p)
    /\ \A k \in Stoppers : Waits(k) => stopper[k].queried
    /\ proc' = [p \in Procs |-> IF proc[p].main = "stopping"
                                THEN [proc[p] EXCEPT !.left = proc[p].left - 1]
                                ELSE proc[p]]
    /\ stopper' = [k \in Stoppers |->
                     IF Waits(k)
                     THEN [stopper[k] EXCEPT !.left = stopper[k].left - 1, !.queried = FALSE]
                     ELSE stopper[k]]
    /\ UNCHANGED <<service, deleted, config>>

Commands ==
    \/ Install \/ Uninstall \/ Remove \/ Shutdown
    \/ Truncate \/ Write
    \/ \E p \in Procs : Start(p)
    \/ \E k \in Stoppers : Stop(k) \/ Query(k)

Handler(p) ==
    \/ Load(p) \/ Execute(p) \/ ReportRunning(p)
    \/ HandleStop(p) \/ ReportStopped(p)
    \/ Exit(p) \/ Crash(p)

Worker(p) == Call(p) \/ Refused(p) \/ Answer(p) \/ Wake(p) \/ Return(p)

Next ==
    \/ Commands
    \/ \E p \in Procs : Handler(p) \/ Worker(p)
    \/ Tick

Spec == Init /\ [][Next]_vars

(***************************************************************************)
(* Time passes, however much happens in a tick (hence strong fairness),    *)
(* Execute is scheduled and a command goes on asking.  The worker may      *)
(* hang, and a process need not come up or exit.                           *)
(***************************************************************************)
Fairness ==
    /\ SF_vars(Tick)
    /\ \A p \in Procs : WF_vars(HandleStop(p)) /\ WF_vars(ReportStopped(p))
    /\ \A k \in Stoppers : WF_vars(Query(k))

FairSpec == Spec /\ Fairness

-----------------------------------------------------------------------------
(* Type invariant.                                                         *)
TypeOK ==
    /\ service \in ServiceState
    /\ deleted \in BOOLEAN
    /\ proc \in [Procs -> Process]
    /\ stopper \in [Stoppers -> Command]
    /\ file \in {"none", "truncated", "written"}
    /\ renewed \in BOOLEAN

(***************************************************************************)
(* Nothing reaches the server in the name of a service that has been       *)
(* reported as stopped, and never do two workers, although a worker may    *)
(* outlive that report and meet the one of the next start.                 *)
(***************************************************************************)
Talks(p) == proc[p].worker \notin {"none", "ended"} /\ MayCall(p)

OneWorkerTalks ==
    /\ service \in {"absent", "stopped"} => \A p \in Procs : ~Talks(p)
    /\ \A p, q \in Procs : Talks(p) /\ Talks(q) => p = q

(***************************************************************************)
(* Once the service has been started after an enrolment, only its          *)
(* credentials are used, whatever is left of the processes before.  (Until *)
(* then a running service goes on with those it has read.)                 *)
(***************************************************************************)
RestartRenews ==
    renewed => \A p \in Procs : /\ Talks(p) => proc[p].creds = "current"
                                /\ proc[p].main = "serving" => Talks(p)

(***************************************************************************)
(* `service stop` does not give up on a service that stops: it times out   *)
(* only if somebody started the service again while it waited, between     *)
(* two of its queries.                                                     *)
(***************************************************************************)
TimeoutMeansRestart == \A k \in Stoppers : stopper[k].pc = "timed out" => stopper[k].restarted

(***************************************************************************)
(* A request to stop is settled, even if the worker hangs: Execute ends,   *)
(* and so does every `service stop` command.                               *)
(***************************************************************************)
StopSettles ==
    /\ \A p \in Procs : proc[p].asked ~> proc[p].main \in {"none", "leaving"}
    /\ \A k \in Stoppers : Waits(k) ~> ~Waits(k)
=============================================================================
