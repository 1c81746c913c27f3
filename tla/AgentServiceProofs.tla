-------------------------- MODULE AgentServiceProofs --------------------------
(***************************************************************************)
(* Proofs about AgentService, for any number of processes and of `service  *)
(* stop` commands and for any grace that is shorter than the patience of   *)
(* the command.  ServiceInv says whom the manager's word is about: it has  *)
(* one process at most, all others have been cancelled, and a command that *)
(* waits has more time left than the process it waits for.                 *)
(***************************************************************************)
EXTENDS AgentService, TLAPS

(* The processes that the manager counts.                                  *)
Up(p) == proc[p].main \notin {"none", "leaving"}

OneUp == \A p, q \in Procs : Up(p) /\ Up(q) => p = q

Shown ==
    \A p \in Procs :
        /\ proc[p].main \in {"created", "loaded", "spawned"} => service = "start pending"
        /\ proc[p].main = "serving" => service = "running"
        /\ proc[p].main = "stopping" => service = "stop pending"

SomeUp == service \notin {"absent", "stopped"} => \E p \in Procs : Up(p)

(* What main has done so far to its worker.                                *)
WorkerOf(r) ==
    /\ r.main \in {"none", "created", "loaded"} => r.worker = "none"
    /\ r.main \in {"spawned", "serving"} => r.worker \in {"busy", "calling", "waiting"}
    /\ r.main \in {"stopping", "leaving"} <=> r.cancelled = TRUE
    /\ r.asked = TRUE => r.main = "serving"

Workers == \A p \in Procs : WorkerOf(proc[p])

Renewed ==
    renewed = TRUE =>
        /\ file = "written"
        /\ \A p \in Procs :
              proc[p].main \in {"loaded", "spawned", "serving"} => proc[p].creds = "current"

(* A command has time for a query, and as long as there was no other start *)
(* more of it than what is left of the grace.                              *)
HasTime(k) ==
    /\ stopper[k].queried = TRUE => stopper[k].left > 0
    /\ stopper[k].restarted = FALSE =>
          /\ service \in {"running", "stop pending", "stopped"}
          /\ service = "running" => stopper[k].left = Patience
          /\ \A p \in Procs :
                /\ proc[p].main = "serving" => proc[p].asked = TRUE
                /\ proc[p].main = "stopping" => proc[p].left < stopper[k].left

InTime == \A k \in Stoppers : Waits(k) => HasTime(k)

ServiceInv ==
    /\ TypeOK
    /\ OneUp /\ Shown /\ SomeUp
    /\ Workers
    /\ Renewed
    /\ InTime /\ TimeoutMeansRestart

-----------------------------------------------------------------------------
LEMMA NoneAreSound == NoProcess \in Process /\ WorkerOf(NoProcess) /\ NoCommand \in Command
BY GraceAssumption DEF NoProcess, Process, NoCommand, Command, WorkerOf

LEMMA InitService == Init => ServiceInv
<1> SUFFICES ASSUME Init PROVE ServiceInv
  OBVIOUS
<1>1. \A p \in Procs : proc[p] = NoProcess /\ proc[p].main = "none"
  BY DEF Init, NoProcess
<1>2. \A k \in Stoppers : stopper[k].pc = "done"
  BY DEF Init, NoCommand
<1>3. TypeOK
  BY NoneAreSound DEF Init, TypeOK, ServiceState
<1>4. OneUp /\ Shown /\ SomeUp
  BY <1>1 DEF Init, OneUp, Up, Shown, SomeUp
<1>5. Workers
  BY <1>1, NoneAreSound DEF Workers
<1>6. Renewed
  BY DEF Init, Renewed
<1>7. InTime /\ TimeoutMeansRestart
  BY <1>2 DEF InTime, Waits, TimeoutMeansRestart
<1> QED BY <1>3, <1>4, <1>5, <1>6, <1>7 DEF ServiceInv

(* The types of one process that changes.                                  *)
LEMMA ProcChanges ==
    ASSUME TypeOK, NEW p \in Procs, NEW r \in Process, proc' = [proc EXCEPT ![p] = r]
    PROVE  /\ proc' \in [Procs -> Process]
           /\ proc'[p] = r
           /\ \A q \in Procs : q # p => proc'[q] = proc[q]
BY DEF TypeOK

(* Ticks are natural numbers.                                              *)
LEMMA LeftIsNat ==
    ASSUME TypeOK
    PROVE  /\ \A p \in Procs : proc[p].left \in Nat
           /\ \A k \in Stoppers : stopper[k].left \in Nat
<1>1. \A n \in 0..Grace : n \in Nat
  BY GraceAssumption
<1>2. \A n \in 0..Patience : n \in Nat
  BY GraceAssumption
<1>3. \A p \in Procs : proc[p].left \in 0..Grace
  BY DEF TypeOK, Process
<1>4. \A k \in Stoppers : stopper[k].left \in 0..Patience
  BY DEF TypeOK, Command
<1> QED BY <1>1, <1>2, <1>3, <1>4

LEMMA TimeRunsOut == Patience # 0 /\ \A n \in Nat : ~(n < 0)
BY GraceAssumption

-----------------------------------------------------------------------------
(***************************************************************************)
(* One process changes from proc[p] to r, and with it perhaps what the     *)
(* manager says: the invariant is kept if r is what the manager says, and  *)
(* has no more time than the commands that wait for it.                    *)
(***************************************************************************)
UpIn(r) == r.main \notin {"none", "leaving"}

ShownAs(r, s) ==
    /\ r.main \in {"created", "loaded", "spawned"} => s = "start pending"
    /\ r.main = "serving" => s = "running"
    /\ r.main = "stopping" => s = "stop pending"

Awaited(k, r, s) ==
    /\ s \in {"running", "stop pending", "stopped"}
    /\ s = "running" => stopper[k].left = Patience
    /\ r.main = "serving" => r.asked = TRUE
    /\ r.main = "stopping" => r.left < stopper[k].left

LEMMA ProcStep ==
    ASSUME ServiceInv, NEW p \in Procs, NEW r \in Process, proc' = [proc EXCEPT ![p] = r],
           UNCHANGED <<deleted, stopper, file, renewed>>, service' \in ServiceState,
           WorkerOf(r), ShownAs(r, service'),
           Up(p) => UpIn(r) \/ service' = "stopped",
           ~Up(p) => ~UpIn(r) /\ service' = service,
           renewed = TRUE /\ r.main \in {"loaded", "spawned", "serving"} => r.creds = "current",
           \A k \in Stoppers :
              Waits(k) /\ stopper[k].restarted = FALSE => Awaited(k, r, service')
    PROVE  ServiceInv'
<1>0. TypeOK
  BY DEF ServiceInv
<1>1. /\ proc' \in [Procs -> Process] /\ proc'[p] = r
      /\ \A q \in Procs : q # p => proc'[q] = proc[q]
  BY <1>0, ProcChanges
<1>2. \A q \in Procs : q # p => \/ service' = service
                               \/ proc[q].main \in {"none", "leaving"}
  BY DEF ServiceInv, OneUp, Up
<1>3. TypeOK'
  BY <1>0, <1>1 DEF TypeOK
<1>4. OneUp'
  BY <1>1 DEF ServiceInv, OneUp, Up, UpIn
<1>5. Shown'
  BY <1>1, <1>2 DEF ServiceInv, Shown, ShownAs
<1>6. SomeUp'
  BY <1>1 DEF ServiceInv, SomeUp, Up, UpIn
<1>7. Workers'
  BY <1>1 DEF ServiceInv, Workers
<1>8. Renewed'
  BY <1>1 DEF ServiceInv, Renewed
<1>9. InTime'
  <2> SUFFICES ASSUME NEW k \in Stoppers, Waits(k)
               PROVE  HasTime(k)'
    BY DEF InTime, Waits
  <2>1. HasTime(k)
    BY DEF ServiceInv, InTime
  <2>2. CASE stopper[k].restarted = TRUE
    BY <2>1, <2>2 DEF HasTime
  <2>3. CASE stopper[k].restarted = FALSE
    <3>1. Awaited(k, r, service')
      BY <2>3
    <3>2. \A q \in Procs : q # p =>
             /\ proc'[q].main = "serving" => proc'[q].asked = TRUE
             /\ proc'[q].main = "stopping" => proc'[q].left < stopper[k].left
      BY <1>1, <2>1, <2>3 DEF HasTime
    <3> QED BY <1>1, <2>1, <2>3, <3>1, <3>2 DEF HasTime, Awaited
  <2>4. stopper[k].restarted \in BOOLEAN
    BY <1>0 DEF TypeOK, Command
  <2> QED BY <2>2, <2>3, <2>4
<1>10. TimeoutMeansRestart'
  BY DEF ServiceInv, TimeoutMeansRestart
<1> QED BY <1>3, <1>4, <1>5, <1>6, <1>7, <1>8, <1>9, <1>10 DEF ServiceInv

(* What the invariant says of a process that the manager counts.           *)
LEMMA WhileUp ==
    ASSUME ServiceInv, NEW p \in Procs
    PROVE  /\ proc[p] \in Process /\ WorkerOf(proc[p]) /\ ShownAs(proc[p], service)
           /\ \A k \in Stoppers :
                Waits(k) /\ stopper[k].restarted = FALSE => Awaited(k, proc[p], service)
           /\ renewed = TRUE /\ proc[p].main \in {"loaded", "spawned", "serving"} =>
                proc[p].creds = "current"
BY DEF ServiceInv, TypeOK, Workers, Shown, ShownAs, InTime, HasTime, Awaited, Renewed

LEMMA LoadStep ==
    ASSUME ServiceInv, NEW p \in Procs, Load(p)
    PROVE  ServiceInv'
<1>0. /\ proc[p].main = "created" /\ service = "start pending"
      /\ UNCHANGED <<service, deleted, stopper, file, renewed>>
  BY WhileUp DEF Load, ShownAs, config
<1>1. PICK c \in {"none", "old", "current"} : c = IF file = "written" THEN "current" ELSE "none"
  OBVIOUS
<1>2. PICK r : r = [proc[p] EXCEPT !.main = "loaded", !.creds = c]
  OBVIOUS
<1>3. /\ r \in Process /\ r.main = "loaded" /\ r.worker = proc[p].worker /\ r.creds = c
      /\ r.asked = proc[p].asked /\ r.cancelled = proc[p].cancelled
  BY <1>2, WhileUp DEF Process
<1>4. proc' = [proc EXCEPT ![p] = r]
  BY <1>1, <1>2 DEF Load
<1>5. WorkerOf(r) /\ ShownAs(r, service') /\ Up(p) /\ UpIn(r)
  BY <1>0, <1>3, WhileUp DEF WorkerOf, ShownAs, Up, UpIn
<1>6. renewed = TRUE => r.creds = "current"
  BY <1>1, <1>3 DEF ServiceInv, Renewed
<1>7. \A k \in Stoppers :
         Waits(k) /\ stopper[k].restarted = FALSE => Awaited(k, r, service')
  BY <1>0, <1>3, WhileUp DEF Awaited
<1>8. service' \in ServiceState
  BY <1>0 DEF ServiceState
<1> QED BY <1>0, <1>3, <1>4, <1>5, <1>6, <1>7, <1>8, ProcStep

LEMMA ExecuteStep ==
    ASSUME ServiceInv, NEW p \in Procs, Execute(p)
    PROVE  ServiceInv'
<1>0. /\ proc[p].main = "loaded" /\ service = "start pending"
      /\ UNCHANGED <<service, deleted, stopper, file, renewed>>
  BY WhileUp DEF Execute, ShownAs, config
<1>2. PICK r : r = [proc[p] EXCEPT !.main = "spawned", !.worker = "busy"]
  OBVIOUS
<1>3. /\ r \in Process /\ r.main = "spawned" /\ r.worker = "busy" /\ r.creds = proc[p].creds
      /\ r.asked = proc[p].asked /\ r.cancelled = proc[p].cancelled
  BY <1>2, WhileUp DEF Process
<1>4. proc' = [proc EXCEPT ![p] = r]
  BY <1>2 DEF Execute
<1>5. WorkerOf(r) /\ ShownAs(r, service') /\ Up(p) /\ UpIn(r)
  BY <1>0, <1>3, WhileUp DEF WorkerOf, ShownAs, Up, UpIn
<1>6. renewed = TRUE => r.creds = "current"
  BY <1>0, <1>3, WhileUp
<1>7. \A k \in Stoppers :
         Waits(k) /\ stopper[k].restarted = FALSE => Awaited(k, r, service')
  BY <1>0, <1>3, WhileUp DEF Awaited
<1>8. service' \in ServiceState
  BY <1>0 DEF ServiceState
<1> QED BY <1>0, <1>3, <1>4, <1>5, <1>6, <1>7, <1>8, ProcStep

LEMMA ReportRunningStep ==
    ASSUME ServiceInv, NEW p \in Procs, ReportRunning(p)
    PROVE  ServiceInv'
<1>0. /\ proc[p].main = "spawned" /\ service = "start pending" /\ service' = "running"
      /\ UNCHANGED <<deleted, stopper, file, renewed>>
  BY WhileUp DEF ReportRunning, ShownAs, config
<1>2. PICK r : r = [proc[p] EXCEPT !.main = "serving"]
  OBVIOUS
<1>3. /\ r \in Process /\ r.main = "serving" /\ r.worker = proc[p].worker
      /\ r.creds = proc[p].creds
      /\ r.asked = proc[p].asked /\ r.cancelled = proc[p].cancelled
  BY <1>2, WhileUp DEF Process
<1>4. proc' = [proc EXCEPT ![p] = r]
  BY <1>2 DEF ReportRunning
<1>5. WorkerOf(r) /\ ShownAs(r, service') /\ Up(p) /\ UpIn(r)
  BY <1>0, <1>3, WhileUp DEF WorkerOf, ShownAs, Up, UpIn
<1>6. renewed = TRUE => r.creds = "current"
  BY <1>0, <1>3, WhileUp
<1>7. \A k \in Stoppers : ~(Waits(k) /\ stopper[k].restarted = FALSE)
  BY <1>0, WhileUp DEF Awaited
<1>8. service' \in ServiceState
  BY <1>0 DEF ServiceState
<1> QED BY <1>0, <1>3, <1>4, <1>5, <1>6, <1>7, <1>8, ProcStep

LEMMA HandleStopStep ==
    ASSUME ServiceInv, NEW p \in Procs, HandleStop(p)
    PROVE  ServiceInv'
<1>0. /\ proc[p].main = "serving" /\ service = "running" /\ service' = "stop pending"
      /\ UNCHANGED <<deleted, stopper, file, renewed>>
  BY WhileUp DEF HandleStop, ShownAs, config
<1>2. PICK r : r = [proc[p] EXCEPT !.main = "stopping", !.asked = FALSE,
                                   !.cancelled = TRUE, !.left = Grace]
  OBVIOUS
<1>3. /\ r \in Process /\ r.main = "stopping" /\ r.worker = proc[p].worker
      /\ r.asked = FALSE /\ r.cancelled = TRUE /\ r.left = Grace
  <2>1. Grace \in 0..Grace
    BY GraceAssumption
  <2>2. proc[p] \in Process
    BY WhileUp
  <2>3. r \in Process
    BY <1>2, <2>1, <2>2 DEF Process
  <2>4. r.main = "stopping" /\ r.worker = proc[p].worker
    BY <1>2, <2>2 DEF Process
  <2>5. r.asked = FALSE /\ r.cancelled = TRUE /\ r.left = Grace
    BY <1>2, <2>2 DEF Process
  <2> QED BY <2>3, <2>4, <2>5
<1>4. proc' = [proc EXCEPT ![p] = r]
  BY <1>2 DEF HandleStop
<1>5. WorkerOf(r) /\ ShownAs(r, service') /\ Up(p) /\ UpIn(r)
  BY <1>0, <1>3 DEF WorkerOf, ShownAs, Up, UpIn
<1>7. \A k \in Stoppers :
         Waits(k) /\ stopper[k].restarted = FALSE => Awaited(k, r, service')
  BY <1>0, <1>3, WhileUp, GraceAssumption DEF Awaited
<1>8. service' \in ServiceState
  BY <1>0 DEF ServiceState
<1> QED BY <1>0, <1>3, <1>4, <1>5, <1>7, <1>8, ProcStep

LEMMA ReportStoppedStep ==
    ASSUME ServiceInv, NEW p \in Procs, ReportStopped(p)
    PROVE  ServiceInv'
<1>0. /\ proc[p].main = "stopping" /\ service = "stop pending" /\ service' = "stopped"
      /\ UNCHANGED <<deleted, stopper, file, renewed>>
  BY WhileUp DEF ReportStopped, Over, ShownAs, config
<1>2. PICK r : r = [proc[p] EXCEPT !.main = "leaving"]
  OBVIOUS
<1>3. /\ r \in Process /\ r.main = "leaving" /\ r.worker = proc[p].worker
      /\ r.asked = proc[p].asked /\ r.cancelled = proc[p].cancelled
  BY <1>2, WhileUp DEF Process
<1>4. proc' = [proc EXCEPT ![p] = r]
  BY <1>2 DEF ReportStopped
<1>5. WorkerOf(r) /\ ShownAs(r, service') /\ Up(p)
  BY <1>0, <1>3, WhileUp DEF WorkerOf, ShownAs, Up
<1>7. \A k \in Stoppers : Awaited(k, r, service')
  BY <1>0, <1>3 DEF Awaited
<1>8. service' \in ServiceState
  BY <1>0 DEF ServiceState
<1> QED BY <1>0, <1>3, <1>4, <1>5, <1>7, <1>8, ProcStep

(* Exit and Crash leave no process.                                        *)
LEMMA EndStep ==
    ASSUME ServiceInv, NEW p \in Procs, Exit(p) \/ Crash(p)
    PROVE  ServiceInv'
<1>1. PICK r : r = NoProcess
  OBVIOUS
<1>2. r \in Process /\ WorkerOf(r) /\ r.main = "none"
  BY <1>1, NoneAreSound DEF NoProcess
<1>3. proc' = [proc EXCEPT ![p] = r] /\ UNCHANGED <<deleted, stopper, file, renewed>>
  BY <1>1 DEF Exit, Crash, config
<1>4. ShownAs(r, service')
  BY <1>2 DEF ShownAs
<1>5. \/ ~Up(p) /\ service' = service
      \/ Up(p) /\ service' = "stopped"
  BY DEF Exit, Crash, Up
<1>6. \A k \in Stoppers :
         Waits(k) /\ stopper[k].restarted = FALSE => Awaited(k, r, service')
  BY <1>2, <1>5, WhileUp DEF Awaited
<1>7. service' \in ServiceState
  BY <1>5 DEF ServiceState, ServiceInv, TypeOK
<1> QED BY <1>2, <1>3, <1>4, <1>5, <1>6, <1>7, ProcStep DEF UpIn

LEMMA WorkerStep ==
    ASSUME ServiceInv, NEW p \in Procs, Worker(p)
    PROVE  ServiceInv'
<1>1. PICK to \in {"busy", "calling", "waiting", "ended"} :
         /\ to = "ended" => proc[p].cancelled = TRUE
         /\ \E from \in {"busy", "calling", "waiting"} : WorkerMoves(p, from, to)
  BY WhileUp DEF Worker, Call, Refused, Answer, Wake, Return, Process
<1>2. PICK r : r = [proc[p] EXCEPT !.worker = to]
  OBVIOUS
<1>3. /\ r \in Process /\ r.worker = to /\ r.main = proc[p].main /\ r.creds = proc[p].creds
      /\ r.asked = proc[p].asked /\ r.cancelled = proc[p].cancelled /\ r.left = proc[p].left
  BY <1>1, <1>2, WhileUp DEF Process
<1>4. proc' = [proc EXCEPT ![p] = r] /\ UNCHANGED <<service, deleted, stopper, file, renewed>>
  BY <1>1, <1>2 DEF WorkerMoves, config
<1>5. proc[p].worker \in {"busy", "calling", "waiting"}
  BY <1>1 DEF WorkerMoves
<1>6. WorkerOf(r) /\ ShownAs(r, service') /\ (Up(p) <=> UpIn(r))
  BY <1>1, <1>3, <1>4, <1>5, WhileUp DEF WorkerOf, ShownAs, Up, UpIn
<1>7. renewed = TRUE /\ r.main \in {"loaded", "spawned", "serving"} => r.creds = "current"
  BY <1>3, WhileUp
<1>8. \A k \in Stoppers :
         Waits(k) /\ stopper[k].restarted = FALSE => Awaited(k, r, service')
  BY <1>3, <1>4, WhileUp DEF Awaited
<1>9. service' \in ServiceState
  BY <1>4 DEF ServiceInv, TypeOK
<1> QED BY <1>3, <1>4, <1>6, <1>7, <1>8, <1>9, ProcStep

-----------------------------------------------------------------------------
(* The commands that change neither process nor command.                   *)
LEMMA ManagerStep ==
    ASSUME ServiceInv, Install \/ Uninstall \/ Remove
    PROVE  ServiceInv'
<1>1. /\ UNCHANGED <<proc, stopper, file, renewed>> /\ deleted' \in BOOLEAN
      /\ \/ service' = service
         \/ service = "absent" /\ service' = "stopped"
         \/ service = "stopped" /\ service' = "absent" /\ \A k \in Stoppers : ~Waits(k)
  BY DEF Install, Uninstall, Remove, config, ServiceInv, TypeOK
<1>2. TypeOK'
  BY <1>1 DEF ServiceInv, TypeOK, ServiceState
<1>3. OneUp' /\ Shown' /\ SomeUp'
  BY <1>1 DEF ServiceInv, OneUp, Up, Shown, SomeUp
<1>4. Workers' /\ Renewed' /\ TimeoutMeansRestart'
  BY <1>1 DEF ServiceInv, Workers, Renewed, TimeoutMeansRestart
<1>5. InTime'
  BY <1>1 DEF ServiceInv, InTime, Waits, HasTime
<1> QED BY <1>2, <1>3, <1>4, <1>5 DEF ServiceInv

LEMMA StartStep ==
    ASSUME ServiceInv, NEW p \in Procs, Start(p)
    PROVE  ServiceInv'
<1>0. TypeOK /\ service = "stopped" /\ service' = "start pending"
      /\ UNCHANGED <<deleted, file>> /\ renewed' = (file = "written")
  BY DEF ServiceInv, Start
<1>1. PICK r : r = [NoProcess EXCEPT !.main = "created"]
  OBVIOUS
<1>2. /\ r \in Process /\ r.main = "created" /\ r.worker = "none"
      /\ r.asked = FALSE /\ r.cancelled = FALSE
  <2>1. NoProcess \in Process
    BY NoneAreSound
  <2>2. r \in Process /\ r.main = "created"
    BY <1>1, <2>1 DEF Process
  <2>3. r.worker = NoProcess.worker /\ r.asked = NoProcess.asked
        /\ r.cancelled = NoProcess.cancelled
    BY <1>1, <2>1 DEF Process
  <2> QED BY <2>2, <2>3 DEF NoProcess
<1>3. proc' = [proc EXCEPT ![p] = r]
  BY <1>1 DEF Start
<1>4. /\ proc' \in [Procs -> Process] /\ proc'[p] = r
      /\ \A q \in Procs : q # p => proc'[q] = proc[q]
  BY <1>0, <1>2, <1>3, ProcChanges
<1>5. \A q \in Procs : ~Up(q)
  BY <1>0 DEF ServiceInv, TypeOK, Process, Shown, Up
<1>6. \A k \in Stoppers :
         /\ stopper'[k] \in Command
         /\ Waits(k) => Waits(k)' /\ stopper'[k].restarted = TRUE
                        /\ stopper'[k].left = stopper[k].left
                        /\ stopper'[k].queried = stopper[k].queried
         /\ ~Waits(k) => stopper'[k] = stopper[k]
  <2> SUFFICES ASSUME NEW k \in Stoppers
               PROVE  /\ stopper'[k] \in Command
                      /\ Waits(k) => Waits(k)' /\ stopper'[k].restarted = TRUE
                                     /\ stopper'[k].left = stopper[k].left
                                     /\ stopper'[k].queried = stopper[k].queried
                      /\ ~Waits(k) => stopper'[k] = stopper[k]
    OBVIOUS
  <2>1. PICK c : c = stopper[k]
    OBVIOUS
  <2>2. PICK e : e = [c EXCEPT !.restarted = TRUE]
    OBVIOUS
  <2>3. c \in Command
    BY <1>0, <2>1 DEF TypeOK
  <2>4. e \in Command /\ e.pc = c.pc /\ e.restarted = TRUE /\ e.left = c.left /\ e.queried = c.queried
    BY <2>2, <2>3 DEF Command
  <2>5. stopper'[k] = IF Waits(k) THEN e ELSE c
    BY <2>1, <2>2 DEF Start
  <2> QED BY <2>1, <2>3, <2>4, <2>5 DEF Waits
<1>7. TypeOK'
  <2>1. stopper' \in [Stoppers -> Command]
    BY <1>6 DEF Start
  <2> QED BY <1>0, <1>4, <2>1 DEF TypeOK, ServiceState
<1>8. OneUp' /\ Shown' /\ SomeUp'
  BY <1>0, <1>2, <1>4, <1>5 DEF OneUp, Up, Shown, SomeUp
<1>9. Workers'
  BY <1>2, <1>4 DEF ServiceInv, Workers, WorkerOf
<1>10. Renewed'
  BY <1>0, <1>2, <1>4, <1>5 DEF Renewed, Up
<1>11. InTime' /\ TimeoutMeansRestart'
  BY <1>6 DEF ServiceInv, InTime, HasTime, TimeoutMeansRestart, Waits
<1> QED BY <1>7, <1>8, <1>9, <1>10, <1>11 DEF ServiceInv

(* Stop and Shutdown put a request into the channel.                       *)
LEMMA AskedProcs ==
    ASSUME ServiceInv, service = "running", proc' = Asked
    PROVE  /\ proc' \in [Procs -> Process]
           /\ \A p \in Procs :
                 /\ proc'[p].main = proc[p].main /\ proc'[p].worker = proc[p].worker
                 /\ proc'[p].creds = proc[p].creds /\ proc'[p].cancelled = proc[p].cancelled
                 /\ proc'[p].left = proc[p].left
                 /\ proc[p].main = "serving" => proc'[p].asked = TRUE
                 /\ proc[p].main # "serving" => proc'[p].asked = proc[p].asked
<1>1. \A p \in Procs :
         /\ proc'[p] \in Process
         /\ proc'[p].main = proc[p].main /\ proc'[p].worker = proc[p].worker
         /\ proc'[p].creds = proc[p].creds /\ proc'[p].cancelled = proc[p].cancelled
         /\ proc'[p].left = proc[p].left
         /\ proc[p].main = "serving" => proc'[p].asked = TRUE
         /\ proc[p].main # "serving" => proc'[p].asked = proc[p].asked
  <2> SUFFICES ASSUME NEW p \in Procs
               PROVE  /\ proc'[p] \in Process
                      /\ proc'[p].main = proc[p].main /\ proc'[p].worker = proc[p].worker
                      /\ proc'[p].creds = proc[p].creds /\ proc'[p].cancelled = proc[p].cancelled
                      /\ proc'[p].left = proc[p].left
                      /\ proc[p].main = "serving" => proc'[p].asked = TRUE
                      /\ proc[p].main # "serving" => proc'[p].asked = proc[p].asked
    OBVIOUS
  <2>1. PICK r : r = [proc[p] EXCEPT !.asked = TRUE]
    OBVIOUS
  <2>2. proc[p] \in Process
    BY WhileUp
  <2>3. /\ r \in Process /\ r.main = proc[p].main /\ r.worker = proc[p].worker
        /\ r.creds = proc[p].creds /\ r.cancelled = proc[p].cancelled
        /\ r.left = proc[p].left /\ r.asked = TRUE
    BY <2>1, <2>2 DEF Process
  <2>4. proc'[p] = IF proc[p].main = "serving" THEN r ELSE proc[p]
    BY <2>1 DEF Asked
  <2> QED BY <2>2, <2>3, <2>4
<1>2. proc' \in [Procs -> Process]
  BY <1>1 DEF Asked
<1> QED BY <1>1, <1>2

LEMMA AskStep ==
    ASSUME ServiceInv, Shutdown \/ \E k \in Stoppers : Stop(k)
    PROVE  ServiceInv'
<1>0. /\ TypeOK /\ service = "running" /\ proc' = Asked
      /\ UNCHANGED <<service, deleted, file, renewed>>
  BY DEF ServiceInv, Shutdown, Stop, config
<1>1. /\ proc' \in [Procs -> Process]
      /\ \A p \in Procs :
            /\ proc'[p].main = proc[p].main /\ proc'[p].worker = proc[p].worker
            /\ proc'[p].creds = proc[p].creds /\ proc'[p].cancelled = proc[p].cancelled
            /\ proc'[p].left = proc[p].left
            /\ proc[p].main = "serving" => proc'[p].asked = TRUE
            /\ proc[p].main # "serving" => proc'[p].asked = proc[p].asked
  BY <1>0, AskedProcs
<1>2. PICK c : c = [pc |-> "waiting", left |-> Patience, queried |-> FALSE, restarted |-> FALSE]
  OBVIOUS
<1>3. c \in Command /\ c.pc = "waiting" /\ c.left = Patience /\ c.queried = FALSE
  BY <1>2, GraceAssumption DEF Command
<1>4. /\ stopper' \in [Stoppers -> Command]
      /\ \A k \in Stoppers : stopper'[k] = stopper[k] \/ stopper'[k] = c
  BY <1>0, <1>2, <1>3 DEF Shutdown, Stop, TypeOK
<1>5. \A p \in Procs : proc[p].main # "stopping"
  BY <1>0, WhileUp DEF ShownAs
<1>6. TypeOK'
  BY <1>0, <1>1, <1>4 DEF TypeOK
<1>7. OneUp' /\ Shown' /\ SomeUp'
  BY <1>0, <1>1 DEF ServiceInv, OneUp, Up, Shown, SomeUp
<1>8. Workers'
  BY <1>0, <1>1 DEF ServiceInv, Workers, WorkerOf
<1>9. Renewed'
  BY <1>0, <1>1 DEF ServiceInv, Renewed
<1>10. InTime'
  <2> SUFFICES ASSUME NEW k \in Stoppers, Waits(k)'
               PROVE  HasTime(k)'
    BY DEF InTime
  <2>1. stopper'[k].left = Patience \/ HasTime(k)
    BY <1>3, <1>4 DEF ServiceInv, InTime, Waits
  <2>2. CASE stopper'[k] = c
    BY <1>0, <1>1, <1>3, <1>5, <2>2, GraceAssumption DEF HasTime
  <2>3. CASE stopper'[k] = stopper[k]
    <3>1. HasTime(k)
      BY <2>3 DEF ServiceInv, InTime, Waits
    <3> QED BY <1>0, <1>1, <1>5, <2>3, <3>1 DEF HasTime
  <2> QED BY <1>4, <2>2, <2>3
<1>11. TimeoutMeansRestart'
  BY <1>3, <1>4 DEF ServiceInv, TimeoutMeansRestart
<1> QED BY <1>6, <1>7, <1>8, <1>9, <1>10, <1>11 DEF ServiceInv

LEMMA QueryStep ==
    ASSUME ServiceInv, NEW k \in Stoppers, Query(k)
    PROVE  ServiceInv'
<1>0. /\ TypeOK /\ stopper[k] \in Command /\ HasTime(k) /\ stopper[k].pc = "waiting"
      /\ UNCHANGED <<service, deleted, proc, file, renewed>>
  BY DEF ServiceInv, TypeOK, InTime, Query, config, Waits
<1>1. PICK e : e = [stopper[k] EXCEPT !.queried = TRUE]
  OBVIOUS
<1>2. PICK f : f = [stopper[k] EXCEPT !.pc = "timed out", !.queried = FALSE]
  OBVIOUS
<1>3. e \in Command /\ e.pc = "waiting" /\ e.left = stopper[k].left
      /\ e.restarted = stopper[k].restarted
  BY <1>0, <1>1 DEF Command
<1>4. f \in Command /\ f.pc = "timed out" /\ f.restarted = stopper[k].restarted
  BY <1>0, <1>2 DEF Command
<1>5. PICK c : c = IF service = "stopped" THEN NoCommand
                   ELSE IF stopper[k].left = 0 THEN f ELSE e
  OBVIOUS
<1>6. c \in Command
  BY <1>3, <1>4, <1>5, NoneAreSound
<1>7. stopper' = [stopper EXCEPT ![k] = c]
  BY <1>1, <1>2, <1>5 DEF Query, TimedOut
<1>8. /\ stopper' \in [Stoppers -> Command] /\ stopper'[k] = c
      /\ \A j \in Stoppers : j # k => stopper'[j] = stopper[j]
  BY <1>0, <1>6, <1>7 DEF TypeOK
<1>9. c.pc = "waiting" => /\ c.left = stopper[k].left /\ c.left # 0
                          /\ c.restarted = stopper[k].restarted
  BY <1>3, <1>4, <1>5 DEF NoCommand
<1>10. c.pc = "timed out" => c.restarted = TRUE
  <2> SUFFICES ASSUME c.pc = "timed out", stopper[k].restarted = FALSE PROVE FALSE
    BY <1>0, <1>3, <1>4, <1>5 DEF NoCommand, Command
  <2>1. service # "stopped" /\ stopper[k].left = 0
    BY <1>3, <1>5 DEF NoCommand
  <2>2. service # "running"
    <3>1. stopper[k].left # Patience
      BY <2>1, TimeRunsOut
    <3> QED BY <1>0, <3>1 DEF HasTime
  <2>3. service = "stop pending"
    BY <1>0, <2>1, <2>2 DEF HasTime
  <2>4. PICK p \in Procs : Up(p)
    BY <2>3 DEF ServiceInv, SomeUp
  <2>5. proc[p].main = "stopping"
    <3>1. proc[p].main \in {"created", "loaded", "spawned", "serving", "stopping"}
      BY <2>4, WhileUp DEF Process, Up
    <3> QED BY <2>3, <3>1, WhileUp DEF ShownAs
  <2>6. proc[p].left < stopper[k].left
    BY <1>0, <2>5 DEF HasTime
  <2>7. PICK n \in Nat : n = proc[p].left
    BY <1>0, LeftIsNat
  <2>8. n < 0
    BY <2>1, <2>6, <2>7
  <2> QED BY <2>8, TimeRunsOut
<1>11. TypeOK'
  BY <1>0, <1>8 DEF TypeOK
<1>12. OneUp' /\ Shown' /\ SomeUp' /\ Workers' /\ Renewed'
  BY <1>0 DEF ServiceInv, OneUp, Up, Shown, SomeUp, Workers, Renewed
<1>13. InTime'
  <2> SUFFICES ASSUME NEW j \in Stoppers, Waits(j)'
               PROVE  HasTime(j)'
    BY DEF InTime
  <2>1. CASE j = k
    <3>1. c.left > 0
      BY <1>0, <1>8, <1>9, <2>1, LeftIsNat DEF Waits
    <3> QED BY <1>0, <1>8, <1>9, <2>1, <3>1 DEF HasTime, Waits
  <2>2. CASE j # k
    BY <1>0, <1>8, <2>2 DEF ServiceInv, InTime, HasTime, Waits
  <2> QED BY <2>1, <2>2
<1>14. TimeoutMeansRestart'
  BY <1>8, <1>10 DEF ServiceInv, TimeoutMeansRestart
<1> QED BY <1>11, <1>12, <1>13, <1>14 DEF ServiceInv

LEMMA EnrollStep ==
    ASSUME ServiceInv, Truncate \/ Write
    PROVE  ServiceInv'
<1>0. /\ TypeOK /\ UNCHANGED <<service, deleted, stopper>>
      /\ file' \in {"none", "truncated", "written"} /\ renewed' \in BOOLEAN
      /\ renewed' = TRUE => renewed = TRUE /\ file = "truncated"
  BY DEF ServiceInv, TypeOK, Truncate, Write
<1>1. renewed' = FALSE
  BY <1>0 DEF ServiceInv, Renewed
<1>2. \A p \in Procs :
         /\ proc'[p] \in Process
         /\ proc'[p].main = proc[p].main /\ proc'[p].worker = proc[p].worker
         /\ proc'[p].asked = proc[p].asked /\ proc'[p].cancelled = proc[p].cancelled
         /\ proc'[p].left = proc[p].left
  <2> SUFFICES ASSUME NEW p \in Procs
               PROVE  /\ proc'[p] \in Process
                      /\ proc'[p].main = proc[p].main /\ proc'[p].worker = proc[p].worker
                      /\ proc'[p].asked = proc[p].asked /\ proc'[p].cancelled = proc[p].cancelled
                      /\ proc'[p].left = proc[p].left
    OBVIOUS
  <2>1. PICK r : r = [proc[p] EXCEPT !.creds = "old"]
    OBVIOUS
  <2>2. proc[p] \in Process
    BY WhileUp
  <2>3. /\ r \in Process /\ r.main = proc[p].main /\ r.worker = proc[p].worker
        /\ r.asked = proc[p].asked /\ r.cancelled = proc[p].cancelled /\ r.left = proc[p].left
    BY <2>1, <2>2 DEF Process
  <2>4. proc'[p] = r \/ proc'[p] = proc[p]
    BY <2>1 DEF Truncate, Write
  <2> QED BY <2>2, <2>3, <2>4
<1>3. proc' \in [Procs -> Process]
  <2>1. CASE Truncate
    <3>1. proc' = [p \in Procs |-> proc'[p]]
      BY <2>1 DEF Truncate
    <3> QED BY <1>2, <3>1
  <2>2. CASE Write
    BY <1>0, <2>2 DEF Write, TypeOK
  <2> QED BY <2>1, <2>2
<1>4. TypeOK'
  BY <1>0, <1>3 DEF TypeOK
<1>5. OneUp' /\ Shown' /\ SomeUp'
  <2>1. OneUp'
    BY <1>2 DEF ServiceInv, OneUp, Up
  <2>2. Shown'
    BY <1>0, <1>2 DEF ServiceInv, Shown
  <2>3. SomeUp'
    BY <1>0, <1>2 DEF ServiceInv, SomeUp, Up
  <2> QED BY <2>1, <2>2, <2>3
<1>6. Workers'
  BY <1>2 DEF ServiceInv, Workers, WorkerOf
<1>7. Renewed'
  BY <1>1 DEF Renewed
<1>8. InTime' /\ TimeoutMeansRestart'
  BY <1>0, <1>2 DEF ServiceInv, InTime, HasTime, Waits, TimeoutMeansRestart
<1> QED BY <1>4, <1>5, <1>6, <1>7, <1>8 DEF ServiceInv

LEMMA TickStep ==
    ASSUME ServiceInv, Tick
    PROVE  ServiceInv'
<1>0. /\ TypeOK /\ UNCHANGED <<service, deleted, file, renewed>>
  BY DEF ServiceInv, Tick, config
<1>1. \A p \in Procs :
         /\ proc'[p] \in Process
         /\ proc'[p].main = proc[p].main /\ proc'[p].worker = proc[p].worker
         /\ proc'[p].creds = proc[p].creds
         /\ proc'[p].asked = proc[p].asked /\ proc'[p].cancelled = proc[p].cancelled
         /\ proc[p].main = "stopping" => proc'[p].left = proc[p].left - 1
  <2> SUFFICES ASSUME NEW p \in Procs
               PROVE  /\ proc'[p] \in Process
                      /\ proc'[p].main = proc[p].main /\ proc'[p].worker = proc[p].worker
                      /\ proc'[p].creds = proc[p].creds
                      /\ proc'[p].asked = proc[p].asked /\ proc'[p].cancelled = proc[p].cancelled
                      /\ proc[p].main = "stopping" => proc'[p].left = proc[p].left - 1
    OBVIOUS
  <2>1. proc[p] \in Process
    BY WhileUp
  <2>2. CASE proc[p].main # "stopping"
    BY <2>1, <2>2 DEF Tick
  <2>3. CASE proc[p].main = "stopping"
    <3>1. proc[p].left # 0
      BY <2>3 DEF Tick, Over
    <3>2. PICK n \in 0..Grace : n = proc[p].left - 1
      <4>1. proc[p].left \in 0..Grace
        BY <2>1 DEF Process
      <4>2. proc[p].left - 1 \in 0..Grace
        BY <3>1, <4>1, GraceAssumption
      <4> QED BY <4>2
    <3>3. PICK r : r = [proc[p] EXCEPT !.left = n]
      OBVIOUS
    <3>4. /\ r \in Process /\ r.main = proc[p].main /\ r.worker = proc[p].worker
          /\ r.creds = proc[p].creds /\ r.asked = proc[p].asked
          /\ r.cancelled = proc[p].cancelled /\ r.left = n
      BY <2>1, <3>3 DEF Process
    <3>5. proc'[p] = r
      BY <2>3, <3>2, <3>3 DEF Tick
    <3> QED BY <3>2, <3>4, <3>5
  <2> QED BY <2>2, <2>3
<1>2. \A k \in Stoppers :
         /\ stopper'[k] \in Command
         /\ ~Waits(k) => stopper'[k] = stopper[k]
         /\ Waits(k) => /\ stopper'[k].pc = "waiting" /\ stopper'[k].queried = FALSE
                        /\ stopper'[k].left = stopper[k].left - 1
                        /\ stopper'[k].restarted = stopper[k].restarted
  <2> SUFFICES ASSUME NEW k \in Stoppers
               PROVE  /\ stopper'[k] \in Command
                      /\ ~Waits(k) => stopper'[k] = stopper[k]
                      /\ Waits(k) => /\ stopper'[k].pc = "waiting" /\ stopper'[k].queried = FALSE
                                     /\ stopper'[k].left = stopper[k].left - 1
                                     /\ stopper'[k].restarted = stopper[k].restarted
    OBVIOUS
  <2>1. stopper[k] \in Command
    BY <1>0 DEF TypeOK
  <2>2. CASE ~Waits(k)
    BY <2>1, <2>2 DEF Tick
  <2>3. CASE Waits(k)
    <3>1. stopper[k].left > 0
      BY <2>1, <2>3 DEF Tick, ServiceInv, InTime, HasTime, Command
    <3>2. PICK n \in 0..Patience : n = stopper[k].left - 1
      <4>1. stopper[k].left \in 0..Patience
        BY <2>1 DEF Command
      <4>2. stopper[k].left - 1 \in 0..Patience
        BY <3>1, <4>1, GraceAssumption
      <4> QED BY <4>2
    <3>3. PICK c : c = [stopper[k] EXCEPT !.left = n, !.queried = FALSE]
      OBVIOUS
    <3>4. /\ c \in Command /\ c.pc = stopper[k].pc /\ c.left = n /\ c.queried = FALSE
          /\ c.restarted = stopper[k].restarted
      BY <2>1, <3>3 DEF Command
    <3>5. stopper'[k] = c
      BY <2>3, <3>2, <3>3 DEF Tick
    <3> QED BY <2>3, <3>2, <3>4, <3>5 DEF Waits
  <2> QED BY <2>2, <2>3
<1>3. TypeOK'
  <2>1. proc' \in [Procs -> Process]
    BY <1>1 DEF Tick
  <2>2. stopper' \in [Stoppers -> Command]
    BY <1>2 DEF Tick
  <2> QED BY <1>0, <2>1, <2>2 DEF TypeOK
<1>4. OneUp' /\ Shown' /\ SomeUp'
  BY <1>0, <1>1 DEF ServiceInv, OneUp, Up, Shown, SomeUp
<1>5. Workers' /\ Renewed'
  BY <1>0, <1>1 DEF ServiceInv, Workers, WorkerOf, Renewed
<1>6. InTime'
  <2> SUFFICES ASSUME NEW k \in Stoppers, Waits(k)
               PROVE  HasTime(k)'
    BY <1>2 DEF InTime, Waits
  <2>1. HasTime(k) /\ stopper[k].left \in Nat
    BY <1>0, LeftIsNat DEF ServiceInv, InTime
  <2>2. CASE stopper[k].restarted # FALSE
    BY <1>2, <2>2 DEF HasTime
  <2>3. CASE stopper[k].restarted = FALSE
    <3>1. service # "running"
      <4> SUFFICES ASSUME service = "running" PROVE FALSE
        OBVIOUS
      <4>1. PICK p \in Procs : Up(p)
        BY DEF ServiceInv, SomeUp
      <4>2. proc[p].main = "serving"
        BY <4>1, WhileUp DEF ShownAs, Process, Up
      <4>3. proc[p].asked = TRUE
        BY <2>1, <2>3, <4>2 DEF HasTime
      <4> QED BY <4>2, <4>3 DEF Tick
    <3>2. \A p \in Procs :
             /\ proc'[p].main = "serving" => proc'[p].asked = TRUE
             /\ proc'[p].main = "stopping" => proc'[p].left < stopper'[k].left
      <4> SUFFICES ASSUME NEW p \in Procs
                   PROVE  /\ proc'[p].main = "serving" => proc'[p].asked = TRUE
                          /\ proc'[p].main = "stopping" => proc'[p].left < stopper'[k].left
        OBVIOUS
      <4>1. proc'[p].main = "serving" => proc'[p].asked = TRUE
        BY <1>1, <2>1, <2>3 DEF HasTime
      <4>2. ASSUME proc'[p].main = "stopping" PROVE proc'[p].left < stopper'[k].left
        <5>1. proc[p].left \in Nat /\ proc[p].left < stopper[k].left
          BY <1>0, <1>1, <2>1, <2>3, <4>2, LeftIsNat DEF HasTime
        <5>2. proc'[p].left = proc[p].left - 1 /\ stopper'[k].left = stopper[k].left - 1
          BY <1>1, <1>2, <4>2
        <5> QED BY <2>1, <5>1, <5>2
      <4> QED BY <4>1, <4>2
    <3> QED BY <1>0, <1>2, <2>1, <2>3, <3>1, <3>2 DEF HasTime
  <2> QED BY <2>2, <2>3
<1>7. TimeoutMeansRestart'
  BY <1>2 DEF ServiceInv, TimeoutMeansRestart, Waits
<1> QED BY <1>3, <1>4, <1>5, <1>6, <1>7 DEF ServiceInv

-----------------------------------------------------------------------------
LEMMA ServiceStep == ServiceInv /\ [Next]_vars => ServiceInv'
<1> SUFFICES ASSUME ServiceInv, [Next]_vars PROVE ServiceInv'
  OBVIOUS
<1>1. CASE UNCHANGED vars
  BY <1>1 DEF vars, ServiceInv, TypeOK, OneUp, Up, Shown, SomeUp, Workers, Renewed, InTime,
     HasTime, Waits, TimeoutMeansRestart
<1>2. CASE Commands
  BY <1>2, ManagerStep, StartStep, AskStep, QueryStep, EnrollStep DEF Commands
<1>3. ASSUME NEW p \in Procs, Handler(p) PROVE ServiceInv'
  BY <1>3, LoadStep, ExecuteStep, ReportRunningStep, HandleStopStep, ReportStoppedStep, EndStep
     DEF Handler
<1>4. ASSUME NEW p \in Procs, Worker(p) PROVE ServiceInv'
  BY <1>4, WorkerStep
<1> QED BY <1>1, <1>2, <1>3, <1>4, TickStep DEF Next

(* The inductive invariant holds.                                          *)
THEOREM ServiceInvHolds == Spec => []ServiceInv
BY InitService, ServiceStep, PTL DEF Spec

(* Service, processes and commands have the types that the model declares. *)
THEOREM ServiceTypesHold == Spec => []TypeOK
<1>1. ServiceInv => TypeOK
  BY DEF ServiceInv
<1> QED BY <1>1, ServiceInvHolds, PTL

(* Execute cancels the worker before it reports Stopped, so no worker of a *)
(* stopped service reaches the server and never do two.                    *)
THEOREM OneWorkerHolds == Spec => []OneWorkerTalks
<1>1. ServiceInv => OneWorkerTalks
  <2> SUFFICES ASSUME ServiceInv PROVE OneWorkerTalks
    OBVIOUS
  <2>1. \A p \in Procs : Talks(p) => proc[p].main \in {"spawned", "serving"}
    <3> SUFFICES ASSUME NEW p \in Procs, Talks(p)
                 PROVE  proc[p].main \in {"spawned", "serving"}
      OBVIOUS
    <3>1. proc[p] \in Process /\ WorkerOf(proc[p])
      BY WhileUp
    <3>2. proc[p].cancelled # TRUE /\ proc[p].worker # "none"
      BY DEF Talks, MayCall
    <3> QED BY <3>1, <3>2 DEF WorkerOf, Process
  <2>2. \A p \in Procs : Talks(p) => Up(p) /\ service \notin {"absent", "stopped"}
    BY <2>1, WhileUp DEF Up, ShownAs
  <2> QED BY <2>2 DEF ServiceInv, OneUp, OneWorkerTalks
<1> QED BY <1>1, ServiceInvHolds, PTL

(* A start after `enroll` has written the file brings up a worker with the *)
(* new credentials, and leaves none with others (main.go, Execute).        *)
THEOREM RestartHolds == Spec => []RestartRenews
<1>1. ServiceInv => RestartRenews
  <2> SUFFICES ASSUME ServiceInv, renewed, NEW p \in Procs
               PROVE  /\ Talks(p) => proc[p].creds = "current"
                      /\ proc[p].main = "serving" => Talks(p)
    BY DEF RestartRenews
  <2>1. proc[p] \in Process /\ WorkerOf(proc[p])
    BY WhileUp
  <2>2. Talks(p) => proc[p].main \in {"spawned", "serving"}
    <3>1. Talks(p) => proc[p].cancelled # TRUE /\ proc[p].worker # "none"
      BY DEF Talks, MayCall
    <3> QED BY <2>1, <3>1 DEF WorkerOf, Process
  <2>3. proc[p].main \in {"spawned", "serving"} => proc[p].creds = "current"
    BY DEF ServiceInv, Renewed
  <2>4. proc[p].main = "serving" => proc[p].cancelled = FALSE /\ proc[p].worker \notin {"none", "ended"}
    BY <2>1 DEF WorkerOf, Process
  <2> QED BY <2>2, <2>3, <2>4 DEF Talks, MayCall
<1> QED BY <1>1, ServiceInvHolds, PTL

(* The 20 s of Execute end before the 30 s of `service stop` do, so that   *)
(* it times out only when the service was started again meanwhile.         *)
THEOREM TimeoutHolds == Spec => []TimeoutMeansRestart
<1>1. ServiceInv => TimeoutMeansRestart
  BY DEF ServiceInv
<1> QED BY <1>1, ServiceInvHolds, PTL
=============================================================================
