--------------------------- MODULE AgentJobsProofs ---------------------------
(***************************************************************************)
(* Job execution end to end: for any number of devices, jobs, agent        *)
(* processes, concurrent requests and batch sizes, and whatever is lost or *)
(* late, a stored result is that of a real run, an agent holds jobs of its *)
(* own device only, and agents do nothing that JobServer does not expect   *)
(* of its clients.  Where no two processes share a device, a job's handler *)
(* is entered at most once.                                                *)
(*                                                                         *)
(* The argument: a poll hands out jobs it read as queued.  A job an agent  *)
(* holds or has run is no longer queued and never is again, so no poll     *)
(* that starts later reads it; and an earlier poll that still does is one  *)
(* its process no longer waits for.                                        *)
(***************************************************************************)
EXTENDS AgentJobs, JobServerProofs

ProcTypeOK ==
    /\ proc \in [Procs -> Process]
    /\ runs \in [Jobs -> 0..2]
    /\ reported \in [Jobs -> SUBSET {"succeeded", "failed"}]

(* The request a process waits for is the one it sent.                     *)
WaitsForOwn ==
    \A p \in Procs :
        /\ proc[p].pc \in Waiting =>
              /\ proc[p].slot \in Slots
              /\ req[proc[p].slot].dev = Home[p]
        /\ proc[p].pc \in {"starting", "completing"} =>
              req[proc[p].slot].job = proc[p].job
        /\ proc[p].pc = "polling"    => req[proc[p].slot].op = "poll"
        /\ proc[p].pc = "starting"   => req[proc[p].slot].op = "start"
        /\ proc[p].pc = "completing" => req[proc[p].slot].op = "complete"
        /\ proc[p].pc \in {"starting", "running", "completing"} => proc[p].job \in Jobs
        /\ proc[p].pc \in {"idle", "polling"} => proc[p].job = None
        /\ proc[p].pc = "polling" => proc[p].todo = {}

HandedOut(j) == status[j] \notin {"none", "queued"}

(* No two processes wait for the same request.                             *)
SlotsAreOwn ==
    \A p, q \in Procs : \A s \in Slots : Awaits(p, s) /\ Awaits(q, s) => p = q

(* What a process holds, or has run, was handed out.                       *)
HeldWasHandedOut ==
    /\ \A p \in Procs : \A j \in Held(p) : HandedOut(j)
    /\ \A j \in Jobs : runs[j] > 0 => HandedOut(j)

(* What a process is still to start has not been run.                      *)
HeldIsFresh ==
    \A p \in Procs :
        /\ \A j \in proc[p].todo : runs[j] = 0
        /\ proc[p].pc = "starting" => runs[proc[p].job] = 0 /\ proc[p].job \notin proc[p].todo
        /\ proc[p].pc = "polling" => \A j \in req[proc[p].slot].batch : runs[j] = 0

(* With one process per device it is so, and nothing is run twice.         *)
HeldOnce == OneProcessPerDevice => HeldIsFresh /\ ExecutedAtMostOnce

(* A completion is only ever sent for a run, with its outcome.             *)
CompletionIsTruthful ==
    /\ \A p \in Procs : proc[p].pc = "running" => runs[proc[p].job] > 0
    /\ \A s \in Slots : req[s].op = "complete" =>
          /\ runs[req[s].job] > 0
          /\ (IF req[s].ok THEN "succeeded" ELSE "failed") \in reported[req[s].job]

AgentInv ==
    /\ JobInv
    /\ ProcTypeOK
    /\ WaitsForOwn
    /\ SlotsAreOwn
    /\ HeldWasHandedOut
    /\ RunsAtHome
    /\ HeldOnce
    /\ CompletionIsTruthful
    /\ ResultIsTruthful

-----------------------------------------------------------------------------
(***************************************************************************)
(* Agents and operators make no step that the server does not allow, so    *)
(* everything proved of JobServer holds here.                              *)
(***************************************************************************)
LEMMA AgentNextIsNext == WaitsForOwn /\ AgentNext => Next \/ UNCHANGED jobVars
<1> SUFFICES ASSUME WaitsForOwn, AgentNext PROVE Next \/ UNCHANGED jobVars
  OBVIOUS
<1>1. CASE Operator \/ (\E j \in Jobs : Tick(j)) \/ \E s \in Slots : Unseen(s)
  BY <1>1 DEF Operator, Tick, Unseen, Next
<1>2. ASSUME NEW p \in Procs, ProcStep(p) PROVE Next \/ UNCHANGED jobVars
  <2>1. CASE GiveUp(p)
    BY <2>1 DEF GiveUp
  <2>2. ASSUME NEW s \in Slots, Poll(p, s) PROVE Next
    BY <2>2, HomeAssumption DEF Poll, Next, ClientSends
  <2>3. ASSUME NEW s \in Slots, NEW j \in Jobs, StartNext(p, s, j) PROVE Next
    BY <2>3, HomeAssumption DEF StartNext, Next, ClientSends
  <2>4. ASSUME NEW s \in Slots, NEW ok \in BOOLEAN, Execute(p, s, ok)
        PROVE  Next
    BY <2>4, HomeAssumption DEF Execute, Next, ClientSends, WaitsForOwn
  <2>5. ASSUME NEW s \in Slots,
               PollAnswer(p, s) \/ StartAnswer(p, s) \/ CompleteAnswer(p, s)
        PROVE  Next
    BY <2>5 DEF PollAnswer, StartAnswer, CompleteAnswer, AgentCommit, Next
  <2>6. ASSUME NEW s \in Slots, ErrorAnswer(p, s) PROVE Next
    BY <2>6 DEF ErrorAnswer, Next
  <2> QED
    BY <1>2, <2>1, <2>2, <2>3, <2>4, <2>5, <2>6 DEF ProcStep
<1> QED
  BY <1>1, <1>2 DEF AgentNext

(***************************************************************************)
(* A job that was handed out is never queued again and keeps its device.   *)
(***************************************************************************)
LEMMA HandedOutStays ==
    ASSUME JobInv, Next, NEW j \in Jobs, HandedOut(j)
    PROVE  HandedOut(j)' /\ device'[j] = device[j]
<1>1. ASSUME NEW s \in Slots, CreateCommit(s) PROVE HandedOut(j)' /\ device'[j] = device[j]
  BY <1>1 DEF CreateCommit, At, HandedOut, JobInv, TypeOK, CreatesAreFresh
<1>2. ASSUME NEW s \in Slots, SweepAndAssign(s) PROVE HandedOut(j)' /\ device'[j] = device[j]
  BY <1>2 DEF SweepAndAssign, HandedOut, JobInv, TypeOK
<1>3. ASSUME NEW s \in Slots, StartCommit(s) \/ CompleteCommit(s) \/ CancelCommit(s)
      PROVE  HandedOut(j)' /\ device'[j] = device[j]
  BY <1>3 DEF StartCommit, CompleteCommit, CancelCommit, HandedOut, JobInv, TypeOK
<1> QED
  BY <1>1, <1>2, <1>3 DEF HandedOut, Next, OperatorSends, ClientSends, SendCreate,
     Send, Works, CreateBegin, ExpireSelect, AssignSelect, LoadJob, OperatorCommit,
     ListCommit, AgentCommit, PollCommit, Fails, Reject, CompleteConflict, Abort,
     TimePasses, table

(***************************************************************************)
(* Steps of the server that no process sees: the reads of a request ...    *)
(***************************************************************************)
LEMMA ReadsKeepRequest ==
    ASSUME JobInv, NEW s \in Slots, Works(s), NEW t \in Slots
    PROVE  /\ req'[t].op = req[t].op /\ req'[t].dev = req[t].dev
           /\ req'[t].job = req[t].job /\ req'[t].ok = req[t].ok
           /\ \A j \in req'[t].batch :
                 \/ j \in req[t].batch
                 \/ j \in Jobs /\ status[j] = "queued"
           /\ UNCHANGED <<status, device, result>>
<1>1. UNCHANGED <<status, device, result>>
  BY DEF Works, CreateBegin, ExpireSelect, AssignSelect, LoadJob, table
<1>2. req \in [Slots -> Request]
  BY DEF JobInv, TypeOK
<1>3. CASE CreateBegin(s) \/ LoadJob(s)
  <2>1. req' = [req EXCEPT ![s].phase = "loaded"]
    BY <1>3 DEF CreateBegin, LoadJob
  <2> QED
    BY <1>1, <1>2, <2>1 DEF Request, Operations
<1>4. CASE ExpireSelect(s)
  <2>1. PICK E \in SUBSET Jobs :
            \/ req' = [req EXCEPT ![s].sweep = E, ![s].phase = "swept"]
            \/ req' = [req EXCEPT ![s].sweep = E, ![s].phase = "loaded"]
    BY <1>4 DEF ExpireSelect, Overdue
  <2> QED
    BY <1>1, <1>2, <2>1 DEF Request, Operations
<1>5. CASE AssignSelect(s)
  <2> DEFINE B == Oldest(Queued(req[s].dev))
  <2>1. B \in SUBSET Jobs /\ \A j \in B : status[j] = "queued"
    BY DEF Oldest, Queued
  <2>2. req' = [req EXCEPT ![s].batch = B, ![s].phase = "loaded"]
    BY <1>5 DEF AssignSelect
  <2> HIDE DEF B
  <2> QED
    BY <1>1, <1>2, <2>1, <2>2 DEF Request, Operations
<1> QED
  BY <1>3, <1>4, <1>5 DEF Works

LEMMA ReadsUnseen ==
    ASSUME AgentInv, JobInv', NEW s \in Slots, Works(s), UNCHANGED <<proc, runs, reported>>
    PROVE  AgentInv'
<1> USE ReadsKeepRequest
<1>1. ProcTypeOK'
  BY DEF AgentInv, ProcTypeOK
<1>2. WaitsForOwn' /\ SlotsAreOwn'
  BY DEF AgentInv, WaitsForOwn, SlotsAreOwn, Awaits, Waiting
<1>3. HeldWasHandedOut' /\ RunsAtHome'
  BY DEF AgentInv, HeldWasHandedOut, RunsAtHome, HandedOut, Held
<1>4. HeldOnce'
  BY DEF AgentInv, ProcTypeOK, WaitsForOwn, Waiting, HeldWasHandedOut, HandedOut,
     HeldOnce, HeldIsFresh, ExecutedAtMostOnce
<1>5. CompletionIsTruthful' /\ ResultIsTruthful'
  BY DEF AgentInv, CompletionIsTruthful, ResultIsTruthful
<1> QED
  BY <1>1, <1>2, <1>3, <1>4, <1>5 DEF AgentInv

(***************************************************************************)
(* ... and the end of a request that nobody waits for, or that no agent    *)
(* sent.  What it writes was read earlier and may be stale.                *)
(***************************************************************************)
LEMMA AnswerUnseen ==
    ASSUME AgentInv, JobInv', Next, NEW s \in Slots, ~Awaited(s), Answered(s),
           \A j \in Jobs : \/ result'[j] = result[j]
                           \/ runs[j] > 0 /\ result'[j] \in reported[j],
           UNCHANGED <<proc, runs, reported>>
    PROVE  AgentInv'
<1>1. ProcTypeOK'
  BY DEF AgentInv, ProcTypeOK
<1>2. \A t \in Slots : req'[t] = IF t = s THEN NoRequest ELSE req[t]
  BY DEF Answered, AgentInv, JobInv, TypeOK
<1>3. \A p \in Procs : proc[p].pc \in Waiting => proc[p].slot # s
  BY DEF Awaited, Awaits
<1>4. WaitsForOwn' /\ SlotsAreOwn'
  BY <1>2, <1>3 DEF AgentInv, WaitsForOwn, SlotsAreOwn, Awaits, Waiting
<1>5. HeldWasHandedOut' /\ RunsAtHome'
  BY HandedOutStays DEF AgentInv, ProcTypeOK, Process, HeldWasHandedOut, RunsAtHome, Held
<1>6. HeldOnce'
  BY <1>2, <1>3 DEF AgentInv, WaitsForOwn, HeldOnce, HeldIsFresh,
     ExecutedAtMostOnce, Waiting
<1>7. CompletionIsTruthful' /\ ResultIsTruthful'
  BY <1>2 DEF AgentInv, CompletionIsTruthful, ResultIsTruthful, NoRequest
<1> QED
  BY <1>1, <1>4, <1>5, <1>6, <1>7 DEF AgentInv

LEMMA UnseenKeepsInv ==
    ASSUME AgentInv, JobInv', Next, NEW s \in Slots, Unseen(s)
    PROVE  AgentInv'
<1>1. CASE Works(s)
  BY <1>1, ReadsUnseen DEF Unseen
<1>2. CASE OperatorCommit(s)
  <2>1. ~Awaited(s)
    BY <1>2 DEF OperatorCommit, CreateCommit, ListCommit, CancelCommit, At, Awaited,
       Awaits, Waiting, AgentInv, WaitsForOwn
  <2>2. Answered(s) /\ result' = result
    BY <1>2 DEF OperatorCommit, CreateCommit, ListCommit, CancelCommit, SweepAndAssign
  <2> QED
    BY <2>1, <2>2, AnswerUnseen DEF Unseen
<1>3. CASE ~Awaited(s) /\ AgentCommit(s)
  <2>1. Answered(s)
    BY <1>3 DEF AgentCommit, PollCommit, StartCommit, CompleteCommit, SweepAndAssign
  <2>2. ASSUME NEW j \in Jobs
        PROVE  \/ result'[j] = result[j]
               \/ runs[j] > 0 /\ result'[j] \in reported[j]
    <3>1. CASE PollCommit(s) \/ StartCommit(s)
      BY <3>1 DEF PollCommit, StartCommit, SweepAndAssign
    <3>2. CASE CompleteCommit(s)
      BY <3>2 DEF CompleteCommit, At, AgentInv, CompletionIsTruthful, JobInv, TypeOK
    <3> QED
      BY <1>3, <3>1, <3>2 DEF AgentCommit
  <2> QED
    BY <1>3, <2>1, <2>2, AnswerUnseen DEF Unseen
<1>4. CASE ~Awaited(s) /\ Fails(s)
  <2>1. Answered(s) /\ result' = result
    BY <1>4 DEF Fails, Reject, CompleteConflict, Abort, table
  <2> QED
    BY <1>4, <2>1, AnswerUnseen DEF Unseen
<1> QED
  BY <1>1, <1>2, <1>3, <1>4 DEF Unseen

-----------------------------------------------------------------------------
(***************************************************************************)
(* Steps of a process.  The request that it sends lands in a free slot, so *)
(* no other process waits for it; the answer it gets is to its own request.*)
(***************************************************************************)
LEMMA SendFrame ==
    ASSUME AgentInv, NEW s \in Slots, NEW op \in Operations, NEW d, NEW j, NEW ok,
           Send(s, op, d, j, ok)
    PROVE  /\ \A p \in Procs : proc[p].pc \in Waiting => proc[p].slot # s
           /\ UNCHANGED <<status, device, result>>
BY DEF Send, table, AgentInv, WaitsForOwn, Waiting, NoRequest

LEMMA OperatorSendUnseen ==
    ASSUME AgentInv, JobInv', NEW s \in Slots, NEW op \in {"create", "list", "cancel"},
           NEW d, NEW j, Send(s, op, d, j, FALSE), UNCHANGED <<proc, runs, reported>>
    PROVE  AgentInv'
<1>1. /\ \A p \in Procs : proc[p].pc \in Waiting => proc[p].slot # s
      /\ UNCHANGED <<status, device, result>>
  BY SendFrame DEF Operations
<1>2. \A t \in Slots : /\ t # s => req'[t] = req[t]
                       /\ t = s => req'[t].op = op
  BY DEF Send, AgentInv, JobInv, TypeOK
<1>3. ProcTypeOK' /\ WaitsForOwn' /\ SlotsAreOwn'
  BY <1>1, <1>2 DEF AgentInv, ProcTypeOK, WaitsForOwn, SlotsAreOwn, Awaits,
     Waiting
<1>4. HeldWasHandedOut' /\ RunsAtHome'
  BY <1>1 DEF AgentInv, HeldWasHandedOut, RunsAtHome, HandedOut, Held
<1>5. HeldOnce'
  BY <1>1, <1>2 DEF AgentInv, WaitsForOwn, HeldOnce, HeldIsFresh,
     ExecutedAtMostOnce, Waiting
<1>6. CompletionIsTruthful' /\ ResultIsTruthful'
  BY <1>1, <1>2 DEF AgentInv, CompletionIsTruthful, ResultIsTruthful
<1> QED
  BY <1>3, <1>4, <1>5, <1>6 DEF AgentInv

LEMMA PollKeepsInv ==
    ASSUME AgentInv, JobInv', NEW p \in Procs, NEW s \in Slots, Poll(p, s)
    PROVE  AgentInv'
<1>1. /\ \A q \in Procs : proc[q].pc \in Waiting => proc[q].slot # s
      /\ UNCHANGED <<status, device, result, runs, reported>>
  BY SendFrame DEF Poll, Operations
<1>2. \A t \in Slots : /\ t # s => req'[t] = req[t]
                       /\ t = s => /\ req'[t].op = "poll" /\ req'[t].dev = Home[p]
                                   /\ req'[t].batch = {}
  BY DEF Poll, Send, AgentInv, JobInv, TypeOK
<1>3. /\ proc' \in [Procs -> Process]
      /\ \A q \in Procs :
            /\ q # p => proc'[q] = proc[q]
            /\ q = p => /\ proc'[q].pc = "polling" /\ proc'[q].slot = s
                        /\ proc'[q].todo = {} /\ proc'[q].job = None
  <2>1. [pc |-> "polling", slot |-> s, todo |-> {}, job |-> None] \in Process
    BY DEF Process, Waiting
  <2> QED
    BY <2>1 DEF Poll, AgentInv, ProcTypeOK
<1>4. ProcTypeOK' /\ WaitsForOwn' /\ SlotsAreOwn'
  BY <1>1, <1>2, <1>3 DEF AgentInv, ProcTypeOK, WaitsForOwn, SlotsAreOwn, Awaits,
     Waiting
<1>5. HeldWasHandedOut' /\ RunsAtHome'
  BY <1>1, <1>3 DEF AgentInv, HeldWasHandedOut, RunsAtHome, HandedOut, Held
<1>6. HeldOnce'
  BY <1>1, <1>2, <1>3 DEF AgentInv, WaitsForOwn, HeldOnce, HeldIsFresh,
     ExecutedAtMostOnce, Waiting
<1>7. CompletionIsTruthful' /\ ResultIsTruthful'
  BY <1>1, <1>2, <1>3 DEF AgentInv, CompletionIsTruthful, ResultIsTruthful
<1> QED
  BY <1>4, <1>5, <1>6, <1>7 DEF AgentInv

LEMMA StartNextKeepsInv ==
    ASSUME AgentInv, JobInv', NEW p \in Procs, NEW s \in Slots, NEW j \in Jobs,
           StartNext(p, s, j)
    PROVE  AgentInv'
<1>1. /\ \A q \in Procs : proc[q].pc \in Waiting => proc[q].slot # s
      /\ UNCHANGED <<status, device, result, runs, reported>>
  BY SendFrame DEF StartNext, Operations
<1>2. \A t \in Slots : /\ t # s => req'[t] = req[t]
                       /\ t = s => /\ req'[t].op = "start" /\ req'[t].dev = Home[p]
                                   /\ req'[t].job = j
  BY DEF StartNext, Send, AgentInv, JobInv, TypeOK
<1>3. /\ proc' \in [Procs -> Process]
      /\ j \in proc[p].todo
      /\ \A q \in Procs :
            /\ q # p => proc'[q] = proc[q]
            /\ q = p => /\ proc'[q].pc = "starting" /\ proc'[q].slot = s
                        /\ proc'[q].todo = proc[p].todo \ {j} /\ proc'[q].job = j
  BY DEF StartNext, AgentInv, ProcTypeOK, Process, Waiting
<1>4. ProcTypeOK' /\ WaitsForOwn' /\ SlotsAreOwn'
  BY <1>1, <1>2, <1>3 DEF AgentInv, ProcTypeOK, WaitsForOwn, SlotsAreOwn, Awaits,
     Waiting
<1>5. HeldWasHandedOut' /\ RunsAtHome'
  BY <1>1, <1>3 DEF AgentInv, HeldWasHandedOut, RunsAtHome, HandedOut, Held
<1>6. HeldOnce'
  BY <1>1, <1>2, <1>3 DEF AgentInv, WaitsForOwn, HeldOnce, HeldIsFresh,
     ExecutedAtMostOnce, Waiting
<1>7. CompletionIsTruthful' /\ ResultIsTruthful'
  BY <1>1, <1>2, <1>3 DEF AgentInv, CompletionIsTruthful, ResultIsTruthful
<1> QED
  BY <1>4, <1>5, <1>6, <1>7 DEF AgentInv

LEMMA ExecuteKeepsInv ==
    ASSUME AgentInv, JobInv', NEW p \in Procs, NEW s \in Slots, NEW ok \in BOOLEAN,
           Execute(p, s, ok)
    PROVE  AgentInv'
<1> DEFINE outcome == IF ok THEN "succeeded" ELSE "failed"
           k == proc[p].job
<1>1. /\ \A q \in Procs : proc[q].pc \in Waiting => proc[q].slot # s
      /\ UNCHANGED <<status, device, result, runs>>
  BY SendFrame DEF Execute, Operations
<1>2. \A t \in Slots : /\ t # s => req'[t] = req[t]
                       /\ t = s => /\ req'[t].op = "complete" /\ req'[t].dev = Home[p]
                                   /\ req'[t].job = k /\ req'[t].ok = ok
  BY DEF Execute, Send, AgentInv, JobInv, TypeOK
<1>3. /\ proc' \in [Procs -> Process]
      /\ proc[p].pc = "running"
      /\ \A q \in Procs :
            /\ q # p => proc'[q] = proc[q]
            /\ q = p => /\ proc'[q].pc = "completing" /\ proc'[q].slot = s
                        /\ proc'[q].todo = proc[p].todo /\ proc'[q].job = k
  BY DEF Execute, AgentInv, ProcTypeOK, Process, Waiting
<1>4. /\ k \in Jobs /\ runs[k] > 0 /\ outcome \in reported'[k]
      /\ reported' \in [Jobs -> SUBSET {"succeeded", "failed"}]
      /\ \A j \in Jobs : reported[j] \subseteq reported'[j]
  BY DEF Execute, AgentInv, ProcTypeOK, WaitsForOwn, CompletionIsTruthful
<1>5. ProcTypeOK' /\ WaitsForOwn' /\ SlotsAreOwn'
  BY <1>1, <1>2, <1>3, <1>4 DEF AgentInv, ProcTypeOK, WaitsForOwn, SlotsAreOwn, Awaits,
     Waiting
<1>6. HeldWasHandedOut' /\ RunsAtHome'
  BY <1>1, <1>3 DEF AgentInv, HeldWasHandedOut, RunsAtHome, HandedOut, Held
<1>7. HeldOnce'
  BY <1>1, <1>2, <1>3 DEF AgentInv, WaitsForOwn, HeldOnce, HeldIsFresh,
     ExecutedAtMostOnce, Waiting
<1>8. CompletionIsTruthful' /\ ResultIsTruthful'
  <2>1. CompletionIsTruthful'
    BY <1>1, <1>2, <1>3, <1>4 DEF AgentInv, JobInv, ReadsAreRows, Checks,
       CompletionIsTruthful
  <2>2. ResultIsTruthful'
    BY <1>1, <1>4 DEF AgentInv, ResultIsTruthful
  <2> QED
    BY <2>1, <2>2
<1> QED
  BY <1>5, <1>6, <1>7, <1>8 DEF AgentInv

(***************************************************************************)
(* What an answer to p's own request leaves of the other requests.         *)
(***************************************************************************)
LEMMA AnswerFrame ==
    ASSUME AgentInv, NEW p \in Procs, NEW s \in Slots,
           Awaits(p, s), Answered(s)
    PROVE  /\ \A t \in Slots : req'[t] = IF t = s THEN NoRequest ELSE req[t]
           /\ \A q \in Procs : q # p /\ proc[q].pc \in Waiting => proc[q].slot # s
BY DEF Answered, AgentInv, SlotsAreOwn, JobInv, TypeOK, Awaits

(* The jobs of a poll were read as queued; if its process is the only one  *)
(* of its device, none of them has run yet.                                *)
LEMMA PollAnswerKeepsInv ==
    ASSUME AgentInv, JobInv', Next,
           NEW p \in Procs, NEW s \in Slots, PollAnswer(p, s)
    PROVE  AgentInv'
<1> DEFINE B == req[s].batch
<1>1. /\ Awaits(p, s) /\ Answered(s) /\ UNCHANGED <<device, result, runs, reported>>
      /\ proc[p].pc = "polling" /\ proc[p].slot = s
  BY DEF PollAnswer, PollCommit, SweepAndAssign, AgentInv, WaitsForOwn, Awaits, At, Waiting
<1>2. /\ \A t \in Slots : req'[t] = IF t = s THEN NoRequest ELSE req[t]
      /\ \A q \in Procs : q # p /\ proc[q].pc \in Waiting => proc[q].slot # s
  BY <1>1, AnswerFrame
<1>3. /\ proc' \in [Procs -> Process]
      /\ \A q \in Procs :
            /\ q # p => proc'[q] = proc[q]
            /\ q = p => /\ proc'[q].pc = "idle" /\ proc'[q].todo = B
                        /\ proc'[q].job = None
  BY DEF PollAnswer, Resting, AgentInv, ProcTypeOK, Process, JobInv, TypeOK, Request
<1>4. \A j \in B : j \in Jobs /\ HandedOut(j)' /\ device[j] = Home[p]
  BY <1>1 DEF PollAnswer, PollCommit, SweepAndAssign, HandedOut, AgentInv,
     WaitsForOwn, Waiting, JobInv, TypeOK, Request, ReadsAreRows
<1>5. ProcTypeOK' /\ WaitsForOwn' /\ SlotsAreOwn'
  BY <1>1, <1>2, <1>3 DEF AgentInv, ProcTypeOK, WaitsForOwn, SlotsAreOwn, Awaits,
     Waiting
<1>6. HeldWasHandedOut' /\ RunsAtHome'
  BY <1>1, <1>3, <1>4, HandedOutStays DEF AgentInv, ProcTypeOK, Process,
     HeldWasHandedOut, RunsAtHome, Held
<1>7. HeldOnce'
  BY <1>1, <1>2, <1>3, <1>4 DEF AgentInv, WaitsForOwn, HeldOnce, HeldIsFresh,
     ExecutedAtMostOnce, Waiting
<1>8. CompletionIsTruthful' /\ ResultIsTruthful'
  BY <1>1, <1>2, <1>3 DEF AgentInv, CompletionIsTruthful, ResultIsTruthful, NoRequest
<1> QED
  BY <1>5, <1>6, <1>7, <1>8 DEF AgentInv

(* With one process per device only p holds jobs of its device, and the    *)
(* one it starts has not run.                                              *)
LEMMA StartAnswerKeepsInv ==
    ASSUME AgentInv, JobInv', Next,
           NEW p \in Procs, NEW s \in Slots, StartAnswer(p, s)
    PROVE  AgentInv'
<1> DEFINE k == proc[p].job
<1>1. /\ Awaits(p, s) /\ Answered(s) /\ UNCHANGED <<device, result, reported>>
      /\ proc[p].pc = "starting" /\ proc[p].slot = s
  BY DEF StartAnswer, StartCommit, AgentInv, WaitsForOwn, Awaits, At, Waiting
<1>2. /\ \A t \in Slots : req'[t] = IF t = s THEN NoRequest ELSE req[t]
      /\ \A q \in Procs : q # p /\ proc[q].pc \in Waiting => proc[q].slot # s
  BY <1>1, AnswerFrame
<1>3. /\ proc' \in [Procs -> Process]
      /\ \A q \in Procs :
            /\ q # p => proc'[q] = proc[q]
            /\ q = p => /\ proc'[q].pc = "running" /\ proc'[q].todo = proc[p].todo
                        /\ proc'[q].job = k
  BY DEF StartAnswer, AgentInv, ProcTypeOK, Process
<1>4. k \in Jobs /\ HandedOut(k) /\ device[k] = Home[p]
  BY <1>1, NoneAssumption DEF AgentInv, WaitsForOwn, HeldWasHandedOut, RunsAtHome, Held
<1>5. /\ runs' \in [Jobs -> 0..2]
      /\ runs'[k] = IF runs[k] = 0 THEN 1 ELSE 2
      /\ \A j \in Jobs : j # k => runs'[j] = runs[j]
  BY <1>4 DEF StartAnswer, AgentInv, ProcTypeOK
<1>6. ProcTypeOK' /\ WaitsForOwn' /\ SlotsAreOwn'
  <2>1. ProcTypeOK'
    BY <1>1, <1>3, <1>5 DEF AgentInv, ProcTypeOK
  <2>2. WaitsForOwn'
    BY <1>1, <1>2, <1>3, <1>4 DEF AgentInv, WaitsForOwn, Waiting
  <2>3. SlotsAreOwn'
    BY <1>3 DEF AgentInv, SlotsAreOwn, Awaits, Waiting
  <2> QED
    BY <2>1, <2>2, <2>3
<1>7. HeldWasHandedOut' /\ RunsAtHome'
  <2>1. \A q \in Procs : Held(q)' = Held(q) /\ Held(q) \subseteq Jobs
    BY <1>3 DEF AgentInv, ProcTypeOK, Process, Held
  <2>2. \A j \in Jobs : runs'[j] > 0 => HandedOut(j)
    BY <1>4, <1>5 DEF AgentInv, HeldWasHandedOut
  <2> QED
    BY <1>1, <2>1, <2>2, HandedOutStays DEF AgentInv, HeldWasHandedOut, RunsAtHome
<1>8. HeldOnce'
  <2> SUFFICES ASSUME OneProcessPerDevice PROVE (HeldIsFresh /\ ExecutedAtMostOnce)'
    BY DEF HeldOnce
  <2>1. runs[k] = 0 /\ k \notin proc[p].todo
    BY <1>1 DEF AgentInv, HeldOnce, HeldIsFresh
  <2>2. ExecutedAtMostOnce'
    BY <1>5, <2>1 DEF AgentInv, HeldOnce, ExecutedAtMostOnce
  <2>3. ASSUME NEW q \in Procs, q # p
        PROVE  /\ k \notin Held(q)
               /\ proc[q].pc = "polling" => k \notin req[proc[q].slot].batch
    BY <1>4, <2>3 DEF OneProcessPerDevice, AgentInv, RunsAtHome, WaitsForOwn, Waiting,
       JobInv, ReadsAreRows
  <2>4. ASSUME NEW q \in Procs
        PROVE  /\ \A j \in proc'[q].todo : runs'[j] = 0
               /\ proc'[q].pc = "starting" => /\ runs'[proc'[q].job] = 0
                                              /\ proc'[q].job \notin proc'[q].todo
               /\ proc'[q].pc = "polling" => \A j \in req'[proc'[q].slot].batch : runs'[j] = 0
    <3>1. CASE q = p
      BY <3>1, <1>3, <1>5, <2>1 DEF AgentInv, ProcTypeOK, Process, HeldOnce, HeldIsFresh
    <3>2. CASE q # p
      <4>1. proc'[q] = proc[q]
        BY <3>2, <1>3
      <4>2. /\ \A j \in proc[q].todo : j \in Jobs /\ j # k
            /\ proc[q].pc = "starting" => proc[q].job \in Jobs /\ proc[q].job # k
        BY <1>4, <2>3, <3>2, NoneAssumption DEF Held, AgentInv, ProcTypeOK, Process,
           WaitsForOwn
      <4>3. proc[q].pc = "polling" =>
              /\ req'[proc[q].slot] = req[proc[q].slot]
              /\ \A j \in req[proc[q].slot].batch : j \in Jobs /\ j # k
        BY <1>2, <2>3, <3>2 DEF Waiting, AgentInv, WaitsForOwn, JobInv, TypeOK, Request
      <4> QED
        BY <1>5, <4>1, <4>2, <4>3 DEF AgentInv, HeldOnce, HeldIsFresh
    <3> QED
      BY <3>1, <3>2
  <2> QED
    BY <2>2, <2>4 DEF HeldIsFresh
<1>9. CompletionIsTruthful' /\ ResultIsTruthful'
  <2>1. \A j \in Jobs : runs[j] > 0 => runs'[j] > 0
    BY <1>4, <1>5
  <2>2. CompletionIsTruthful'
    BY <2>1, <1>1, <1>2, <1>3, <1>5 DEF AgentInv, CompletionIsTruthful, NoRequest,
       WaitsForOwn, JobInv, ReadsAreRows, Checks
  <2>3. ResultIsTruthful'
    BY <2>1, <1>1 DEF AgentInv, ResultIsTruthful
  <2> QED
    BY <2>2, <2>3
<1> QED
  BY <1>6, <1>7, <1>8, <1>9 DEF AgentInv

(* The request, or nothing, was the last the process waited for.           *)
LEMMA BackToIdle ==
    ASSUME AgentInv, JobInv', Next \/ UNCHANGED jobVars,
           NEW p \in Procs,
           \/ req' = req
           \/ \E s \in Slots : Awaits(p, s) /\ Answered(s),
           \A j \in Jobs : \/ result'[j] = result[j]
                           \/ runs[j] > 0 /\ result'[j] \in reported[j],
           NEW todo, todo = {} \/ todo = proc[p].todo,
           proc' = [proc EXCEPT ![p] = [pc |-> "idle", slot |-> None,
                                        todo |-> todo, job |-> None]],
           UNCHANGED <<runs, reported>>
    PROVE  AgentInv'
<1>1. \A t \in Slots : req'[t] = req[t] \/ req'[t] = NoRequest
  BY AnswerFrame
<1>2. \A q \in Procs : q # p /\ proc[q].pc \in Waiting => req'[proc[q].slot] = req[proc[q].slot]
  BY AnswerFrame DEF AgentInv, WaitsForOwn
<1>3. /\ proc' \in [Procs -> Process]
      /\ \A q \in Procs :
            /\ q # p => proc'[q] = proc[q]
            /\ q = p => /\ proc'[q].pc = "idle" /\ proc'[q].todo \subseteq proc[p].todo
                        /\ proc'[q].job = None
  BY DEF AgentInv, ProcTypeOK, Process
<1>4. \A j \in Jobs : HandedOut(j) => HandedOut(j)' /\ device'[j] = device[j]
  BY HandedOutStays DEF AgentInv, HandedOut, jobVars
<1>5. ProcTypeOK' /\ WaitsForOwn' /\ SlotsAreOwn'
  BY <1>2, <1>3 DEF AgentInv, ProcTypeOK, WaitsForOwn, SlotsAreOwn, Awaits,
     Waiting
<1>6. HeldWasHandedOut' /\ RunsAtHome'
  BY <1>3, <1>4 DEF AgentInv, ProcTypeOK, Process, HeldWasHandedOut, RunsAtHome, Held
<1>7. HeldOnce'
  BY <1>2, <1>3 DEF AgentInv, WaitsForOwn, HeldOnce, HeldIsFresh,
     ExecutedAtMostOnce, Waiting
<1>8. CompletionIsTruthful' /\ ResultIsTruthful'
  BY <1>1, <1>3 DEF AgentInv, CompletionIsTruthful, ResultIsTruthful, NoRequest
<1> QED
  BY <1>5, <1>6, <1>7, <1>8 DEF AgentInv

LEMMA CompleteAnswerKeepsInv ==
    ASSUME AgentInv, JobInv', Next,
           NEW p \in Procs, NEW s \in Slots, CompleteAnswer(p, s)
    PROVE  AgentInv'
<1>1. Awaits(p, s) /\ Answered(s) /\ UNCHANGED <<runs, reported>>
  BY DEF CompleteAnswer, CompleteCommit
<1>2. ASSUME NEW j \in Jobs
      PROVE  \/ result'[j] = result[j]
             \/ runs[j] > 0 /\ result'[j] \in reported[j]
  BY DEF CompleteAnswer, CompleteCommit, At, AgentInv, CompletionIsTruthful, JobInv, TypeOK
<1>3. \A j \in Jobs : \/ result'[j] = result[j]
                      \/ runs[j] > 0 /\ result'[j] \in reported[j]
  BY <1>2
<1>4. [Resting EXCEPT !.todo = proc[p].todo]
        = [pc |-> "idle", slot |-> None, todo |-> proc[p].todo, job |-> None]
  BY DEF Resting
<1> DEFINE todo == proc[p].todo
<1>5. proc' = [proc EXCEPT ![p] = [pc |-> "idle", slot |-> None,
                                   todo |-> todo, job |-> None]]
  BY <1>4 DEF CompleteAnswer
<1>6. todo = {} \/ todo = proc[p].todo
  OBVIOUS
<1> HIDE DEF todo
<1> QED
  BY <1>1, <1>3, <1>5, <1>6, BackToIdle

LEMMA ErrorAnswerKeepsInv ==
    ASSUME AgentInv, JobInv', Next,
           NEW p \in Procs, NEW s \in Slots, ErrorAnswer(p, s)
    PROVE  AgentInv'
<1>1. Awaits(p, s) /\ Answered(s) /\ result' = result
  BY DEF ErrorAnswer, Fails, Reject, CompleteConflict, Abort, table
<1> QED
  BY <1>1, BackToIdle DEF ErrorAnswer, Resting

LEMMA GiveUpKeepsInv ==
    ASSUME AgentInv, JobInv', NEW p \in Procs, GiveUp(p)
    PROVE  AgentInv'
<1>1. req' = req /\ result' = result /\ UNCHANGED jobVars
  BY DEF GiveUp, jobVars
<1> QED
  BY <1>1, BackToIdle DEF GiveUp, Resting

LEMMA TickKeepsInv ==
    ASSUME AgentInv, JobInv', NEW j \in Jobs, Tick(j)
    PROVE  AgentInv'
BY DEF Tick, TimePasses, table, AgentInv, ProcTypeOK, WaitsForOwn, SlotsAreOwn, Awaits,
   HeldWasHandedOut, HandedOut, Held, RunsAtHome, HeldOnce, HeldIsFresh,
   ExecutedAtMostOnce, CompletionIsTruthful, ResultIsTruthful

-----------------------------------------------------------------------------
(* No process has sent anything yet.                                       *)
LEMMA AgentInitMakesInv == AgentInit => AgentInv
<1> SUFFICES ASSUME AgentInit PROVE AgentInv
  OBVIOUS
<1>1. JobInv
  BY InitMakesInv DEF AgentInit
<1>2. ProcTypeOK /\ WaitsForOwn /\ SlotsAreOwn
  BY DEF AgentInit, Resting, ProcTypeOK, Process, WaitsForOwn, SlotsAreOwn, Awaits, Waiting
<1>3. HeldWasHandedOut /\ RunsAtHome /\ HeldOnce
  BY DEF AgentInit, Resting, HeldWasHandedOut, RunsAtHome, Held, HeldOnce, HeldIsFresh,
     ExecutedAtMostOnce
<1>4. CompletionIsTruthful /\ ResultIsTruthful
  BY DEF AgentInit, Init, Resting, NoRequest, CompletionIsTruthful, ResultIsTruthful
<1> QED
  BY <1>1, <1>2, <1>3, <1>4 DEF AgentInv

(***************************************************************************)
(* The invariant is inductive, however many processes share a device.      *)
(***************************************************************************)
THEOREM AgentInvInductive ==
    ASSUME AgentInv, [AgentNext]_vars
    PROVE  AgentInv'
<1>1. CASE UNCHANGED vars
  BY <1>1 DEF vars, AgentInv, JobInv, TypeOK, NoRowNoData, CreatesAreFresh, ReadsAreRows,
     RunningWasStarted, ResultNeedsStart, StatusMatchesResult, AssignedAtHome,
     ExpiredOnlyWhenDue, ProcTypeOK, WaitsForOwn, SlotsAreOwn, Awaits, HeldWasHandedOut,
     HandedOut, Held, RunsAtHome, HeldOnce, HeldIsFresh, ExecutedAtMostOnce,
     CompletionIsTruthful, ResultIsTruthful
<1>2. CASE AgentNext
  <2>1. Next \/ UNCHANGED jobVars
    BY <1>2, AgentNextIsNext DEF AgentInv
  <2>2. JobInv'
    BY <2>1, JobInvInductive DEF AgentInv
  <2>3. ASSUME NEW s \in Slots, Unseen(s) PROVE AgentInv'
    <3>1. Next
      BY <2>3 DEF Unseen, Next
    <3> QED
      BY <2>2, <2>3, <3>1, UnseenKeepsInv
  <2>4. CASE Operator
    BY <2>2, <2>4, OperatorSendUnseen DEF Operator, OperatorSends, SendCreate
  <2>5. ASSUME NEW j \in Jobs, Tick(j) PROVE AgentInv'
    BY <2>2, <2>5, TickKeepsInv
  <2>6. ASSUME NEW p \in Procs, ProcStep(p) PROVE AgentInv'
    <3>1. CASE GiveUp(p)
      BY <2>2, <3>1, GiveUpKeepsInv
    <3>2. ASSUME NEW s \in Slots, Poll(p, s) PROVE AgentInv'
      BY <2>2, <3>2, PollKeepsInv
    <3>3. ASSUME NEW s \in Slots, NEW j \in Jobs, StartNext(p, s, j) PROVE AgentInv'
      BY <2>2, <3>3, StartNextKeepsInv
    <3>4. ASSUME NEW s \in Slots, NEW ok \in BOOLEAN, Execute(p, s, ok) PROVE AgentInv'
      BY <2>2, <3>4, ExecuteKeepsInv
    <3>5. ASSUME NEW s \in Slots,
                 \/ PollAnswer(p, s) \/ StartAnswer(p, s)
                 \/ CompleteAnswer(p, s) \/ ErrorAnswer(p, s)
          PROVE  AgentInv'
      <4>1. Next
        BY <3>5 DEF PollAnswer, StartAnswer, CompleteAnswer, ErrorAnswer, AgentCommit, Next
      <4> QED
        BY <2>2, <3>5, <4>1, PollAnswerKeepsInv, StartAnswerKeepsInv,
           CompleteAnswerKeepsInv, ErrorAnswerKeepsInv
    <3> QED
      BY <2>6, <3>1, <3>2, <3>3, <3>4, <3>5 DEF ProcStep
  <2> QED
    BY <1>2, <2>3, <2>4, <2>5, <2>6 DEF AgentNext
<1> QED
  BY <1>1, <1>2

(* The agents' loops keep what they rely on, however many run at once.     *)
THEOREM AgentInvHolds == AgentSpec => []AgentInv
<1>1. AgentInv /\ [AgentNext]_vars => AgentInv'
  BY AgentInvInductive
<1> QED
  BY <1>1, AgentInitMakesInv, PTL DEF AgentSpec

(***************************************************************************)
(* Agents, what they have run and reported, tables and requests stay in    *)
(* their types.                                                            *)
(***************************************************************************)
THEOREM AgentTypesHold == AgentSpec => []AgentTypeOK
<1>1. AgentInv => AgentTypeOK
  BY DEF AgentInv, JobInv, ProcTypeOK, AgentTypeOK
<1> QED
  BY <1>1, AgentInvHolds, PTL

(***************************************************************************)
(* At most once: with one agent process per device no job handler is       *)
(* entered twice, whatever is lost, late, restarted or concurrent.         *)
(***************************************************************************)
THEOREM AtMostOnce == OneProcessPerDevice => (AgentSpec => []ExecutedAtMostOnce)
<1> SUFFICES ASSUME OneProcessPerDevice PROVE AgentSpec => []ExecutedAtMostOnce
  OBVIOUS
<1>1. AgentInv => ExecutedAtMostOnce
  BY DEF AgentInv, HeldOnce
<1> QED
  BY <1>1, AgentInvHolds, PTL

(***************************************************************************)
(* A stored result is the outcome of a run that took place, also when      *)
(* several agent processes hold the credentials of one device.             *)
(***************************************************************************)
THEOREM ResultsAreTruthful == AgentSpec => []ResultIsTruthful
<1>1. AgentInv => ResultIsTruthful
  BY DEF AgentInv
<1> QED
  BY <1>1, AgentInvHolds, PTL

(***************************************************************************)
(* An agent only holds jobs of its own device, with any number of agent    *)
(* processes on it.                                                        *)
(***************************************************************************)
THEOREM HeldAtHome == AgentSpec => []RunsAtHome
<1>1. AgentInv => RunsAtHome
  BY DEF AgentInv
<1> QED
  BY <1>1, AgentInvHolds, PTL

(***************************************************************************)
(* The agents together with the server implement the server alone: what    *)
(* the Go agent does is some way of being the server's clients.  So every  *)
(* theorem about JobServer's Spec holds when agents drive it.              *)
(***************************************************************************)
THEOREM AgentsAreClients == AgentSpec => Spec
<1>1. AgentInit => Init
  BY DEF AgentInit
<1>2. AgentInv /\ [AgentNext]_vars => [Next]_jobVars
  BY AgentNextIsNext DEF AgentInv, vars, jobVars
<1> QED
  BY <1>1, <1>2, AgentInvHolds, PTL DEF AgentSpec, Spec
=============================================================================
