--------------------------- MODULE JobServerProofs ---------------------------
(***************************************************************************)
(* What every schedule of requests leaves true of the job tables, for any  *)
(* number of jobs, devices and concurrent requests.                        *)
(*                                                                         *)
(* The safety invariants are not inductive by themselves: a request may    *)
(* hold a decision taken on an older table.  JobInv adds what such a       *)
(* decision still guarantees when it commits, however stale it is.         *)
(***************************************************************************)
EXTENDS JobServer, FiniteSetTheorems, TLAPS

(* A job without a row has no assignee, no device and no result.           *)
NoRowNoData ==
    \A j \in Jobs :
        /\ status[j] = "none" => /\ device[j] = None
                                 /\ assignee[j] = None
                                 /\ result[j] = "none"
        /\ stamp[j] = 0 => status[j] = "none"

(* A job is being created by at most one request, and has no row yet.      *)
CreatesAreFresh ==
    \A s \in Slots : req[s].op = "create" =>
        /\ req[s].job \in Jobs
        /\ status[req[s].job] = "none"
        /\ req[s].phase = "loaded" => stamp[req[s].job] # 0
        /\ \A t \in Slots : req[t].op = "create" /\ req[t].job = req[s].job => t = s

(* What was read stays a job of the request's device, with a row.          *)
ReadsAreRows ==
    \A s \in Slots :
        /\ \A j \in req[s].sweep \cup req[s].batch :
              status[j] # "none" /\ device[j] = req[s].dev
        /\ \A j \in req[s].sweep : due[j]
        /\ req[s].op \in Checks => req[s].job \in Jobs
        /\ req[s].op \in Checks /\ req[s].phase = "loaded" => status[req[s].job] # "none"
        /\ req[s].op \in {"start", "complete"} /\ req[s].phase = "loaded"
              => device[req[s].job] = req[s].dev
        /\ req[s].op = "complete" /\ req[s].phase = "loaded"
              => "started" \in events[req[s].job]
        /\ req[s].op \notin {"cancel", "idle"} => req[s].dev \in Devices

RunningWasStarted == \A j \in Jobs : status[j] = "running" => "started" \in events[j]

JobInv ==
    /\ TypeOK
    /\ NoRowNoData
    /\ CreatesAreFresh
    /\ ReadsAreRows
    /\ RunningWasStarted
    /\ ResultNeedsStart
    /\ StatusMatchesResult
    /\ AssignedAtHome
    /\ ExpiredOnlyWhenDue

(***************************************************************************)
(* The creation stamp is a positive number.                                *)
(***************************************************************************)
LEMMA StampIsPositive ==
    1 + Cardinality({i \in Jobs : stamp[i] > 0}) \in Nat \ {0}
<1>1. IsFiniteSet({i \in Jobs : stamp[i] > 0})
  BY JobsAssumption, FS_Subset
<1> QED
  BY <1>1, FS_CardinalityType

(* A request that has read more is still a request.                        *)
LEMMA ReadingKeepsType ==
    ASSUME NEW r \in Request, NEW phase \in {"sent", "swept", "loaded"},
           NEW sweep \in SUBSET Jobs, NEW batch \in SUBSET Jobs
    PROVE  /\ [r EXCEPT !.phase = phase] \in Request
           /\ [r EXCEPT !.sweep = sweep, !.phase = phase] \in Request
           /\ [r EXCEPT !.batch = batch, !.phase = phase] \in Request
BY DEF Request

(* The empty tables satisfy the invariant.                                 *)
LEMMA InitMakesInv == Init => JobInv
BY DEF Init, JobInv, TypeOK, NoRowNoData, CreatesAreFresh, ReadsAreRows,
       RunningWasStarted, ResultNeedsStart, StatusMatchesResult,
       AssignedAtHome, ExpiredOnlyWhenDue, NoRequest, Request, Checks

(* A new request has read nothing yet.                                     *)
LEMMA SendKeepsInv ==
    ASSUME JobInv, NEW s \in Slots,
           NEW op \in Operations \ {"create"}, NEW d \in Devices \cup {None},
           NEW j \in Jobs \cup {None}, NEW ok \in BOOLEAN,
           op \in Checks => j \in Jobs, op # "cancel" => d \in Devices, Send(s, op, d, j, ok)
    PROVE  JobInv'
<1>1. TypeOK'
  BY DEF JobInv, TypeOK, Send, Request, table
<1>2. NoRowNoData' /\ CreatesAreFresh' /\ ReadsAreRows'
  BY DEF JobInv, NoRowNoData, CreatesAreFresh, ReadsAreRows, Send, table
<1>3. RunningWasStarted' /\ ResultNeedsStart' /\ StatusMatchesResult'
  BY DEF JobInv, RunningWasStarted, ResultNeedsStart, StatusMatchesResult,
         Send, table
<1>4. AssignedAtHome' /\ ExpiredOnlyWhenDue'
  BY DEF JobInv, AssignedAtHome, ExpiredOnlyWhenDue, Send, table
<1> QED
  BY <1>1, <1>2, <1>3, <1>4 DEF JobInv

(* The identity of the new job is nobody else's.                           *)
LEMMA SendCreateKeepsInv ==
    ASSUME JobInv, NEW s \in Slots,
           NEW d \in Devices, NEW j \in Jobs, SendCreate(s, d, j)
    PROVE  JobInv'
<1>1. TypeOK'
  BY DEF JobInv, TypeOK, SendCreate, Send, Request, Operations, table
<1>2. NoRowNoData' /\ CreatesAreFresh' /\ ReadsAreRows'
  BY DEF JobInv, NoRowNoData, CreatesAreFresh, ReadsAreRows, SendCreate, Send,
         table
<1>3. RunningWasStarted' /\ ResultNeedsStart' /\ StatusMatchesResult'
  BY DEF JobInv, RunningWasStarted, ResultNeedsStart, StatusMatchesResult,
         SendCreate, Send, table
<1>4. AssignedAtHome' /\ ExpiredOnlyWhenDue'
  BY DEF JobInv, AssignedAtHome, ExpiredOnlyWhenDue, SendCreate, Send, table
<1> QED
  BY <1>1, <1>2, <1>3, <1>4 DEF JobInv

(* The creation time is taken before the row can be seen.                  *)
LEMMA CreateBeginKeepsInv ==
    ASSUME JobInv, NEW s \in Slots, CreateBegin(s)
    PROVE  JobInv'
<1>1. PICK n \in Nat \ {0} : stamp' = [stamp EXCEPT ![req[s].job] = n]
  BY StampIsPositive DEF CreateBegin
<1>2. /\ req[s].op = "create" /\ req[s].phase = "sent"
      /\ req' = [req EXCEPT ![s].phase = "loaded"]
      /\ UNCHANGED <<status, assignee, device, due, result, events>>
  BY DEF CreateBegin, At
<1>3. TypeOK'
  BY <1>1, <1>2, ReadingKeepsType DEF JobInv, TypeOK
<1>4. NoRowNoData' /\ CreatesAreFresh' /\ ReadsAreRows'
  BY <1>1, <1>2
  DEF JobInv, TypeOK, NoRowNoData, CreatesAreFresh, ReadsAreRows, Checks
<1>5. RunningWasStarted' /\ ResultNeedsStart' /\ StatusMatchesResult'
  BY <1>2 DEF JobInv, RunningWasStarted, ResultNeedsStart, StatusMatchesResult
<1>6. AssignedAtHome' /\ ExpiredOnlyWhenDue'
  BY <1>2 DEF JobInv, AssignedAtHome, ExpiredOnlyWhenDue
<1> QED
  BY <1>3, <1>4, <1>5, <1>6 DEF JobInv

(* The row appears: nothing read before can refer to it.                   *)
LEMMA CreateCommitKeepsInv ==
    ASSUME JobInv, NEW s \in Slots, CreateCommit(s)
    PROVE  JobInv'
<1>1. TypeOK'
  BY DEF JobInv, TypeOK, CreateCommit, Request, NoRequest, Open, EventTypes,
         Answered
<1>2. NoRowNoData' /\ CreatesAreFresh' /\ ReadsAreRows'
  BY DEF JobInv, TypeOK, NoRowNoData, CreatesAreFresh, ReadsAreRows,
         CreateCommit, NoRequest, Checks, At, Answered
<1>3. RunningWasStarted' /\ ResultNeedsStart' /\ StatusMatchesResult'
  BY DEF JobInv, RunningWasStarted, ResultNeedsStart, StatusMatchesResult,
         CreateCommit
<1>4. AssignedAtHome' /\ ExpiredOnlyWhenDue'
  BY DEF JobInv, NoRowNoData, CreatesAreFresh, AssignedAtHome,
         ExpiredOnlyWhenDue, CreateCommit, At
<1> QED
  BY <1>1, <1>2, <1>3, <1>4 DEF JobInv

(* A sweep reads rows of its device that are overdue.                      *)
LEMMA ExpireSelectKeepsInv ==
    ASSUME JobInv, NEW s \in Slots, ExpireSelect(s)
    PROVE  JobInv'
<1>1. TypeOK'
  <2>1. Overdue(req[s].dev) \subseteq Jobs
    BY DEF Overdue
  <2>2. (IF req[s].op = "poll" THEN "swept" ELSE "loaded") \in {"sent", "swept", "loaded"}
    OBVIOUS
  <2> QED
    BY <2>1, <2>2, ReadingKeepsType DEF JobInv, TypeOK, ExpireSelect, table
<1>2. NoRowNoData' /\ CreatesAreFresh' /\ ReadsAreRows'
  BY DEF JobInv, TypeOK, ExpireSelect, Request, At
<1>3. RunningWasStarted' /\ ResultNeedsStart' /\ StatusMatchesResult'
  BY DEF JobInv, RunningWasStarted, ResultNeedsStart, StatusMatchesResult,
         ExpireSelect, table
<1>4. AssignedAtHome' /\ ExpiredOnlyWhenDue'
  BY DEF JobInv, AssignedAtHome, ExpiredOnlyWhenDue, ExpireSelect, table
<1> QED
  BY <1>1, <1>2, <1>3, <1>4 DEF JobInv

(* A poll reads queued rows of its device.                                 *)
LEMMA AssignSelectKeepsInv ==
    ASSUME JobInv, NEW s \in Slots, AssignSelect(s)
    PROVE  JobInv'
<1>1. TypeOK'
  <2>1. Oldest(Queued(req[s].dev)) \subseteq Jobs
    BY DEF Oldest, Queued
  <2> QED
    BY <2>1, ReadingKeepsType DEF JobInv, TypeOK, AssignSelect, table
<1>2. NoRowNoData' /\ CreatesAreFresh' /\ ReadsAreRows'
  BY DEF JobInv, TypeOK, AssignSelect, Request, At
<1>3. RunningWasStarted' /\ ResultNeedsStart' /\ StatusMatchesResult'
  BY DEF JobInv, RunningWasStarted, ResultNeedsStart, StatusMatchesResult,
         AssignSelect, table
<1>4. AssignedAtHome' /\ ExpiredOnlyWhenDue'
  BY DEF JobInv, AssignedAtHome, ExpiredOnlyWhenDue, AssignSelect, table
<1> QED
  BY <1>1, <1>2, <1>3, <1>4 DEF JobInv

(***************************************************************************)
(* The commit of a poll or list may overwrite any status, but only with    *)
(* statuses that need no result, on rows of its own device.                *)
(***************************************************************************)
LEMMA SweepKeepsInv ==
    ASSUME JobInv, NEW s \in Slots, At(s, "poll", "loaded") \/ At(s, "list", "loaded"),
           SweepAndAssign(s)
    PROVE  JobInv'
<1>1. TypeOK'
  BY DEF JobInv, TypeOK, SweepAndAssign, Request, NoRequest, Open, Terminal,
         EventTypes, Answered
<1>2. NoRowNoData' /\ CreatesAreFresh' /\ ReadsAreRows'
  BY DEF JobInv, TypeOK, NoRowNoData, CreatesAreFresh, ReadsAreRows,
         SweepAndAssign, Request, NoRequest, Checks, Answered
<1>3. RunningWasStarted' /\ ResultNeedsStart' /\ StatusMatchesResult'
  BY DEF JobInv, RunningWasStarted, ResultNeedsStart, StatusMatchesResult,
         SweepAndAssign
<1>4. AssignedAtHome' /\ ExpiredOnlyWhenDue'
  BY DEF JobInv, ReadsAreRows, AssignedAtHome, ExpiredOnlyWhenDue,
         SweepAndAssign
<1> QED
  BY <1>1, <1>2, <1>3, <1>4 DEF JobInv

(* A start, however stale, is by the device of the job.                    *)
LEMMA StartCommitKeepsInv ==
    ASSUME JobInv, NEW s \in Slots, StartCommit(s)
    PROVE  JobInv'
<1>1. TypeOK'
  BY DEF JobInv, TypeOK, StartCommit, Request, NoRequest, Open, EventTypes,
         Answered
<1>2. NoRowNoData' /\ CreatesAreFresh' /\ ReadsAreRows'
  BY DEF JobInv, NoRowNoData, CreatesAreFresh, ReadsAreRows, StartCommit,
         NoRequest, Checks, At, Answered
<1>3. RunningWasStarted' /\ ResultNeedsStart' /\ StatusMatchesResult'
  BY DEF JobInv, TypeOK, RunningWasStarted, ResultNeedsStart,
         StatusMatchesResult, StartCommit
<1>4. AssignedAtHome' /\ ExpiredOnlyWhenDue'
  BY DEF JobInv, ReadsAreRows, AssignedAtHome, ExpiredOnlyWhenDue,
         StartCommit, At
<1> QED
  BY <1>1, <1>2, <1>3, <1>4 DEF JobInv

(***************************************************************************)
(* The completion was allowed when the job was running, hence started;     *)
(* events are never taken back, so that is still true at the commit.       *)
(***************************************************************************)
LEMMA CompleteCommitKeepsInv ==
    ASSUME JobInv, NEW s \in Slots, CompleteCommit(s)
    PROVE  JobInv'
<1>1. TypeOK'
  BY DEF JobInv, TypeOK, CompleteCommit, Request, NoRequest, Terminal,
         EventTypes, Answered
<1>2. NoRowNoData' /\ CreatesAreFresh' /\ ReadsAreRows'
  BY DEF JobInv, NoRowNoData, CreatesAreFresh, ReadsAreRows, CompleteCommit,
         NoRequest, Checks, At, Answered
<1>3. RunningWasStarted' /\ ResultNeedsStart' /\ StatusMatchesResult'
  BY DEF JobInv, TypeOK, ReadsAreRows, RunningWasStarted, ResultNeedsStart,
         StatusMatchesResult, CompleteCommit, At
<1>4. AssignedAtHome' /\ ExpiredOnlyWhenDue'
  BY DEF JobInv, AssignedAtHome, ExpiredOnlyWhenDue, CompleteCommit
<1> QED
  BY <1>1, <1>2, <1>3, <1>4 DEF JobInv

(* A cancel needs no result.                                               *)
LEMMA CancelCommitKeepsInv ==
    ASSUME JobInv, NEW s \in Slots, CancelCommit(s)
    PROVE  JobInv'
<1>1. TypeOK'
  BY DEF JobInv, TypeOK, CancelCommit, Request, NoRequest, Terminal,
         EventTypes, Answered
<1>2. NoRowNoData' /\ CreatesAreFresh' /\ ReadsAreRows'
  BY DEF JobInv, NoRowNoData, CreatesAreFresh, ReadsAreRows, CancelCommit,
         NoRequest, Checks, At, Answered
<1>3. RunningWasStarted' /\ ResultNeedsStart' /\ StatusMatchesResult'
  BY DEF JobInv, RunningWasStarted, ResultNeedsStart, StatusMatchesResult,
         CancelCommit
<1>4. AssignedAtHome' /\ ExpiredOnlyWhenDue'
  BY DEF JobInv, AssignedAtHome, ExpiredOnlyWhenDue, CancelCommit
<1> QED
  BY <1>1, <1>2, <1>3, <1>4 DEF JobInv

(* What the checks of start, complete and cancel establish.                *)
LEMMA LoadJobKeepsInv ==
    ASSUME JobInv, NEW s \in Slots, LoadJob(s)
    PROVE  JobInv'
<1>1. TypeOK'
  BY ReadingKeepsType DEF JobInv, TypeOK, LoadJob, table
<1>2. NoRowNoData' /\ CreatesAreFresh' /\ ReadsAreRows'
  <2>1. /\ req[s].job \in Jobs
        /\ status[req[s].job] # "none"
        /\ req[s].op \in {"start", "complete"} => device[req[s].job] = req[s].dev
        /\ req[s].op = "complete" => "started" \in events[req[s].job]
    BY DEF LoadJob, Allowed, MayStart, MayComplete, MayCancel, MayWorkOn,
           Open, JobInv, ReadsAreRows, RunningWasStarted
  <2> QED
    BY <2>1
    DEF JobInv, NoRowNoData, CreatesAreFresh, ReadsAreRows, LoadJob, table
<1>3. RunningWasStarted' /\ ResultNeedsStart' /\ StatusMatchesResult'
  BY DEF JobInv, LoadJob, table, RunningWasStarted, ResultNeedsStart,
         StatusMatchesResult
<1>4. AssignedAtHome' /\ ExpiredOnlyWhenDue'
  BY DEF JobInv, LoadJob, table, AssignedAtHome, ExpiredOnlyWhenDue
<1> QED
  BY <1>1, <1>2, <1>3, <1>4 DEF JobInv

(* Rejections, conflicts and aborts only free the slot.                    *)
LEMMA AnswerKeepsInv ==
    ASSUME JobInv, NEW s \in Slots, Answered(s), UNCHANGED <<table, due>>
    PROVE  JobInv'
<1>1. TypeOK'
  BY DEF JobInv, TypeOK, Answered, Request, NoRequest, Answered, table
<1>2. NoRowNoData' /\ CreatesAreFresh' /\ ReadsAreRows'
  BY DEF JobInv, NoRowNoData, CreatesAreFresh, ReadsAreRows, Answered,
         NoRequest, Checks, Answered, table
<1>3. RunningWasStarted' /\ ResultNeedsStart' /\ StatusMatchesResult'
  BY DEF JobInv, RunningWasStarted, ResultNeedsStart, StatusMatchesResult,
         table
<1>4. AssignedAtHome' /\ ExpiredOnlyWhenDue'
  BY DEF JobInv, AssignedAtHome, ExpiredOnlyWhenDue, table
<1> QED
  BY <1>1, <1>2, <1>3, <1>4 DEF JobInv

(* Only the clock changes due, and never back.                             *)
LEMMA TimeKeepsInv ==
    ASSUME JobInv, NEW j \in Jobs, TimePasses(j)
    PROVE  JobInv'
<1>1. TypeOK'
  BY DEF JobInv, TypeOK, TimePasses, table
<1>2. NoRowNoData' /\ CreatesAreFresh' /\ ReadsAreRows'
  BY DEF JobInv, NoRowNoData, CreatesAreFresh, ReadsAreRows, TimePasses, table
<1>3. RunningWasStarted' /\ ResultNeedsStart' /\ StatusMatchesResult'
  BY DEF JobInv, RunningWasStarted, ResultNeedsStart, StatusMatchesResult,
         TimePasses, table
<1>4. AssignedAtHome' /\ ExpiredOnlyWhenDue'
  BY DEF JobInv, AssignedAtHome, ExpiredOnlyWhenDue, TimePasses, table
<1> QED
  BY <1>1, <1>2, <1>3, <1>4 DEF JobInv

(***************************************************************************)
(* The invariant is inductive: one step per action of Next.                *)
(***************************************************************************)
THEOREM JobInvInductive == JobInv /\ [Next]_jobVars => JobInv'
<1> SUFFICES ASSUME JobInv, [Next]_jobVars PROVE JobInv'
  OBVIOUS
<1>1. CASE OperatorSends
  <2>1. ASSUME NEW s \in Slots, NEW d \in Devices, NEW j \in Jobs, SendCreate(s, d, j)
        PROVE  JobInv'
    BY <2>1, SendCreateKeepsInv
  <2>2. ASSUME NEW s \in Slots, NEW d \in Devices, Send(s, "list", d, None, FALSE)
        PROVE  JobInv'
    BY <2>2, SendKeepsInv DEF Operations, Checks
  <2>3. ASSUME NEW s \in Slots, NEW j \in Jobs, Send(s, "cancel", None, j, FALSE)
        PROVE  JobInv'
    BY <2>3, SendKeepsInv DEF Operations
  <2> QED
    BY <1>1, <2>1, <2>2, <2>3 DEF OperatorSends
<1>2. CASE ClientSends
  <2>1. ASSUME NEW s \in Slots, NEW d \in Devices, Send(s, "poll", d, None, FALSE)
        PROVE  JobInv'
    BY <2>1, SendKeepsInv DEF Operations, Checks
  <2>2. ASSUME NEW s \in Slots, NEW d \in Devices, NEW j \in Jobs,
               Send(s, "start", d, j, FALSE)
        PROVE  JobInv'
    BY <2>2, SendKeepsInv DEF Operations
  <2>3. ASSUME NEW s \in Slots, NEW d \in Devices, NEW j \in Jobs, NEW ok \in BOOLEAN,
               Send(s, "complete", d, j, ok)
        PROVE  JobInv'
    BY <2>3, SendKeepsInv DEF Operations
  <2> QED
    BY <1>2, <2>1, <2>2, <2>3 DEF ClientSends
<1>3. ASSUME NEW s \in Slots, Works(s) PROVE JobInv'
  BY <1>3, CreateBeginKeepsInv, ExpireSelectKeepsInv, AssignSelectKeepsInv,
     LoadJobKeepsInv
  DEF Works
<1>4. ASSUME NEW s \in Slots, OperatorCommit(s) PROVE JobInv'
  BY <1>4, CreateCommitKeepsInv, SweepKeepsInv, CancelCommitKeepsInv
  DEF OperatorCommit, ListCommit
<1>5. ASSUME NEW s \in Slots, AgentCommit(s) PROVE JobInv'
  BY <1>5, SweepKeepsInv, StartCommitKeepsInv, CompleteCommitKeepsInv
  DEF AgentCommit, PollCommit
<1>6. ASSUME NEW s \in Slots, Fails(s) PROVE JobInv'
  BY <1>6, AnswerKeepsInv DEF Fails, Reject, CompleteConflict, Abort
<1>7. ASSUME NEW j \in Jobs, TimePasses(j) PROVE JobInv'
  BY <1>7, TimeKeepsInv
<1>8. CASE UNCHANGED jobVars
  BY <1>8
  DEF jobVars, JobInv, TypeOK, NoRowNoData, CreatesAreFresh, ReadsAreRows,
      RunningWasStarted, ResultNeedsStart, StatusMatchesResult,
      AssignedAtHome, ExpiredOnlyWhenDue
<1> QED
  BY <1>1, <1>2, <1>3, <1>4, <1>5, <1>6, <1>7, <1>8 DEF Next

(***************************************************************************)
(* Every reachable state satisfies the invariant.                          *)
(***************************************************************************)
THEOREM JobInvHolds == Spec => []JobInv
<1> QED
  BY InitMakesInv, JobInvInductive, PTL DEF Spec

(***************************************************************************)
(* The values of the tables and of the requests in flight stay in their    *)
(* types.                                                                  *)
(***************************************************************************)
THEOREM TypesHold == Spec => []TypeOK
<1>1. JobInv => TypeOK
  BY DEF JobInv
<1> QED
  BY <1>1, JobInvHolds, PTL

(***************************************************************************)
(* No result is stored for a job that was never started, whatever the      *)
(* clients call and however their requests overlap.                        *)
(***************************************************************************)
THEOREM ResultsNeedStarts == Spec => []ResultNeedsStart
<1>1. JobInv => ResultNeedsStart
  BY DEF JobInv
<1> QED
  BY <1>1, JobInvHolds, PTL

(***************************************************************************)
(* "succeeded" and "failed" always agree with the stored result.           *)
(***************************************************************************)
THEOREM StatusesMatchResults == Spec => []StatusMatchesResult
<1>1. JobInv => StatusMatchesResult
  BY DEF JobInv
<1> QED
  BY <1>1, JobInvHolds, PTL

(***************************************************************************)
(* No agent but that of the job's device is ever assigned to it.           *)
(***************************************************************************)
THEOREM AssignmentsAreAtHome == Spec => []AssignedAtHome
<1>1. JobInv => AssignedAtHome
  BY DEF JobInv
<1> QED
  BY <1>1, JobInvHolds, PTL

(***************************************************************************)
(* No job is declared expired early.                                       *)
(***************************************************************************)
THEOREM NoEarlyExpiry == Spec => []ExpiredOnlyWhenDue
<1>1. JobInv => ExpiredOnlyWhenDue
  BY DEF JobInv
<1> QED
  BY <1>1, JobInvHolds, PTL

(***************************************************************************)
(* A stored result is never replaced.                                      *)
(***************************************************************************)
THEOREM ResultsAreKept == Spec => ResultIsKept
<1>1. JobInv /\ [Next]_jobVars
        => [\A j \in Jobs : result[j] # "none" => result'[j] = result[j]]_jobVars
  <2> SUFFICES ASSUME JobInv, Next, NEW j \in Jobs, result[j] # "none"
               PROVE  result'[j] = result[j]
    BY DEF jobVars
  <2>1. ASSUME NEW s \in Slots, CompleteCommit(s) PROVE result'[j] = result[j]
    BY <2>1 DEF CompleteCommit
  <2> QED
    BY <2>1
    DEF Next, OperatorSends, ClientSends, SendCreate, Send, Works,
        CreateBegin, ExpireSelect, AssignSelect, LoadJob, OperatorCommit,
        CreateCommit, ListCommit, CancelCommit, AgentCommit, PollCommit,
        SweepAndAssign, StartCommit, Fails, Reject, CompleteConflict, Abort,
        TimePasses, table
<1> QED
  BY <1>1, JobInvHolds, PTL DEF Spec, ResultIsKept

-----------------------------------------------------------------------------
(***************************************************************************)
(* A request reads only rows that are still open, so it never comes to     *)
(* hold a job at rest; and a commit changes what its request has read.     *)
(***************************************************************************)
LEMMA RestStep ==
    ASSUME JobInv, Next, NEW j \in Jobs, AtRest(j)
    PROVE  AtRest(j)' /\ status'[j] = status[j]
<1> USE DEF JobInv, TypeOK
<1>1. status[j] \in Terminal /\ status[j] \notin Open \cup {"none"}
  BY DEF AtRest, Terminal, Open
<1>2. \A s \in Slots : ~HasRead(s, j)
  BY DEF AtRest
<1>3. ASSUME status'[j] = status[j],
             NEW s \in Slots, ~HasRead(s, j)', \A t \in Slots : t # s => req'[t] = req[t]
      PROVE  AtRest(j)' /\ status'[j] = status[j]
  BY <1>1, <1>2, <1>3 DEF AtRest, HasRead
<1>4. ASSUME NEW s \in Slots, Answered(s), status'[j] = status[j]
      PROVE  AtRest(j)' /\ status'[j] = status[j]
  <2>1. ~HasRead(s, j)'
    BY <1>4 DEF Answered, HasRead, NoRequest, Checks
  <2>2. \A t \in Slots : t # s => req'[t] = req[t]
    BY <1>4 DEF Answered
  <2> QED
    BY <1>3, <1>4, <2>1, <2>2
<1>5. ASSUME NEW s \in Slots, NEW op, NEW d, NEW k, NEW ok, Send(s, op, d, k, ok)
      PROVE  AtRest(j)' /\ status'[j] = status[j]
  <2>1. status'[j] = status[j] /\ \A t \in Slots : t # s => req'[t] = req[t]
    BY <1>5 DEF Send, table
  <2>2. ~HasRead(s, j)'
    BY <1>5 DEF Send, HasRead
  <2> QED
    BY <1>3, <2>1, <2>2
<1>6. CASE OperatorSends \/ ClientSends
  BY <1>5, <1>6 DEF OperatorSends, ClientSends, SendCreate
<1>7. ASSUME NEW s \in Slots, Works(s)
      PROVE  AtRest(j)' /\ status'[j] = status[j]
  <2>1. status'[j] = status[j] /\ \A t \in Slots : t # s => req'[t] = req[t]
    BY <1>7 DEF Works, CreateBegin, ExpireSelect, AssignSelect, LoadJob, table
  <2>2. j \notin req[s].sweep \cup req[s].batch
    BY <1>2 DEF HasRead
  <2>3. CASE CreateBegin(s)
    BY <1>3, <2>1, <2>2, <2>3 DEF CreateBegin, At, HasRead, Checks
  <2>4. CASE ExpireSelect(s)
    <3>1. j \notin Overdue(req[s].dev)
      BY <1>1 DEF Overdue
    <3>2. req'[s].op \notin Checks /\ req'[s].batch = req[s].batch
          /\ req'[s].sweep = Overdue(req[s].dev)
      BY <2>4 DEF ExpireSelect, At, Checks, Request
    <3> QED
      BY <1>3, <2>1, <2>2, <3>1, <3>2 DEF HasRead
  <2>5. CASE AssignSelect(s)
    <3>1. j \notin Oldest(Queued(req[s].dev))
      BY <1>1 DEF Oldest, Queued, Open
    <3>2. req'[s].op \notin Checks /\ req'[s].sweep = req[s].sweep
          /\ req'[s].batch = Oldest(Queued(req[s].dev))
      BY <2>5 DEF AssignSelect, At, Checks, Request
    <3> QED
      BY <1>3, <2>1, <2>2, <3>1, <3>2 DEF HasRead
  <2>6. CASE LoadJob(s)
    <3>1. status[req[s].job] \in Open
      BY <2>6 DEF LoadJob, Checks, Allowed, MayStart, MayComplete, MayCancel, Open
    <3>2. req'[s].job # j /\ req'[s].sweep = req[s].sweep /\ req'[s].batch = req[s].batch
      BY <1>1, <2>6, <3>1 DEF LoadJob
    <3> QED
      BY <1>3, <2>1, <2>2, <3>2 DEF HasRead
  <2> QED
    BY <1>7, <2>3, <2>4, <2>5, <2>6 DEF Works
<1>8. ASSUME NEW s \in Slots, OperatorCommit(s) \/ AgentCommit(s) \/ Fails(s)
      PROVE  AtRest(j)' /\ status'[j] = status[j]
  <2>1. Answered(s)
    BY <1>8
    DEF OperatorCommit, AgentCommit, Fails, CreateCommit, ListCommit, CancelCommit,
        PollCommit, SweepAndAssign, StartCommit, CompleteCommit, Reject,
        CompleteConflict, Abort
  <2>2. ~HasRead(s, j)
    BY <1>2
  <2>3. CASE CreateCommit(s)
    <3>1. req[s].job # j
      BY <1>1, <2>3 DEF CreateCommit, CreatesAreFresh, At
    <3> QED
      BY <1>4, <2>1, <2>3, <3>1 DEF CreateCommit
  <2>4. CASE SweepAndAssign(s)
    BY <1>4, <2>1, <2>2, <2>4 DEF SweepAndAssign, HasRead
  <2>5. CASE StartCommit(s) \/ CompleteCommit(s) \/ CancelCommit(s)
    BY <1>4, <2>1, <2>2, <2>5
    DEF StartCommit, CompleteCommit, CancelCommit, HasRead, Checks, At
  <2>6. CASE Fails(s)
    BY <1>4, <2>1, <2>6 DEF Fails, Reject, CompleteConflict, Abort, table
  <2> QED
    BY <1>8, <2>3, <2>4, <2>5, <2>6
    DEF OperatorCommit, AgentCommit, ListCommit, PollCommit
<1>9. CASE \E k \in Jobs : TimePasses(k)
  BY <1>1, <1>2, <1>9 DEF TimePasses, table, AtRest, HasRead
<1> QED
  BY <1>6, <1>7, <1>8, <1>9 DEF Next

(***************************************************************************)
(* A terminal status is final once no request in flight has read the job:  *)
(* sweeps, polls, starts, completions and cancellations of any clients     *)
(* leave it alone, however they overlap.                                   *)
(***************************************************************************)
THEOREM RestHolds == Spec => RestIsFinal
<1>1. JobInv /\ [Next]_jobVars
        => [\A j \in Jobs : AtRest(j) => AtRest(j)' /\ status'[j] = status[j]]_jobVars
  BY RestStep
<1> QED
  BY <1>1, JobInvHolds, PTL DEF Spec, RestIsFinal

-----------------------------------------------------------------------------
(***************************************************************************)
(* One request at a time: what a request has read is still so when it      *)
(* commits.                                                                *)
(***************************************************************************)
OneSlot == \A s, t \in Slots : s = t

ReadsAreCurrent ==
    \A s \in Slots :
        /\ \A j \in req[s].sweep : status[j] \in Open
        /\ \A j \in req[s].batch : status[j] = "queued"
        /\ req[s].phase = "loaded" =>
              /\ req[s].op = "start" => status[req[s].job] \in {"queued", "assigned"}
              /\ req[s].op = "complete" => status[req[s].job] = "running"
              /\ req[s].op = "cancel" => status[req[s].job] \in Open

LEMMA SerialStep ==
    ASSUME OneSlot, JobInv, ReadsAreCurrent, [Next]_jobVars
    PROVE  ReadsAreCurrent'
<1> USE DEF JobInv, TypeOK
<1>1. ASSUME NEW s \in Slots, req'[s] = NoRequest PROVE ReadsAreCurrent'
  <2>1. \A t \in Slots : req'[t] = NoRequest
    BY <1>1 DEF OneSlot
  <2> QED
    BY <2>1 DEF ReadsAreCurrent, NoRequest
<1>2. ASSUME NEW s \in Slots, Answered(s) PROVE ReadsAreCurrent'
  BY <1>1, <1>2 DEF Answered
<1>3. ASSUME NEW s \in Slots, UNCHANGED status, req'[s].phase = "sent",
             req'[s].sweep = {}, req'[s].batch = {}
      PROVE  ReadsAreCurrent'
  BY <1>3 DEF OneSlot, ReadsAreCurrent
<1>4. ASSUME NEW s \in Slots, NEW op, NEW d, NEW j, NEW ok, Send(s, op, d, j, ok)
      PROVE  ReadsAreCurrent'
  BY <1>3, <1>4 DEF Send, table
<1>5. CASE OperatorSends \/ ClientSends
  BY <1>4, <1>5 DEF OperatorSends, ClientSends, SendCreate
<1>6. ASSUME NEW s \in Slots, Works(s) PROVE ReadsAreCurrent'
  <2>1. CASE CreateBegin(s)
    BY <2>1 DEF CreateBegin, At, ReadsAreCurrent
  <2>2. CASE ExpireSelect(s)
    BY <2>2 DEF ExpireSelect, At, Overdue, ReadsAreCurrent, table
  <2>3. CASE AssignSelect(s)
    <3>1. \A j \in Oldest(Queued(req[s].dev)) : status[j] = "queued"
      BY DEF Oldest, Queued
    <3>2. /\ req'[s].op = "poll" /\ req'[s].sweep = req[s].sweep
          /\ req'[s].batch = Oldest(Queued(req[s].dev)) /\ UNCHANGED status
      BY <2>3 DEF AssignSelect, At, Request, table
    <3> QED
      BY <3>1, <3>2 DEF ReadsAreCurrent, OneSlot
  <2>4. CASE LoadJob(s)
    BY <2>4 DEF LoadJob, Checks, Allowed, MayStart, MayComplete, MayCancel,
                ReadsAreCurrent, table
  <2> QED
    BY <1>6, <2>1, <2>2, <2>3, <2>4 DEF Works
<1>7. ASSUME NEW s \in Slots, OperatorCommit(s) \/ AgentCommit(s) \/ Fails(s)
      PROVE  ReadsAreCurrent'
  BY <1>2, <1>7
  DEF OperatorCommit, AgentCommit, Fails, CreateCommit, ListCommit, CancelCommit,
      PollCommit, SweepAndAssign, StartCommit, CompleteCommit, Reject,
      CompleteConflict, Abort
<1>8. CASE (\E j \in Jobs : TimePasses(j)) \/ UNCHANGED jobVars
  <2>1. UNCHANGED <<status, req>>
    BY <1>8 DEF TimePasses, jobVars, table
  <2> QED
    BY <2>1 DEF ReadsAreCurrent
<1> QED
  BY <1>5, <1>6, <1>7, <1>8 DEF Next

(* Each commit is then a step of the promised life, and no other step is.  *)
LEMMA StepsArePromised ==
    ASSUME JobInv, ReadsAreCurrent, [Next]_jobVars
    PROVE  [Promised!Next]_status
<1> USE DEF JobInv, TypeOK
<1>1. ASSUME NEW s \in Slots, CreateCommit(s) PROVE Promised!Next
  <2>1. req[s].job \in Jobs /\ status[req[s].job] = "none"
    BY <1>1 DEF CreateCommit, At, CreatesAreFresh
  <2>2. Promised!Create(req[s].job)
    BY <1>1, <2>1 DEF CreateCommit, Promised!Create, Promised!In, Promised!Move
  <2> QED
    BY <2>1, <2>2 DEF Promised!Next
<1>2. ASSUME NEW s \in Slots, SweepAndAssign(s) PROVE Promised!Next
  <2>1. req[s].sweep \in SUBSET Jobs /\ req[s].batch \in SUBSET Jobs
    BY DEF Request
  <2>2. Promised!Sweep(req[s].sweep, req[s].batch)
    BY <1>2, <2>1 DEF SweepAndAssign, ReadsAreCurrent, Open, Promised!Sweep, Promised!In
  <2> QED
    BY <2>1, <2>2 DEF Promised!Next
<1>3. ASSUME NEW s \in Slots, StartCommit(s) PROVE Promised!Next
  <2>1. req[s].job \in Jobs /\ status[req[s].job] \in {"queued", "assigned"}
    BY <1>3 DEF StartCommit, At, ReadsAreCurrent, ReadsAreRows, Checks
  <2>2. Promised!Start(req[s].job)
    BY <1>3, <2>1 DEF StartCommit, Promised!Start, Promised!In, Promised!Move
  <2> QED
    BY <2>1, <2>2 DEF Promised!Next
<1>4. ASSUME NEW s \in Slots, CompleteCommit(s) PROVE Promised!Next
  <2>1. req[s].job \in Jobs /\ status[req[s].job] = "running"
    BY <1>4 DEF CompleteCommit, At, ReadsAreCurrent, ReadsAreRows, Checks
  <2>2. Promised!Finish(req[s].job)
    BY <1>4, <2>1 DEF CompleteCommit, Promised!Finish, Promised!In, Promised!Move
  <2> QED
    BY <2>1, <2>2 DEF Promised!Next
<1>5. ASSUME NEW s \in Slots, CancelCommit(s) PROVE Promised!Next
  <2>1. req[s].job \in Jobs /\ status[req[s].job] \in Open
    BY <1>5 DEF CancelCommit, At, ReadsAreCurrent, ReadsAreRows, Checks
  <2>2. Promised!Cancel(req[s].job)
    BY <1>5, <2>1 DEF CancelCommit, Open, Promised!Cancel, Promised!In, Promised!Move
  <2> QED
    BY <2>1, <2>2 DEF Promised!Next
<1>6. ASSUME NEW s \in Slots, Works(s) \/ Fails(s) PROVE UNCHANGED status
  BY <1>6 DEF Works, Fails, CreateBegin, ExpireSelect, AssignSelect, LoadJob,
              Reject, CompleteConflict, Abort, table
<1>7. CASE OperatorSends \/ ClientSends
  BY <1>7 DEF OperatorSends, ClientSends, SendCreate, Send, table
<1>8. CASE (\E j \in Jobs : TimePasses(j)) \/ UNCHANGED jobVars
  BY <1>8 DEF TimePasses, jobVars, table
<1> QED
  BY <1>1, <1>2, <1>3, <1>4, <1>5, <1>6, <1>7, <1>8
  DEF Next, OperatorCommit, AgentCommit, ListCommit, PollCommit

(***************************************************************************)
(* Refinement: while requests do not overlap, the job tables give each job *)
(* the life that JobLifecycle promises.  With overlapping requests they do *)
(* not, see TerminalIsFinal.                                               *)
(***************************************************************************)
THEOREM PromiseHolds == OneSlot => (Spec => KeepsPromise)
<1> SUFFICES ASSUME OneSlot PROVE Spec => KeepsPromise
  OBVIOUS
<1>1. Init => ReadsAreCurrent /\ Promised!Init
  BY DEF Init, ReadsAreCurrent, NoRequest, Promised!Init, Promised!NotCreated
<1>2. JobInv /\ ReadsAreCurrent /\ [Next]_jobVars => ReadsAreCurrent'
  BY SerialStep
<1>3. JobInv /\ ReadsAreCurrent /\ [Next]_jobVars => [Promised!Next]_status
  BY StepsArePromised
<1> QED
  BY <1>1, <1>2, <1>3, JobInvHolds, PTL DEF Spec, KeepsPromise, Promised!Spec

(* A request that runs alone has only read jobs that are open.             *)
LEMMA AloneTerminalIsAtRest ==
    ASSUME JobInv, ReadsAreCurrent, NEW j \in Jobs, status[j] \in Terminal
    PROVE  AtRest(j)
<1> SUFFICES ASSUME NEW s \in Slots, HasRead(s, j) PROVE FALSE
  BY DEF AtRest
<1>1. status[j] \notin Open /\ status[j] \notin {"queued", "assigned", "running"}
  BY DEF Terminal, Open
<1> QED
  BY <1>1 DEF HasRead, ReadsAreCurrent, Checks

(***************************************************************************)
(* What docs/Architecture.md says of terminal states is so while requests  *)
(* do not overlap; with two that do, the run job_server_terminal shows a   *)
(* job that leaves one.                                                    *)
(***************************************************************************)
THEOREM TerminalHolds == OneSlot => (Spec => TerminalIsFinal)
<1> SUFFICES ASSUME OneSlot PROVE Spec => TerminalIsFinal
  OBVIOUS
<1>1. Init => ReadsAreCurrent
  BY DEF Init, ReadsAreCurrent, NoRequest
<1>2. JobInv /\ ReadsAreCurrent /\ [Next]_jobVars => ReadsAreCurrent'
  BY SerialStep
<1>3. JobInv /\ ReadsAreCurrent /\ [Next]_jobVars
        => [\A j \in Jobs : status[j] \in Terminal => status'[j] = status[j]]_jobVars
  BY AloneTerminalIsAtRest, RestStep
<1> QED
  BY <1>1, <1>2, <1>3, JobInvHolds, PTL DEF Spec, TerminalIsFinal

-----------------------------------------------------------------------------
(***************************************************************************)
(* Stamps grow: that of a job being created is the largest.  A batch is,   *)
(* until it is handed out, what the poll would select again.               *)
(***************************************************************************)
Stamped == {i \in Jobs : stamp[i] > 0}

StampsGrow ==
    /\ \A j \in Jobs : stamp[j] <= Cardinality(Stamped)
    /\ \A s \in Slots :
          /\ At(s, "create", "sent") => stamp[req[s].job] = 0
          /\ At(s, "create", "loaded") =>
                \A j \in Jobs : stamp[j] <= stamp[req[s].job]

OldestBatch(s) ==
    /\ At(s, "poll", "loaded")
    /\ req[s].batch = Oldest(Queued(req[s].dev))

BatchesAreOldest == \A s \in Slots : req[s].batch = {} \/ OldestBatch(s)

NoRowNoEvents == \A j \in Jobs : status[j] = "none" => events[j] = {}

OrderInv ==
    /\ StampsGrow
    /\ BatchesAreOldest
    /\ NoRowNoEvents
    /\ OldestFirst

(* The new stamp is larger than all others.                                *)
LEMMA BeginKeepsOrder ==
    ASSUME OneSlot, JobInv, OrderInv, NEW s \in Slots, CreateBegin(s)
    PROVE  OrderInv'
<1> DEFINE n == 1 + Cardinality(Stamped)
           k == req[s].job
<1> USE DEF JobInv, TypeOK
<1>1. IsFiniteSet(Stamped) /\ Cardinality(Stamped) \in Nat
  BY JobsAssumption, FS_Subset, FS_CardinalityType DEF Stamped
<1>2. /\ stamp' = [stamp EXCEPT ![k] = n] /\ At(s, "create", "sent")
      /\ req' = [req EXCEPT ![s].phase = "loaded"]
      /\ UNCHANGED <<status, assignee, device, due, result, events>>
  BY DEF CreateBegin, Stamped
<1>3. k \in Jobs /\ status[k] = "none" /\ events[k] = {} /\ stamp[k] = 0
  BY <1>2 DEF CreatesAreFresh, OrderInv, NoRowNoEvents, StampsGrow, At
<1>4. \A j \in Jobs : stamp[j] < n /\ stamp[j] \in Nat
  BY <1>1 DEF OrderInv, StampsGrow
<1>5. \A j \in Jobs : stamp'[j] = IF j = k THEN n ELSE stamp[j]
  BY <1>2
<1>6. n \in Nat /\ n > 0
  BY <1>1
<1> HIDE DEF n, k
<1>7. Cardinality(Stamped') = n
  <2>1. Stamped' = Stamped \cup {k} /\ k \notin Stamped
    BY <1>3, <1>5, <1>6 DEF Stamped
  <2>2. Cardinality(Stamped \cup {k}) = Cardinality(Stamped) + 1
    BY <1>1, <2>1, FS_AddElement
  <2> QED
    BY <1>1, <2>1, <2>2 DEF n
<1>8. /\ req'[s].job = k /\ req'[s].op = "create" /\ req'[s].phase = "loaded"
      /\ req'[s].batch = req[s].batch /\ req[s].batch = {}
  BY <1>2 DEF k, At, OrderInv, BatchesAreOldest, OldestBatch
<1>9. StampsGrow'
  BY <1>3, <1>4, <1>5, <1>6, <1>7, <1>8 DEF StampsGrow, At, OneSlot
<1>10. BatchesAreOldest'
  BY <1>8 DEF BatchesAreOldest, OneSlot
<1>11. NoRowNoEvents'
  BY <1>2 DEF OrderInv, NoRowNoEvents
<1>12. OldestFirst'
  BY <1>2, <1>3, <1>4, <1>5, <1>6 DEF OrderInv, OldestFirst
<1> QED
  BY <1>9, <1>10, <1>11, <1>12 DEF OrderInv

(* A queued job older than one of the oldest is one of them.               *)
LEMMA OlderIsChosen ==
    ASSUME TypeOK, NEW d, NEW i \in Queued(d), NEW j \in Oldest(Queued(d)), stamp[i] < stamp[j]
    PROVE  i \in Oldest(Queued(d))
<1> DEFINE Before(x) == {k \in Queued(d) : stamp[k] < stamp[x]}
<1>1. Before(i) \subseteq Before(j)
  BY DEF TypeOK, Queued, Oldest
<1>2. IsFiniteSet(Before(j))
  BY JobsAssumption, FS_Subset DEF Queued
<1>3. /\ Cardinality(Before(i)) <= Cardinality(Before(j))
      /\ Cardinality(Before(i)) \in Nat /\ Cardinality(Before(j)) \in Nat
  BY <1>1, <1>2, FS_Subset, FS_CardinalityType
<1>4. Cardinality(Before(j)) < BatchLimit
  BY DEF Oldest
<1> QED
  BY <1>3, <1>4, BatchAssumption DEF Oldest

(* What a request that frees the slot leaves behind.                       *)
LEMMA FreedKeepsOrder ==
    ASSUME OneSlot, JobInv, OrderInv, NEW s \in Slots, Answered(s), UNCHANGED stamp
    PROVE  StampsGrow' /\ BatchesAreOldest'
<1>1. \A t \in Slots : req'[t] = NoRequest
  BY DEF Answered, OneSlot, JobInv, TypeOK
<1>2. UNCHANGED Stamped
  BY DEF Stamped
<1> QED
  BY <1>1, <1>2 DEF OrderInv, StampsGrow, BatchesAreOldest, At, NoRequest

(* The batch is handed out.                                                *)
LEMMA SweepKeepsOrder ==
    ASSUME OneSlot, JobInv, OrderInv, NEW s \in Slots, SweepAndAssign(s)
    PROVE  OrderInv'
<1> USE DEF JobInv, TypeOK
<1>1. StampsGrow' /\ BatchesAreOldest'
  BY FreedKeepsOrder DEF SweepAndAssign
<1>2. NoRowNoEvents'
  BY DEF SweepAndAssign, OrderInv, NoRowNoEvents, ReadsAreRows
<1>3. ASSUME NEW i \in Jobs, NEW j \in Jobs, stamp[i] < stamp[j], device[i] = device[j],
             "assigned" \in events'[j], status'[i] = "queued"
      PROVE  FALSE
  <2>1. status[i] = "queued" /\ i \notin req[s].batch
    BY <1>3 DEF SweepAndAssign
  <2>2. "assigned" \notin events[j]
    BY <1>3, <2>1 DEF OrderInv, OldestFirst
  <2>3. j \in req[s].batch
    BY <1>3, <2>2 DEF SweepAndAssign
  <2>4. /\ req[s].batch = Oldest(Queued(req[s].dev))
        /\ device[j] = req[s].dev
    BY <2>3 DEF OrderInv, BatchesAreOldest, OldestBatch, ReadsAreRows
  <2>5. i \in Queued(req[s].dev)
    BY <1>3, <2>1, <2>4 DEF Queued
  <2> QED
    BY <1>3, <2>1, <2>3, <2>4, <2>5, OlderIsChosen
<1>4. OldestFirst'
  BY <1>3 DEF OldestFirst, SweepAndAssign
<1> QED
  BY <1>1, <1>2, <1>4 DEF OrderInv

LEMMA OrderStep ==
    ASSUME OneSlot, JobInv, OrderInv, [Next]_jobVars
    PROVE  OrderInv'
<1> USE DEF JobInv, TypeOK
<1>1. ASSUME UNCHANGED <<status, device, stamp, events>>, StampsGrow', BatchesAreOldest'
      PROVE  OrderInv'
  BY <1>1 DEF OrderInv, NoRowNoEvents, OldestFirst
<1>2. ASSUME NEW s \in Slots, UNCHANGED <<status, device, stamp, events>>,
             req'[s].batch = {} \/ OldestBatch(s)',
             req'[s].op = "create" => req'[s].phase = "sent" /\ stamp[req'[s].job] = 0
      PROVE  OrderInv'
  <2>1. StampsGrow'
    <3>1. UNCHANGED Stamped
      BY <1>2 DEF Stamped
    <3> QED
      BY <1>2, <3>1 DEF OneSlot, OrderInv, StampsGrow, At
  <2>2. BatchesAreOldest'
    BY <1>2 DEF OneSlot, BatchesAreOldest
  <2> QED
    BY <1>1, <1>2, <2>1, <2>2
<1>3. CASE OperatorSends \/ ClientSends
  <2>1. ASSUME NEW s \in Slots, NEW op \in Operations, NEW d, NEW j, NEW ok,
               Send(s, op, d, j, ok), op = "create" => stamp[j] = 0
        PROVE  OrderInv'
    BY <1>2, <2>1 DEF Send, table
  <2> QED
    BY <1>3, <2>1 DEF OperatorSends, ClientSends, SendCreate, Operations
<1>4. ASSUME NEW s \in Slots, ExpireSelect(s) \/ AssignSelect(s) \/ LoadJob(s) PROVE OrderInv'
  <2>1. UNCHANGED table /\ req[s].phase # "loaded" /\ req[s].op # "create"
    BY <1>4 DEF ExpireSelect, AssignSelect, LoadJob, At, Checks
  <2>2. req[s].batch = {}
    BY <2>1 DEF OrderInv, BatchesAreOldest, OldestBatch, At
  <2>3. req'[s].op = req[s].op /\ UNCHANGED <<status, device, stamp, events>>
    BY <1>4 DEF ExpireSelect, AssignSelect, LoadJob, Request, table
  <2>4. req'[s].batch = {} \/ OldestBatch(s)'
    <3>1. CASE AssignSelect(s)
      BY <2>3, <3>1 DEF AssignSelect, OldestBatch, Oldest, Queued, At, Request
    <3>2. CASE ExpireSelect(s) \/ LoadJob(s)
      BY <2>2, <3>2 DEF ExpireSelect, LoadJob, Request
    <3> QED
      BY <1>4, <3>1, <3>2
  <2> QED
    BY <1>2, <2>1, <2>3, <2>4
<1>5. ASSUME NEW s \in Slots, Fails(s) PROVE OrderInv'
  BY <1>1, <1>5, FreedKeepsOrder DEF Fails, Reject, CompleteConflict, Abort, table
<1>6. ASSUME NEW s \in Slots, CreateCommit(s) PROVE OrderInv'
  <2>1. StampsGrow' /\ BatchesAreOldest'
    BY <1>6, FreedKeepsOrder DEF CreateCommit
  <2>2. /\ req[s].job \in Jobs /\ events[req[s].job] = {}
        /\ \A j \in Jobs : ~(stamp[req[s].job] < stamp[j])
    BY <1>6 DEF CreateCommit, CreatesAreFresh, OrderInv, StampsGrow, NoRowNoEvents, At
  <2>3. NoRowNoEvents'
    BY <1>6 DEF CreateCommit, OrderInv, NoRowNoEvents
  <2>4. OldestFirst'
    BY <1>6, <2>2 DEF CreateCommit, OrderInv, OldestFirst
  <2> QED
    BY <2>1, <2>3, <2>4 DEF OrderInv
<1>7. ASSUME NEW s \in Slots, StartCommit(s) \/ CompleteCommit(s) \/ CancelCommit(s)
      PROVE  OrderInv'
  <2>1. StampsGrow' /\ BatchesAreOldest'
    BY <1>7, FreedKeepsOrder DEF StartCommit, CompleteCommit, CancelCommit
  <2>2. NoRowNoEvents'
    BY <1>7 DEF StartCommit, CompleteCommit, CancelCommit, OrderInv, NoRowNoEvents
  <2>3. OldestFirst'
    BY <1>7 DEF StartCommit, CompleteCommit, CancelCommit, OrderInv, OldestFirst
  <2> QED
    BY <2>1, <2>2, <2>3 DEF OrderInv
<1>8. CASE (\E j \in Jobs : TimePasses(j)) \/ UNCHANGED jobVars
  <2>1. UNCHANGED <<status, device, stamp, events, req>>
    BY <1>8 DEF TimePasses, jobVars, table
  <2>2. StampsGrow' /\ BatchesAreOldest'
    BY <2>1 DEF OrderInv, StampsGrow, Stamped, BatchesAreOldest, OldestBatch, Oldest, Queued, At
  <2> QED
    BY <1>1, <2>1, <2>2
<1> QED
  BY <1>3, <1>4, <1>5, <1>6, <1>7, <1>8, BeginKeepsOrder, SweepKeepsOrder
  DEF Next, Works, OperatorCommit, AgentCommit, ListCommit, PollCommit

(***************************************************************************)
(* While requests do not overlap, jobs of a device are handed out in the   *)
(* order of their creation, for any size of a batch.                       *)
(***************************************************************************)
THEOREM OrderHolds == OneSlot => (Spec => []OldestFirst)
<1> SUFFICES ASSUME OneSlot PROVE Spec => []OldestFirst
  OBVIOUS
<1>1. Init => OrderInv
  <2> SUFFICES ASSUME Init PROVE OrderInv
    OBVIOUS
  <2>1. IsFiniteSet(Stamped) /\ Cardinality(Stamped) \in Nat
    BY JobsAssumption, FS_Subset, FS_CardinalityType DEF Stamped
  <2> QED
    BY <2>1 DEF Init, OrderInv, StampsGrow, BatchesAreOldest, NoRowNoEvents, OldestFirst,
                At, NoRequest
<1>2. JobInv /\ OrderInv /\ [Next]_jobVars => OrderInv'
  BY OrderStep
<1>3. OrderInv => OldestFirst
  BY DEF OrderInv
<1> QED
  BY <1>1, <1>2, <1>3, JobInvHolds, PTL DEF Spec
=============================================================================
