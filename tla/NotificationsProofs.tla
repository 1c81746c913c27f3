------------------------- MODULE NotificationsProofs -------------------------
(***************************************************************************)
(* Proofs about Notifications: what a delivery's row says has happened has *)
(* happened, for any number of workers, crashes, routes and alerts.        *)
(***************************************************************************)
EXTENDS Notifications, TLAPS

(***************************************************************************)
(* n messages tried and one arrived (or not) justify what a row r says.    *)
(***************************************************************************)
Justified(r, n, got) ==
    /\ r.attempts <= n
    /\ r.status = "sent" => got
    /\ r.status = "failed" => n >= RetryLimit

RowsJustified == \A d \in Deliveries : Justified(row[d], tries[d], arrived[d])

CopiesJustified ==
    \A w \in Workers, d \in Deliveries : Justified(pass[w].copy[d], tries[d], arrived[d])

DraftsJustified ==
    \A a \in AlertNos, d \in Deliveries : Justified(draft[a][d], tries[d], arrived[d])

NotificationInv == TypeOK /\ RowsJustified /\ CopiesJustified /\ DraftsJustified

-----------------------------------------------------------------------------
(* The empty row has the type of a row, the empty pass that of a pass.     *)
LEMMA EmptyTypes == NoRow \in Row /\ NoRows \in [Deliveries -> Row] /\ NoPass \in Pass
<1>1. NoRow \in Row
  BY DEF NoRow, Row
<1>2. NoRows \in [Deliveries -> Row]
  BY <1>1 DEF NoRows
<1> QED
  BY <1>1, <1>2 DEF NoPass, Pass

(* A row without attempts that is not sent or failed claims nothing.       *)
LEMMA FreshJustified ==
  ASSUME NEW n \in Nat, NEW got \in BOOLEAN, NEW st \in {"none", "pending", "skipped"}
  PROVE  Justified([status |-> st, attempts |-> 0], n, got)
BY DEF Justified

(***************************************************************************)
(* A claim stays justified, however old the row that makes it.             *)
(***************************************************************************)
LEMMA StaysJustified ==
  ASSUME NEW r \in Row, NEW m \in Nat, NEW n \in Nat, m <= n,
         NEW got \in BOOLEAN, NEW now \in BOOLEAN, got => now, Justified(r, m, got)
  PROVE  Justified(r, n, now)
BY LimitsAssumption DEF Justified, Row

(* The fields of a pass.                                                   *)
LEMMA PassFields ==
  ASSUME NEW p \in Pass
  PROVE  /\ p.todo \in SUBSET Deliveries
         /\ p.tried \in SUBSET Deliveries
         /\ p.copy \in [Deliveries -> Row]
         /\ \A d \in Deliveries : p.copy[d] \in Row
BY DEF Pass

(* A pass that is done with a delivery has the type of a pass.             *)
LEMMA PassedType ==
  ASSUME NEW p \in Pass, NEW d \in Deliveries, NEW r \in Row,
         NEW U \in SUBSET Deliveries
  PROVE  Passed(p, d, r, U) \in Pass
<1>1. p.todo \ {d} \in SUBSET Deliveries
  BY PassFields
<1>2. [p.copy EXCEPT ![d] = r] \in [Deliveries -> Row]
  BY PassFields
<1> QED
  BY <1>1, <1>2 DEF Passed, Pass

(* Such a pass differs from the one before in that delivery alone.         *)
LEMMA PassedFields ==
  ASSUME NEW p \in Pass, NEW d \in Deliveries, NEW r \in Row,
         NEW U \in SUBSET Deliveries
  PROVE  /\ Passed(p, d, r, U).todo = p.todo \ {d}
         /\ Passed(p, d, r, U).tried = U
         /\ Passed(p, d, r, U).copy[d] = r
         /\ \A e \in Deliveries \ {d} : Passed(p, d, r, U).copy[e] = p.copy[e]
BY PassFields DEF Passed

(* A row in a new status.                                                  *)
LEMMA RowProgress ==
  ASSUME NEW r \in Row, NEW st \in {"none", "pending", "sent", "failed", "skipped"}
  PROVE  /\ [r EXCEPT !.status = st] \in Row
         /\ [r EXCEPT !.status = st].status = st
         /\ [r EXCEPT !.status = st].attempts = r.attempts
         /\ [status |-> st, attempts |-> r.attempts + 1] \in Row
BY DEF Row

(* What skipping a delivery does to the passes.                            *)
LEMMA SkipFrame ==
  ASSUME TypeOK, NEW w \in Workers, NEW d \in Deliveries, SkipDisabled(w, d)
  PROVE  /\ pass'[w].todo = pass[w].todo \ {d} /\ pass'[w].tried = pass[w].tried
         /\ pass'[w].copy[d].status = "skipped"
         /\ pass'[w].copy[d].attempts = pass[w].copy[d].attempts
         /\ \A e \in Deliveries \ {d} : pass'[w].copy[e] = pass[w].copy[e]
         /\ \A v \in Workers : v # w => pass'[v] = pass[v]
<1>1. /\ pass \in [Workers -> Pass] /\ pass[w] \in Pass
      /\ pass[w].copy[d] \in Row /\ pass[w].tried \in SUBSET Deliveries
  BY PassFields DEF TypeOK
<1>2. PICK r \in Row :
        /\ r = [pass[w].copy[d] EXCEPT !.status = "skipped"]
        /\ r.status = "skipped" /\ r.attempts = pass[w].copy[d].attempts
  <2>1. PICK c \in Row : c = pass[w].copy[d]
    BY <1>1
  <2>2. PICK r : r = [c EXCEPT !.status = "skipped"]
    OBVIOUS
  <2>3. r \in Row /\ r.status = "skipped" /\ r.attempts = c.attempts
    BY <2>2, RowProgress
  <2> QED
    BY <2>1, <2>2, <2>3
<1>3. pass' = [pass EXCEPT ![w] = Passed(pass[w], d, r, pass[w].tried)]
  BY <1>2, Zenon DEF SkipDisabled
<1>4. /\ pass'[w] = Passed(pass[w], d, r, pass[w].tried)
      /\ \A v \in Workers : v # w => pass'[v] = pass[v]
  BY <1>1, <1>3
<1>5. PICK q : q = Passed(pass[w], d, r, pass[w].tried)
  OBVIOUS
<1>6. /\ q.todo = pass[w].todo \ {d} /\ q.tried = pass[w].tried
      /\ q.copy[d] = r
      /\ \A e \in Deliveries \ {d} : q.copy[e] = pass[w].copy[e]
  BY <1>1, <1>5, PassedFields
<1> QED
  BY <1>2, <1>4, <1>5, <1>6

(* What an attempt does to the passes.                                     *)
LEMMA TriedFrame ==
  ASSUME TypeOK, NEW w \in Workers, NEW d \in Deliveries,
         NEW st \in {"sent", "failed", "pending"}
  PROVE  /\ Tried(w, d, st)[w].todo = pass[w].todo \ {d}
         /\ Tried(w, d, st)[w].tried = pass[w].tried \cup {d}
         /\ Tried(w, d, st)[w].copy[d].status = st
         /\ Tried(w, d, st)[w].copy[d].attempts = pass[w].copy[d].attempts + 1
         /\ \A e \in Deliveries \ {d} : Tried(w, d, st)[w].copy[e] = pass[w].copy[e]
         /\ \A v \in Workers : v # w => Tried(w, d, st)[v] = pass[v]
<1>1. /\ pass \in [Workers -> Pass] /\ pass[w] \in Pass
      /\ pass[w].copy[d] \in Row /\ pass[w].tried \cup {d} \in SUBSET Deliveries
  BY PassFields DEF TypeOK
<1>2. PICK r \in Row : r = [status |-> st, attempts |-> pass[w].copy[d].attempts + 1]
  BY <1>1, RowProgress
<1>3. Tried(w, d, st) = [pass EXCEPT ![w] = Passed(pass[w], d, r, pass[w].tried \cup {d})]
  BY <1>2 DEF Tried
<1>4. /\ Tried(w, d, st)[w] = Passed(pass[w], d, r, pass[w].tried \cup {d})
      /\ \A v \in Workers : v # w => Tried(w, d, st)[v] = pass[v]
  BY <1>1, <1>3
<1>5. r.status = st /\ r.attempts = pass[w].copy[d].attempts + 1
  BY <1>2
<1>6. PICK q : q = Passed(pass[w], d, r, pass[w].tried \cup {d})
  OBVIOUS
<1>7. /\ q.todo = pass[w].todo \ {d} /\ q.tried = pass[w].tried \cup {d}
      /\ q.copy[d] = r
      /\ \A e \in Deliveries \ {d} : q.copy[e] = pass[w].copy[e]
  BY <1>1, <1>6, PassedFields
<1> QED
  BY <1>4, <1>5, <1>6, <1>7

(* Every step keeps the type invariant.                                    *)
LEMMA TypeStep == TypeOK /\ [Next]_vars => TypeOK'
<1> SUFFICES ASSUME TypeOK, [Next]_vars PROVE TypeOK'
  OBVIOUS
<1> USE DEF TypeOK, config, ledger, faults
<1>1. CASE \/ \E R \in SUBSET Routes : PatchRules(R)
           \/ \E c \in Channels : PatchChannel(c)
  BY <1>1 DEF PatchRules, PatchChannel
<1>2. ASSUME NEW a \in AlertNos, Enqueue(a) PROVE TypeOK'
  <2>1. \A d \in Deliveries :
          /\ [status |-> IF enabled[d[2][2]] THEN "pending" ELSE "skipped",
              attempts |-> 0] \in Row
          /\ NoRow \in Row
    BY EmptyTypes DEF Row
  <2> QED
    BY <1>2, <2>1 DEF Enqueue
<1>3. ASSUME NEW a \in AlertNos, CheckinCommits(a) \/ CheckinFails(a) PROVE TypeOK'
  BY <1>3, EmptyTypes DEF CheckinCommits, CheckinFails
<1>4. ASSUME NEW w \in Workers, SelectPending(w) PROVE TypeOK'
  <2>1. PICK B \in SUBSET Pending :
          pass' = [pass EXCEPT ![w] =
              [todo |-> B, tried |-> {},
               copy |-> [d \in Deliveries |-> IF d \in B THEN row[d] ELSE NoRow]]]
    BY <1>4 DEF SelectPending
  <2>2. [d \in Deliveries |-> IF d \in B THEN row[d] ELSE NoRow] \in [Deliveries -> Row]
    BY EmptyTypes
  <2>3. B \in SUBSET Deliveries
    BY DEF Pending
  <2>4. pass' \in [Workers -> Pass]
    BY <2>1, <2>2, <2>3 DEF Pass
  <2> QED
    BY <1>4, <2>4 DEF SelectPending, Pending
<1>5. ASSUME NEW w \in Workers, NEW d \in Deliveries, SkipDisabled(w, d) PROVE TypeOK'
  <2>1. pass[w] \in Pass /\ pass[w].tried \in SUBSET Deliveries
    BY PassFields
  <2>2. [pass[w].copy[d] EXCEPT !.status = "skipped"] \in Row
    <3>1. pass[w].copy[d] \in Row
      BY PassFields
    <3> QED
      BY <3>1, RowProgress
  <2>3. pass' = [pass EXCEPT ![w] =
          Passed(pass[w], d, [pass[w].copy[d] EXCEPT !.status = "skipped"],
                 pass[w].tried)]
    BY <1>5 DEF SkipDisabled
  <2>4. pass' \in [Workers -> Pass]
    BY <2>1, <2>2, <2>3, PassedType
  <2> QED
    BY <1>5, <2>4 DEF SkipDisabled
<1>6. ASSUME NEW w \in Workers, NEW d \in Deliveries, NEW st \in {"sent", "failed", "pending"}
      PROVE  Tried(w, d, st) \in [Workers -> Pass]
  <2>1. pass[w] \in Pass /\ pass[w].tried \cup {d} \in SUBSET Deliveries
    BY PassFields
  <2>2. [status |-> st, attempts |-> pass[w].copy[d].attempts + 1] \in Row
    <3>1. pass[w].copy[d] \in Row
      BY PassFields
    <3> QED
      BY <3>1, RowProgress
  <2> QED
    BY <2>1, <2>2, PassedType DEF Tried
<1>7. ASSUME NEW w \in Workers, NEW d \in Deliveries, Send(w, d) \/ SendFails(w, d)
      PROVE  TypeOK'
  <2>1. pass' \in [Workers -> Pass]
    BY <1>6, <1>7 DEF Send, SendFails
  <2>2. tries' \in [Deliveries -> Nat] /\ arrived' \in [Deliveries -> BOOLEAN]
    <3>1. tries' \in [Deliveries -> Nat]
      BY <1>7 DEF Send, SendFails
    <3>2. arrived' \in [Deliveries -> BOOLEAN]
      BY <1>7, Zenon DEF Send, SendFails
    <3> QED
      BY <3>1, <3>2
  <2> QED
    BY <1>7, <2>1, <2>2 DEF Send, SendFails
<1>8. ASSUME NEW w \in Workers, PassCommits(w) PROVE TypeOK'
  <2>1. row' \in [Deliveries -> Row]
    BY <1>8 DEF PassCommits, Pass, Row
  <2> QED
    BY <1>8, <2>1, EmptyTypes DEF PassCommits
<1>9. ASSUME NEW w \in Workers, Crash(w) PROVE TypeOK'
  BY <1>9, EmptyTypes, NumbersAssumption DEF Crash
<1>10. CASE UNCHANGED vars
  BY <1>10 DEF vars
<1> QED
  BY <1>1, <1>2, <1>3, <1>4, <1>5, <1>7, <1>8, <1>9, <1>10 DEF Next, Works
(***************************************************************************)
(* Tries only grow, and what arrived has arrived.                          *)
(***************************************************************************)
LEMMA LedgerGrows ==
  ASSUME TypeOK, [Next]_vars, NEW d \in Deliveries
  PROVE  /\ tries[d] \in Nat /\ tries'[d] \in Nat /\ tries[d] <= tries'[d]
         /\ arrived[d] \in BOOLEAN /\ arrived'[d] \in BOOLEAN
         /\ arrived[d] => arrived'[d]
<1>1. TypeOK'
  BY TypeStep
<1>2. \/ UNCHANGED ledger
      \/ \E w \in Workers, e \in Deliveries : Send(w, e) \/ SendFails(w, e)
  BY Zenon DEF Next, Works, vars, ledger, PatchRules, PatchChannel, Enqueue, CheckinCommits,
     CheckinFails, SelectPending, SkipDisabled, PassCommits, Crash
<1>3. tries[d] <= tries'[d]
  BY <1>2 DEF TypeOK, ledger, Send, SendFails
<1>4. arrived[d] => arrived'[d]
  <2>1. CASE UNCHANGED ledger
    BY <2>1 DEF ledger
  <2>2. ASSUME NEW w \in Workers, NEW e \in Deliveries, Send(w, e) PROVE arrived[d] => arrived'[d]
    BY <2>2 DEF TypeOK, Send
  <2>3. ASSUME NEW w \in Workers, NEW e \in Deliveries, SendFails(w, e)
        PROVE  arrived[d] => arrived'[d]
    BY <2>3 DEF TypeOK, SendFails
  <2> QED
    BY <1>2, <2>1, <2>2, <2>3
<1> QED
  BY <1>1, <1>3, <1>4 DEF TypeOK

(* Every step keeps the inductive invariant.                               *)
LEMMA SafetyStep == NotificationInv /\ [Next]_vars => NotificationInv'
<1> SUFFICES ASSUME NotificationInv, [Next]_vars PROVE NotificationInv'
  OBVIOUS
<1> USE DEF NotificationInv
<1>1. TypeOK'
  BY TypeStep
(* What a row, a copy or a draft said before the step is still justified.  *)
<1>2. ASSUME NEW d \in Deliveries
      PROVE  /\ Justified(row[d], tries'[d], arrived'[d])
             /\ \A w \in Workers : Justified(pass[w].copy[d], tries'[d], arrived'[d])
             /\ \A a \in AlertNos : Justified(draft[a][d], tries'[d], arrived'[d])
  <2>1. /\ row[d] \in Row
        /\ \A w \in Workers : pass[w].copy[d] \in Row
        /\ \A a \in AlertNos : draft[a][d] \in Row
    BY DEF TypeOK, Pass
  <2>2. /\ Justified(row[d], tries[d], arrived[d])
        /\ \A w \in Workers : Justified(pass[w].copy[d], tries[d], arrived[d])
        /\ \A a \in AlertNos : Justified(draft[a][d], tries[d], arrived[d])
    BY DEF RowsJustified, CopiesJustified, DraftsJustified
  <2> QED
    BY <2>1, <2>2, LedgerGrows, StaysJustified
<1>3. ASSUME NEW d \in Deliveries
      PROVE  /\ Justified(NoRow, tries'[d], arrived'[d])
             /\ \A st \in {"pending", "skipped"} :
                   Justified([status |-> st, attempts |-> 0], tries'[d], arrived'[d])
  BY LedgerGrows, FreshJustified DEF NoRow
<1>4. ASSUME NEW x \in Deliveries,
             \/ row'[x] = row[x]
             \/ \E w \in Workers : PassCommits(w)
             \/ \E a \in AlertNos : row'[x] = draft[a][x]
      PROVE  Justified(row'[x], tries'[x], arrived'[x])
  <2>1. CASE row'[x] = row[x] \/ \E a \in AlertNos : row'[x] = draft[a][x]
    BY <1>2, <2>1
  <2>2. ASSUME NEW w \in Workers, PassCommits(w)
        PROVE  Justified(row'[x], tries'[x], arrived'[x])
    <3>1. /\ row'[x].status \in {row[x].status, pass[w].copy[x].status}
          /\ row'[x].attempts \in {row[x].attempts, pass[w].copy[x].attempts}
      BY <2>2 DEF PassCommits
    <3> QED
      BY <1>2, <3>1 DEF Justified
  <2> QED
    BY <1>4, <2>1, <2>2
<1>5. RowsJustified'
  <2>1. \A x \in Deliveries : \/ row'[x] = row[x]
                              \/ \E w \in Workers : PassCommits(w)
                              \/ \E a \in AlertNos : row'[x] = draft[a][x]
    BY DEF Next, Works, vars, PatchRules, PatchChannel, Enqueue, CheckinCommits,
           CheckinFails, SelectPending, SkipDisabled, Send, SendFails, Crash
  <2>2. ASSUME NEW x \in Deliveries PROVE Justified(row'[x], tries'[x], arrived'[x])
    BY <1>4, <2>1
  <2> QED
    BY <2>2 DEF RowsJustified
<1>6. DraftsJustified'
  <2>1. ASSUME NEW a \in AlertNos, Enqueue(a), NEW b \in AlertNos, NEW d \in Deliveries
        PROVE  draft'[b][d] \in {draft[b][d], NoRow, [status |-> "pending", attempts |-> 0],
                                 [status |-> "skipped", attempts |-> 0]}
    BY <2>1 DEF Enqueue, TypeOK
  <2>2. ASSUME NEW a \in AlertNos, CheckinCommits(a) \/ CheckinFails(a),
               NEW b \in AlertNos, NEW d \in Deliveries
        PROVE  draft'[b][d] \in {draft[b][d], NoRow}
    BY <2>2 DEF CheckinCommits, CheckinFails, NoRows, TypeOK
  <2>3. \/ draft' = draft
        \/ \E a \in AlertNos : Enqueue(a) \/ CheckinCommits(a) \/ CheckinFails(a)
    BY DEF Next, Works, vars, PatchRules, PatchChannel, SelectPending, SkipDisabled,
           Send, SendFails, PassCommits, Crash
  <2> QED
    BY <1>2, <1>3, <2>1, <2>2, <2>3 DEF DraftsJustified
<1>7. CopiesJustified'
  <2> DEFINE Good(v, d) == Justified(pass'[v].copy[d], tries'[d], arrived'[d])
  <2>1. ASSUME NEW w \in Workers, SelectPending(w), NEW v \in Workers, NEW d \in Deliveries
        PROVE  pass'[v].copy[d] \in {pass[v].copy[d], row[d], NoRow}
    BY <2>1 DEF SelectPending, TypeOK
  <2>2. ASSUME NEW w \in Workers, PassCommits(w) \/ Crash(w),
               NEW v \in Workers, NEW d \in Deliveries
        PROVE  pass'[v].copy[d] \in {pass[v].copy[d], NoRow}
    BY <2>2 DEF PassCommits, Crash, NoPass, NoRows, TypeOK
  <2>3. ASSUME NEW w \in Workers, NEW e \in Deliveries, SkipDisabled(w, e),
               NEW v \in Workers, NEW d \in Deliveries
        PROVE  Good(v, d)
    <3>1. \/ pass'[v].copy[d] = pass[v].copy[d]
          \/ /\ pass'[v].copy[d].status = "skipped"
             /\ pass'[v].copy[d].attempts = pass[v].copy[d].attempts
      BY <2>3, SkipFrame
    <3> QED
      BY <1>2, <3>1 DEF Justified
  <2>4. ASSUME NEW w \in Workers, NEW e \in Deliveries, Send(w, e) \/ SendFails(w, e),
               NEW v \in Workers, NEW d \in Deliveries
        PROVE  Good(v, d)
    <3> DEFINE n == pass[w].copy[e].attempts
    <3>1. PICK st \in {"sent", "failed", "pending"} :
            /\ pass' = Tried(w, e, st)
            /\ st = "sent" => arrived'[e]
            /\ st = "failed" => n + 1 >= RetryLimit
      BY <2>4 DEF Send, SendFails, TypeOK
    <3>2. CASE ~(v = w /\ d = e)
      <4>1. pass'[v].copy[d] = pass[v].copy[d]
        <5>1. CASE v # w
          BY <3>1, <5>1, TriedFrame
        <5>2. CASE v = w /\ d \in Deliveries \ {e}
          BY <3>1, <5>2, TriedFrame
        <5> QED
          BY <3>2, <5>1, <5>2
      <4> QED
        BY <1>2, <4>1
    <3>3. CASE v = w /\ d = e
      <4>1. /\ n \in Nat /\ n <= tries[d] /\ tries[d] \in Nat
            /\ tries'[d] = tries[d] + 1
        <5>1. pass[w].copy[e] \in Row
          BY PassFields DEF TypeOK
        <5> QED
          BY <2>4, <3>3, <5>1 DEF Send, SendFails, TypeOK, Row, CopiesJustified, Justified
      <4>2. pass'[v].copy[d].status = st /\ pass'[v].copy[d].attempts = n + 1
        <5>1. pass'[w].copy[e].status = st /\ pass'[w].copy[e].attempts = n + 1
          BY <3>1, TriedFrame
        <5> QED
          BY <3>3, <5>1
      <4> HIDE DEF n
      <4> QED
        BY <3>1, <3>3, <4>1, <4>2, LimitsAssumption DEF Justified
    <3> QED
      BY <3>2, <3>3
  <2>5. \/ pass' = pass
        \/ \E w \in Workers : SelectPending(w) \/ PassCommits(w) \/ Crash(w)
        \/ \E w \in Workers, e \in Deliveries :
              SkipDisabled(w, e) \/ Send(w, e) \/ SendFails(w, e)
    BY DEF Next, Works, vars, PatchRules, PatchChannel, Enqueue, CheckinCommits, CheckinFails
  <2>6. ASSUME NEW v \in Workers, NEW d \in Deliveries PROVE Good(v, d)
    <3>1. CASE pass' = pass
      BY <1>2, <3>1
    <3>2. CASE \E w \in Workers : SelectPending(w) \/ PassCommits(w) \/ Crash(w)
      BY <1>2, <1>3, <2>1, <2>2, <3>2
    <3> QED
      BY <2>3, <2>4, <2>5, <3>1, <3>2
  <2> QED
    BY <2>6 DEF CopiesJustified
<1> QED
  BY <1>1, <1>5, <1>6, <1>7

-----------------------------------------------------------------------------
(* The inductive invariant holds throughout.                               *)
THEOREM NotificationInvHolds == Spec => []NotificationInv
<1>1. Init => NotificationInv
  <2> SUFFICES ASSUME Init PROVE NotificationInv
    OBVIOUS
  <2>1. TypeOK
    BY EmptyTypes, NumbersAssumption DEF Init, TypeOK
  <2>2. \A d \in Deliveries : Justified(NoRow, tries[d], arrived[d])
    BY FreshJustified DEF Init, NoRow
  <2> QED
    BY <2>1, <2>2 DEF Init, NotificationInv, RowsJustified, CopiesJustified,
                      DraftsJustified, NoRows, NoPass
<1>2. NotificationInv /\ [Next]_vars => NotificationInv'
  BY SafetyStep
<1> QED
  BY <1>1, <1>2, PTL DEF Spec

(* Rows, drafts and passes keep their types.                               *)
THEOREM NotificationTypesHold == Spec => []TypeOK
<1>1. NotificationInv => TypeOK
  BY DEF NotificationInv
<1> QED
  BY NotificationInvHolds, <1>1, PTL

(***************************************************************************)
(* A delivery recorded as sent has reached its channel, for any number of  *)
(* overlapping passes and crashes.                                         *)
(***************************************************************************)
THEOREM SentMessagesArrived == Spec => []SentMeansArrived
<1>1. NotificationInv => SentMeansArrived
  BY DEF NotificationInv, RowsJustified, Justified, SentMeansArrived
<1> QED
  BY NotificationInvHolds, <1>1, PTL

(***************************************************************************)
(* No delivery is given up before RetryLimit messages were really tried.   *)
(***************************************************************************)
THEOREM NoEarlyFailure == Spec => []FailedMeansTried
<1>1. NotificationInv => FailedMeansTried
  BY DEF NotificationInv, RowsJustified, Justified, FailedMeansTried
<1> QED
  BY NotificationInvHolds, <1>1, PTL
-----------------------------------------------------------------------------
(***************************************************************************)
(* What holds of a delivery on which no passes have overlapped: nobody     *)
(* else touches its row while a pass has it loaded, and a check-in adds it *)
(* once.                                                                   *)
(***************************************************************************)
DraftsUnborn == \A a \in AlertNos : draft[a] # NoRows => Unborn(a)

TakenIsLoaded ==
    \A w \in Workers, d \in Deliveries :
        d \in pass[w].todo \/ d \in pass[w].tried => Loaded(w, d)

LoadedIsBorn ==
    \A w \in Workers, d \in Deliveries : Loaded(w, d) => row[d].status # "none"

PassOwnsRows ==
    \A w \in Workers, d \in Deliveries \ shared : Loaded(w, d) =>
        /\ row[d].status = "pending"
        /\ \A v \in Workers : Loaded(v, d) => v = w

OwnerInv == TypeOK /\ DraftsUnborn /\ TakenIsLoaded /\ LoadedIsBorn /\ PassOwnsRows

(* A commit leaves alone what its pass has not loaded.                     *)
LEMMA NothingLoaded ==
  ASSUME OwnerInv, NEW w \in Workers, PassCommits(w), NEW d \in Deliveries, ~Loaded(w, d)
  PROVE  row'[d] = row[d]
<1>1. d \notin pass[w].tried
  BY DEF OwnerInv, TakenIsLoaded
<1>2. row'[d] = [status |-> row[d].status, attempts |-> row[d].attempts]
  BY <1>1 DEF PassCommits, Loaded
<1>3. row[d] \in Row
  BY DEF OwnerInv, TypeOK
<1> QED
  BY <1>2, <1>3 DEF Row

(* Every step keeps the rows of a pass its own.                            *)
LEMMA OwnerStep == OwnerInv /\ [Next]_vars => OwnerInv'
<1> SUFFICES ASSUME OwnerInv, [Next]_vars PROVE OwnerInv'
  OBVIOUS
<1> USE DEF OwnerInv
<1> DEFINE Owned == TakenIsLoaded /\ LoadedIsBorn /\ PassOwnsRows
<1>1. TypeOK'
  BY TypeStep
<1>2. ASSUME NEW a \in AlertNos, CheckinCommits(a) PROVE DraftsUnborn' /\ Owned'
  <2>1. \A d \in Deliveries : /\ d[1] = a => row[d] = NoRow
                              /\ d[1] # a => row'[d] = row[d]
    BY <1>2 DEF CheckinCommits, DraftsUnborn, Unborn, Deliveries
  <2>2. \A b \in AlertNos : b # a => draft'[b] = draft[b]
    BY <1>2 DEF CheckinCommits, TypeOK
  <2>3. draft'[a] = NoRows /\ pass' = pass /\ shared' = shared
    BY <1>2 DEF CheckinCommits, TypeOK, faults
  <2>4. DraftsUnborn'
    BY <2>1, <2>2, <2>3 DEF DraftsUnborn, Unborn, Deliveries
  <2>5. \A w \in Workers, d \in Deliveries : Loaded(w, d) => row'[d] = row[d]
    BY <2>1 DEF LoadedIsBorn, NoRow
  <2>6. Owned'
    BY <2>3, <2>5 DEF TakenIsLoaded, LoadedIsBorn, PassOwnsRows, Loaded
  <2> QED
    BY <2>4, <2>6
<1>3. ASSUME NEW a \in AlertNos, Enqueue(a) \/ CheckinFails(a)
      PROVE  DraftsUnborn' /\ Owned'
  <2>1. DraftsUnborn'
    BY <1>3 DEF Enqueue, CheckinFails, DraftsUnborn, Unborn, TypeOK
  <2>2. UNCHANGED <<row, pass, shared>>
    BY <1>3 DEF Enqueue, CheckinFails, faults
  <2>3. Owned'
    BY <2>2 DEF TakenIsLoaded, LoadedIsBorn, PassOwnsRows, Loaded
  <2> QED
    BY <2>1, <2>3
<1>4. ASSUME NEW w \in Workers, SelectPending(w) PROVE DraftsUnborn' /\ Owned'
  <2>1. DraftsUnborn' /\ row' = row
    BY <1>4 DEF SelectPending, DraftsUnborn, Unborn
  <2>2. PICK B \in SUBSET Pending :
          /\ pass' = [pass EXCEPT ![w] =
                [todo |-> B, tried |-> {},
                 copy |-> [d \in Deliveries |-> IF d \in B THEN row[d] ELSE NoRow]]]
          /\ shared' = shared \cup {d \in B : \E v \in Workers : Loaded(v, d)}
    BY <1>4 DEF SelectPending
  <2>3. \A d \in B : d \in Deliveries /\ row[d].status = "pending"
    BY DEF Pending
  <2>4. /\ \A d \in Deliveries : Loaded(w, d)' <=> d \in B
        /\ \A v \in Workers, d \in Deliveries : v # w => (Loaded(v, d)' <=> Loaded(v, d))
        /\ pass'[w].todo = B /\ pass'[w].tried = {}
        /\ \A v \in Workers : v # w => pass'[v] = pass[v]
    BY <2>2, <2>3 DEF Loaded, NoRow, TypeOK
  <2>5. TakenIsLoaded' /\ LoadedIsBorn'
    BY <2>1, <2>3, <2>4 DEF TakenIsLoaded, LoadedIsBorn
  <2>6. ASSUME NEW u \in Workers, NEW d \in Deliveries, d \notin shared', Loaded(u, d)'
        PROVE  row'[d].status = "pending" /\ \A v \in Workers : Loaded(v, d)' => v = u
    <3>1. d \notin shared /\ (d \in B => \A v \in Workers : ~Loaded(v, d))
      BY <2>2, <2>6
    <3> QED
      BY <2>1, <2>3, <2>4, <2>6, <3>1 DEF PassOwnsRows
  <2> QED
    BY <2>1, <2>5, <2>6 DEF PassOwnsRows
<1>5. ASSUME NEW w \in Workers, NEW d \in Deliveries,
             SkipDisabled(w, d) \/ Send(w, d) \/ SendFails(w, d)
      PROVE  DraftsUnborn' /\ Owned'
  <2>1. DraftsUnborn' /\ row' = row /\ shared' = shared
    BY <1>5 DEF SkipDisabled, Send, SendFails, DraftsUnborn, Unborn, faults
  <2>2. /\ \A v \in Workers, e \in Deliveries :
              v # w \/ e # d => pass'[v].copy[e] = pass[v].copy[e]
        /\ pass'[w].copy[d].status # "none"
        /\ \A v \in Workers : /\ pass'[v].todo \subseteq pass[v].todo
                              /\ v # w => pass'[v].tried = pass[v].tried
        /\ pass'[w].tried \subseteq pass[w].tried \cup {d}
    <3>1. CASE SkipDisabled(w, d)
      BY <3>1, SkipFrame
    <3>2. CASE \E st \in {"sent", "failed", "pending"} : pass' = Tried(w, d, st)
      <4>1. PICK st \in {"sent", "failed", "pending"} : pass' = Tried(w, d, st)
        BY <3>2
      <4>2. /\ pass'[w].todo = pass[w].todo \ {d}
            /\ pass'[w].tried = pass[w].tried \cup {d}
            /\ pass'[w].copy[d].status = st
            /\ \A e \in Deliveries \ {d} : pass'[w].copy[e] = pass[w].copy[e]
            /\ \A v \in Workers : v # w => pass'[v] = pass[v]
        BY <4>1, TriedFrame
      <4>3. pass'[w].copy[d].status # "none"
        BY <4>2
      <4> QED
        BY <4>2, <4>3
    <3>3. Send(w, d) \/ SendFails(w, d) =>
            \E st \in {"sent", "failed", "pending"} : pass' = Tried(w, d, st)
      BY DEF Send, SendFails
    <3> QED
      BY <1>5, <3>1, <3>2, <3>3
  <2>3. Loaded(w, d)
    BY <1>5 DEF SkipDisabled, Send, SendFails, Turn, TakenIsLoaded
  <2>4. \A v \in Workers, e \in Deliveries : Loaded(v, e)' <=> Loaded(v, e)
    BY <2>2, <2>3 DEF Loaded
  <2>5. Owned'
    BY <2>1, <2>2, <2>3, <2>4 DEF TakenIsLoaded, LoadedIsBorn, PassOwnsRows
  <2> QED
    BY <2>1, <2>5
<1>6. ASSUME NEW w \in Workers, PassCommits(w) \/ Crash(w)
      PROVE  DraftsUnborn' /\ Owned'
  <2>1. \A d \in Deliveries : ~Loaded(w, d) => row'[d] = row[d]
    <3> SUFFICES ASSUME NEW d \in Deliveries, ~Loaded(w, d) PROVE row'[d] = row[d]
      OBVIOUS
    <3>1. CASE PassCommits(w)
      BY <3>1, NothingLoaded
    <3>2. CASE Crash(w)
      BY <3>2 DEF Crash
    <3> QED
      BY <1>6, <3>1, <3>2
  <2>2. \A d \in Deliveries : row[d].status # "none" => row'[d].status # "none"
    BY <1>6 DEF PassCommits, Crash
  <2>3. \A d \in Deliveries : row[d] = NoRow => row'[d] = row[d]
    BY <2>1 DEF LoadedIsBorn, NoRow
  <2>4. DraftsUnborn' /\ shared' = shared
    BY <1>6, <2>3 DEF PassCommits, Crash, DraftsUnborn, Unborn, Deliveries, faults
  <2>5. pass'[w] = NoPass /\ \A v \in Workers : v # w => pass'[v] = pass[v]
    BY <1>6 DEF PassCommits, Crash, TypeOK
  <2>6. \A v \in Workers, d \in Deliveries : Loaded(v, d)' <=> v # w /\ Loaded(v, d)
    BY <2>5 DEF Loaded, NoPass, NoRows, NoRow
  <2>7. TakenIsLoaded' /\ LoadedIsBorn'
    BY <2>2, <2>5, <2>6 DEF TakenIsLoaded, LoadedIsBorn, NoPass
  <2>8. PassOwnsRows'
    BY <2>1, <2>4, <2>6 DEF PassOwnsRows
  <2> QED
    BY <2>4, <2>7, <2>8
<1>7. CASE \/ \E R \in SUBSET Routes : PatchRules(R)
           \/ \E c \in Channels : PatchChannel(c)
           \/ UNCHANGED vars
  <2>1. draft' = draft /\ row' = row /\ pass' = pass /\ shared' = shared
    BY <1>7 DEF PatchRules, PatchChannel, vars, faults
  <2>2. DraftsUnborn'
    BY <2>1 DEF DraftsUnborn, Unborn
  <2>3. Owned'
    BY <2>1 DEF TakenIsLoaded, LoadedIsBorn, PassOwnsRows, Loaded
  <2> QED
    BY <1>1, <2>2, <2>3
<1> QED
  BY <1>1, <1>2, <1>3, <1>4, <1>5, <1>6, <1>7 DEF Next, Works

(* The owners hold at the start.                                           *)
LEMMA OwnerInit == Init => OwnerInv
<1> SUFFICES ASSUME Init PROVE OwnerInv
  OBVIOUS
<1>1. TypeOK
  BY EmptyTypes, NumbersAssumption DEF Init, TypeOK
<1>2. \A w \in Workers, d \in Deliveries :
        ~Loaded(w, d) /\ d \notin pass[w].todo /\ d \notin pass[w].tried
  BY DEF Init, Loaded, NoPass, NoRows, NoRow
<1>3. DraftsUnborn
  BY DEF Init, DraftsUnborn
<1> QED
  BY <1>1, <1>2, <1>3 DEF OwnerInv, TakenIsLoaded, LoadedIsBorn, PassOwnsRows

(***************************************************************************)
(* A delivery that was sent, failed or skipped is never touched again      *)
(* unless passes have overlapped on it, whatever crashes in between.       *)
(***************************************************************************)
THEOREM OutcomesStay == Spec => OutcomesAreFinal
<1>1. Init => OwnerInv
  BY OwnerInit
<1>2. OwnerInv /\ [Next]_vars => OwnerInv'
  BY OwnerStep
<1>3. OwnerInv /\ [Next]_vars =>
        [\A d \in Deliveries \ shared : row[d].status \in {"sent", "failed", "skipped"}
            => row'[d] = row[d]]_vars
  <2> SUFFICES ASSUME OwnerInv, [Next]_vars, NEW d \in Deliveries, d \notin shared,
                      row[d].status \in {"sent", "failed", "skipped"}
               PROVE  row'[d] = row[d]
    OBVIOUS
  <2>1. ASSUME NEW a \in AlertNos, CheckinCommits(a) PROVE row'[d] = row[d]
    BY <2>1 DEF CheckinCommits, OwnerInv, DraftsUnborn, Unborn, Deliveries, NoRow
  <2>2. ASSUME NEW w \in Workers, PassCommits(w) PROVE row'[d] = row[d]
    <3>1. ~Loaded(w, d)
      BY DEF OwnerInv, PassOwnsRows
    <3> QED
      BY <2>2, <3>1, NothingLoaded
  <2>3. \/ row' = row
        \/ \E a \in AlertNos : CheckinCommits(a)
        \/ \E w \in Workers : PassCommits(w)
    BY DEF Next, Works, vars, PatchRules, PatchChannel, Enqueue, CheckinFails,
           SelectPending, SkipDisabled, Send, SendFails, Crash
  <2> QED
    BY <2>1, <2>2, <2>3
<1> QED
  BY <1>1, <1>2, <1>3, PTL DEF Spec, OutcomesAreFinal

-----------------------------------------------------------------------------
(***************************************************************************)
(* How far the attempts a row or a copy records are behind the tries: the  *)
(* passes that died, and the pass that has the row loaded.                 *)
(***************************************************************************)
RowCounts(r, n) ==
    /\ r.status = "none" => n = 0
    /\ r.attempts <= RetryLimit
    /\ r.status = "pending" => r.attempts < RetryLimit

CopyCounts(k, r, n, dead) ==
    /\ n <= k.attempts + dead
    /\ k.attempts <= RetryLimit
    /\ k.attempts <= r.attempts + 1
    /\ k.status = "pending" => k.attempts < RetryLimit

CountInv ==
    /\ \A a \in AlertNos, d \in Deliveries : draft[a][d].attempts = 0
    /\ \A d \in Deliveries \ shared : RowCounts(row[d], tries[d])
    /\ \A d \in Deliveries \ shared :
          (\A w \in Workers : ~Loaded(w, d)) => tries[d] <= row[d].attempts + crashes
    /\ \A w \in Workers, d \in Deliveries \ shared : Loaded(w, d) =>
          /\ CopyCounts(pass[w].copy[d], row[d], tries[d], crashes)
          /\ d \notin pass[w].tried => pass[w].copy[d].attempts = row[d].attempts
          /\ d \in pass[w].todo => d \notin pass[w].tried /\ pass[w].copy[d].status = "pending"

(* What one more try does to a copy of a pending row.                      *)
LEMMA TriedCounts ==
  ASSUME NEW k \in Row, NEW r \in Row, NEW n \in Nat, NEW dead \in Nat,
         CopyCounts(k, r, n, dead), k.status = "pending", k.attempts = r.attempts,
         NEW st \in {"sent", "failed", "pending"},
         st = "pending" => k.attempts + 1 < RetryLimit,
         NEW x, x.status = st, x.attempts = k.attempts + 1
  PROVE  CopyCounts(x, r, n + 1, dead)
BY LimitsAssumption DEF CopyCounts, Row

(* Every step keeps the counts.                                            *)
LEMMA CountStep ==
  ASSUME OwnerInv, CountInv, [Next]_vars PROVE CountInv'
<1> USE DEF CountInv
<1>1. TypeOK /\ TypeOK' /\ OwnerInv'
  BY TypeStep, OwnerStep DEF OwnerInv
<1>2. ASSUME NEW a \in AlertNos, Enqueue(a) \/ CheckinFails(a) PROVE CountInv'
  <2>1. UNCHANGED <<row, pass, ledger, faults>>
    BY <1>2 DEF Enqueue, CheckinFails
  <2>2. PICK D \in [Deliveries -> Row] :
          draft' = [draft EXCEPT ![a] = D] /\ \A d \in Deliveries : D[d].attempts = 0
    <3>1. CASE CheckinFails(a)
      <4>1. draft' = [draft EXCEPT ![a] = NoRows]
        BY <3>1 DEF CheckinFails
      <4>2. NoRows \in [Deliveries -> Row] /\ \A d \in Deliveries : NoRows[d].attempts = 0
        BY DEF NoRows, NoRow, Row
      <4> QED
        BY <4>1, <4>2
    <3>2. CASE Enqueue(a)
      <4> DEFINE E == [d \in Deliveries |->
                          IF d[1] = a /\ d[2] \in routes
                          THEN [status |-> IF enabled[d[2][2]] THEN "pending" ELSE "skipped",
                                attempts |-> 0]
                          ELSE NoRow]
      <4>1. E \in [Deliveries -> Row] /\ \A d \in Deliveries : E[d].attempts = 0
        BY DEF NoRow, Row
      <4>2. draft' = [draft EXCEPT ![a] = E]
        BY <3>2 DEF Enqueue
      <4> QED
        BY <4>1, <4>2
    <3> QED
      BY <1>2, <3>1, <3>2
  <2>3. \A b \in AlertNos, d \in Deliveries : draft'[b][d].attempts = 0
    BY <1>1, <2>2 DEF TypeOK
  <2> QED
    BY <2>1, <2>3 DEF Loaded, ledger, faults
<1>3. ASSUME NEW a \in AlertNos, CheckinCommits(a) PROVE CountInv'
  <2>1. /\ row' = [d \in Deliveries |-> IF d[1] = a THEN draft[a][d] ELSE row[d]]
        /\ UNCHANGED <<pass, ledger, faults>>
    BY <1>3 DEF CheckinCommits
  <2>2. \A b \in AlertNos, d \in Deliveries : draft'[b][d].attempts = 0
    BY <1>1, <1>3 DEF CheckinCommits, TypeOK, NoRows, NoRow
  <2>3. ASSUME NEW d \in Deliveries \ shared, d[1] = a
        PROVE  /\ RowCounts(row'[d], tries[d]) /\ tries[d] = 0 /\ row'[d].attempts = 0
               /\ \A w \in Workers : ~Loaded(w, d)
    <3>1. row[d] = NoRow
      BY <1>3, <2>3 DEF CheckinCommits, OwnerInv, DraftsUnborn, Unborn, Deliveries
    <3>2. tries[d] = 0
      BY <3>1 DEF RowCounts, NoRow
    <3>3. row'[d] = draft[a][d] /\ draft[a][d].attempts = 0
      BY <2>1, <2>3
    <3>4. RowCounts(row'[d], tries[d])
      BY <3>2, <3>3, LimitsAssumption DEF RowCounts
    <3> QED
      BY <3>1, <3>2, <3>3, <3>4 DEF OwnerInv, LoadedIsBorn, NoRow
  <2>4. \A d \in Deliveries : d[1] # a => row'[d] = row[d]
    BY <2>1
  <2>5. \A w \in Workers, d \in Deliveries \ shared : Loaded(w, d) => d[1] # a
    BY <2>3
  <2>6. crashes \in Nat
    BY <1>1, NumbersAssumption DEF TypeOK
  <2> QED
    BY <2>1, <2>2, <2>3, <2>4, <2>5, <2>6 DEF Loaded, ledger, faults
<1>4. ASSUME NEW w \in Workers, SelectPending(w) PROVE CountInv'
  <2>1. PICK B \in SUBSET Pending :
          /\ pass' = [pass EXCEPT ![w] =
                [todo |-> B, tried |-> {},
                 copy |-> [d \in Deliveries |-> IF d \in B THEN row[d] ELSE NoRow]]]
          /\ shared' = shared \cup {d \in B : \E v \in Workers : Loaded(v, d)}
    BY <1>4 DEF SelectPending
  <2>2. UNCHANGED <<draft, row, tries, crashes>>
    BY <1>4 DEF SelectPending, ledger
  <2>3. /\ pass'[w].todo = B /\ pass'[w].tried = {}
        /\ \A d \in Deliveries : pass'[w].copy[d] = IF d \in B THEN row[d] ELSE NoRow
        /\ \A v \in Workers : v # w => pass'[v] = pass[v]
    BY <1>1, <2>1 DEF TypeOK
  <2>4. \A d \in Deliveries \ shared' : d \notin shared /\
          (d \in B => \A v \in Workers : ~Loaded(v, d))
    BY <2>1
  <2>5. \A d \in Deliveries : ~Loaded(w, d)
    BY <1>4 DEF SelectPending, Loaded, NoPass, NoRows, NoRow
  <2>6. ASSUME NEW d \in Deliveries \ shared', d \in B
        PROVE  /\ pass'[w].copy[d] = row[d] /\ row[d].status = "pending"
               /\ CopyCounts(row[d], row[d], tries[d], crashes)
    <3>1. row[d].status = "pending" /\ row[d].attempts \in Nat /\ row[d].attempts < RetryLimit
      BY <1>1, <2>4, <2>6 DEF Pending, RowCounts, TypeOK, Row
    <3>2. tries[d] <= row[d].attempts + crashes
      BY <2>4, <2>6
    <3> QED
      BY <2>3, <2>6, <3>1, <3>2, LimitsAssumption DEF CopyCounts
  <2>7. /\ \A d \in Deliveries : Loaded(w, d)' => d \in B
        /\ \A d \in Deliveries : d \in B => Loaded(w, d)'
        /\ \A v \in Workers, d \in Deliveries : v # w => (Loaded(v, d)' <=> Loaded(v, d))
    BY <2>3 DEF Loaded, NoRow, Pending
  <2>8. ASSUME NEW d \in Deliveries \ shared', \A v \in Workers : ~Loaded(v, d)'
        PROVE  tries'[d] <= row'[d].attempts + crashes'
    <3>1. \A v \in Workers : ~Loaded(v, d)
      BY <2>5, <2>7, <2>8
    <3> QED
      BY <2>2, <2>4, <3>1
  <2>9. ASSUME NEW v \in Workers, NEW d \in Deliveries \ shared', Loaded(v, d)'
        PROVE  /\ CopyCounts(pass'[v].copy[d], row[d], tries[d], crashes)
               /\ d \notin pass'[v].tried => pass'[v].copy[d].attempts = row[d].attempts
               /\ d \in pass'[v].todo =>
                    d \notin pass'[v].tried /\ pass'[v].copy[d].status = "pending"
    <3>1. CASE v = w
      BY <2>3, <2>6, <2>7, <2>9, <3>1
    <3>2. CASE v # w
      BY <2>3, <2>4, <2>7, <2>9, <3>2
    <3> QED
      BY <3>1, <3>2
  <2> QED
    BY <2>2, <2>4, <2>8, <2>9
<1>5. ASSUME NEW w \in Workers, NEW d \in Deliveries, SkipDisabled(w, d) PROVE CountInv'
  <2>1. UNCHANGED <<draft, row, tries, crashes, shared>>
    BY <1>5 DEF SkipDisabled, ledger, faults
  <2>2. /\ pass'[w].todo = pass[w].todo \ {d} /\ pass'[w].tried = pass[w].tried
        /\ \A e \in Deliveries : pass'[w].copy[e].attempts = pass[w].copy[e].attempts
        /\ pass'[w].copy[d].status = "skipped"
        /\ \A e \in Deliveries \ {d} : pass'[w].copy[e] = pass[w].copy[e]
        /\ \A v \in Workers : v # w => pass'[v] = pass[v]
    <3>1. pass[w].copy \in [Deliveries -> Row]
      BY <1>1, PassFields DEF TypeOK
    <3> QED
      BY <1>1, <1>5, <3>1, SkipFrame
  <2>3. Loaded(w, d)
    BY <1>5 DEF SkipDisabled, Turn, OwnerInv, TakenIsLoaded
  <2> QED
    BY <2>1, <2>2, <2>3 DEF Loaded, CopyCounts
<1>6. ASSUME NEW w \in Workers, NEW d \in Deliveries, Send(w, d) \/ SendFails(w, d)
      PROVE  CountInv'
  <2> DEFINE k == pass[w].copy[d]
  <2>1. /\ UNCHANGED <<draft, row, crashes, shared>> /\ tries' = [tries EXCEPT ![d] = tries[d] + 1]
        /\ d \in pass[w].todo
    BY <1>6 DEF Send, SendFails, Turn, faults
  <2>2. PICK st \in {"sent", "failed", "pending"} :
          pass' = Tried(w, d, st) /\ (st = "pending" => ~(k.attempts + 1 >= RetryLimit))
    BY <1>6 DEF Send, SendFails
  <2>3. /\ pass'[w].todo = pass[w].todo \ {d} /\ pass'[w].tried = pass[w].tried \cup {d}
        /\ pass'[w].copy[d].status = st
        /\ pass'[w].copy[d].attempts = k.attempts + 1
        /\ \A e \in Deliveries \ {d} : pass'[w].copy[e] = pass[w].copy[e]
        /\ \A v \in Workers : v # w => pass'[v] = pass[v]
    <3>1. pass' = Tried(w, d, st)
      BY <2>2
    <3> QED
      BY <1>1, <3>1, TriedFrame
  <2>4. Loaded(w, d) /\ (d \notin shared => \A v \in Workers : Loaded(v, d) => v = w)
    BY <2>1 DEF OwnerInv, TakenIsLoaded, PassOwnsRows
  <2>5. /\ k \in Row /\ row[d] \in Row /\ tries[d] \in Nat /\ crashes \in Nat
    BY <1>1, NumbersAssumption DEF TypeOK, Pass
  <2>6. d \notin shared =>
          /\ CopyCounts(k, row[d], tries[d], crashes) /\ k.status = "pending"
          /\ k.attempts = row[d].attempts
    BY <2>1, <2>4
  <2>7. d \notin shared => CopyCounts(pass'[w].copy[d], row[d], tries[d] + 1, crashes)
    <3>1. st = "pending" => k.attempts + 1 < RetryLimit
      BY <2>2, <2>5, LimitsAssumption DEF Row
    <3> HIDE DEF k
    <3> QED
      BY <2>3, <2>5, <2>6, <3>1, TriedCounts
  <2>8. /\ tries'[d] = tries[d] + 1 /\ \A e \in Deliveries \ {d} : tries'[e] = tries[e]
    BY <1>1, <2>1 DEF TypeOK
  <2>9. d \notin shared => RowCounts(row[d], tries'[d])
    BY <2>4 DEF OwnerInv, PassOwnsRows, RowCounts
  <2>10. \A v \in Workers, e \in Deliveries : Loaded(v, e)' <=> Loaded(v, e)
    BY <2>3, <2>4 DEF Loaded
  <2> HIDE DEF k
  <2>11. ASSUME NEW e \in Deliveries \ shared
         PROVE  /\ RowCounts(row'[e], tries'[e])
                /\ (\A v \in Workers : ~Loaded(v, e)') =>
                      tries'[e] <= row'[e].attempts + crashes'
    BY <2>1, <2>4, <2>8, <2>9, <2>10
  <2>12. ASSUME NEW v \in Workers, NEW e \in Deliveries \ shared, Loaded(v, e)'
         PROVE  /\ CopyCounts(pass'[v].copy[e], row[e], tries'[e], crashes)
                /\ e \notin pass'[v].tried => pass'[v].copy[e].attempts = row[e].attempts
                /\ e \in pass'[v].todo =>
                     e \notin pass'[v].tried /\ pass'[v].copy[e].status = "pending"
    <3>1. CASE e = d
      <4>1. v = w
        BY <2>4, <2>10, <2>12, <3>1
      <4> QED
        BY <2>3, <2>7, <2>8, <2>12, <3>1, <4>1
    <3>2. CASE e # d
      <4>1. Loaded(v, e) /\ tries'[e] = tries[e] /\ pass'[v].copy[e] = pass[v].copy[e]
        BY <2>3, <2>8, <2>10, <2>12, <3>2
      <4>2. /\ e \in pass'[v].tried <=> e \in pass[v].tried
            /\ e \in pass'[v].todo <=> e \in pass[v].todo
        BY <2>3, <3>2
      <4> QED
        BY <2>12, <4>1, <4>2
    <3> QED
      BY <3>1, <3>2
  <2> QED
    BY <2>1, <2>11, <2>12
<1>7. ASSUME NEW w \in Workers, PassCommits(w) PROVE CountInv'
  <2>1. UNCHANGED <<draft, tries, crashes, shared>> /\ pass[w].todo = {}
    BY <1>7 DEF PassCommits, ledger, faults
  <2>2. /\ \A d \in Deliveries : ~Loaded(w, d)'
        /\ \A v \in Workers : v # w => pass'[v] = pass[v]
    BY <1>1, <1>7 DEF PassCommits, Loaded, TypeOK, NoPass, NoRows, NoRow
  <2>3. ASSUME NEW d \in Deliveries \ shared, ~Loaded(w, d) PROVE row'[d] = row[d]
    BY <1>7, <2>3, NothingLoaded
  <2>4. ASSUME NEW d \in Deliveries \ shared, Loaded(w, d)
        PROVE  /\ RowCounts(row'[d], tries[d]) /\ tries[d] <= row'[d].attempts + crashes
               /\ \A v \in Workers : ~Loaded(v, d)'
    <3> DEFINE k == pass[w].copy[d]
    <3>1. /\ CopyCounts(k, row[d], tries[d], crashes)
          /\ d \notin pass[w].tried => k.attempts = row[d].attempts
          /\ row[d].status = "pending" /\ k \in Row /\ k.status # "none"
      BY <1>1, <2>4 DEF OwnerInv, PassOwnsRows, Loaded, TypeOK, Pass
    <3>2. /\ row'[d].attempts = k.attempts
          /\ row'[d].status = IF k.status \in {"sent", "failed", "skipped"}
                              THEN k.status ELSE "pending"
      BY <1>7, <3>1 DEF PassCommits
    <3>3. \A v \in Workers : ~Loaded(v, d)'
      <4>1. \A v \in Workers : v # w => ~Loaded(v, d)
        BY <2>4 DEF OwnerInv, PassOwnsRows
      <4> QED
        BY <2>2, <4>1 DEF Loaded
    <3> HIDE DEF k
    <3> QED
      BY <3>1, <3>2, <3>3 DEF CopyCounts, RowCounts, Row
  <2>5. ASSUME NEW d \in Deliveries \ shared, ~Loaded(w, d)
        PROVE  /\ RowCounts(row'[d], tries[d])
               /\ (\A v \in Workers : ~Loaded(v, d)') => tries[d] <= row'[d].attempts + crashes
    <3>1. (\A v \in Workers : ~Loaded(v, d)') => \A v \in Workers : ~Loaded(v, d)
      BY <2>2, <2>5 DEF Loaded
    <3> QED
      BY <2>3, <2>5, <3>1
  <2>6. ASSUME NEW v \in Workers, NEW d \in Deliveries \ shared, Loaded(v, d)'
        PROVE  v # w /\ Loaded(v, d) /\ ~Loaded(w, d)
    <3>1. v # w
      BY <2>2, <2>6
    <3>2. Loaded(v, d)
      BY <2>2, <2>6, <3>1 DEF Loaded
    <3> QED
      BY <3>1, <3>2 DEF OwnerInv, PassOwnsRows
  <2>7. ASSUME NEW v \in Workers, NEW d \in Deliveries \ shared, Loaded(v, d)'
        PROVE  row'[d] = row[d] /\ pass'[v] = pass[v] /\ Loaded(v, d)
    BY <2>2, <2>3, <2>6, <2>7
  <2>8. ASSUME NEW v \in Workers, NEW d \in Deliveries \ shared, Loaded(v, d)'
        PROVE  /\ CopyCounts(pass'[v].copy[d], row'[d], tries[d], crashes)
               /\ d \notin pass'[v].tried => pass'[v].copy[d].attempts = row'[d].attempts
               /\ d \in pass'[v].todo =>
                    d \notin pass'[v].tried /\ pass'[v].copy[d].status = "pending"
    <3>1. row'[d] = row[d] /\ pass'[v] = pass[v] /\ Loaded(v, d)
      BY <2>7, <2>8
    <3> QED
      BY <3>1
  <2> QED
    BY <2>1, <2>4, <2>5, <2>8
<1>8. ASSUME NEW w \in Workers, Crash(w) PROVE CountInv'
  <2>1. UNCHANGED <<draft, row, tries, shared>> /\ crashes' = crashes + 1
    BY <1>8 DEF Crash, ledger
  <2>2. /\ \A d \in Deliveries : ~Loaded(w, d)'
        /\ \A v \in Workers : v # w => pass'[v] = pass[v]
    BY <1>1, <1>8 DEF Crash, Loaded, TypeOK, NoPass, NoRows, NoRow
  <2>3. ASSUME NEW d \in Deliveries
        PROVE  /\ row[d].attempts \in Nat /\ tries[d] \in Nat /\ crashes \in Nat
               /\ \A v \in Workers : pass[v].copy[d].attempts \in Nat
    BY <1>1, NumbersAssumption DEF TypeOK, Row, Pass
  <2>4. ASSUME NEW d \in Deliveries \ shared, \A v \in Workers : ~Loaded(v, d)'
        PROVE  tries[d] <= row[d].attempts + (crashes + 1)
    <3>1. CASE Loaded(w, d)
      BY <2>3, <3>1 DEF CopyCounts
    <3>2. CASE ~Loaded(w, d)
      <4>1. \A v \in Workers : ~Loaded(v, d)
        BY <2>2, <2>4, <3>2 DEF Loaded
      <4>2. tries[d] <= row[d].attempts + crashes
        BY <4>1
      <4> QED
        BY <2>3, <4>2
    <3> QED
      BY <3>1, <3>2
  <2>5. ASSUME NEW v \in Workers, NEW d \in Deliveries \ shared, Loaded(v, d)'
        PROVE  /\ CopyCounts(pass'[v].copy[d], row[d], tries[d], crashes + 1)
               /\ d \notin pass'[v].tried => pass'[v].copy[d].attempts = row[d].attempts
               /\ d \in pass'[v].todo =>
                    d \notin pass'[v].tried /\ pass'[v].copy[d].status = "pending"
    <3>1. v # w
      BY <2>2, <2>5
    <3>2. pass'[v] = pass[v]
      BY <2>2, <3>1
    <3>3. Loaded(v, d)
      BY <2>5, <3>2 DEF Loaded
    <3>4. CopyCounts(pass[v].copy[d], row[d], tries[d], crashes + 1)
      BY <2>3, <3>3 DEF CopyCounts
    <3> QED
      BY <3>2, <3>3, <3>4
  <2> QED
    BY <2>1, <2>4, <2>5
<1>9. CASE \/ \E R \in SUBSET Routes : PatchRules(R)
           \/ \E c \in Channels : PatchChannel(c)
           \/ UNCHANGED vars
  <2>1. UNCHANGED <<draft, row, pass, tries, crashes, shared>>
    BY <1>9 DEF PatchRules, PatchChannel, vars, ledger, faults
  <2> QED
    BY <2>1 DEF Loaded
<1> QED
  BY <1>2, <1>3, <1>4, <1>5, <1>6, <1>7, <1>8, <1>9 DEF Next, Works

(***************************************************************************)
(* A message on which no passes overlap is tried at most RetryLimit times, *)
(* and once more for each pass that died.                                  *)
(***************************************************************************)
THEOREM TriesBounded == Spec => []TriesAreBounded
<1>1. Init => OwnerInv /\ CountInv
  <2> SUFFICES ASSUME Init PROVE CountInv
    BY OwnerInit
  <2>1. \A d \in Deliveries : /\ row[d] = NoRow /\ tries[d] = 0 /\ crashes = 0
                              /\ \A w \in Workers : ~Loaded(w, d)
    BY DEF Init, NoRows, NoPass, Loaded, NoRow
  <2>2. \A d \in Deliveries : RowCounts(row[d], tries[d])
    BY <2>1, LimitsAssumption DEF RowCounts, NoRow
  <2>3. NoRow.attempts = 0
    BY DEF NoRow
  <2>4. \A d \in Deliveries : tries[d] <= row[d].attempts + crashes
    BY <2>1, <2>3
  <2>5. ASSUME NEW a \in AlertNos, NEW d \in Deliveries PROVE draft[a][d].attempts = 0
    <3>1. draft[a][d] = NoRow
      BY DEF Init, NoRows
    <3> QED
      BY <2>3, <3>1
  <2> QED
    BY <2>1, <2>2, <2>4, <2>5 DEF CountInv
<1>2. (OwnerInv /\ CountInv) /\ [Next]_vars => (OwnerInv /\ CountInv)'
  BY OwnerStep, CountStep
<1>3. OwnerInv /\ CountInv => TriesAreBounded
  <2> SUFFICES ASSUME OwnerInv, CountInv, NEW d \in Deliveries \ shared
               PROVE  tries[d] <= RetryLimit + crashes
    BY DEF TriesAreBounded
  <2>1. /\ row[d].attempts \in Nat /\ tries[d] \in Nat /\ crashes \in Nat
        /\ \A w \in Workers : pass[w].copy[d].attempts \in Nat
    BY NumbersAssumption DEF OwnerInv, TypeOK, Row, Pass
  <2>2. CASE \E w \in Workers : Loaded(w, d)
    BY <2>1, <2>2, LimitsAssumption DEF CountInv, CopyCounts
  <2>3. CASE \A w \in Workers : ~Loaded(w, d)
    BY <2>1, <2>3, LimitsAssumption DEF CountInv, RowCounts
  <2> QED
    BY <2>2, <2>3
<1> QED
  BY <1>1, <1>2, <1>3, PTL DEF Spec

-----------------------------------------------------------------------------
(***************************************************************************)
(* What holds however many passes overlap on a delivery: a row stays, and  *)
(* once it has an outcome it has one for good, so no later pass takes the  *)
(* message up again.  Only which outcome it is may change.                 *)
(***************************************************************************)
SettledForGood ==
    [][\A d \in Deliveries :
          /\ row[d].status # "none" => row'[d].status # "none"
          /\ row[d].status \in {"sent", "failed", "skipped"} =>
                row'[d].status \in {"sent", "failed", "skipped"}]_vars

(* The commit of a stale pass does not write back a status that is still   *)
(* "pending" (process_pending_deliveries).                                 *)
THEOREM SettledStaysSettled == Spec => SettledForGood
<1> DEFINE Stays(d) ==
      /\ row[d].status # "none" => row'[d].status # "none"
      /\ row[d].status \in {"sent", "failed", "skipped"} =>
            row'[d].status \in {"sent", "failed", "skipped"}
<1>1. OwnerInv /\ [Next]_vars => [\A d \in Deliveries : Stays(d)]_vars
  <2> SUFFICES ASSUME OwnerInv, [Next]_vars, NEW d \in Deliveries PROVE Stays(d)
    OBVIOUS
  <2>1. ASSUME NEW a \in AlertNos, CheckinCommits(a) PROVE Stays(d)
    BY <2>1 DEF CheckinCommits, OwnerInv, DraftsUnborn, Unborn, Deliveries, NoRow
  <2>2. ASSUME NEW w \in Workers, PassCommits(w) PROVE Stays(d)
    BY <2>2 DEF PassCommits
  <2>3. \/ row' = row
        \/ \E a \in AlertNos : CheckinCommits(a)
        \/ \E w \in Workers : PassCommits(w)
    BY DEF Next, Works, vars, PatchRules, PatchChannel, Enqueue, CheckinFails,
           SelectPending, SkipDisabled, Send, SendFails, Crash
  <2> QED
    BY <2>1, <2>2, <2>3
<1> QED
  BY OwnerInit, OwnerStep, <1>1, PTL DEF Spec, SettledForGood

-----------------------------------------------------------------------------
(* The deployment the code is written for: passes one after the other.     *)
OneWorker == \A v, w \in Workers : v = w

SerialPromise == \A d \in Deliveries : tries[d] <= RetryLimit + crashes

SerialOutcomes ==
    [][\A d \in Deliveries : row[d].status \in {"sent", "failed", "skipped"}
            => row'[d] = row[d]]_vars

NothingOverlaps == shared = {}

(* Nothing is loaded twice when one process makes all the passes.          *)
LEMMA NothingShared ==
  ASSUME OneWorker, NothingOverlaps, [Next]_vars PROVE NothingOverlaps'
<1> USE DEF NothingOverlaps
<1>1. ASSUME NEW w \in Workers, SelectPending(w) PROVE shared' = {}
  <2>1. \A v \in Workers, d \in Deliveries : ~Loaded(v, d)
    BY <1>1 DEF OneWorker, SelectPending, Loaded, NoPass, NoRows, NoRow
  <2> QED
    BY <1>1, <2>1 DEF SelectPending, Pending
<1>2. shared' = shared \/ \E w \in Workers : SelectPending(w)
  BY DEF Next, Works, vars, faults, PatchRules, PatchChannel, Enqueue, CheckinCommits,
         CheckinFails, SkipDisabled, Send, SendFails, PassCommits, Crash
<1> QED
  BY <1>1, <1>2

(***************************************************************************)
(* With one process making the passes, the limit holds for every message   *)
(* and no outcome ever changes: what OutcomesAreFinal and TriesAreBounded  *)
(* except is due to overlapping passes alone.                              *)
(***************************************************************************)
THEOREM OneWorkerKeepsPromise == OneWorker => (Spec => []SerialPromise /\ SerialOutcomes)
<1> SUFFICES ASSUME OneWorker PROVE Spec => []SerialPromise /\ SerialOutcomes
  OBVIOUS
<1>1. Init => NothingOverlaps
  BY DEF Init, NothingOverlaps
<1>2. NothingOverlaps /\ [Next]_vars => NothingOverlaps'
  BY NothingShared
<1>3. NothingOverlaps /\ TriesAreBounded => SerialPromise
  BY DEF NothingOverlaps, TriesAreBounded, SerialPromise
<1>4. /\ NothingOverlaps
      /\ [\A d \in Deliveries \ shared : row[d].status \in {"sent", "failed", "skipped"}
            => row'[d] = row[d]]_vars
      => [\A d \in Deliveries : row[d].status \in {"sent", "failed", "skipped"}
            => row'[d] = row[d]]_vars
  BY DEF NothingOverlaps
<1>5. Spec => []NothingOverlaps
  BY <1>1, <1>2, PTL DEF Spec
<1> QED
  BY <1>3, <1>4, <1>5, TriesBounded, OutcomesStay, PTL DEF OutcomesAreFinal, SerialOutcomes
=============================================================================
