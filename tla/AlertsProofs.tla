---------------------------- MODULE AlertsProofs ----------------------------
(***************************************************************************)
(* Proofs about Alerts: there is never a second active alert of a device   *)
(* and a rule, for any number of devices, rules and overlapping requests.  *)
(* Nor of a device and a key, once the rules of the organization are in    *)
(* place or when no two requests overlap: what the documentation promises  *)
(* is only ever broken by the first check-ins of an organization.          *)
(***************************************************************************)
EXTENDS Alerts, TLAPS

(* A check-in past its flush holds the row lock of its device.             *)
CheckinsHoldLocks ==
    \A s \in Slots :
        /\ req[s].op = "checkin" => req[s].dev \in Devices
        /\ req[s].op = "checkin" /\ req[s].phase # "sent" => lock[req[s].dev] = s

(* A check-in has found a row of its own for each rule.                    *)
RulesAreDistinct ==
    \A s \in Slots : At(s, "checkin", "ruled") =>
        \A j, k \in Keys : req[s].rules[j] = req[s].rules[k] => j = k

(* What a check-in is about to open, nobody has opened meanwhile.          *)
OpensAreFresh ==
    \A s \in Slots : \A k \in req[s].opens :
        /\ At(s, "checkin", "ruled")
        /\ \A a \in AlertIds : ~ /\ alert[a].status = "active"
                                 /\ alert[a].dev = req[s].dev
                                 /\ alert[a].rule = req[s].rules[k]

(* Only operators' requests are loaded, and they name an alert.            *)
OperatorsNameAlerts ==
    \A s \in Slots :
        /\ req[s].op \in {"acknowledge", "resolve"} => req[s].alert \in AlertIds
        /\ req[s].phase = "loaded" => req[s].op \in {"acknowledge", "resolve"}

AlertInv ==
    /\ CheckinsHoldLocks
    /\ RulesAreDistinct
    /\ OpensAreFresh
    /\ OperatorsNameAlerts
    /\ OneActivePerRule

-----------------------------------------------------------------------------
(* An empty slot has the type of a request.                                *)
LEMMA NoRequestType == NoRequest \in Request /\ NoAlert \in Alert
<1>1. NoRules \in [Keys -> Rules \cup {None}]
  BY DEF NoRules
<1> QED
  BY <1>1 DEF NoRequest, Request, NoAlert, Alert

LEMMA NoRequestFields ==
  NoRequest.op = "idle" /\ NoRequest.phase = "sent" /\ NoRequest.opens = {}
BY DEF NoRequest

(* Answering keeps the types of the requests.                              *)
LEMMA AnsweredType ==
  ASSUME NEW s \in Slots, req \in [Slots -> Request], Answered(s)
  PROVE  req' \in [Slots -> Request]
BY NoRequestType DEF Answered

(* Releasing a request's locks keeps the type of lock.                     *)
LEMMA UnlockedType ==
  ASSUME NEW s \in Slots, lock \in [Devices -> Slots \cup {None}]
  PROVE  Unlocked(s) \in [Devices -> Slots \cup {None}]
BY DEF Unlocked

(* Changing fields of a request within their types keeps its type.         *)
LEMMA RequestType ==
  ASSUME NEW r \in Request
  PROVE  /\ \A p \in {"sent", "locked", "ruled", "loaded"} :
              [r EXCEPT !.phase = p] \in Request
         /\ \A f \in [Keys -> Rules \cup {None}] :
              [r EXCEPT !.phase = "ruled", !.rules = f, !.todo = Keys] \in Request
BY DEF Request

(* Deciding on a rule keeps the type of the request.                       *)
LEMMA DecisionType ==
  ASSUME NEW r \in Request, NEW k \in Keys
  PROVE  /\ \A o \in SUBSET Keys : Decided(r, k, o) \in Request
         /\ \A a \in AlertIds : Cleared(r, k, a) \in Request
<1>1. PICK t \in SUBSET Keys : t = r.todo \ {k}
  BY DEF Request
<1>2. ASSUME NEW o \in SUBSET Keys PROVE Decided(r, k, o) \in Request
  BY <1>1 DEF Decided, Request
<1>3. ASSUME NEW a \in AlertIds PROVE Cleared(r, k, a) \in Request
  <2>1. PICK c \in SUBSET AlertIds : c = r.closes \cup {a}
    BY DEF Request
  <2> QED
    BY <1>1, <2>1 DEF Cleared, Request
<1> QED
  BY <1>2, <1>3

(* ... and changes no more of it than the decision.                        *)
LEMMA DecisionFields ==
  ASSUME NEW r \in Request, NEW k \in Keys
  PROVE  /\ \A o : LET x == Decided(r, k, o) IN
              /\ x.op = r.op /\ x.phase = r.phase /\ x.dev = r.dev /\ x.rules = r.rules
              /\ x.opens = o
         /\ \A a : LET x == Cleared(r, k, a) IN
              /\ x.op = r.op /\ x.phase = r.phase /\ x.dev = r.dev /\ x.rules = r.rules
              /\ x.opens = r.opens
BY DEF Decided, Cleared, Request

(* What the evaluation of a rule does to the requests.                     *)
LEMMA EvaluationFrame ==
  ASSUME req \in [Slots -> Request], NEW s \in Slots, NEW k \in Keys, EvaluateRule(s, k)
  PROVE  /\ \A t \in Slots \ {s} : req'[t] = req[t]
         /\ req'[s].op = req[s].op /\ req'[s].phase = req[s].phase
         /\ req'[s].rules = req[s].rules /\ req'[s].dev = req[s].dev
         /\ \A j \in req'[s].opens :
              j \in req[s].opens \/ (j = k /\ OpenAlerts(req[s].dev, req[s].rules[k]) = {})
<1>1. PICK r \in Request : r = req[s]
  OBVIOUS
<1>2. CASE \E o : /\ req' = [req EXCEPT ![s] = Decided(r, k, o)]
                  /\ o \in {r.opens, r.opens \cup {k}}
                  /\ o = r.opens \/ OpenAlerts(r.dev, r.rules[k]) = {}
  <2>1. PICK o : /\ req' = [req EXCEPT ![s] = Decided(r, k, o)]
                 /\ o \in {r.opens, r.opens \cup {k}}
                 /\ o = r.opens \/ OpenAlerts(r.dev, r.rules[k]) = {}
    BY <1>2
  <2>2. req'[s] = Decided(r, k, o) /\ \A t \in Slots \ {s} : req'[t] = req[t]
    BY <2>1
  <2> QED
    BY <1>1, <2>1, <2>2, DecisionFields
<1>3. CASE \E a : req' = [req EXCEPT ![s] = Cleared(r, k, a)]
  <2>1. PICK a : req' = [req EXCEPT ![s] = Cleared(r, k, a)]
    BY <1>3
  <2>2. req'[s] = Cleared(r, k, a) /\ \A t \in Slots \ {s} : req'[t] = req[t]
    BY <2>1
  <2> QED
    BY <1>1, <2>2, DecisionFields
<1> QED
  BY <1>1, <1>2, <1>3 DEF EvaluateRule

(* Every step keeps the type invariant.                                    *)
LEMMA TypeStep == TypeOK /\ AlertInv /\ [Next]_vars => TypeOK'
<1> SUFFICES ASSUME TypeOK, AlertInv, [Next]_vars PROVE TypeOK'
  OBVIOUS
<1> USE DEF TypeOK, tables
<1>1. ASSUME NEW s \in Slots, NEW d \in Devices, SendCheckin(s, d) PROVE TypeOK'
  <2>1. [NoRequest EXCEPT !.op = "checkin", !.dev = d, !.facts = facts[d]] \in Request
    <3>1. facts[d] \in SUBSET Keys
      OBVIOUS
    <3>2. NoRequest \in Request
      BY NoRequestType
    <3> QED
      BY <3>1, <3>2 DEF Request
  <2> QED
    BY <1>1, <2>1 DEF SendCheckin
<1>2. ASSUME NEW s \in Slots, NEW a \in AlertIds,
             NEW op \in {"acknowledge", "resolve"}, SendOperator(s, op, a)
      PROVE TypeOK'
  <2>1. [NoRequest EXCEPT !.op = op, !.alert = a] \in Request
    BY NoRequestType DEF Request
  <2> QED
    BY <1>2, <2>1 DEF SendOperator
<1>3. ASSUME NEW s \in Slots, LockDevice(s) PROVE TypeOK'
  <2>1. req' = [req EXCEPT ![s] = [req[s] EXCEPT !.phase = "locked"]]
    BY <1>3 DEF LockDevice
  <2>2. [req[s] EXCEPT !.phase = "locked"] \in Request
    BY RequestType
  <2> QED
    BY <1>3, <2>1, <2>2 DEF LockDevice
<1>4. ASSUME NEW s \in Slots, EnsureRules(s) PROVE TypeOK'
  <2>1. PICK f \in [Keys -> Rules] :
          req' = [req EXCEPT ![s] = [req[s] EXCEPT !.phase = "ruled", !.rules = f,
                                                   !.todo = Keys]]
    BY <1>4 DEF EnsureRules
  <2>2. [req[s] EXCEPT !.phase = "ruled", !.rules = f, !.todo = Keys] \in Request
    BY RequestType
  <2> QED
    BY <1>4, <2>1, <2>2 DEF EnsureRules
<1>5. ASSUME NEW s \in Slots, NEW k \in Keys, EvaluateRule(s, k) PROVE TypeOK'
  <2>1. PICK r \in Request : r = req[s]
    OBVIOUS
  <2>2. /\ r.opens \in SUBSET Keys /\ r.opens \cup {k} \in SUBSET Keys
        /\ \A a \in AlertIds : r.closes \cup {a} \in SUBSET AlertIds
    BY DEF Request
  <2>3. \E x \in Request : req' = [req EXCEPT ![s] = x]
    <3>1. \/ \E o \in {r.opens, r.opens \cup {k}} : req' = [req EXCEPT ![s] = Decided(r, k, o)]
          \/ \E a \in AlertIds : req' = [req EXCEPT ![s] = Cleared(r, k, a)]
      BY <1>5, <2>1 DEF EvaluateRule, OpenAlerts
    <3>2. \A o \in {r.opens, r.opens \cup {k}} : Decided(r, k, o) \in Request
      BY <2>2, DecisionType
    <3>3. \A a \in AlertIds : Cleared(r, k, a) \in Request
      BY <2>2, DecisionType
    <3> QED
      BY <3>1, <3>2, <3>3
  <2> QED
    BY <1>5, <2>3 DEF EvaluateRule
<1>6. ASSUME NEW s \in Slots, CheckinCommit(s) PROVE TypeOK'
  <2>1. alert' \in [AlertIds -> Alert]
    <3> DEFINE r == req[s]
    <3>0. r \in Request
      OBVIOUS
    <3>1. PICK new \in [r.opens -> FreeAlerts] :
            alert' = [a \in AlertIds |->
              IF \E k \in r.opens : new[k] = a
              THEN [dev |-> r.dev, status |-> "active",
                    rule |-> r.rules[CHOOSE k \in r.opens : new[k] = a]]
              ELSE IF a \in r.closes THEN [alert[a] EXCEPT !.status = "resolved"]
              ELSE alert[a]]
      BY <1>6 DEF CheckinCommit
    <3>2. ASSUME NEW a \in AlertIds, \E k \in r.opens : new[k] = a
          PROVE  [dev |-> r.dev, status |-> "active",
                  rule |-> r.rules[CHOOSE k \in r.opens : new[k] = a]] \in Alert
      <4>1. (CHOOSE k \in r.opens : new[k] = a) \in Keys
        BY <3>0, <3>2 DEF Request
      <4> QED
        BY <3>0, <4>1 DEF Request, Alert
    <3>3. ASSUME NEW a \in AlertIds
          PROVE  [alert[a] EXCEPT !.status = "resolved"] \in Alert /\ alert[a] \in Alert
      BY DEF Alert
    <3> HIDE DEF r
    <3> QED
      BY <3>1, <3>2, <3>3
  <2>2. rule' \in [Rules -> Keys \cup {None}]
    BY <1>6 DEF CheckinCommit
  <2>3. facts' \in [Devices -> SUBSET Keys]
    BY <1>6 DEF CheckinCommit
  <2>4. lock' \in [Devices -> Slots \cup {None}] /\ req' \in [Slots -> Request]
    BY <1>6, UnlockedType, AnsweredType DEF CheckinCommit
  <2> QED
    BY <2>1, <2>2, <2>3, <2>4
<1>7. ASSUME NEW s \in Slots, LoadAlert(s) PROVE TypeOK'
  <2>1. req' = [req EXCEPT ![s] = [req[s] EXCEPT !.phase = "loaded"]]
    BY <1>7 DEF LoadAlert
  <2>2. [req[s] EXCEPT !.phase = "loaded"] \in Request
    BY RequestType
  <2> QED
    BY <1>7, <2>1, <2>2 DEF LoadAlert
<1>8. ASSUME NEW s \in Slots, NothingToDo(s) PROVE TypeOK'
  BY <1>8, AnsweredType DEF NothingToDo
<1>9. ASSUME NEW s \in Slots, OperatorCommit(s) PROVE TypeOK'
  <2>1. PICK st \in {"acknowledged", "resolved"} :
          alert' = [alert EXCEPT ![req[s].alert] = [alert[req[s].alert] EXCEPT !.status = st]]
    BY <1>9 DEF OperatorCommit
  <2>2. \A a \in AlertIds : [alert[a] EXCEPT !.status = st] \in Alert
    BY DEF Alert
  <2>3. alert' \in [AlertIds -> Alert]
    BY <2>1, <2>2
  <2> QED
    BY <1>9, <2>3, AnsweredType DEF OperatorCommit
<1>10. ASSUME NEW s \in Slots, Abort(s) PROVE TypeOK'
  BY <1>10, AnsweredType, UnlockedType DEF Abort
<1>11. ASSUME NEW d \in Devices, Change(d) PROVE TypeOK'
  BY <1>11 DEF Change
<1>12. CASE UNCHANGED vars
  BY <1>12 DEF vars
<1> QED
  BY <1>1, <1>2, <1>3, <1>4, <1>5, <1>6, <1>7, <1>8, <1>9, <1>10, <1>11, <1>12
  DEF Next, Sends, Works
(* What a check-in's commit leaves active it found active, or it opened it.*)
LEMMA CommitOpens ==
  ASSUME TypeOK, NEW s \in Slots, CheckinCommit(s)
  PROVE  \E new \in [req[s].opens -> FreeAlerts] :
           /\ \A j, k \in req[s].opens : new[j] = new[k] => j = k
           /\ \A a \in AlertIds : alert'[a].status = "active" =>
                \/ alert'[a] = alert[a]
                \/ \E k \in req[s].opens : /\ new[k] = a
                                           /\ alert'[a].dev = req[s].dev
                                           /\ alert'[a].rule = req[s].rules[k]
<1> DEFINE r == req[s]
<1>1. PICK new \in [r.opens -> FreeAlerts] :
          /\ \A j, k \in r.opens : new[j] = new[k] => j = k
          /\ alert' = [a \in AlertIds |->
              IF \E k \in r.opens : new[k] = a
              THEN [dev |-> r.dev, status |-> "active",
                    rule |-> r.rules[CHOOSE k \in r.opens : new[k] = a]]
              ELSE IF a \in r.closes THEN [alert[a] EXCEPT !.status = "resolved"]
              ELSE alert[a]]
  BY DEF CheckinCommit
<1>2. ASSUME NEW a \in AlertIds, alert'[a].status = "active"
      PROVE  \/ alert'[a] = alert[a]
             \/ \E k \in r.opens :
                  new[k] = a /\ alert'[a].dev = r.dev /\ alert'[a].rule = r.rules[k]
  <2>1. CASE \E k \in r.opens : new[k] = a
    <3> DEFINE k == CHOOSE k \in r.opens : new[k] = a
    <3>1. k \in r.opens /\ new[k] = a
      BY <2>1
    <3>2. alert'[a] = [dev |-> r.dev, status |-> "active", rule |-> r.rules[k]]
      BY <1>1, <2>1
    <3>3. alert'[a].dev = r.dev /\ alert'[a].rule = r.rules[k]
      BY <3>2
    <3> HIDE DEF k
    <3> QED
      BY <3>1, <3>3
  <2>2. CASE ~(\E k \in r.opens : new[k] = a) /\ a \in r.closes
    <3>1. alert'[a] = [alert[a] EXCEPT !.status = "resolved"] /\ alert[a] \in Alert
      BY <1>1, <2>2 DEF TypeOK
    <3> QED
      BY <1>2, <3>1 DEF Alert
  <2>3. CASE ~(\E k \in r.opens : new[k] = a) /\ a \notin r.closes
    BY <1>1, <2>3
  <2> QED
    BY <2>1, <2>2, <2>3
<1>3. \A a \in AlertIds : alert'[a].status = "active" =>
        \/ alert'[a] = alert[a]
        \/ \E k \in r.opens :
             new[k] = a /\ alert'[a].dev = r.dev /\ alert'[a].rule = r.rules[k]
  BY <1>2
<1> WITNESS new \in [r.opens -> FreeAlerts]
<1> QED
  BY <1>1, <1>3

(***************************************************************************)
(* What the requests of other slots can and cannot disturb.                *)
(***************************************************************************)
LEMMA SafetyStep == TypeOK /\ AlertInv /\ [Next]_vars => AlertInv'
<1> SUFFICES ASSUME TypeOK, AlertInv, [Next]_vars PROVE AlertInv'
  OBVIOUS
<1> USE NullAssumption DEF TypeOK, tables, AlertInv, At
<1>1. ASSUME NEW s \in Slots, NEW x \in Request, req' = [req EXCEPT ![s] = x],
             x.op = "checkin" => x.dev \in Devices /\ x.phase = "sent",
             x.op \in {"acknowledge", "resolve"} => x.alert \in AlertIds,
             x.phase = "sent" /\ x.opens = {}, UNCHANGED <<rule, alert>>,
             \A t \in Slots \ {s}, d \in Devices : lock[d] = t => lock'[d] = t
      PROVE  AlertInv'
  <2>1. req'[s] = x /\ \A t \in Slots \ {s} : req'[t] = req[t]
    BY <1>1
  <2>2. CheckinsHoldLocks'
    BY <1>1, <2>1 DEF CheckinsHoldLocks
  <2>3. RulesAreDistinct'
    BY <1>1, <2>1 DEF RulesAreDistinct
  <2>4. OpensAreFresh'
    BY <1>1, <2>1 DEF OpensAreFresh
  <2>5. OperatorsNameAlerts'
    BY <1>1, <2>1 DEF OperatorsNameAlerts
  <2>6. OneActivePerRule'
    BY <1>1 DEF OneActivePerRule
  <2> QED
    BY <2>2, <2>3, <2>4, <2>5, <2>6
<1>2. ASSUME NEW s \in Slots, NEW d \in Devices, SendCheckin(s, d) PROVE AlertInv'
  <2> DEFINE x == [NoRequest EXCEPT !.op = "checkin", !.dev = d, !.facts = facts[d]]
  <2>1. /\ x.op = "checkin" /\ x.dev = d /\ x.phase = "sent" /\ x.opens = {}
    BY NoRequestFields, NoRequestType DEF Request
  <2>2. x \in Request
    BY NoRequestType DEF Request
  <2>3. req' = [req EXCEPT ![s] = x] /\ UNCHANGED <<rule, alert, lock>>
    BY <1>2 DEF SendCheckin
  <2> HIDE DEF x
  <2> QED
    BY <1>1, <2>1, <2>2, <2>3
<1>3. ASSUME NEW s \in Slots, NEW a \in AlertIds,
             NEW op \in {"acknowledge", "resolve"}, SendOperator(s, op, a)
      PROVE AlertInv'
  <2> DEFINE x == [NoRequest EXCEPT !.op = op, !.alert = a]
  <2>1. /\ x.op = op /\ x.alert = a /\ x.phase = "sent" /\ x.opens = {}
    BY NoRequestFields, NoRequestType DEF Request
  <2>2. x \in Request
    BY NoRequestType DEF Request
  <2>3. req' = [req EXCEPT ![s] = x] /\ UNCHANGED <<rule, alert, lock>>
    BY <1>3 DEF SendOperator
  <2> HIDE DEF x
  <2> QED
    BY <1>1, <2>1, <2>2, <2>3
<1>4. ASSUME NEW s \in Slots, NothingToDo(s) \/ Abort(s) PROVE AlertInv'
  <2>1. req' = [req EXCEPT ![s] = NoRequest] /\ UNCHANGED <<rule, alert>>
    BY <1>4 DEF NothingToDo, Abort, Answered
  <2>2. \A t \in Slots \ {s}, d \in Devices : lock[d] = t => lock'[d] = t
    BY <1>4 DEF NothingToDo, Abort, Unlocked
  <2> QED
    BY <1>1, <2>1, <2>2, NoRequestType, NoRequestFields
<1>5. ASSUME NEW s \in Slots, LockDevice(s) PROVE AlertInv'
  <2>1. /\ lock[req[s].dev] = None /\ req[s].dev \in Devices /\ req[s].phase = "sent"
        /\ lock' = [lock EXCEPT ![req[s].dev] = s] /\ UNCHANGED <<rule, alert>>
    BY <1>5 DEF LockDevice, CheckinsHoldLocks
  <2>2. /\ req' = [req EXCEPT ![s] = [req[s] EXCEPT !.phase = "locked"]]
        /\ req[s] \in Request /\ req[s].op = "checkin"
    BY <1>5 DEF LockDevice
  <2>3. /\ \A t \in Slots \ {s} : req'[t] = req[t]
        /\ req'[s].phase = "locked" /\ req'[s].op = "checkin"
        /\ req'[s].dev = req[s].dev /\ req'[s].opens = req[s].opens
    BY <2>2 DEF Request
  <2>4. CheckinsHoldLocks'
    BY <2>1, <2>3 DEF CheckinsHoldLocks
  <2>5. RulesAreDistinct'
    BY <2>3 DEF RulesAreDistinct
  <2>6. OpensAreFresh'
    BY <2>1, <2>3 DEF OpensAreFresh
  <2>7. OperatorsNameAlerts' /\ OneActivePerRule'
    BY <2>1, <2>3 DEF OperatorsNameAlerts, OneActivePerRule
  <2> QED
    BY <2>4, <2>5, <2>6, <2>7
<1>6. ASSUME NEW s \in Slots, EnsureRules(s) PROVE AlertInv'
  <2>1. PICK f \in [Keys -> Rules] :
          /\ \A j, k \in Keys : f[j] = f[k] => j = k
          /\ req' = [req EXCEPT ![s] = [req[s] EXCEPT !.phase = "ruled", !.rules = f,
                                                   !.todo = Keys]]
    BY <1>6 DEF EnsureRules
  <2>2. UNCHANGED <<rule, alert, lock>> /\ req[s].op = "checkin" /\ req[s].phase = "locked"
    BY <1>6 DEF EnsureRules
  <2>3. /\ \A t \in Slots \ {s} : req'[t] = req[t]
        /\ req'[s].phase = "ruled" /\ req'[s].op = "checkin" /\ req'[s].rules = f
        /\ req'[s].dev = req[s].dev /\ req'[s].opens = req[s].opens
    BY <2>1, <2>2 DEF Request
  <2>4. CheckinsHoldLocks'
    BY <2>2, <2>3 DEF CheckinsHoldLocks
  <2>5. RulesAreDistinct'
    BY <2>1, <2>3 DEF RulesAreDistinct
  <2>6. OpensAreFresh'
    BY <2>2, <2>3 DEF OpensAreFresh
  <2>7. OperatorsNameAlerts' /\ OneActivePerRule'
    BY <2>2, <2>3 DEF OperatorsNameAlerts, OneActivePerRule
  <2> QED
    BY <2>4, <2>5, <2>6, <2>7
<1>7. ASSUME NEW s \in Slots, NEW k \in Keys, EvaluateRule(s, k) PROVE AlertInv'
  <2>1. /\ UNCHANGED <<rule, alert, lock>>
        /\ req[s].op = "checkin" /\ req[s].phase = "ruled" /\ req[s] \in Request
    BY <1>7 DEF EvaluateRule
  <2>2. /\ \A t \in Slots \ {s} : req'[t] = req[t]
        /\ req'[s].phase = "ruled" /\ req'[s].op = "checkin"
        /\ req'[s].rules = req[s].rules /\ req'[s].dev = req[s].dev
    BY <1>7, <2>1, EvaluationFrame
  <2>3. \A j \in req'[s].opens :
          j \in req[s].opens \/ (j = k /\ OpenAlerts(req[s].dev, req[s].rules[k]) = {})
    BY <1>7, EvaluationFrame
  <2>4. CheckinsHoldLocks'
    BY <2>1, <2>2 DEF CheckinsHoldLocks
  <2>5. RulesAreDistinct'
    BY <2>1, <2>2 DEF RulesAreDistinct
  <2>6. OpensAreFresh'
    <3>1. ASSUME NEW j \in req'[s].opens, NEW a \in AlertIds,
                 alert[a].status = "active", alert[a].dev = req[s].dev,
                 alert[a].rule = req[s].rules[j]
          PROVE  FALSE
      <4>1. CASE j \in req[s].opens
        BY <3>1, <4>1 DEF OpensAreFresh
      <4>2. CASE j = k /\ OpenAlerts(req[s].dev, req[s].rules[k]) = {}
        BY <3>1, <4>2 DEF OpenAlerts
      <4> QED
        BY <2>3, <4>1, <4>2
    <3> QED
      BY <2>1, <2>2, <3>1 DEF OpensAreFresh
  <2>7. OperatorsNameAlerts' /\ OneActivePerRule'
    BY <2>1, <2>2 DEF OperatorsNameAlerts, OneActivePerRule
  <2> QED
    BY <2>4, <2>5, <2>6, <2>7
<1>8. ASSUME NEW s \in Slots, CheckinCommit(s) PROVE AlertInv'
  <2> DEFINE r == req[s]
  <2>1. /\ r.op = "checkin" /\ r.phase = "ruled" /\ r.dev \in Devices
        /\ lock[r.dev] = s /\ r.opens \subseteq Keys
        /\ \A j, k \in Keys : r.rules[j] = r.rules[k] => j = k
    BY <1>8 DEF CheckinCommit, CheckinsHoldLocks, RulesAreDistinct, Request
  <2>2. \A k \in r.opens, a \in AlertIds :
          ~ (alert[a].status = "active" /\ alert[a].dev = r.dev /\ alert[a].rule = r.rules[k])
    BY DEF OpensAreFresh
  <2>3. PICK new \in [r.opens -> FreeAlerts] :
          /\ \A j, k \in r.opens : new[j] = new[k] => j = k
          /\ \A a \in AlertIds : alert'[a].status = "active" =>
                \/ alert'[a] = alert[a]
                \/ \E k \in r.opens :
                     new[k] = a /\ alert'[a].dev = r.dev /\ alert'[a].rule = r.rules[k]
    BY <1>8, CommitOpens
  <2>4. ASSUME NEW a \in AlertIds, alert'[a].status = "active"
        PROVE  \/ alert'[a] = alert[a]
               \/ \E k \in r.opens :
                    new[k] = a /\ alert'[a].dev = r.dev /\ alert'[a].rule = r.rules[k]
    BY <2>3, <2>4
  <2>5. /\ \A t \in Slots \ {s} : req'[t] = req[t]
        /\ req'[s].op = "idle" /\ req'[s].phase = "sent" /\ req'[s].opens = {}
    BY <1>8 DEF CheckinCommit, Answered, NoRequest
  <2>6. \A d \in Devices, t \in Slots \ {s} : lock[d] = t => lock'[d] = t
    BY <1>8 DEF CheckinCommit, Unlocked
  <2>7. CheckinsHoldLocks'
    BY <2>5, <2>6 DEF CheckinsHoldLocks
  <2>8. RulesAreDistinct' /\ OperatorsNameAlerts'
    BY <2>5 DEF RulesAreDistinct, OperatorsNameAlerts
  <2>9. OpensAreFresh'
    <3>1. ASSUME NEW t \in Slots \ {s}, NEW k \in req[t].opens
          PROVE  req[t].dev # r.dev /\ At(t, "checkin", "ruled")
      BY <2>1 DEF OpensAreFresh, CheckinsHoldLocks
    <3>2. ASSUME NEW t \in Slots \ {s}, NEW k \in req[t].opens, NEW a \in AlertIds,
                 alert'[a].status = "active", alert'[a].dev = req[t].dev,
                 alert'[a].rule = req[t].rules[k]
          PROVE  FALSE
      <4>1. alert'[a] = alert[a]
        BY <2>4, <3>1, <3>2
      <4> QED
        BY <3>2, <4>1 DEF OpensAreFresh
    <3> QED
      BY <2>5, <3>1, <3>2 DEF OpensAreFresh
  <2>10. OneActivePerRule'
    <3> SUFFICES ASSUME NEW a \in AlertIds, NEW b \in AlertIds,
                        alert'[a].status = "active", alert'[b].status = "active",
                        alert'[a].dev = alert'[b].dev, alert'[a].rule = alert'[b].rule
                 PROVE  a = b
      BY DEF OneActivePerRule
    <3>1. CASE alert'[a] = alert[a] /\ alert'[b] = alert[b]
      BY <3>1 DEF OneActivePerRule
    <3>0. ASSUME NEW x \in AlertIds, NEW y \in AlertIds,
                 alert'[x].status = "active", alert'[y].status = "active",
                 alert'[x].dev = alert'[y].dev, alert'[x].rule = alert'[y].rule,
                 NEW k \in r.opens, new[k] = x,
                 alert'[x].dev = r.dev, alert'[x].rule = r.rules[k]
          PROVE  x = y
      <4>1. CASE alert'[y] = alert[y]
        <5>1. /\ alert[y].status = "active" /\ alert[y].dev = r.dev
              /\ alert[y].rule = r.rules[k]
          BY <3>0, <4>1
        <5> QED
          BY <2>2, <5>1
      <4>2. CASE \E j \in r.opens :
                   new[j] = y /\ alert'[y].dev = r.dev /\ alert'[y].rule = r.rules[j]
        <5>1. PICK j \in r.opens : new[j] = y /\ alert'[y].rule = r.rules[j]
          BY <4>2
        <5>2. j \in Keys /\ k \in Keys /\ r.rules[j] = r.rules[k]
          BY <2>1, <3>0, <5>1
        <5>3. j = k
          BY <2>1, <5>2
        <5> QED
          BY <3>0, <5>1, <5>3
      <4> QED
        BY <2>4, <3>0, <4>1, <4>2
    <3>2. ASSUME NEW k \in r.opens, new[k] = a,
                 alert'[a].dev = r.dev, alert'[a].rule = r.rules[k]
          PROVE  a = b
      BY <3>0, <3>2
    <3>3. ASSUME NEW k \in r.opens, new[k] = b,
                 alert'[b].dev = r.dev, alert'[b].rule = r.rules[k]
          PROVE  a = b
      BY <3>0, <3>3
    <3> QED
      BY <2>4, <3>1, <3>2, <3>3
  <2> QED
    BY <2>7, <2>8, <2>9, <2>10
<1>9. ASSUME NEW s \in Slots, LoadAlert(s) PROVE AlertInv'
  <2>1. /\ UNCHANGED <<rule, alert, lock>> /\ req[s].op \in {"acknowledge", "resolve"}
        /\ req' = [req EXCEPT ![s] = [req[s] EXCEPT !.phase = "loaded"]]
        /\ req[s] \in Request
    BY <1>9 DEF LoadAlert
  <2>2. /\ \A t \in Slots \ {s} : req'[t] = req[t]
        /\ req'[s].op = req[s].op /\ req'[s].alert = req[s].alert
        /\ req'[s].opens = req[s].opens /\ req[s].opens = {}
    BY <2>1 DEF Request, OpensAreFresh
  <2>3. CheckinsHoldLocks' /\ RulesAreDistinct'
    BY <2>1, <2>2 DEF CheckinsHoldLocks, RulesAreDistinct
  <2>4. OpensAreFresh' /\ OperatorsNameAlerts' /\ OneActivePerRule'
    BY <2>1, <2>2 DEF OpensAreFresh, OperatorsNameAlerts, OneActivePerRule
  <2> QED
    BY <2>3, <2>4
<1>10. ASSUME NEW s \in Slots, OperatorCommit(s) PROVE AlertInv'
  <2>1. /\ lock' = lock /\ req[s].alert \in AlertIds
        /\ \A t \in Slots \ {s} : req'[t] = req[t]
        /\ req'[s].op = "idle" /\ req'[s].phase = "sent" /\ req'[s].opens = {}
    BY <1>10 DEF OperatorCommit, Answered, NoRequest, OperatorsNameAlerts
  <2>2. \A a \in AlertIds : alert'[a].status = "active" => alert'[a] = alert[a]
    BY <1>10, <2>1 DEF OperatorCommit, Alert
  <2>3. CheckinsHoldLocks' /\ RulesAreDistinct' /\ OperatorsNameAlerts'
    BY <2>1 DEF CheckinsHoldLocks, RulesAreDistinct, OperatorsNameAlerts
  <2>4. OpensAreFresh'
    BY <2>1, <2>2 DEF OpensAreFresh
  <2>5. OneActivePerRule'
    BY <2>2 DEF OneActivePerRule
  <2> QED
    BY <2>3, <2>4, <2>5
<1>11. CASE UNCHANGED vars \/ \E d \in Devices : Change(d)
  <2>1. UNCHANGED <<rule, alert, lock, req>>
    BY <1>11 DEF vars, Change
  <2> QED
    BY <2>1 DEF CheckinsHoldLocks, RulesAreDistinct, OpensAreFresh,
                OperatorsNameAlerts, OneActivePerRule
<1> QED
  BY <1>2, <1>3, <1>4, <1>5, <1>6, <1>7, <1>8, <1>9, <1>10, <1>11
  DEF Next, Sends, Works

-----------------------------------------------------------------------------
(* The inductive invariant holds throughout.                               *)
THEOREM AlertInvHolds == Spec => [](TypeOK /\ AlertInv)
<1>1. Init => TypeOK /\ AlertInv
  <2> SUFFICES ASSUME Init PROVE TypeOK /\ AlertInv
    OBVIOUS
  <2>1. TypeOK
    BY NoRequestType DEF Init, TypeOK
  <2>2. \A s \in Slots : /\ req[s].op = "idle" /\ req[s].phase = "sent"
                         /\ req[s].opens = {}
    BY DEF Init, NoRequest
  <2>3. \A a \in AlertIds : alert[a].status # "active"
    BY DEF Init, NoAlert
  <2> QED
    BY <2>1, <2>2, <2>3 DEF AlertInv, CheckinsHoldLocks, RulesAreDistinct, At,
                            OpensAreFresh, OperatorsNameAlerts, OneActivePerRule
<1>2. (TypeOK /\ AlertInv) /\ [Next]_vars => (TypeOK /\ AlertInv)'
  BY TypeStep, SafetyStep
<1> QED
  BY <1>1, <1>2, PTL DEF Spec

(* The alert tables and the requests keep their types.                     *)
THEOREM AlertTypesHold == Spec => []TypeOK
BY AlertInvHolds, PTL

(***************************************************************************)
(* No device ever has two active alerts under one alert_rules row, however *)
(* many check-ins, acknowledgements and resolutions overlap.               *)
(***************************************************************************)
THEOREM NoDuplicateAlerts == Spec => []OneActivePerRule
<1>1. TypeOK /\ AlertInv => OneActivePerRule
  BY DEF AlertInv
<1> QED
  BY AlertInvHolds, <1>1, PTL

-----------------------------------------------------------------------------
(***************************************************************************)
(* What an operator sees is the key of a rule, and nothing keeps two rows  *)
(* of one key apart: two first check-ins that overlap may insert both.     *)
(*                                                                         *)
(* A check-in uses rows of the keys it looked for, or new ones that no     *)
(* other check-in knows.                                                   *)
(***************************************************************************)
RowsMatchKeys ==
    \A s \in Slots, k \in Keys :
        LET r == req[s].rules[k] IN
        /\ At(s, "checkin", "ruled") => r # None
        /\ r # None =>
              /\ At(s, "checkin", "ruled")
              /\ \/ rule[r] = k
                 \/ /\ rule[r] = None
                    /\ \A t \in Slots \ {s}, j \in Keys : req[t].rules[j] # r

(* An active alert is of a committed rule.                                 *)
ActiveIsRuled ==
    \A a \in AlertIds :
        alert[a].status = "active" =>
            alert[a].rule \in Rules /\ rule[alert[a].rule] # None

KeyInv == RowsMatchKeys /\ ActiveIsRuled

(***************************************************************************)
(* The rules of the organization are there, one row of each key, and no    *)
(* check-in is in flight that has not found them.                          *)
(***************************************************************************)
UniqueRules ==
    \A q, r \in Rules : rule[q] # None /\ rule[q] = rule[r] => q = r

Settled ==
    /\ UniqueRules
    /\ \A k \in Keys : \E r \in Rules :
          /\ rule[r] = k
          /\ \A s \in Slots : req[s].rules[k] \in {None, r}

OneSlot == \A s, t \in Slots : s = t

-----------------------------------------------------------------------------
(* Only a check-in that finds its rules, or commits, changes rules.        *)
KeepsRules ==
    /\ rule' = rule
    /\ \A t \in Slots :
          \/ /\ req'[t].rules = req[t].rules
             /\ At(t, "checkin", "ruled")' <=> At(t, "checkin", "ruled")
          \/ req'[t].rules = NoRules /\ ~At(t, "checkin", "ruled")'
    /\ \A a \in AlertIds : alert'[a].status = "active" => alert'[a] = alert[a]

LEMMA RuleSteps ==
  ASSUME TypeOK, AlertInv, [Next]_vars
  PROVE  \/ KeepsRules
         \/ \E s \in Slots : EnsureRules(s) \/ CheckinCommit(s)
<1> USE DEF TypeOK, tables, At
<1>1. ASSUME NEW s \in Slots, NEW x \in Request, req' = [req EXCEPT ![s] = x],
             UNCHANGED <<rule, alert>>,
             x.rules = NoRules /\ x.phase # "ruled"
      PROVE  KeepsRules
  BY <1>1 DEF KeepsRules
<1>2. ASSUME NEW s \in Slots, Sends(s) PROVE KeepsRules
  <2>1. ASSUME NEW d \in Devices, SendCheckin(s, d) PROVE KeepsRules
    <3>1. PICK x : x = [NoRequest EXCEPT !.op = "checkin", !.dev = d, !.facts = facts[d]]
      OBVIOUS
    <3>2. x \in Request /\ x.rules = NoRules /\ x.phase = "sent"
      BY <3>1, NoRequestType DEF Request, NoRequest
    <3> QED
      BY <1>1, <2>1, <3>1, <3>2 DEF SendCheckin
  <2>2. ASSUME NEW a \in AlertIds, NEW op \in {"acknowledge", "resolve"},
               SendOperator(s, op, a)
        PROVE  KeepsRules
    <3>1. PICK x : x = [NoRequest EXCEPT !.op = op, !.alert = a]
      OBVIOUS
    <3>2. x \in Request /\ x.rules = NoRules /\ x.phase = "sent"
      BY <3>1, NoRequestType DEF Request, NoRequest
    <3> QED
      BY <1>1, <2>2, <3>1, <3>2 DEF SendOperator
  <2> QED
    BY <1>2, <2>1, <2>2 DEF Sends
<1>3. ASSUME NEW s \in Slots, NothingToDo(s) \/ Abort(s) PROVE KeepsRules
  BY <1>1, <1>3, NoRequestType DEF NothingToDo, Abort, Answered, NoRequest
<1>4. ASSUME NEW s \in Slots, OperatorCommit(s) PROVE KeepsRules
  <2>1. /\ \A t \in Slots \ {s} : req'[t] = req[t]
        /\ req'[s].rules = NoRules /\ req'[s].phase # "ruled" /\ rule' = rule
    BY <1>4 DEF OperatorCommit, Answered, NoRequest
  <2>2. \A a \in AlertIds : alert'[a].status = "active" => alert'[a] = alert[a]
    BY <1>4 DEF OperatorCommit, AlertInv, OperatorsNameAlerts, Alert
  <2> QED
    BY <2>1, <2>2 DEF KeepsRules
<1>5. ASSUME NEW s \in Slots, LockDevice(s) \/ LoadAlert(s) PROVE KeepsRules
  <2>1. PICK p \in {"locked", "loaded"} :
           /\ req' = [req EXCEPT ![s] = [req[s] EXCEPT !.phase = p]]
           /\ req[s].phase = "sent"
    BY <1>5 DEF LockDevice, LoadAlert
  <2>2. /\ \A t \in Slots \ {s} : req'[t] = req[t]
        /\ req'[s].rules = req[s].rules /\ req'[s].phase = p
    BY <2>1 DEF Request
  <2> QED
    BY <1>5, <2>1, <2>2 DEF LockDevice, LoadAlert, KeepsRules
<1>6. ASSUME NEW s \in Slots, NEW k \in Keys, EvaluateRule(s, k) PROVE KeepsRules
  <2>1. /\ \A t \in Slots \ {s} : req'[t] = req[t]
        /\ req'[s].op = req[s].op /\ req'[s].phase = req[s].phase
        /\ req'[s].rules = req[s].rules
    BY <1>6, EvaluationFrame
  <2> QED
    BY <1>6, <2>1 DEF EvaluateRule, KeepsRules
<1>7. CASE UNCHANGED vars \/ \E d \in Devices : Change(d)
  BY <1>7 DEF vars, Change, KeepsRules
<1> QED
  BY <1>2, <1>3, <1>4, <1>5, <1>6, <1>7 DEF Next, Works

(* A check-in finds, of each key, a row of that key or one nobody knows.   *)
LEMMA EnsuredRules ==
  ASSUME TypeOK, NEW s \in Slots, EnsureRules(s)
  PROVE  /\ UNCHANGED <<rule, alert>>
         /\ \A t \in Slots \ {s} : req'[t] = req[t]
         /\ At(s, "checkin", "ruled")'
         /\ req'[s].rules \in [Keys -> Rules]
         /\ \A k \in Keys : req'[s].rules[k] \in UsableRules(k)
<1>1. PICK f \in [Keys -> Rules] :
        /\ \A k \in Keys : f[k] \in UsableRules(k)
        /\ \A j, k \in Keys : f[j] = f[k] => j = k
        /\ req' = [req EXCEPT ![s].phase = "ruled", ![s].rules = f, ![s].todo = Keys]
  BY DEF EnsureRules
<1>2. /\ \A t \in Slots \ {s} : req'[t] = req[t]
      /\ req'[s].phase = "ruled" /\ req'[s].op = req[s].op /\ req'[s].rules = f
  BY <1>1 DEF TypeOK, Request
<1> QED
  BY <1>1, <1>2 DEF EnsureRules, At, tables

(* A commit stores the rows its check-in has found, under their keys.      *)
LEMMA CommittedRules ==
  ASSUME TypeOK, AlertInv, NEW s \in Slots, CheckinCommit(s)
  PROVE  /\ \A t \in Slots \ {s} : req'[t] = req[t]
         /\ req'[s] = NoRequest
         /\ \A k \in Keys : req[s].rules[k] \in Rules => rule'[req[s].rules[k]] = k
         /\ \A r \in Rules : (\A k \in Keys : req[s].rules[k] # r) => rule'[r] = rule[r]
<1>1. \A j, k \in Keys : req[s].rules[j] = req[s].rules[k] => j = k
  BY DEF CheckinCommit, AlertInv, RulesAreDistinct
<1>2. rule' = [x \in Rules |-> IF \E k \in Keys : req[s].rules[k] = x
                               THEN CHOOSE k \in Keys : req[s].rules[k] = x
                               ELSE rule[x]]
  BY DEF CheckinCommit
<1>3. ASSUME NEW k \in Keys, req[s].rules[k] \in Rules
      PROVE  rule'[req[s].rules[k]] = k
  <2> DEFINE x == req[s].rules[k]
             j == CHOOSE j \in Keys : req[s].rules[j] = x
  <2>1. j \in Keys /\ req[s].rules[j] = x
    OBVIOUS
  <2>2. rule'[x] = j
    BY <1>2, <1>3
  <2> QED
    BY <1>1, <2>1, <2>2
<1> QED
  BY <1>2, <1>3 DEF CheckinCommit, Answered, TypeOK

(* A committed rule keeps its key.                                         *)
LEMMA RuleKept ==
  ASSUME TypeOK, AlertInv, RowsMatchKeys, [Next]_vars, NEW r \in Rules, rule[r] # None
  PROVE  rule'[r] = rule[r]
<1>1. ASSUME NEW s \in Slots, CheckinCommit(s) PROVE rule'[r] = rule[r]
  <2>1. ASSUME NEW k \in Keys, req[s].rules[k] = r PROVE rule'[r] = rule[r]
    <3>1. rule[r] = k
      BY <2>1, NullAssumption DEF RowsMatchKeys
    <3> QED
      BY <1>1, <2>1, <3>1, CommittedRules
  <2> QED
    BY <1>1, <2>1, CommittedRules
<1> QED
  BY <1>1, RuleSteps, EnsuredRules DEF KeepsRules

LEMMA KeyStep == TypeOK /\ AlertInv /\ KeyInv /\ [Next]_vars => KeyInv'
<1> SUFFICES ASSUME TypeOK, AlertInv, KeyInv, [Next]_vars PROVE KeyInv'
  OBVIOUS
<1> USE NullAssumption
<1>1. CASE KeepsRules
  BY <1>1 DEF KeepsRules, KeyInv, RowsMatchKeys, ActiveIsRuled, NoRules
<1>2. ASSUME NEW s \in Slots, EnsureRules(s) PROVE KeyInv'
  <2>1. /\ UNCHANGED <<rule, alert>>
        /\ \A t \in Slots \ {s} : req'[t] = req[t]
        /\ At(s, "checkin", "ruled")'
        /\ \A k \in Keys :
              /\ req'[s].rules[k] \in Rules
              /\ \/ rule[req'[s].rules[k]] = k
                 \/ /\ rule[req'[s].rules[k]] = None
                    /\ \A t \in Slots, j \in Keys : req[t].rules[j] # req'[s].rules[k]
    BY <1>2, EnsuredRules DEF UsableRules
  <2>2. ASSUME NEW t \in Slots, NEW k \in Keys, req'[t].rules[k] # None
        PROVE  /\ At(t, "checkin", "ruled")'
               /\ \/ rule'[req'[t].rules[k]] = k
                  \/ /\ rule'[req'[t].rules[k]] = None
                     /\ \A u \in Slots \ {t}, j \in Keys :
                           req'[u].rules[j] # req'[t].rules[k]
    <3>1. CASE t = s
      BY <2>1, <3>1
    <3>2. CASE t # s
      BY <2>1, <2>2, <3>2 DEF KeyInv, RowsMatchKeys, At
    <3> QED
      BY <3>1, <3>2
  <2>3. \A t \in Slots, k \in Keys : At(t, "checkin", "ruled")' => req'[t].rules[k] # None
    BY <2>1 DEF KeyInv, RowsMatchKeys, At
  <2>4. RowsMatchKeys'
    BY <2>2, <2>3 DEF RowsMatchKeys
  <2> QED
    BY <2>1, <2>4 DEF KeyInv, ActiveIsRuled
<1>3. ASSUME NEW s \in Slots, CheckinCommit(s) PROVE KeyInv'
  <2>1. /\ \A t \in Slots \ {s} : req'[t] = req[t]
        /\ ~At(s, "checkin", "ruled")' /\ \A k \in Keys : req'[s].rules[k] = None
    BY <1>3, CommittedRules DEF NoRequest, NoRules, At
  <2>2. \A k \in Keys : req[s].rules[k] \in Rules /\ rule'[req[s].rules[k]] = k
    BY <1>3, CommittedRules DEF CheckinCommit, KeyInv, RowsMatchKeys, TypeOK, Request
  <2>3. \A r \in Rules : (\A k \in Keys : req[s].rules[k] # r) => rule'[r] = rule[r]
    BY <1>3, CommittedRules
  <2>4. RowsMatchKeys'
    <3>1. ASSUME NEW t \in Slots \ {s}, NEW k \in Keys, req[t].rules[k] # None
          PROVE  \/ rule'[req[t].rules[k]] = k
                 \/ /\ rule'[req[t].rules[k]] = None
                    /\ \A u \in Slots \ {t}, j \in Keys : req'[u].rules[j] # req[t].rules[k]
      <4>1. req[t].rules[k] \in Rules
        BY <3>1 DEF TypeOK, Request
      <4>2. CASE rule[req[t].rules[k]] = k
        BY <1>3, <4>1, <4>2, RuleKept DEF KeyInv
      <4>3. CASE /\ rule[req[t].rules[k]] = None
                 /\ \A u \in Slots \ {t}, j \in Keys : req[u].rules[j] # req[t].rules[k]
        BY <2>1, <2>3, <3>1, <4>1, <4>3
      <4> QED
        BY <3>1, <4>2, <4>3 DEF KeyInv, RowsMatchKeys
    <3> QED
      BY <2>1, <3>1 DEF RowsMatchKeys, KeyInv, At
  <2>5. ASSUME NEW a \in AlertIds, alert'[a].status = "active"
        PROVE  alert'[a].rule \in Rules /\ rule'[alert'[a].rule] # None
    <3>1. CASE alert'[a] = alert[a]
      BY <2>5, <3>1, RuleKept DEF KeyInv, ActiveIsRuled
    <3>2. CASE \E k \in req[s].opens : alert'[a].rule = req[s].rules[k]
      BY <2>2, <3>2 DEF TypeOK, Request
    <3> QED
      BY <1>3, <2>5, <3>1, <3>2, CommitOpens
  <2> QED
    BY <2>4, <2>5 DEF KeyInv, ActiveIsRuled
<1> QED
  BY <1>1, <1>2, <1>3, RuleSteps

(* Rows and alerts go with their keys throughout.                          *)
THEOREM KeyInvHolds == Spec => []KeyInv
<1>1. Init => KeyInv
  BY DEF Init, KeyInv, RowsMatchKeys, ActiveIsRuled, NoRequest, NoRules, NoAlert, At
<1>2. TypeOK /\ AlertInv /\ KeyInv /\ [Next]_vars => KeyInv'
  BY KeyStep
<1> QED
  BY <1>1, <1>2, AlertInvHolds, PTL DEF Spec

(***************************************************************************)
(* A committed rule is never given another key.                            *)
(***************************************************************************)
RuleIsKept == [][\A r \in Rules : rule[r] # None => rule'[r] = rule[r]]_vars

(* ensure_default_alert_rules only ever adds rows.                         *)
THEOREM RulesAreKept == Spec => RuleIsKept
<1>1. TypeOK /\ AlertInv /\ KeyInv /\ [Next]_vars
        => [\A r \in Rules : rule[r] # None => rule'[r] = rule[r]]_vars
  BY RuleKept DEF KeyInv
<1> QED
  BY <1>1, KeyInvHolds, AlertInvHolds, PTL DEF Spec, RuleIsKept

(***************************************************************************)
(* One alert per key is as much as one row per key: while the rules are    *)
(* unique, the documentation's promise (finding F3) is kept.               *)
(***************************************************************************)
LEMMA UniqueRulesSuffice ==
  OneActivePerRule /\ KeyInv /\ UniqueRules => OneActivePerKey
BY DEF OneActivePerRule, KeyInv, ActiveIsRuled, UniqueRules, OneActivePerKey

(* Rules that are settled stay settled.                                    *)
LEMMA SettledStays ==
  ASSUME TypeOK, AlertInv, KeyInv, Settled, [Next]_vars
  PROVE  Settled'
<1> USE NullAssumption
<1>1. CASE KeepsRules
  BY <1>1 DEF KeepsRules, Settled, UniqueRules, NoRules
<1>2. ASSUME NEW s \in Slots, EnsureRules(s) PROVE Settled'
  <2>1. /\ UNCHANGED rule
        /\ \A t \in Slots \ {s} : req'[t] = req[t]
        /\ \A k \in Keys : req'[s].rules[k] \in UsableRules(k)
    BY <1>2, EnsuredRules
  <2>2. ASSUME NEW k \in Keys
        PROVE  \E r \in Rules : /\ rule'[r] = k
                                /\ \A t \in Slots : req'[t].rules[k] \in {None, r}
    <3>1. PICK r \in Rules : /\ rule[r] = k
                             /\ \A t \in Slots : req[t].rules[k] \in {None, r}
      BY DEF Settled
    <3>2. UsableRules(k) = {r}
      BY <3>1 DEF UsableRules, Settled, UniqueRules
    <3> QED
      BY <2>1, <3>1, <3>2
  <2> QED
    BY <2>1, <2>2 DEF Settled, UniqueRules
<1>3. ASSUME NEW s \in Slots, CheckinCommit(s) PROVE Settled'
  <2>1. \A k \in Keys : /\ req[s].rules[k] \in Rules
                        /\ rule[req[s].rules[k]] = k
                        /\ rule'[req[s].rules[k]] = k
    BY <1>3, CommittedRules DEF CheckinCommit, KeyInv, RowsMatchKeys, Settled, TypeOK,
       Request
  <2>2. \A r \in Rules : rule'[r] = rule[r]
    BY <1>3, <2>1, CommittedRules
  <2>3. \A t \in Slots, k \in Keys : req'[t].rules[k] \in {req[t].rules[k], None}
    BY <1>3, CommittedRules DEF NoRequest, NoRules
  <2> QED
    BY <2>2, <2>3 DEF Settled, UniqueRules
<1> QED
  BY <1>1, <1>2, <1>3, RuleSteps

(***************************************************************************)
(* Once every key has one row and no check-in that missed it is in flight, *)
(* there is one active alert per device and key for good: only the first   *)
(* check-ins of an organization can break the promise.                     *)
(***************************************************************************)
THEOREM SettledKeepsPromise == Spec => [](Settled => []OneActivePerKey)
<1>1. TypeOK /\ AlertInv /\ KeyInv /\ Settled /\ [Next]_vars => Settled'
  BY SettledStays
<1>2. AlertInv /\ KeyInv /\ Settled => OneActivePerKey
  BY UniqueRulesSuffice DEF AlertInv, Settled
<1> QED
  BY <1>1, <1>2, AlertInvHolds, KeyInvHolds, PTL DEF Spec

(***************************************************************************)
(* And they only break it by overlapping: with one request at a time the   *)
(* rules are unique, so that one active alert per key is all there is.     *)
(***************************************************************************)
THEOREM SerialKeepsPromise == OneSlot => (Spec => []OneActivePerKey)
<1> SUFFICES ASSUME OneSlot PROVE Spec => []OneActivePerKey
  OBVIOUS
<1> DEFINE Fresh == \A s \in Slots, k \in Keys :
                      req[s].rules[k] # None /\ rule[req[s].rules[k]] = None
                        => \A r \in Rules : rule[r] # k
           I == UniqueRules /\ Fresh
<1>1. Init => I
  BY NullAssumption DEF Init, UniqueRules, NoRequest, NoRules
<1>2. TypeOK /\ AlertInv /\ KeyInv /\ I /\ [Next]_vars => I'
  <2> SUFFICES ASSUME TypeOK, AlertInv, KeyInv, I, [Next]_vars PROVE I'
    OBVIOUS
  <2> USE NullAssumption
  <2>1. CASE KeepsRules
    BY <2>1 DEF KeepsRules, UniqueRules, NoRules
  <2>2. ASSUME NEW s \in Slots, EnsureRules(s) PROVE I'
    <3>1. /\ rule' = rule
          /\ \A k \in Keys : req'[s].rules[k] \in UsableRules(k)
      BY <2>2, EnsuredRules
    <3>2. UniqueRules'
      BY <3>1 DEF UniqueRules
    <3>3. Fresh'
      BY <3>1 DEF UsableRules, OneSlot
    <3> QED
      BY <3>2, <3>3
  <2>3. ASSUME NEW s \in Slots, CheckinCommit(s) PROVE I'
    <3>1. \A k \in Keys : req[s].rules[k] \in Rules /\ rule'[req[s].rules[k]] = k
      <4>1. \A k \in Keys : req[s].rules[k] # None
        BY <2>3 DEF CheckinCommit, KeyInv, RowsMatchKeys
      <4>2. req[s].rules \in [Keys -> Rules \cup {None}]
        BY DEF TypeOK, Request
      <4>3. \A k \in Keys : req[s].rules[k] \in Rules
        BY <4>1, <4>2
      <4> QED
        BY <2>3, <4>3, CommittedRules
    <3>2. \A r \in Rules : (\A k \in Keys : req[s].rules[k] # r) => rule'[r] = rule[r]
      BY <2>3, CommittedRules
    <3>3. ASSUME NEW k \in Keys, NEW r \in Rules, rule'[r] = k PROVE r = req[s].rules[k]
      <4>1. CASE \E j \in Keys : req[s].rules[j] = r
        BY <3>1, <3>3, <4>1
      <4>2. CASE \A j \in Keys : req[s].rules[j] # r
        <5>1. rule[r] = k
          BY <3>2, <3>3, <4>2
        <5>2. rule[req[s].rules[k]] = k
          BY <3>1, <5>1 DEF KeyInv, RowsMatchKeys
        <5> QED
          BY <3>1, <5>1, <5>2 DEF UniqueRules
      <4> QED
        BY <4>1, <4>2
    <3>4. \A r \in Rules : rule'[r] \in Keys \cup {None}
      BY TypeStep DEF TypeOK
    <3>5. UniqueRules'
      BY <3>3, <3>4 DEF UniqueRules
    <3>6. Fresh'
      BY <2>3, CommittedRules DEF NoRequest, NoRules, OneSlot
    <3> QED
      BY <3>5, <3>6
  <2> QED
    BY <2>1, <2>2, <2>3, RuleSteps
<1>3. AlertInv /\ KeyInv /\ I => OneActivePerKey
  BY UniqueRulesSuffice DEF AlertInv
<1> HIDE DEF I
<1> QED
  BY <1>1, <1>2, <1>3, AlertInvHolds, KeyInvHolds, PTL DEF Spec
=============================================================================
