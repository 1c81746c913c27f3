------------------------------- MODULE Alerts -------------------------------
(***************************************************************************)
(* Alert rules and alerts of one organization: the evaluation that runs    *)
(* inside every check-in (backend/app/core/alerts.py, the /agent/checkin   *)
(* route of api/agent.py) and the operators' acknowledge and resolve       *)
(* (api/alerts.py).                                                        *)
(*                                                                         *)
(* A check-in flushes its UPDATE of the device row before it evaluates, so *)
(* check-ins of one device wait for each other until the commit; check-ins *)
(* of two devices and the requests of operators overlap freely.  What a    *)
(* device reports is abstracted to the set of rule keys whose condition    *)
(* holds on it.                                                            *)
(***************************************************************************)
EXTENDS Naturals, FiniteSets

CONSTANTS
    Devices,   \* the devices of the organization
    Keys,      \* the default rules considered, by rule_key
    Rules,     \* identities of alert_rules rows
    AlertIds,  \* identities of alerts rows
    Slots,     \* requests the server works on at the same time
    None       \* SQL NULL

\* default_rule_definitions.
DefaultRuleKeys == {"device_offline", "low_disk_free_space", "high_memory_usage",
                    "defender_disabled", "firewall_disabled", "pending_reboot",
                    "windows_updates_stale", "agent_version_outdated",
                    "inventory_not_refreshed"}

ASSUME KeysAssumption == Keys \subseteq DefaultRuleKeys

ASSUME NullAssumption == None \notin Devices \cup Keys \cup Rules \cup AlertIds \cup Slots

VARIABLES
    facts,   \* the conditions that hold on each device, by rule key
    rule,    \* the key of each committed alert_rules row
    alert,   \* the alerts rows
    lock,    \* the request that holds the row lock of each device
    req      \* the request in each slot

tables == <<rule, alert>>
vars == <<facts, rule, alert, lock, req>>

Alert == [dev : Devices \cup {None}, rule : Rules \cup {None},
          status : {"none", "active", "acknowledged", "resolved"}]

NoAlert == [dev |-> None, rule |-> None, status |-> "none"]

(***************************************************************************)
(* phase: "sent", "locked" (the device row is updated), "ruled" (the rules *)
(* are read, or inserted but not committed), "loaded" (only the commit is  *)
(* left, for the requests of operators).  `opens` and `closes` are the     *)
(* decisions a check-in has taken for the rules no longer in `todo`.       *)
(***************************************************************************)
Request == [op     : {"idle", "checkin", "acknowledge", "resolve"},
            phase  : {"sent", "locked", "ruled", "loaded"},
            dev    : Devices \cup {None},
            alert  : AlertIds \cup {None},
            facts  : SUBSET Keys,
            rules  : [Keys -> Rules \cup {None}],
            todo   : SUBSET Keys,
            opens  : SUBSET Keys,
            closes : SUBSET AlertIds]

NoRules == [k \in Keys |-> None]

NoRequest == [op |-> "idle", phase |-> "sent", dev |-> None, alert |-> None,
              facts |-> {}, rules |-> NoRules, todo |-> {}, opens |-> {},
              closes |-> {}]

Init ==
    /\ facts = [d \in Devices |-> {}]
    /\ rule  = [r \in Rules |-> None]
    /\ alert = [a \in AlertIds |-> NoAlert]
    /\ lock  = [d \in Devices |-> None]
    /\ req   = [s \in Slots |-> NoRequest]

-----------------------------------------------------------------------------
At(s, op, phase) == req[s].op = op /\ req[s].phase = phase

Answered(s) == req' = [req EXCEPT ![s] = NoRequest]

Unlocked(s) == [d \in Devices |-> IF lock[d] = s THEN None ELSE lock[d]]

\* Faulty variant: an acknowledged alert no longer counts as open.
OpenAlertsActive(d, r) ==
    {a \in AlertIds : alert[a].dev = d /\ alert[a].rule = r /\ alert[a].status = "active"}

\* Faulty variant: a resolved alert is found again.
OpenAlertsAny(d, r) == {a \in AlertIds : alert[a].dev = d /\ alert[a].rule = r}

(***************************************************************************)
(* The rows _apply_result selects for a device and a rule.                 *)
(***************************************************************************)
OpenAlerts(d, r) ==
    {a \in AlertIds : /\ alert[a].dev = d
                      /\ alert[a].rule = r
                      /\ alert[a].status \in {"active", "acknowledged"}}

(***************************************************************************)
(* The rules whose condition evaluate_device_alerts finds active.  When it *)
(* runs, last_seen_at has just been set to now, so device_offline never    *)
(* is; and checkin_payload has no memory_used_bytes, so high_memory_usage  *)
(* never is either.  The others read what this check-in has just stored.   *)
(***************************************************************************)
Detected(r) == r.facts \ {"device_offline", "high_memory_usage"}

-----------------------------------------------------------------------------
(* POST /agent/checkin: the agent reports the conditions of the moment.    *)
SendCheckin(s, d) ==
    /\ req[s] = NoRequest
    /\ req' = [req EXCEPT ![s] = [NoRequest EXCEPT !.op = "checkin", !.dev = d,
                                                   !.facts = facts[d]]]
    /\ UNCHANGED <<facts, tables, lock>>

\* Faulty variant: the device row is not written before the evaluation.
LockDeviceNever(s) ==
    /\ At(s, "checkin", "sent")
    /\ req' = [req EXCEPT ![s].phase = "locked"]
    /\ UNCHANGED <<facts, tables, lock>>

(***************************************************************************)
(* db.flush() writes the device row, which another check-in may hold.      *)
(***************************************************************************)
LockDevice(s) ==
    /\ At(s, "checkin", "sent")
    /\ lock[req[s].dev] = None
    /\ lock' = [lock EXCEPT ![req[s].dev] = s]
    /\ req' = [req EXCEPT ![s].phase = "locked"]
    /\ UNCHANGED <<facts, tables>>

(***************************************************************************)
(* ensure_default_alert_rules: for each key the row found, whichever of    *)
(* several comes last, or a new one, not yet visible to others.            *)
(***************************************************************************)
UsableRules(k) ==
    IF \E r \in Rules : rule[r] = k
    THEN {r \in Rules : rule[r] = k}
    ELSE {r \in Rules : /\ rule[r] = None
                        /\ \A t \in Slots, j \in Keys : req[t].rules[j] # r}

EnsureRules(s) ==
    /\ At(s, "checkin", "locked")
    /\ \E f \in [Keys -> Rules] :
        /\ \A k \in Keys : f[k] \in UsableRules(k)
        /\ \A j, k \in Keys : f[j] = f[k] => j = k
        /\ req' = [req EXCEPT ![s].phase = "ruled", ![s].rules = f,
                              ![s].todo = Keys]
    /\ UNCHANGED <<facts, tables, lock>>

(* A check-in has decided on rule k: what it opens, or what it closes.     *)
Decided(r, k, opens) == [r EXCEPT !.todo = @ \ {k}, !.opens = opens]
Cleared(r, k, a) == [r EXCEPT !.todo = @ \ {k}, !.closes = @ \cup {a}]

(***************************************************************************)
(* _apply_result for one rule: look for an open alert and decide.  A new   *)
(* or repeated detection never touches the status of an existing alert.    *)
(***************************************************************************)
EvaluateRule(s, k) ==
    LET open     == OpenAlerts(req[s].dev, req[s].rules[k])
        detected == k \in Detected(req[s])
    IN
    /\ At(s, "checkin", "ruled")
    /\ k \in req[s].todo
    /\ \/ /\ detected \/ open = {}
          /\ req' = [req EXCEPT ![s] = Decided(@, k, IF detected /\ open = {}
                                                    THEN @.opens \cup {k} ELSE @.opens)]
       \/ /\ ~detected
          /\ \E a \in open : req' = [req EXCEPT ![s] = Cleared(@, k, a)]
    /\ UNCHANGED <<facts, tables, lock>>

(***************************************************************************)
(* Rows a new alert may take: never used, or resolved and read by no       *)
(* request (such a row never changes again).                               *)
(***************************************************************************)
FreeAlerts ==
    {a \in AlertIds : /\ alert[a].status \in {"none", "resolved"}
                      /\ \A t \in Slots : a # req[t].alert /\ a \notin req[t].closes}

CheckinCommit(s) ==
    LET r == req[s] IN
    /\ At(s, "checkin", "ruled")
    /\ r.todo = {}
    /\ \E new \in [r.opens -> FreeAlerts] :
        /\ \A j, k \in r.opens : new[j] = new[k] => j = k
        /\ alert' = [a \in AlertIds |->
              IF \E k \in r.opens : new[k] = a
              THEN [dev |-> r.dev, status |-> "active",
                    rule |-> r.rules[CHOOSE k \in r.opens : new[k] = a]]
              ELSE IF a \in r.closes THEN [alert[a] EXCEPT !.status = "resolved"]
              ELSE alert[a]]
    /\ rule' = [x \in Rules |-> IF \E k \in Keys : r.rules[k] = x
                                THEN CHOOSE k \in Keys : r.rules[k] = x
                                ELSE rule[x]]
    /\ lock' = Unlocked(s)
    /\ Answered(s)
    /\ UNCHANGED facts

-----------------------------------------------------------------------------
(* POST /alerts/{id}/acknowledge and /resolve: load, check, write back.    *)
SendOperator(s, op, a) ==
    /\ req[s] = NoRequest
    /\ alert[a] # NoAlert
    /\ req' = [req EXCEPT ![s] = [NoRequest EXCEPT !.op = op, !.alert = a]]
    /\ UNCHANGED <<facts, tables, lock>>

MayChange(op, a) ==
    \/ op = "acknowledge" /\ alert[a].status = "active"
    \/ op = "resolve" /\ alert[a].status # "resolved"

LoadAlert(s) ==
    /\ req[s].op \in {"acknowledge", "resolve"} /\ req[s].phase = "sent"
    /\ MayChange(req[s].op, req[s].alert)
    /\ req' = [req EXCEPT ![s].phase = "loaded"]
    /\ UNCHANGED <<facts, tables, lock>>

NothingToDo(s) ==
    /\ req[s].op \in {"acknowledge", "resolve"} /\ req[s].phase = "sent"
    /\ ~MayChange(req[s].op, req[s].alert)
    /\ Answered(s)
    /\ UNCHANGED <<facts, tables, lock>>

\* Faulty variant: a status the schema does not know.
OperatorCommitClosed(s) ==
    /\ req[s].phase = "loaded"
    /\ alert' = [alert EXCEPT ![req[s].alert].status =
                    IF req[s].op = "acknowledge" THEN "acknowledged" ELSE "closed"]
    /\ Answered(s)
    /\ UNCHANGED <<facts, rule, lock>>

OperatorCommit(s) ==
    /\ req[s].phase = "loaded"
    /\ alert' = [alert EXCEPT ![req[s].alert].status =
                    IF req[s].op = "acknowledge" THEN "acknowledged" ELSE "resolved"]
    /\ Answered(s)
    /\ UNCHANGED <<facts, rule, lock>>

-----------------------------------------------------------------------------
(* A request that dies: the session is rolled back, its locks are released.*)
Abort(s) ==
    /\ req[s] # NoRequest
    /\ Answered(s)
    /\ lock' = Unlocked(s)
    /\ UNCHANGED <<facts, tables>>

(* The conditions on a device change.                                      *)
Change(d) ==
    /\ \E F \in SUBSET Keys : facts' = [facts EXCEPT ![d] = F]
    /\ UNCHANGED <<tables, lock, req>>

-----------------------------------------------------------------------------
Works(s) ==
    \/ LockDevice(s) \/ EnsureRules(s) \/ \E k \in Keys : EvaluateRule(s, k)
    \/ CheckinCommit(s)
    \/ LoadAlert(s) \/ NothingToDo(s) \/ OperatorCommit(s)

Sends(s) ==
    \/ \E d \in Devices : SendCheckin(s, d)
    \/ \E a \in AlertIds, op \in {"acknowledge", "resolve"} : SendOperator(s, op, a)

Next ==
    \/ \E s \in Slots : Sends(s) \/ Works(s) \/ Abort(s)
    \/ \E d \in Devices : Change(d)

Spec == Init /\ [][Next]_vars

(***************************************************************************)
(* A server that works off what it received.                               *)
(***************************************************************************)
FairServer == Spec /\ \A s \in Slots : WF_vars(Works(s))

(***************************************************************************)
(* ... and agents that keep checking in: any request may be lost or fail,  *)
(* but no device stops for good to get check-ins through.                  *)
(***************************************************************************)
FairCheckins ==
    /\ FairServer
    /\ \A d \in Devices :
        []<><<\E s \in Slots : req[s].dev = d /\ CheckinCommit(s)>>_vars

-----------------------------------------------------------------------------
(* Type invariant.                                                         *)
TypeOK ==
    /\ facts \in [Devices -> SUBSET Keys]
    /\ rule  \in [Rules -> Keys \cup {None}]
    /\ alert \in [AlertIds -> Alert]
    /\ lock  \in [Devices -> Slots \cup {None}]
    /\ req   \in [Slots -> Request]

(***************************************************************************)
(* Evaluation never duplicates an active alert of a device and a rule,     *)
(* however check-ins, acknowledgements and resolutions overlap: nothing in *)
(* the schema says so, it rests on the device row written first.           *)
(***************************************************************************)
OneActivePerRule ==
    \A a, b \in AlertIds :
        /\ alert[a].status = "active" /\ alert[b].status = "active"
        /\ alert[a].dev = alert[b].dev /\ alert[a].rule = alert[b].rule
        => a = b

(* An alert of a device under a rule with this key.                        *)
Concerns(a, d, k) == alert[a].dev = d /\ alert[a].rule \in Rules /\ rule[alert[a].rule] = k

Open(a) == alert[a].status \in {"active", "acknowledged"}

OpenFor(d, k) == \E a \in AlertIds : Concerns(a, d, k) /\ Open(a)

(***************************************************************************)
(* Once a condition is gone for good, the alerts of its rule are closed    *)
(* for good, also those a late acknowledge has reopened -- under each row  *)
(* of the rule that check-ins of the device keep evaluating.  They do with *)
(* the only row of a key.  Of several rows (see OneActivePerKey) each      *)
(* check-in evaluates one, and _apply_result sees the alerts of that one.  *)
(***************************************************************************)
KeepsUsing(d, r) ==
    []<><<\E s \in Slots, k \in Keys :
            req[s].dev = d /\ req[s].rules[k] = r /\ CheckinCommit(s)>>_vars

OpenUnder(d, r) == \E a \in AlertIds : alert[a].dev = d /\ alert[a].rule = r /\ Open(a)

ClearedAlertsClose ==
    \A d \in Devices, r \in Rules :
        /\ \E k \in Keys : <>[](rule[r] = k /\ k \notin facts[d])
        /\ KeepsUsing(d, r)
        => <>[]~OpenUnder(d, r)

(***************************************************************************)
(* A condition that stays on a device has an open alert again and again,   *)
(* whatever operators resolve.                                             *)
(***************************************************************************)
PersistentConditionsAlert ==
    \A d \in Devices, k \in Keys \ {"device_offline", "high_memory_usage"} :
        <>[](k \in facts[d]) => []<>OpenFor(d, k)

(***************************************************************************)
(* docs/Architecture.md: evaluation "creates one active alert per device/  *)
(* rule", for the rule an operator sees, which is its key.                 *)
(***************************************************************************)
OneActivePerKey ==
    \A a, b \in AlertIds :
        /\ alert[a].status = "active" /\ alert[b].status = "active"
        /\ alert[a].dev = alert[b].dev /\ rule[alert[a].rule] = rule[alert[b].rule]
        => a = b
=============================================================================
