------------------------------ MODULE MCAlerts ------------------------------
(* Constants and bounds of Alerts for TLC.                                 *)
EXTENDS Alerts, TLC

CONSTANTS d1

Symmetry == Permutations(AlertIds) \cup Permutations(Slots) \cup Permutations(Rules)

(* Conditions come and go on one device; the others only check in.         *)
OneTroubled == \A d \in Devices \ {d1} : facts[d] = {}

(* It makes no difference which free slot a request takes, and which of    *)
(* the free rows a new rule or a new alert gets.                           *)
AnyUnused ==
    /\ \A s \in Slots :
        /\ req[s].op = "idle" /\ req'[s].op # "idle" =>
              s = CHOOSE u \in Slots : req[u].op = "idle"
        /\ req[s].phase = "locked" /\ req'[s].phase = "ruled" =>
              \A k \in Keys : rule[req'[s].rules[k]] = None =>
                  req'[s].rules[k] = CHOOSE r \in UsableRules(k) : TRUE
    /\ \A a \in AlertIds :
        alert[a].status # "active" /\ alert'[a].status = "active" =>
            a = CHOOSE b \in FreeAlerts : TRUE
=============================================================================
