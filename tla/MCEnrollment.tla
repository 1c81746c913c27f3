---------------------------- MODULE MCEnrollment ----------------------------
(* Constants of Enrollment for TLC: a token of one use beside one of two.  *)
EXTENDS Enrollment

CONSTANTS t1, m1

OneAndTwo == [t \in Tokens |-> IF t = t1 THEN 1 ELSE 2]

(* The hosts have the same name, as far as there are no more identifiers.  *)
Namesakes == [h \in Hosts |-> m1]

(* It makes no difference which free slot a request takes, which unused    *)
(* device and secret it gets, and when a token expires that is used up or  *)
(* that nobody looks at because it is locked.                              *)
AnyUnused ==
    /\ \A s \in Slots :
        /\ req[s].phase = "idle" /\ req'[s].phase # "idle" =>
              s = CHOOSE u \in Slots : req[u].phase = "idle"
        /\ req[s].phase = "locked" /\ req'[s].phase = "found" /\ req'[s].isNew =>
              req'[s].dev = CHOOSE d \in NewDeviceIds : TRUE
        /\ req[s].phase = "found" /\ req'[s].phase = "ready" =>
              req'[s].secret = CHOOSE x \in NewSecrets : TRUE
    /\ \A t \in Tokens : expired'[t] # expired[t] => uses[t] < MaxUses[t] /\ lock[t] = None
=============================================================================
