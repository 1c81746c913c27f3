------------------------------- MODULE MCDevices -------------------------------
EXTENDS Devices, TLC
Symmetry == Permutations(Slots) \cup Permutations(Checkins) \cup Permutations(Hardware)

(* Whether a device is online and where its link leads have nothing to do  *)
(* with each other: TLC looks at both, but one at a time.                  *)
PresenceOrLinks ==
    \/ recent /\ online
    \/ links = <<>> /\ \A s \in Slots : ~req[s].remote
=============================================================================
