----------------------------- MODULE Enrolments ------------------------------
(***************************************************************************)
(* What POST /agent/enroll promises: an enrolment takes effect at one      *)
(* instant and as a whole.  It spends a use of the token, the machine has  *)
(* a device, and its agent a new secret and that device; the secret before *)
(* is void, whichever machine of that machine_identifier has it.  Nothing  *)
(* else touches these tables.  Enrollment, whose requests overlap, lose    *)
(* rows to a rival and die on the way, implements it.                      *)
(***************************************************************************)
EXTENDS Naturals

CONSTANTS Machines, Tokens, MaxUses, DeviceIds, Secrets, None

VARIABLES uses, device, via, agent

rows == <<uses, device, via, agent>>

Init ==
    /\ uses = [t \in Tokens |-> 0]
    /\ device = [d \in DeviceIds |-> None]
    /\ via = [d \in DeviceIds |-> None]
    /\ agent = [m \in Machines |-> [dev |-> None, secret |-> None]]

DevicesOf(m) == {d \in DeviceIds : device[d] = m}

SpendUse(t) == uses[t] < MaxUses[t] /\ uses' = [uses EXCEPT ![t] = @ + 1]

KnownDevice(m) == DevicesOf(m) # {} /\ UNCHANGED <<device, via>>

(* A second row of a machine takes another token.                          *)
NewDevice(m, t) ==
    /\ \A e \in DevicesOf(m) : via[e] # t
    /\ \E d \in DeviceIds :
        /\ device[d] = None
        /\ device' = [device EXCEPT ![d] = m]
        /\ via' = [via EXCEPT ![d] = t]

Register(m) ==
    \E d \in DevicesOf(m)', x \in Secrets :
        /\ \A n \in Machines : agent[n].secret # x
        /\ agent' = [agent EXCEPT ![m] = [dev |-> d, secret |-> x]]

Enroll(m, t) ==
    /\ SpendUse(t)
    /\ KnownDevice(m) \/ NewDevice(m, t)
    /\ Register(m)

Next == \E m \in Machines, t \in Tokens : Enroll(m, t)

Spec == Init /\ [][Next]_rows
=============================================================================
