---------------------------- MODULE JobLifecycle -----------------------------
(***************************************************************************)
(* What the job API promises an operator: the life of each job, with every *)
(* request taking effect at one instant.  JobServer, with requests that    *)
(* read and write at different times, implements it as long as requests do *)
(* not overlap.                                                            *)
(***************************************************************************)
CONSTANTS Jobs

VARIABLES state  \* where each job is in its life

NotCreated == [j \in Jobs |-> "none"]

Init == state = NotCreated

Move(J, to) == state' = [j \in Jobs |-> IF j \in J THEN to ELSE state[j]]

In(states) == {j \in Jobs : state[j] \in states}

Create(j) == j \in In({"none"}) /\ Move({j}, "queued")

(***************************************************************************)
(* One poll or list: overdue jobs expire and queued jobs are handed out.   *)
(***************************************************************************)
Sweep(E, B) ==
    /\ E \subseteq In({"queued", "assigned", "running"})
    /\ B \subseteq In({"queued"})
    /\ state' = [j \in Jobs |-> IF j \in B THEN "assigned"
                                ELSE IF j \in E THEN "expired" ELSE state[j]]

Start(j) == j \in In({"queued", "assigned"}) /\ Move({j}, "running")

Finish(j) ==
    /\ j \in In({"running"})
    /\ \E outcome \in {"succeeded", "failed"} : Move({j}, outcome)

Cancel(j) == j \in In({"queued", "assigned", "running"}) /\ Move({j}, "canceled")

Next ==
    \/ \E j \in Jobs : Create(j) \/ Start(j) \/ Finish(j) \/ Cancel(j)
    \/ \E E, B \in SUBSET Jobs : Sweep(E, B)

Spec == Init /\ [][Next]_state
=============================================================================
