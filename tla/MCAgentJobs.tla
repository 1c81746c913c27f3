---------------------------- MODULE MCAgentJobs -----------------------------
(* Constants of AgentJobs for TLC: every process is at home on device d1.  *)
EXTENDS AgentJobs

CONSTANT d1

AllOnD1 == [p \in Procs |-> d1]
=============================================================================
