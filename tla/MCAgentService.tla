--------------------------- MODULE MCAgentService ----------------------------
(* AgentService for TLC; its constants are given in AgentService.cfg.      *)
EXTENDS AgentService
=============================================================================
