---------------------------- MODULE MCAgentSessions ----------------------------
(***************************************************************************)
(* AgentSessions for TLC: agents are alike, and nothing in AgentSessions   *)
(* reads the last answer once it is on its way, or any link or comment.    *)
(* For the run without liveness properties.                                *)
(***************************************************************************)
EXTENDS AgentSessions, TLC

AgentSymmetry == Permutations(Agents)

StateView == <<tickets, counters, now, session, abandoned, faults>>

===============================================================================
