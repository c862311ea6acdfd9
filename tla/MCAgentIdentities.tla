-------------------------- MODULE MCAgentIdentities --------------------------
(* A rename whose checkout cannot be moved, for one: the agent container is  *)
(* stopped, or the agent switched off for a while.                           *)
EXTENDS AgentIdentities

(* agent_uids.py:18-20: a deleted environment's uid waits until its checkout  *)
(* and HOME are actually gone from the agent container.                       *)
GoneWhenForgotten == NothingLeftBehind
=============================================================================
