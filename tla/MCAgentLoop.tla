----------------------------- MODULE MCAgentLoop -----------------------------
(* AgentLoop for TLC. *)
EXTENDS AgentLoop

\* An explicit list without and with the tools the default excludes.
MCLists == {{"bash"}, {"todo_create", "spawn_agent"}}
\* Subagents get no todo tools: the parallel calls of the turn itself are enough.
PlainLists == {{"bash"}}
=============================================================================
