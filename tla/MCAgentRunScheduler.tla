----------------------- MODULE MCAgentRunScheduler -----------------------
(* Small instances of AgentRunScheduler for TLC: where the Agents run.       *)
EXTENDS AgentRunScheduler

CONSTANTS a1, a2, s1, s2, w1

(* One shared coordinated workspace.                                         *)
Shared == [a \in Agents |-> w1]

(* The Agents of two sessions on the same checkout.                          *)
TwoSessions == [a \in Agents |-> IF a = a1 THEN s1 ELSE s2]

(* Isolated worktrees or read-only Agents: no lease.                         *)
Isolated == [a \in Agents |-> NoWorkspace]

=============================================================================
