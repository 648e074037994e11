---------------------------- MODULE TurnStatus ----------------------------
(* The lifecycle of one Agent Turn: AgentTurnStatus and its transition       *)
(* relation (opentopia-core/src/collaboration/domain.rs).  Root and          *)
(* descendant Agents share it, so every module of the project extends this   *)
(* one.                                                                      *)

WaitingStatuses == {"waiting_approval", "waiting_input", "waiting_action"}

TerminalStatuses == {"completed", "failed", "cancelled", "interrupted"}

AgentTurnStatus == {"queued", "running"} \cup WaitingStatuses \cup TerminalStatuses

is_terminal(s) == s \in TerminalStatuses

needs_attention(s) == s \in WaitingStatuses

(* Note what is absent: a queued or a waiting Turn cannot fail, and a        *)
(* terminal one goes nowhere.                                                *)
can_transition_to(s, next) ==
  \/ /\ s = "queued"
     /\ next \in {"running", "cancelled", "interrupted"}
  \/ /\ s = "running"
     /\ next \in WaitingStatuses \cup TerminalStatuses
  \/ /\ s \in WaitingStatuses
     /\ next \in {"running", "cancelled", "interrupted"}

(* AgentTurnRecord::transition accepts the current status as a no-op.        *)
transition_ok(s, next) == s = next \/ can_transition_to(s, next)

=============================================================================
