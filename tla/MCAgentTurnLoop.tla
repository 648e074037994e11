---------------------------- MODULE MCAgentTurnLoop ----------------------------
EXTENDS AgentTurnLoop

MCTool(decision, read_only, parallel_safe, interactive, keys) ==
  [decision |-> decision, read_only |-> read_only, idempotent |-> read_only,
   parallel_safe |-> parallel_safe, interactive |-> interactive, resource_keys |-> keys]

(* An edit, a deletion that is asked for, a call whose boundary shows only *)
(* in execution, and a question: the first two touch the same file.        *)
MCCalls == {"patch", "delete", "probe", "question"}
MCTools == [c \in MCCalls |->
  CASE c = "patch"    -> MCTool("allow", FALSE, TRUE, FALSE, {"file"})
    [] c = "delete"   -> MCTool("ask", FALSE, TRUE, FALSE, {"file"})
    [] c = "probe"    -> MCTool("late", FALSE, TRUE, FALSE, {"server"})
    [] c = "question" -> MCTool("allow", FALSE, FALSE, TRUE, {"*"})]
=============================================================================
