--------------------------- MODULE MCFlowRuntime ---------------------------
(* An agent and an approval side by side, a join that may loop back to the   *)
(* agent, and the output.                                                    *)
EXTENDS FlowRuntime

MCNodes == 1..4
MCKind == <<"agent", "join", "approval", "output">>
MCEdge(f, t, c, l) == [from |-> f, to |-> t, cond |-> c, loop |-> l, exhausted |-> "human"]
MCEdges == <<MCEdge(1, 2, FALSE, 0), MCEdge(3, 2, FALSE, 0),
             MCEdge(2, 4, TRUE, 0), MCEdge(1, 1, FALSE, 1)>>
MCErrorRoute == [n \in MCNodes |-> IF n = 1 THEN 4 ELSE 0]
=============================================================================
