--------------------- MODULE MCCollaborationRepository ---------------------
(* A small instance of CollaborationRepository for TLC.                      *)
EXTENDS CollaborationRepository, TLC

(* A policy that reaches the agent limit of the session, and one that ends before it. *)
MCPolicies ==
  {[allow_child_spawns |-> TRUE, max_depth |-> d, max_direct_children |-> 1] : d \in {1, 3}}

(* Agents other than the root are interchangeable. *)
AgentSymmetry == Permutations(Agents \ {Root})

=============================================================================
