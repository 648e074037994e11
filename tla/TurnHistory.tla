---------------------------- MODULE TurnHistory ----------------------------
(* What an Agent may rely on when it looks at the Turns of a thread: the     *)
(* abstract specification of the Turn rows.  A thread gets a new Turn only   *)
(* when all earlier ones are finished, a Turn moves along can_transition_to  *)
(* one status at a time, and its invocation number goes up only on the way   *)
(* out of a wait, by one.  CollaborationRepository, AgentRunScheduler and    *)
(* RootTurnLifecycle are shown to implement it.                              *)
EXTENDS TurnStatus, Integers, Sequences

CONSTANT Agents

VARIABLE history   \* per thread, the status and invocation of each Turn

Created == [status |-> "queued", invocation_id |-> 1]

Init == history = [a \in Agents |-> <<>>]

Unchanged(a) == history'[a] = history[a]

Added(a) ==
  /\ \A n \in DOMAIN history[a] : is_terminal(history[a][n].status)
  /\ history'[a] = Append(history[a], Created)

(* AgentTurnRecord::transition leaves the invocation alone, resume_turn      *)
(* raises it.                                                                *)
Moved(a) ==
  \E n \in DOMAIN history[a], next \in AgentTurnStatus :
    /\ can_transition_to(history[a][n].status, next)
    /\ \E inv \in {history[a][n].invocation_id, history[a][n].invocation_id + 1} :
         /\ inv # history[a][n].invocation_id =>
              needs_attention(history[a][n].status) /\ next = "running"
         /\ history'[a] =
              [history[a] EXCEPT ![n] = [status |-> next, invocation_id |-> inv]]

(* One step may move several threads: a restart interrupts every running     *)
(* Turn.                                                                     *)
Next ==
  /\ DOMAIN history' = Agents
  /\ \A a \in Agents : Unchanged(a) \/ Added(a) \/ Moved(a)

Spec == Init /\ [][Next]_history

=============================================================================
