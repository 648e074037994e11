---------------------- MODULE CollaborationRepository ----------------------
(* The durable state of one CollaborationSession, as the SQLite repository   *)
(* keeps it: the tree of AgentThreads with their spawn policies, the Turns   *)
(* of each thread, and the session's mailbox.  Every operation of the        *)
(* repository is one Immediate transaction, hence one action.  Callers are   *)
(* unconstrained: any Agent may issue any request at any time, so what holds *)
(* here holds whatever the scheduler, the coordinator and the models do.     *)
(*                                                                           *)
(* Abstracted: task and message texts, agent types, timestamps, content      *)
(* hashes, runtime snapshots and the ledger rows other than the fact that a  *)
(* Turn has an outcome.  A thread is never archived by the code, so the      *)
(* archived checks have no counterpart.  The requests of a second session    *)
(* are refused by identity checks and cannot reach this state.               *)
EXTENDS TurnStatus, Integers, Sequences, FiniteSets

CONSTANTS
  Agents,            \* identities an AgentThread may get
  Root,              \* the thread created with the session
  NoAgent,           \* the parent of the root
  TaskNames,         \* the task names spawns use: one path segment each
  SpawnPolicies,     \* the AgentSpawnPolicy values requests carry
  MaxAgents,         \* CollaborationSessionPolicy.max_agents
  SessionMaxDepth,   \* CollaborationSessionPolicy.max_depth
  CallIds,           \* tool-call ids, the causation of an explicit message
  MailLimit,         \* the LIMIT of one mailbox snapshot
  RecordedStatuses,  \* the states callers hand to record_turn_state
  MaxTurns,          \* bound: Turns per thread
  MaxInvocations,    \* bound: invocations per Turn
  MaxMail            \* bound: messages in the session

ASSUME RootAssumption == Root \in Agents /\ NoAgent \notin Agents

ASSUME PolicyAssumption ==
  /\ SpawnPolicies \subseteq
       [allow_child_spawns : BOOLEAN, max_depth : Nat, max_direct_children : Nat]
  /\ MaxAgents \in Nat \ {0}
  /\ SessionMaxDepth \in Nat

ASSUME BoundAssumption ==
  /\ MailLimit \in Nat \ {0}
  /\ MaxTurns \in Nat \ {0}
  /\ MaxInvocations \in Nat \ {0}
  /\ MaxMail \in Nat
  /\ RecordedStatuses \subseteq WaitingStatuses \cup TerminalStatuses

VARIABLES
  threads,   \* the AgentThread rows
  parent,    \* parent_agent_thread_id
  path,      \* AgentPath: the task names below /root
  policy,    \* spawn_policy
  turns,     \* the Turns of each thread, by sequence number
  mail       \* agent_mailbox_messages, by sequence number

vars == <<threads, parent, path, policy, turns, mail>>

-----------------------------------------------------------------------------
(* Records                                                                   *)

Policy == [allow_child_spawns : BOOLEAN, max_depth : Nat, max_direct_children : Nat]

NoPolicy == [allow_child_spawns |-> FALSE, max_depth |-> 0, max_direct_children |-> 0]

(* outcome: an outcome has been written to the ledger (outcome_ref is set).  *)
Turn == [status : AgentTurnStatus, invocation_id : Nat, outcome : BOOLEAN]

NewTurn == [status |-> "queued", invocation_id |-> 1, outcome |-> FALSE]

TurnId == Agents \X Nat

MessageKind == {"message", "completion", "needs_attention"}

Message == [from : Agents, to : Agents, kind : MessageKind,
            cause : TurnId \cup CallIds,
            state : {"pending", "delivered", "acknowledged"}]

(* Every row the repository writes has its type: a thread has one parent and *)
(* one policy, and what a Turn sends is a message of a known kind.           *)
TypeOK ==
  /\ threads \subseteq Agents
  /\ parent \in [Agents -> Agents \cup {NoAgent}]
  /\ path \in [Agents -> Seq(TaskNames)]
  /\ policy \in [Agents -> Policy]
  /\ turns \in [Agents -> Seq(Turn)]
  /\ mail \in Seq(Message)

-----------------------------------------------------------------------------
(* Reading the rows                                                          *)

latest_turn(a) == turns[a][Len(turns[a])]

depth(a) == Len(path[a])

(* Strict: an Agent is not its own descendant.                               *)
is_descendant_of(a, b) ==
  /\ Len(path[b]) < Len(path[a])
  /\ SubSeq(path[a], 1, Len(path[b])) = path[b]

(* Faulty variant: a child may be given a greater depth than its parent.     *)
is_attenuation_of_any_depth(p, q) ==
  /\ p.allow_child_spawns => q.allow_child_spawns
  /\ p.max_direct_children <= q.max_direct_children

is_attenuation_of(p, q) ==
  /\ p.allow_child_spawns => q.allow_child_spawns
  /\ p.max_depth <= q.max_depth
  /\ p.max_direct_children <= q.max_direct_children

Children(a) == {c \in threads : parent[c] = a}

Existing(to, kind, cause) ==
  \E i \in DOMAIN mail :
    mail[i].to = to /\ mail[i].kind = kind /\ mail[i].cause = cause

(* Faulty variant: no de-duplication on the causation id.                    *)
Enqueued_twice(from, to, kind, cause) ==
  Append(mail, [from |-> from, to |-> to, kind |-> kind,
                cause |-> cause, state |-> "pending"])

(* Faulty variant: one message per target and cause, whatever its kind.      *)
Enqueued_any_kind(from, to, kind, cause) ==
  IF \E k \in MessageKind : Existing(to, k, cause)
  THEN mail
  ELSE Append(mail, [from |-> from, to |-> to, kind |-> kind,
                     cause |-> cause, state |-> "pending"])

(* The mailbox after a message is asked for: a message with the same target, *)
(* kind and causation is not written twice.                                  *)
Enqueued(from, to, kind, cause) ==
  IF Existing(to, kind, cause)
  THEN mail
  ELSE Append(mail, [from |-> from, to |-> to, kind |-> kind,
                     cause |-> cause, state |-> "pending"])

Unacknowledged(target) ==
  {i \in DOMAIN mail : mail[i].to = target /\ mail[i].state # "acknowledged"}

(* Faulty variant: the newest messages first.                                *)
SnapshotBatch_newest(target) ==
  {i \in Unacknowledged(target) :
     Cardinality({j \in Unacknowledged(target) : j >= i}) <= MailLimit}

(* ORDER BY sequence LIMIT MailLimit                                         *)
SnapshotBatch(target) ==
  {i \in Unacknowledged(target) :
     Cardinality({j \in Unacknowledged(target) : j <= i}) <= MailLimit}

-----------------------------------------------------------------------------
Init ==
  /\ threads = {}
  /\ parent = [a \in Agents |-> NoAgent]
  /\ path = [a \in Agents |-> <<>>]
  /\ policy = [a \in Agents |-> NoPolicy]
  /\ turns = [a \in Agents |-> <<>>]
  /\ mail = <<>>

create_session(pol) ==
  /\ threads = {}
  /\ pol.max_depth <= SessionMaxDepth
  /\ threads' = {Root}
  /\ policy' = [policy EXCEPT ![Root] = pol]
  /\ turns' = [turns EXCEPT ![Root] = <<NewTurn>>]
  /\ UNCHANGED <<parent, path, mail>>

spawn_agent(p, c, name, pol) ==
  /\ p \in threads
  /\ c \notin threads
  /\ policy[p].allow_child_spawns
  /\ is_attenuation_of(pol, policy[p])
  /\ depth(p) + 1 <= SessionMaxDepth
  /\ depth(p) + 1 <= policy[p].max_depth
  /\ \A a \in threads : path[a] # Append(path[p], name)
  /\ Cardinality(threads) < MaxAgents
  /\ Cardinality(Children(p)) < policy[p].max_direct_children
  /\ threads' = threads \cup {c}
  /\ parent' = [parent EXCEPT ![c] = p]
  /\ path' = [path EXCEPT ![c] = Append(path[p], name)]
  /\ policy' = [policy EXCEPT ![c] = pol]
  /\ turns' = [turns EXCEPT ![c] = <<NewTurn>>]
  /\ UNCHANGED mail

(* Both follow-up operations add a Turn only behind a terminal one.          *)
AddTurn(a) ==
  /\ is_terminal(latest_turn(a).status)
  /\ Len(turns[a]) < MaxTurns
  /\ turns' = [turns EXCEPT ![a] = Append(@, NewTurn)]
  /\ UNCHANGED <<threads, parent, path, policy, mail>>

create_followup_turn(caller, target) ==
  /\ {caller, target} \subseteq threads
  /\ is_descendant_of(target, caller)
  /\ AddTurn(target)

create_root_followup_turn ==
  /\ Root \in threads
  /\ AddTurn(Root)

(* The registry accepts any status here; every caller passes Running.        *)
transition_turn(a, n) ==
  /\ n \in DOMAIN turns[a]
  /\ transition_ok(turns[a][n].status, "running")
  /\ turns' = [turns EXCEPT ![a][n].status = "running"]
  /\ UNCHANGED <<threads, parent, path, policy, mail>>

(* Faulty variant: any Turn that is not running may be resumed.              *)
resume_turn_any(a, n) ==
  /\ n \in DOMAIN turns[a]
  /\ turns[a][n].status # "running"
  /\ turns[a][n].invocation_id < MaxInvocations
  /\ turns' = [turns EXCEPT ![a][n].status = "running",
                            ![a][n].invocation_id = @ + 1]
  /\ UNCHANGED <<threads, parent, path, policy, mail>>

resume_turn(a, n) ==
  /\ n \in DOMAIN turns[a]
  /\ needs_attention(turns[a][n].status)
  /\ turns[a][n].invocation_id < MaxInvocations
  /\ turns' = [turns EXCEPT ![a][n].status = "running",
                            ![a][n].invocation_id = @ + 1]
  /\ UNCHANGED <<threads, parent, path, policy, mail>>

EnvelopeKind(next) == IF is_terminal(next) THEN "completion" ELSE "needs_attention"

(* The outcome row, the envelope to the parent and the new status commit     *)
(* together.                                                                 *)
record_turn_state(a, n, next) ==
  /\ n \in DOMAIN turns[a]
  /\ transition_ok(turns[a][n].status, next)
  /\ turns' = [turns EXCEPT ![a][n].status = next, ![a][n].outcome = TRUE]
  /\ mail' = IF parent[a] = NoAgent
             THEN mail
             ELSE Enqueued(a, parent[a], EnvelopeKind(next), <<a, n>>)
  /\ Len(mail') <= MaxMail
  /\ UNCHANGED <<threads, parent, path, policy>>

(* send_message: an explicit message, its causation the id of the tool call. *)
enqueue(from, to, call) ==
  /\ {from, to} \subseteq threads
  /\ mail' = Enqueued(from, to, "message", call)
  /\ Len(mail') <= MaxMail
  /\ UNCHANGED <<threads, parent, path, policy, turns>>

(* Faulty variant: a read hands acknowledged messages out again.             *)
snapshot_redelivers(target) ==
  /\ target \in threads
  /\ mail' = [i \in DOMAIN mail |->
                IF mail[i].to = target
                THEN [mail[i] EXCEPT !.state = "delivered"]
                ELSE mail[i]]
  /\ UNCHANGED <<threads, parent, path, policy, turns>>

(* Reading the mailbox marks the batch delivered.                            *)
snapshot(target) ==
  /\ target \in threads
  /\ mail' = [i \in DOMAIN mail |->
                IF i \in SnapshotBatch(target)
                THEN [mail[i] EXCEPT !.state = "delivered"]
                ELSE mail[i]]
  /\ UNCHANGED <<threads, parent, path, policy, turns>>

(* ids: a batch read before, or messages pushed to a live Turn and never     *)
(* marked delivered.  One foreign id refuses the whole batch.                *)
acknowledge(target, ids) ==
  /\ \A i \in ids : mail[i].to = target
  /\ mail' = [i \in DOMAIN mail |->
                IF i \in ids
                THEN [mail[i] EXCEPT !.state = "acknowledged"]
                ELSE mail[i]]
  /\ UNCHANGED <<threads, parent, path, policy, turns>>

Next ==
  \/ \E pol \in SpawnPolicies : create_session(pol)
  \/ \E p, c \in Agents, name \in TaskNames, pol \in SpawnPolicies :
       spawn_agent(p, c, name, pol)
  \/ \E caller, target \in Agents : create_followup_turn(caller, target)
  \/ create_root_followup_turn
  \/ \E a \in Agents, n \in 1..MaxTurns : transition_turn(a, n)
  \/ \E a \in Agents, n \in 1..MaxTurns : resume_turn(a, n)
  \/ \E a \in Agents, n \in 1..MaxTurns, next \in RecordedStatuses :
       record_turn_state(a, n, next)
  \/ \E from, to \in Agents, call \in CallIds : enqueue(from, to, call)
  \/ \E target \in Agents : snapshot(target)
  \/ \E target \in Agents : \E ids \in SUBSET DOMAIN mail : acknowledge(target, ids)

Spec == Init /\ [][Next]_vars

-----------------------------------------------------------------------------
(* What the repository promises                                              *)

(* Only the latest Turn of a thread can be unfinished, whatever mix of       *)
(* follow-ups, waits, resumes and recoveries led here: the scheduler keys    *)
(* its active runs by thread and relies on it.                               *)
OneActiveTurn ==
  \A a \in threads : \A n \in DOMAIN turns[a] :
    n < Len(turns[a]) => is_terminal(turns[a][n].status)

(* record_turn_state: a descendant's Turn is terminal if and only if its     *)
(* parent's mailbox holds the completion of that Turn.  A waiter never sees  *)
(* a terminal child whose completion fact is missing, and a completion is    *)
(* never announced for a Turn that goes on.                                  *)
CompletionDurable ==
  \A c \in threads : parent[c] # NoAgent =>
    \A n \in DOMAIN turns[c] :
      is_terminal(turns[c][n].status) <=> Existing(parent[c], "completion", <<c, n>>)

(* enqueue and record_turn_state: one message per target, kind and cause,    *)
(* however often a tool call or a state report is repeated.                  *)
NoDuplicateMessage ==
  \A i, j \in DOMAIN mail :
    (/\ mail[i].to = mail[j].to
     /\ mail[i].kind = mail[j].kind
     /\ mail[i].cause = mail[j].cause) => i = j

(* spawn_agent checks a child against its parent only; the authority of a    *)
(* thread is nevertheless bounded by that of every ancestor.                 *)
AuthorityNarrows ==
  \A a, b \in threads :
    is_descendant_of(a, b) =>
      /\ is_attenuation_of(policy[a], policy[b])
      /\ depth(a) <= policy[b].max_depth

(* spawn_agent: no path is used twice, and neither the session nor a thread  *)
(* exceeds its limit.                                                        *)
TreeWithinLimits ==
  /\ \A a, b \in threads : path[a] = path[b] => a = b
  /\ Cardinality(threads) <= MaxAgents
  /\ \A a \in threads : Cardinality(Children(a)) <= policy[a].max_direct_children

(* What spawn_agent is for: no Agent has more authority than any of its       *)
(* ancestors, and the tree keeps within the limits they all agreed to.       *)
SpawnsWithinAuthority == AuthorityNarrows /\ TreeWithinLimits

(* snapshot: a bounded read never skips an older message: what is delivered  *)
(* is preceded by nothing still pending for the same Agent.                  *)
DeliveredInOrder ==
  \A i, j \in DOMAIN mail :
    (i < j /\ mail[i].to = mail[j].to /\ mail[j].state = "delivered")
      => mail[i].state # "pending"

(* transition_turn, resume_turn, record_turn_state and the follow-ups        *)
(* together move the Turn rows as TurnHistory says: no Turn is dropped or    *)
(* reopened, none is added while another is unfinished, and an invocation    *)
(* number never goes back.                                                   *)
TurnRows ==
  [a \in Agents |-> [n \in DOMAIN turns[a] |->
     [status |-> turns[a][n].status, invocation_id |-> turns[a][n].invocation_id]]]

History == INSTANCE TurnHistory WITH history <- TurnRows

ImplementsTurnHistory == History!Spec

(* A step never rewrites a message and never takes an acknowledgement back,  *)
(* so an acknowledged message is never handed out again (snapshot).          *)
MailHistoryStable ==
  /\ Len(mail) <= Len(mail')
  /\ \A i \in DOMAIN mail :
       /\ mail'[i].to = mail[i].to
       /\ mail'[i].cause = mail[i].cause
       /\ mail[i].state = "acknowledged" => mail'[i].state = "acknowledged"

MailNeverRewritten == [][MailHistoryStable]_vars

=============================================================================
