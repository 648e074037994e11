---------------------- MODULE AgentRunSchedulerProofs ----------------------
(* What AgentRunScheduler promises, for any number of Agents, commands in    *)
(* flight, Turns, permits and restarts: no Turn has two drivers, the map of  *)
(* active runs and the checkpoints agree with what runs, admission keeps its *)
(* limits, no Start is lost or doubled, and the Turn rows move as            *)
(* TurnHistory says.                                                         *)
EXTENDS AgentRunScheduler, FiniteSetTheorems, TLAPS

-----------------------------------------------------------------------------
(* The inductive invariant                                                   *)

Known(id) == id[2] \in DOMAIN turns[id[1]]

Running(t) == task[t].pc # "idle"

(* A Start that has not reached execute_start.                               *)
Opening(t) ==
  /\ task[t].pc \in {"global", "session", "workspace", "consume", "register", "begin"}
  /\ task[t].kind = "start"

(* Whatever refers to a Turn refers to a row of agent_turns.                 *)
KnownTurns ==
  /\ \A t \in Tasks : Running(t) => Known(task[t].turn)
  /\ \A id \in creating \cup dismissals : Known(id)

EarlierFinished ==
  \A a \in Agents : \A n \in DOMAIN turns[a] :
    n # Len(turns[a]) => is_terminal(turns[a][n].status)

(* Before its Start begins, nobody can have asked the user anything about a  *)
(* Turn, so no Resume and no dismissal names it.                             *)
QueuedUntouched ==
  \A id \in TurnId : (Known(id) /\ Status(id) = "queued") =>
    /\ Row(id).asked = "none"
    /\ id \notin dismissals
    /\ \A t \in Tasks : (Running(t) /\ task[t].turn = id) =>
         task[t].kind = "start" /\ ~ Driving(t)

(* A Start finds its Turn queued, and is the only command for it.            *)
OpeningAlone ==
  \A t \in Tasks : Opening(t) =>
    /\ Status(task[t].turn) = "queued"
    /\ task[t].turn \notin creating
    /\ \A u \in Tasks : Running(u) /\ task[u].turn = task[t].turn => u = t

CreatingAlone ==
  \A id \in creating :
    /\ Status(id) = "queued"
    /\ \A u \in Tasks : Running(u) => task[u].turn # id

OneDriver ==
  \A t, u \in Tasks : (Driving(t) /\ Driving(u) /\ task[t].turn = task[u].turn) => t = u

(* While a Turn is driven it does not wait, so resume_turn refuses it.       *)
DrivenNotWaiting ==
  \A t \in Tasks : Driving(t) => ~ needs_attention(Status(task[t].turn))

(* The checkpoint is stored before the status that promises it.              *)
CheckpointFirst ==
  /\ \A t \in Tasks : (task[t].pc = "finish" /\ needs_attention(task[t].outcome)) =>
       Row(task[t].turn).checkpoint
  /\ \A id \in TurnId : (Known(id) /\ needs_attention(Status(id))) => Row(id).checkpoint

RunInv ==
  /\ TypeOK
  /\ KnownTurns
  /\ EarlierFinished
  /\ QueuedUntouched
  /\ OpeningAlone
  /\ CreatingAlone
  /\ OneDriver
  /\ DrivenNotWaiting
  /\ CheckpointFirst

(* The lease of a workspace: who is past the wait for it holds it, and two   *)
(* runs never hold the same one.                                             *)
LeaseHeld ==
  /\ \A t \in Tasks :
       (Running(t) /\ task[t].pc \notin {"global", "session", "workspace"}
          /\ workspace_of[agent_of(t)] # NoWorkspace) => task[t].lease
  /\ \A t, u \in Tasks :
       (/\ Running(t) /\ task[t].lease
        /\ Running(u) /\ task[u].lease
        /\ workspace_of[agent_of(t)] = workspace_of[agent_of(u)]) => t = u

PermitInv ==
  /\ RepositoryFaults = FALSE => LeaseHeld
  /\ Cardinality(GlobalHolders) <= GlobalSlots
  /\ \A s \in Sessions : Cardinality(SessionHolders(s)) <= SessionSlots

(* A queued Turn is not forgotten while the repository answers.              *)
QueuedHasStarter ==
  \A id \in TurnId :
    (Known(id) /\ Status(id) = "queued" /\ id \notin creating) =>
       \E t \in Tasks : Opening(t) /\ task[t].turn = id

-----------------------------------------------------------------------------
(* Facts about rows and commands                                             *)

LEMMA IdleTask == Idle.pc = "idle"
BY DEF Idle

LEMMA IdParts ==
  ASSUME NEW id \in TurnId
  PROVE  id[1] \in Agents /\ id[2] \in 1..MaxTurns /\ id = <<id[1], id[2]>>
BY DEF TurnId

LEMMA TaskFields ==
  ASSUME TypeOK, NEW t \in Tasks, task[t].pc # "idle"
  PROVE  /\ task[t] \in Task
         /\ task[t].pc \in Step
         /\ task[t].kind \in {"start", "resume"}
         /\ task[t].turn \in TurnId
         /\ task[t].lease \in BOOLEAN
         /\ task[t].cancelled \in BOOLEAN
         /\ task[t].outcome \in AgentTurnStatus
<1>1. task[t] \in Task
  BY IdleTask DEF TypeOK
<1> QED
  BY <1>1 DEF Task

LEMMA RowFields ==
  ASSUME TypeOK, NEW id \in TurnId, Known(id)
  PROVE  /\ Row(id) \in Turn
         /\ Row(id).status \in AgentTurnStatus
         /\ Row(id).invocation_id \in Nat
         /\ Row(id).checkpoint \in BOOLEAN
         /\ Row(id).asked \in {"none", "waiting_approval", "waiting_input"}
<1>1. Row(id) \in Turn
  BY IdParts DEF TypeOK, Known, Row
<1> QED
  BY <1>1 DEF Turn

(* One row is overwritten.                                                   *)
Writes(id, r) ==
  /\ turns' \in [Agents -> Seq(Turn)]
  /\ \A a \in Agents : Len(turns'[a]) = Len(turns[a]) /\ DOMAIN turns'[a] = DOMAIN turns[a]
  /\ \A j \in TurnId : Known(j) =>
       turns'[j[1]][j[2]] = IF j = id THEN r ELSE turns[j[1]][j[2]]

LEMMA RowWritten ==
  ASSUME TypeOK, NEW id \in TurnId, Known(id), NEW r \in Turn,
         turns' = [turns EXCEPT ![id[1]] = [turns[id[1]] EXCEPT ![id[2]] = r]]
  PROVE  Writes(id, r)
<1> DEFINE a == id[1]
           n == id[2]
           s == [turns[a] EXCEPT ![n] = r]
<1>1. a \in Agents /\ n \in DOMAIN turns[a]
  BY IdParts DEF Known
<1>2. turns[a] \in [1..Len(turns[a]) -> Turn] /\ Len(turns[a]) \in Nat
  BY <1>1 DEF TypeOK
<1>3. s \in [1..Len(turns[a]) -> Turn]
  BY <1>1, <1>2
<1>4. s \in Seq(Turn) /\ Len(s) = Len(turns[a]) /\ DOMAIN s = DOMAIN turns[a]
  BY <1>1, <1>2, <1>3
<1>5. \A m \in DOMAIN turns[a] : s[m] = IF m = n THEN r ELSE turns[a][m]
  BY <1>1
<1>6. turns' = [turns EXCEPT ![a] = s]
  OBVIOUS
<1> HIDE DEF s
<1>7. /\ turns' \in [Agents -> Seq(Turn)]
      /\ \A b \in Agents : Len(turns'[b]) = Len(turns[b]) /\ DOMAIN turns'[b] = DOMAIN turns[b]
  BY <1>1, <1>4, <1>6 DEF TypeOK
<1>8. ASSUME NEW j \in TurnId, Known(j)
      PROVE  turns'[j[1]][j[2]] = IF j = id THEN r ELSE turns[j[1]][j[2]]
  <2>1. j[1] \in Agents /\ j[2] \in DOMAIN turns[j[1]]
    BY <1>8, IdParts DEF Known
  <2>2. j = id <=> (j[1] = a /\ j[2] = n)
    BY IdParts
  <2>3. turns'[j[1]] = IF j[1] = a THEN s ELSE turns[j[1]]
    BY <1>1, <1>6, <2>1 DEF TypeOK
  <2> QED
    BY <1>5, <2>1, <2>2, <2>3
<1> QED
  BY <1>7, <1>8 DEF Writes

(* Command t goes on to pc with outcome o; nothing else about it changes     *)
(* that the invariant speaks of.                                             *)
Moved(t, pc, o) ==
  /\ task' \in [Tasks -> Task \cup {Idle}]
  /\ \A u \in Tasks : u # t => task'[u] = task[u]
  /\ task'[t].pc = pc
  /\ task'[t].kind = task[t].kind
  /\ task'[t].turn = task[t].turn
  /\ task'[t].outcome = o

LEMMA CommandMoves ==
  ASSUME TypeOK, NEW t \in Tasks, NEW c \in Task, task' = [task EXCEPT ![t] = c],
         c.kind = task[t].kind, c.turn = task[t].turn
  PROVE  Moved(t, c.pc, c.outcome)
BY DEF TypeOK, Moved

LEMMA GotoMoves ==
  ASSUME TypeOK, NEW t \in Tasks, task[t].pc # "idle", NEW pc \in Step, Goto(t, pc)
  PROVE  Moved(t, pc, task[t].outcome) /\ task'[t].lease = task[t].lease
<1> DEFINE c == [task[t] EXCEPT !.pc = pc]
<1>1. /\ c \in Task /\ c.pc = pc /\ c.kind = task[t].kind /\ c.turn = task[t].turn
      /\ c.outcome = task[t].outcome /\ c.lease = task[t].lease
  BY TaskFields DEF Task
<1>2. task' = [task EXCEPT ![t] = c]
  BY DEF TypeOK, Goto
<1> HIDE DEF c
<1>3. task'[t] = c
  BY <1>2 DEF TypeOK
<1> QED
  BY <1>1, <1>2, <1>3, CommandMoves

LEMMA OutcomeMoves ==
  ASSUME TypeOK, NEW t \in Tasks, task[t].pc # "idle", NEW pc \in Step,
         NEW o \in AgentTurnStatus,
         task' = [task EXCEPT ![t].pc = pc, ![t].outcome = o]
  PROVE  Moved(t, pc, o) /\ task'[t].lease = task[t].lease
<1> DEFINE c == [task[t] EXCEPT !.pc = pc, !.outcome = o]
<1>1. /\ c \in Task /\ c.pc = pc /\ c.kind = task[t].kind /\ c.turn = task[t].turn
      /\ c.outcome = o /\ c.lease = task[t].lease
  BY TaskFields DEF Task
<1>2. task' = [task EXCEPT ![t] = c]
  BY DEF TypeOK
<1> HIDE DEF c
<1>3. task'[t] = c
  BY <1>2 DEF TypeOK
<1> QED
  BY <1>1, <1>2, <1>3, CommandMoves

LEMMA StatusFacts ==
  /\ \A s, next : transition_ok(s, next) /\ is_terminal(s) => is_terminal(next)
  /\ \A s, next : transition_ok(s, next) /\ s # "queued" => next # "queued"
  /\ \A s : needs_attention(s) => s # "queued" /\ ~ is_terminal(s)
  /\ ~ needs_attention("running") /\ ~ needs_attention("queued")
  /\ ~ is_terminal("queued") /\ ~ is_terminal("running")
  /\ \A s : is_terminal(s) => ~ needs_attention(s)
  /\ is_terminal("cancelled") /\ is_terminal("failed") /\ is_terminal("interrupted")
  /\ {"queued", "running", "cancelled", "failed", "interrupted", "completed"} \subseteq AgentTurnStatus
BY DEF transition_ok, can_transition_to, is_terminal, needs_attention, TerminalStatuses,
       WaitingStatuses, AgentTurnStatus

-----------------------------------------------------------------------------
(* RunInv: one lemma per kind of step, then one per action                   *)

(* A command goes on, or ends, without touching a row.                       *)
LEMMA QuietStep ==
  ASSUME RunInv, TypeOK', NEW t \in Tasks, task[t].pc # "idle",
         UNCHANGED <<turns, creating, dismissals>>,
         \A u \in Tasks : u # t => task'[u] = task[u],
         \/ task'[t].pc = "idle"
         \/ /\ task'[t].kind = task[t].kind
            /\ task'[t].turn = task[t].turn
            /\ Opening(t)' => Opening(t)
            /\ Driving(t)' => Driving(t)
            /\ (task'[t].pc = "finish" /\ needs_attention(task'[t].outcome)) =>
                  Row(task[t].turn).checkpoint
  PROVE  RunInv'
<1> USE DEF RunInv
<1>1. KnownTurns' /\ EarlierFinished'
  BY DEF KnownTurns, EarlierFinished, Known, Running, is_terminal
<1>2. QueuedUntouched'
  BY DEF QueuedUntouched, Known, Status, Row, Running, Driving
<1>3. OpeningAlone'
  <2>1. \A u \in Tasks : /\ Running(u)' => Running(u) /\ task'[u].turn = task[u].turn
                         /\ Opening(u)' => Opening(u) /\ task'[u].turn = task[u].turn
    BY DEF Running, Opening
  <2> HIDE DEF RunInv
  <2>2. OpeningAlone
    BY DEF RunInv
  <2>3. ASSUME NEW u \in Tasks, Opening(u)'
        PROVE  /\ turns'[task'[u].turn[1]][task'[u].turn[2]].status = "queued"
               /\ task'[u].turn \notin creating'
               /\ \A v \in Tasks : Running(v)' /\ task'[v].turn = task'[u].turn => v = u
    <3>1. Opening(u) /\ task'[u].turn = task[u].turn
      BY <2>1, <2>3
    <3> QED
      BY <2>1, <2>2, <3>1 DEF OpeningAlone, Status, Row
  <2> QED
    BY <2>3 DEF OpeningAlone, Status, Row
<1>4. CreatingAlone'
  BY DEF CreatingAlone, Status, Row, Running
<1>5. OneDriver'
  BY DEF OneDriver, Driving
<1>6. DrivenNotWaiting'
  BY DEF DrivenNotWaiting, Driving, Status, Row, needs_attention
<1>7. CheckpointFirst'
  BY DEF CheckpointFirst, Known, Status, Row, needs_attention
<1> QED
  BY <1>1, <1>2, <1>3, <1>4, <1>5, <1>6, <1>7

(* A run writes the row of its Turn and goes on.                             *)
LEMMA WriteStep ==
  ASSUME RunInv, NEW t \in Tasks, task[t].pc # "idle", NEW id \in TurnId, id = task[t].turn,
         NEW r \in Turn, Writes(id, r),
         UNCHANGED <<creating, dismissals, active, cancelled_before_start, cancels, crashes>>,
         NEW pc \in {"drive", "checkpoint", "finish", "error", "fail", "unregister"}, NEW o,
         Moved(t, pc, o),
         r.status # "queued",
         is_terminal(Status(id)) => is_terminal(r.status),
         needs_attention(r.status) => r.checkpoint /\ ~ Driving(t)',
         \/ ~ needs_attention(r.status) /\ ~ Driving(t)' /\ r.checkpoint = Row(id).checkpoint
         \/ \A u \in Tasks : u # t /\ Driving(u) => task[u].turn # id,
         (pc = "finish" /\ needs_attention(o)) => r.checkpoint
  PROVE  RunInv'
<1> USE DEF RunInv
<1>0. Known(id)
  BY DEF KnownTurns, Running
<1>1. /\ \A u \in Tasks : u # t => task'[u] = task[u]
      /\ task'[t].pc = pc /\ task'[t].kind = task[t].kind /\ task'[t].turn = id
      /\ task'[t].outcome = o
      /\ task' \in [Tasks -> Task \cup {Idle}]
  BY DEF Moved
<1>2. /\ turns' \in [Agents -> Seq(Turn)]
      /\ \A a \in Agents : Len(turns'[a]) = Len(turns[a]) /\ DOMAIN turns'[a] = DOMAIN turns[a]
      /\ \A j \in TurnId : Known(j) =>
           turns'[j[1]][j[2]] = IF j = id THEN r ELSE turns[j[1]][j[2]]
  BY DEF Writes
<1>3. TypeOK'
  BY <1>1, <1>2 DEF TypeOK
<1>4. \A u \in Tasks : task[u].pc # "idle" => task[u].turn \in TurnId /\ Known(task[u].turn)
  BY TaskFields DEF KnownTurns, Running
<1>5. \A j \in TurnId : Known(j)' <=> Known(j)
  BY <1>2, IdParts DEF Known
<1>6. creating \subseteq TurnId /\ dismissals \subseteq TurnId
  BY DEF TypeOK
<1>7. KnownTurns'
  <2>1. \A u \in Tasks : Running(u)' => Running(u) /\ task'[u].turn = task[u].turn
    BY <1>1 DEF Running
  <2>2. \A u \in Tasks : Running(u)' => task'[u].turn \in TurnId /\ Known(task[u].turn)
    BY <1>4, <2>1 DEF Running
  <2>3. \A u \in Tasks : Running(u)' => task'[u].turn[2] \in DOMAIN turns'[task'[u].turn[1]]
    BY <1>2, <2>1, <2>2, IdParts DEF Known
  <2>4. \A j \in creating' \cup dismissals' : j[2] \in DOMAIN turns'[j[1]]
    BY <1>2, <1>6, IdParts DEF Known, KnownTurns
  <2> QED
    BY <2>3, <2>4 DEF KnownTurns, Known
<1>8. EarlierFinished'
  <2> SUFFICES ASSUME NEW a \in Agents, NEW n \in DOMAIN turns'[a], n # Len(turns'[a])
               PROVE  is_terminal(turns'[a][n].status)
    BY DEF EarlierFinished
  <2>1. n \in DOMAIN turns[a] /\ n # Len(turns[a]) /\ n \in 1..MaxTurns
    BY <1>2, SchedulerAssumption DEF TypeOK
  <2> DEFINE j == <<a, n>>
  <2>2. j \in TurnId /\ Known(j) /\ j[1] = a /\ j[2] = n
    BY <2>1 DEF TurnId, Known
  <2>3. is_terminal(turns[a][n].status)
    BY <2>1 DEF EarlierFinished
  <2> HIDE DEF j
  <2> QED
    BY <1>2, <2>2, <2>3 DEF Status, Row
<1>9. QueuedUntouched'
  <2> SUFFICES ASSUME NEW j \in TurnId, Known(j), turns'[j[1]][j[2]].status = "queued"
               PROVE  /\ turns'[j[1]][j[2]].asked = "none"
                      /\ j \notin dismissals'
                      /\ \A u \in Tasks : (task'[u].pc # "idle" /\ task'[u].turn = j) =>
                           task'[u].kind = "start" /\ ~ Driving(u)'
    BY <1>5 DEF QueuedUntouched, Status, Row, Running
  <2>1. j # id /\ turns'[j[1]][j[2]] = turns[j[1]][j[2]]
    BY <1>2
  <2> QED
    BY <1>1, <2>1 DEF QueuedUntouched, Status, Row, Running, Driving
<1>10. OpeningAlone'
  <2> SUFFICES ASSUME NEW u \in Tasks, Opening(u)'
               PROVE  /\ turns'[task'[u].turn[1]][task'[u].turn[2]].status = "queued"
                      /\ task'[u].turn \notin creating'
                      /\ \A v \in Tasks : task'[v].pc # "idle" /\ task'[v].turn = task'[u].turn => v = u
    BY DEF OpeningAlone, Status, Row, Running
  <2>1. u # t /\ Opening(u) /\ task'[u] = task[u]
    BY <1>1 DEF Opening
  <2>2. task[u].turn # id
    BY <2>1 DEF OpeningAlone, Running
  <2>3. task[u].turn \in TurnId /\ Known(task[u].turn)
    BY <1>4, <2>1 DEF Opening
  <2>4. /\ turns[task[u].turn[1]][task[u].turn[2]].status = "queued" /\ task[u].turn \notin creating
        /\ \A v \in Tasks : task[v].pc # "idle" /\ task[v].turn = task[u].turn => v = u
    BY <2>1 DEF OpeningAlone, Status, Row, Running
  <2>5. turns'[task[u].turn[1]][task[u].turn[2]] = turns[task[u].turn[1]][task[u].turn[2]]
    BY <1>2, <2>2, <2>3
  <2>6. ASSUME NEW v \in Tasks, task'[v].pc # "idle", task'[v].turn = task[u].turn
        PROVE  v = u
    BY <1>1, <2>2, <2>4, <2>6
  <2> QED
    BY <2>1, <2>4, <2>5, <2>6
<1>11. CreatingAlone'
  BY <1>1, <1>2, <1>6 DEF CreatingAlone, KnownTurns, Status, Row, Running
<1>12. OneDriver'
  BY <1>1 DEF OneDriver, Driving
<1>13. DrivenNotWaiting'
  <2> SUFFICES ASSUME NEW u \in Tasks, Driving(u)'
               PROVE  ~ needs_attention(turns'[task'[u].turn[1]][task'[u].turn[2]].status)
    BY DEF DrivenNotWaiting, Status, Row
  <2>1. CASE u = t
    BY <1>0, <1>1, <1>2, <2>1
  <2>2. CASE u # t
    <3>1. task'[u] = task[u] /\ Driving(u)
      BY <1>1, <2>2 DEF Driving
    <3>2. task[u].turn \in TurnId /\ Known(task[u].turn)
      BY <1>4, <3>1 DEF Driving
    <3>3. ~ needs_attention(turns[task[u].turn[1]][task[u].turn[2]].status)
      BY <3>1 DEF DrivenNotWaiting, Status, Row
    <3>4. CASE task[u].turn # id
      BY <1>2, <3>1, <3>2, <3>3, <3>4
    <3>5. CASE task[u].turn = id
      BY <1>2, <2>2, <3>1, <3>2, <3>5
    <3> QED
      BY <3>4, <3>5
  <2> QED
    BY <2>1, <2>2
<1>14. CheckpointFirst'
  <2>1. ASSUME NEW u \in Tasks, task'[u].pc = "finish", needs_attention(task'[u].outcome)
        PROVE  turns'[task'[u].turn[1]][task'[u].turn[2]].checkpoint
    <3>1. CASE u = t
      BY <1>0, <1>1, <1>2, <2>1, <3>1
    <3>2. CASE u # t
      <4>1. task'[u] = task[u] /\ Driving(u) /\ Row(task[u].turn).checkpoint
        BY <1>1, <2>1, <3>2 DEF CheckpointFirst, Driving
      <4> QED
        BY <1>0, <1>2, <1>4, <2>1, <3>2, <4>1 DEF Row
    <3> QED
      BY <3>1, <3>2
  <2>2. ASSUME NEW j \in TurnId, Known(j), needs_attention(turns'[j[1]][j[2]].status)
        PROVE  turns'[j[1]][j[2]].checkpoint
    BY <1>2, <2>2 DEF CheckpointFirst, Status, Row
  <2> QED
    BY <1>5, <2>1, <2>2 DEF CheckpointFirst, Status, Row
<1> QED
  BY <1>3, <1>7, <1>8, <1>9, <1>10, <1>11, <1>12, <1>13, <1>14

(* The ways a row is written.                                                *)
WithStatus(id, next) == [Row(id) EXCEPT !.status = next]

Resumed(id) == [Row(id) EXCEPT !.status = "running", !.invocation_id = Row(id).invocation_id + 1]

WithCheckpoint(id, b) == [Row(id) EXCEPT !.checkpoint = b]

WithAsked(id, k) == [Row(id) EXCEPT !.asked = k]

LEMMA StatusWritten ==
  ASSUME TypeOK, NEW id \in TurnId, Known(id), NEW next \in AgentTurnStatus,
         turns' = [turns EXCEPT ![id[1]][id[2]].status = next]
  PROVE  /\ WithStatus(id, next) \in Turn
         /\ WithStatus(id, next).status = next
         /\ WithStatus(id, next).invocation_id = Row(id).invocation_id
         /\ WithStatus(id, next).checkpoint = Row(id).checkpoint
         /\ WithStatus(id, next).asked = Row(id).asked
         /\ Writes(id, WithStatus(id, next))
<1>1. /\ WithStatus(id, next) \in Turn
      /\ WithStatus(id, next).status = next
      /\ WithStatus(id, next).invocation_id = Row(id).invocation_id
      /\ WithStatus(id, next).checkpoint = Row(id).checkpoint
      /\ WithStatus(id, next).asked = Row(id).asked
  BY RowFields DEF WithStatus, Turn
<1>2. turns' = [turns EXCEPT ![id[1]] = [turns[id[1]] EXCEPT ![id[2]] = WithStatus(id, next)]]
  BY IdParts DEF WithStatus, Row, Known, TypeOK
<1> QED
  BY <1>1, <1>2, RowWritten

LEMMA ResumeWritten ==
  ASSUME TypeOK, NEW id \in TurnId, Known(id),
         turns' = [turns EXCEPT ![id[1]][id[2]] =
                     [Row(id) EXCEPT !.status = "running",
                                     !.invocation_id = Row(id).invocation_id + 1]]
  PROVE  /\ Resumed(id) \in Turn
         /\ Resumed(id).status = "running"
         /\ Resumed(id).invocation_id = Row(id).invocation_id + 1
         /\ Resumed(id).checkpoint = Row(id).checkpoint
         /\ Resumed(id).asked = Row(id).asked
         /\ Writes(id, Resumed(id))
<1>0. Row(id).invocation_id + 1 \in Nat /\ "running" \in AgentTurnStatus
  BY RowFields, StatusFacts
<1>1. /\ Resumed(id) \in Turn
      /\ Resumed(id).status = "running"
      /\ Resumed(id).invocation_id = Row(id).invocation_id + 1
      /\ Resumed(id).checkpoint = Row(id).checkpoint
      /\ Resumed(id).asked = Row(id).asked
  BY <1>0, RowFields DEF Resumed, Turn
<1>2. turns' = [turns EXCEPT ![id[1]] = [turns[id[1]] EXCEPT ![id[2]] = Resumed(id)]]
  BY IdParts, RowFields DEF Resumed, Row, Known, TypeOK, Turn
<1> QED
  BY <1>1, <1>2, RowWritten

LEMMA CheckpointWritten ==
  ASSUME TypeOK, NEW id \in TurnId, Known(id), NEW b \in BOOLEAN,
         turns' = [turns EXCEPT ![id[1]][id[2]].checkpoint = b]
  PROVE  /\ WithCheckpoint(id, b) \in Turn
         /\ WithCheckpoint(id, b).status = Status(id)
         /\ WithCheckpoint(id, b).invocation_id = Row(id).invocation_id
         /\ WithCheckpoint(id, b).checkpoint = b
         /\ Writes(id, WithCheckpoint(id, b))
<1>1. /\ WithCheckpoint(id, b) \in Turn
      /\ WithCheckpoint(id, b).status = Status(id)
      /\ WithCheckpoint(id, b).invocation_id = Row(id).invocation_id
      /\ WithCheckpoint(id, b).checkpoint = b
  BY RowFields DEF WithCheckpoint, Turn, Status
<1>2. turns' = [turns EXCEPT ![id[1]] = [turns[id[1]] EXCEPT ![id[2]] = WithCheckpoint(id, b)]]
  BY IdParts DEF WithCheckpoint, Row, Known, TypeOK
<1> QED
  BY <1>1, <1>2, RowWritten

LEMMA AskedWritten ==
  ASSUME TypeOK, NEW id \in TurnId, Known(id),
         NEW k \in {"none", "waiting_approval", "waiting_input"},
         turns' = [turns EXCEPT ![id[1]][id[2]].asked = k]
  PROVE  /\ WithAsked(id, k) \in Turn
         /\ WithAsked(id, k).status = Status(id)
         /\ WithAsked(id, k).invocation_id = Row(id).invocation_id
         /\ WithAsked(id, k).checkpoint = Row(id).checkpoint
         /\ WithAsked(id, k).asked = k
         /\ Writes(id, WithAsked(id, k))
<1>1. /\ WithAsked(id, k) \in Turn
      /\ WithAsked(id, k).status = Status(id)
      /\ WithAsked(id, k).invocation_id = Row(id).invocation_id
      /\ WithAsked(id, k).checkpoint = Row(id).checkpoint
      /\ WithAsked(id, k).asked = k
  BY RowFields DEF WithAsked, Turn, Status
<1>2. turns' = [turns EXCEPT ![id[1]] = [turns[id[1]] EXCEPT ![id[2]] = WithAsked(id, k)]]
  BY IdParts DEF WithAsked, Row, Known, TypeOK
<1> QED
  BY <1>1, <1>2, RowWritten

(* What every run knows of its own Turn.                                     *)
LEMMA OwnTurn ==
  ASSUME RunInv, NEW t \in Tasks, task[t].pc # "idle"
  PROVE  /\ task[t].turn \in TurnId
         /\ Known(task[t].turn)
         /\ Driving(t) => Status(task[t].turn) # "queued"
         /\ Driving(t) => \A u \in Tasks : u # t /\ Driving(u) => task[u].turn # task[t].turn
BY TaskFields DEF RunInv, KnownTurns, Running, QueuedUntouched, OneDriver

(* Admission, faults and the error path leave the rows alone.                *)
LEMMA AdmissionStep ==
  ASSUME RunInv, NEW t \in Tasks,
         \/ AcquireGlobal(t) \/ AcquireSession(t) \/ AcquireWorkspace(t) \/ LeaseReadFails(t)
         \/ ConsumeCancel(t) \/ Register(t)
  PROVE  RunInv'
<1> USE DEF RunInv
<1>1. /\ task[t].pc \in {"global", "session", "workspace", "consume", "register"}
      /\ UNCHANGED <<turns, creating, dismissals, cancels, crashes>>
      /\ cancelled_before_start' \subseteq cancelled_before_start
      /\ \/ Goto(t, "session") \/ Goto(t, "consume") \/ Goto(t, "workspace") \/ Goto(t, "begin")
         \/ task' = [task EXCEPT ![t].pc = "consume", ![t].lease = TRUE]
         \/ task' = [task EXCEPT ![t].pc = "register",
                                 ![t].cancelled = task[t].turn \in cancelled_before_start]
  BY DEF AcquireGlobal, AcquireSession, AcquireWorkspace, LeaseReadFails, ConsumeCancel,
         Register, At
<1>2. PICK pc \in {"session", "workspace", "consume", "register", "begin"} :
        Moved(t, pc, task[t].outcome)
  <2>1. CASE Goto(t, "session") \/ Goto(t, "consume") \/ Goto(t, "workspace") \/ Goto(t, "begin")
    BY <1>1, <2>1, GotoMoves DEF Step
  <2>2. CASE task' = [task EXCEPT ![t].pc = "consume", ![t].lease = TRUE]
    <3> DEFINE c == [task[t] EXCEPT !.pc = "consume", !.lease = TRUE]
    <3>1. /\ c \in Task /\ c.pc = "consume" /\ c.kind = task[t].kind
          /\ c.turn = task[t].turn /\ c.outcome = task[t].outcome
      BY <1>1, TaskFields DEF Task, Step
    <3>2. task' = [task EXCEPT ![t] = c]
      BY <2>2 DEF TypeOK
    <3> HIDE DEF c
    <3> QED
      BY <3>1, <3>2, CommandMoves
  <2>3. CASE task' = [task EXCEPT ![t].pc = "register",
                                  ![t].cancelled = task[t].turn \in cancelled_before_start]
    <3> DEFINE b == task[t].turn \in cancelled_before_start
               c == [task[t] EXCEPT !.pc = "register", !.cancelled = b]
    <3>0. b \in BOOLEAN
      OBVIOUS
    <3>1. task' = [task EXCEPT ![t] = c]
      BY <2>3 DEF TypeOK
    <3> HIDE DEF b
    <3>2. /\ c \in Task /\ c.pc = "register" /\ c.kind = task[t].kind
          /\ c.turn = task[t].turn /\ c.outcome = task[t].outcome
      BY <1>1, <3>0, TaskFields DEF Task, Step
    <3> HIDE DEF c
    <3> QED
      BY <3>1, <3>2, CommandMoves
  <2> QED
    BY <1>1, <2>1, <2>2, <2>3
<1>3. active' \in [Agents -> Tasks \cup {NoTask}]
  <2>1. agent_of(t) \in Agents
    BY <1>1, TaskFields, IdParts DEF agent_of
  <2> QED
    BY <2>1 DEF TypeOK, AcquireGlobal, AcquireSession, AcquireWorkspace, LeaseReadFails,
                ConsumeCancel, Register
<1>4. TypeOK'
  BY <1>1, <1>2, <1>3 DEF TypeOK, Moved
<1> QED
  BY <1>1, <1>2, <1>4, QuietStep DEF Moved, Opening, Driving

LEMMA FaultStep ==
  ASSUME RunInv, NEW t \in Tasks,
         BeginFails(t) \/ DriveFails(t) \/ RunFails(t) \/ ErrorPathFails(t) \/ ReadAfterError(t)
  PROVE  RunInv'
<1> USE DEF RunInv
<1>1. /\ task[t].pc \in {"begin", "drive", "checkpoint", "finish", "error", "fail"}
      /\ UNCHANGED <<turns, creating, dismissals, active, cancelled_before_start, cancels, crashes>>
  BY DEF BeginFails, DriveFails, RunFails, ErrorPathFails, ReadAfterError, At, Driving
<1>2. CASE DriveFails(t)
  <2>1. task[t].pc = "drive" /\ Moved(t, "finish", "failed")
    BY <1>1, <1>2, OutcomeMoves, StatusFacts DEF DriveFails, At, Step
  <2>2. TypeOK'
    BY <1>1, <2>1 DEF TypeOK, Moved
  <2> QED
    BY <1>1, <2>1, <2>2, StatusFacts, QuietStep DEF Moved, Opening, Driving
<1>3. CASE BeginFails(t) \/ RunFails(t) \/ ErrorPathFails(t) \/ ReadAfterError(t)
  <2>1. PICK pc \in {"error", "fail", "unregister"}, o \in AgentTurnStatus : Moved(t, pc, o)
    <3>1. CASE BeginFails(t) \/ RunFails(t) \/ ErrorPathFails(t)
      BY <1>1, <3>1, GotoMoves, TaskFields DEF BeginFails, RunFails, ErrorPathFails, Step
    <3>2. CASE ReadAfterError(t)
      <4> DEFINE o == Status(task[t].turn)
                 pc == IF is_terminal(o) THEN "unregister" ELSE "fail"
      <4>1. o \in AgentTurnStatus
        BY <1>1, OwnTurn, RowFields DEF Status
      <4>2. task' = [task EXCEPT ![t].pc = pc, ![t].outcome = o]
        BY <3>2 DEF ReadAfterError, TypeOK
      <4>3. pc \in {"unregister", "fail"}
        OBVIOUS
      <4> HIDE DEF o, pc
      <4> QED
        BY <1>1, <4>1, <4>2, <4>3, OutcomeMoves DEF Step
    <3> QED
      BY <1>3, <3>1, <3>2
  <2>2. TypeOK'
    BY <1>1, <2>1 DEF TypeOK, Moved
  <2> QED
    BY <1>1, <2>1, <2>2, QuietStep DEF Moved, Opening, Driving
<1> QED
  BY <1>2, <1>3

(* A run that goes to the error path has changed nothing.                    *)
LEMMA GivesUp ==
  ASSUME RunInv, NEW t \in Tasks, task[t].pc # "idle", Goto(t, "error"),
         UNCHANGED <<turns, creating, dismissals, active, cancelled_before_start, cancels, crashes>>
  PROVE  RunInv'
<1> USE DEF RunInv
<1>1. Moved(t, "error", task[t].outcome)
  BY GotoMoves DEF Step
<1>2. TypeOK'
  BY <1>1 DEF TypeOK, Moved
<1> QED
  BY <1>1, <1>2, QuietStep DEF Moved, Opening, Driving

(* record_turn_state by a run.                                               *)
LEMMA RecordStep ==
  ASSUME RunInv, NEW t \in Tasks, task[t].pc # "idle", NEW next \in AgentTurnStatus,
         Record(t, next),
         UNCHANGED <<creating, dismissals, active, cancelled_before_start, cancels, crashes>>,
         Status(task[t].turn) # "queued" \/ next = "cancelled",
         needs_attention(next) => task[t].pc = "finish" /\ task[t].outcome = next
  PROVE  RunInv'
<1> DEFINE id == task[t].turn
           r == WithStatus(id, next)
<1> USE DEF RunInv
<1>1. id \in TurnId /\ Known(id)
  BY OwnTurn
<1>2. CASE transition_ok(Status(id), next)
  <2>1. turns' = [turns EXCEPT ![id[1]][id[2]].status = next] /\ Goto(t, "unregister")
    BY <1>2 DEF Record
  <2>2. Moved(t, "unregister", task[t].outcome)
    BY <2>1, GotoMoves DEF Step
  <2> HIDE DEF id
  <2>3. /\ r \in Turn /\ r.status = next /\ r.checkpoint = Row(id).checkpoint /\ Writes(id, r)
    BY <1>1, <2>1, StatusWritten
  <2> HIDE DEF r
  <2>4. next # "queued" /\ (is_terminal(Status(id)) => is_terminal(next))
    BY <1>2, StatusFacts DEF id
  <2>5. ~ Driving(t)'
    BY <2>2 DEF Driving, Moved
  <2>6. needs_attention(next) => r.checkpoint /\ Driving(t)
    BY <2>3 DEF CheckpointFirst, Driving, id
  <2>7. \/ ~ needs_attention(next)
        \/ \A u \in Tasks : u # t /\ Driving(u) => task[u].turn # id
    BY <2>6, OwnTurn DEF id
  <2> QED
    BY <1>1, <2>2, <2>3, <2>4, <2>5, <2>6, <2>7, WriteStep DEF id
<1>3. CASE ~ transition_ok(Status(id), next)
  BY <1>3, GivesUp DEF Record
<1> QED
  BY <1>2, <1>3

LEMMA BeginStartStep ==
  ASSUME RunInv, NEW t \in Tasks, BeginStart(t)
  PROVE  RunInv'
<1> DEFINE id == task[t].turn
           r == WithStatus(id, "running")
<1> USE DEF RunInv
<1>1. /\ task[t].pc = "begin" /\ task[t].kind = "start"
      /\ UNCHANGED <<creating, active, cancelled_before_start, cancels, dismissals, crashes>>
  BY DEF BeginStart, At
<1>2. id \in TurnId /\ Known(id)
  BY <1>1, OwnTurn
<1>3. /\ Status(id) = "queued"
      /\ \A u \in Tasks : task[u].pc # "idle" /\ task[u].turn = id => u = t
  BY <1>1 DEF OpeningAlone, Opening, Running
<1>4. CASE task[t].cancelled
  <2>1. Record(t, "cancelled")
    BY <1>4 DEF BeginStart
  <2> QED
    BY <1>1, <2>1, RecordStep, StatusFacts
<1>5. CASE ~ task[t].cancelled
  <2>1. transition_ok(Status(id), "running")
    BY <1>3 DEF transition_ok, can_transition_to
  <2>2. turns' = [turns EXCEPT ![id[1]][id[2]].status = "running"] /\ Goto(t, "drive")
    BY <1>5, <2>1 DEF BeginStart
  <2>3. Moved(t, "drive", task[t].outcome)
    BY <1>1, <2>2, GotoMoves DEF Step
  <2> HIDE DEF id
  <2>4. r \in Turn /\ r.status = "running" /\ Writes(id, r)
    BY <1>2, <2>2, StatusWritten, StatusFacts
  <2> HIDE DEF r
  <2>5. \A u \in Tasks : u # t /\ Driving(u) => task[u].turn # id
    BY <1>3 DEF Driving
  <2>6. ~ is_terminal(Status(id)) /\ ~ needs_attention(r.status)
    BY <1>3, <2>4, StatusFacts
  <2> QED
    BY <1>1, <1>2, <2>3, <2>4, <2>5, <2>6, WriteStep DEF id
<1> QED
  BY <1>4, <1>5

LEMMA BeginResumeStep ==
  ASSUME RunInv, NEW t \in Tasks, BeginResume(t)
  PROVE  RunInv'
<1> DEFINE id == task[t].turn
           r == Resumed(id)
<1> USE DEF RunInv
<1>1. /\ task[t].pc = "begin"
      /\ UNCHANGED <<creating, active, cancelled_before_start, cancels, dismissals, crashes>>
  BY DEF BeginResume, At
<1>2. id \in TurnId /\ Known(id)
  BY <1>1, OwnTurn
<1>3. CASE needs_attention(Status(id))
  <2>1. Row(id).checkpoint
    BY <1>2, <1>3 DEF CheckpointFirst
  <2>2. turns' = [turns EXCEPT ![id[1]][id[2]] =
                     [Row(id) EXCEPT !.status = "running",
                                     !.invocation_id = Row(id).invocation_id + 1]]
        /\ Goto(t, "drive")
    BY <1>3, <2>1 DEF BeginResume
  <2>3. Moved(t, "drive", task[t].outcome)
    BY <1>1, <2>2, GotoMoves DEF Step
  <2> HIDE DEF id
  <2>4. r \in Turn /\ r.status = "running" /\ Writes(id, r)
    BY <1>2, <2>2, ResumeWritten
  <2> HIDE DEF r
  <2>5. \A u \in Tasks : u # t /\ Driving(u) => task[u].turn # id
    BY <1>3 DEF DrivenNotWaiting
  <2>6. ~ is_terminal(Status(id)) /\ ~ needs_attention(r.status)
    BY <1>3, <2>4, StatusFacts
  <2> QED
    BY <1>1, <1>2, <2>3, <2>4, <2>5, <2>6, WriteStep DEF id
<1>4. CASE ~ needs_attention(Status(id))
  BY <1>1, <1>4, GivesUp DEF BeginResume
<1> QED
  BY <1>3, <1>4

LEMMA DriveStep ==
  ASSUME RunInv, NEW t \in Tasks, NEW outcome \in Outcomes, Drive(t, outcome)
  PROVE  RunInv'
<1> DEFINE id == task[t].turn
           r == WithAsked(id, outcome)
<1> USE DEF RunInv
<1>1. /\ task[t].pc = "drive"
      /\ UNCHANGED <<creating, active, cancelled_before_start, cancels, dismissals, crashes>>
      /\ task' = [task EXCEPT ![t].pc = "checkpoint", ![t].outcome = outcome]
  BY DEF Drive, At
<1>2. id \in TurnId /\ Known(id)
  BY <1>1, OwnTurn
<1>3. outcome \in AgentTurnStatus
  BY SchedulerAssumption DEF Outcomes, AgentTurnStatus, TerminalStatuses
<1>4. Moved(t, "checkpoint", outcome)
  BY <1>1, <1>3, OutcomeMoves DEF Step
<1>5. CASE turns' = turns
  <2>1. TypeOK'
    BY <1>1, <1>4, <1>5 DEF TypeOK, Moved
  <2> QED
    BY <1>1, <1>4, <1>5, <2>1, QuietStep DEF Moved, Opening, Driving
<1>6. CASE /\ outcome \in {"waiting_approval", "waiting_input"}
           /\ turns' = [turns EXCEPT ![id[1]][id[2]].asked = outcome]
  <2>1. /\ Driving(t) /\ Status(id) # "queued" /\ ~ needs_attention(Status(id))
        /\ \A u \in Tasks : u # t /\ Driving(u) => task[u].turn # id
    <3>1. Driving(t)
      BY <1>1 DEF Driving
    <3> QED
      BY <1>1, <3>1, OwnTurn DEF DrivenNotWaiting
  <2> HIDE DEF id
  <2>2. r \in Turn /\ r.status = Status(id) /\ Writes(id, r)
    BY <1>2, <1>6, AskedWritten
  <2> HIDE DEF r
  <2> QED
    BY <1>1, <1>2, <1>4, <2>1, <2>2, WriteStep DEF id
<1> QED
  BY <1>5, <1>6 DEF Drive

LEMMA CheckpointStep ==
  ASSUME RunInv, NEW t \in Tasks, Checkpoint(t)
  PROVE  RunInv'
<1> DEFINE id == task[t].turn
           b == needs_attention(task[t].outcome)
           r == WithCheckpoint(id, b)
<1> USE DEF RunInv
<1>1. /\ task[t].pc = "checkpoint" /\ Goto(t, "finish")
      /\ UNCHANGED <<creating, active, cancelled_before_start, cancels, dismissals, crashes>>
      /\ turns' = [turns EXCEPT ![id[1]][id[2]].checkpoint = b]
  BY DEF Checkpoint, At
<1>2. id \in TurnId /\ Known(id)
  BY <1>1, OwnTurn
<1>3. Moved(t, "finish", task[t].outcome)
  BY <1>1, GotoMoves DEF Step
<1>4. /\ Status(id) # "queued" /\ ~ needs_attention(Status(id))
      /\ \A u \in Tasks : u # t /\ Driving(u) => task[u].turn # id
  <2>1. Driving(t)
    BY <1>1 DEF Driving
  <2> QED
    BY <1>1, <2>1, OwnTurn DEF DrivenNotWaiting
<1>5. b \in BOOLEAN
  BY DEF needs_attention
<1>6. needs_attention(task[t].outcome) => b
  OBVIOUS
<1> HIDE DEF id, b
<1>7. r \in Turn /\ r.status = Status(id) /\ r.checkpoint = b /\ Writes(id, r)
  BY <1>1, <1>2, <1>5, CheckpointWritten
<1> HIDE DEF r
<1> QED
  BY <1>1, <1>2, <1>3, <1>4, <1>6, <1>7, WriteStep DEF id

LEMMA FinishStep ==
  ASSUME RunInv, NEW t \in Tasks, Finish(t)
  PROVE  RunInv'
<1> USE DEF RunInv
<1>1. /\ task[t].pc = "finish" /\ Record(t, task[t].outcome)
      /\ UNCHANGED <<creating, active, cancelled_before_start, cancels, dismissals, crashes>>
  BY DEF Finish, At
<1>2. task[t].outcome \in AgentTurnStatus
  BY <1>1, TaskFields
<1>3. Status(task[t].turn) # "queued"
  BY <1>1, OwnTurn DEF Driving
<1> QED
  BY <1>1, <1>2, <1>3, RecordStep

LEMMA ErrorWriteStep ==
  ASSUME RunInv, NEW t \in Tasks, StartFailed(t) \/ FailTurn(t)
  PROVE  RunInv'
<1> DEFINE id == task[t].turn
<1> USE DEF RunInv
<1>1. /\ task[t].pc = "fail"
      /\ UNCHANGED <<creating, active, cancelled_before_start, cancels, dismissals, crashes>>
  BY DEF StartFailed, FailTurn, At
<1>2. id \in TurnId /\ Known(id)
  BY <1>1, OwnTurn
<1>3. PICK pc \in {"fail", "unregister"}, o \in AgentTurnStatus : Moved(t, pc, o)
  <2>1. CASE StartFailed(t)
    <3> DEFINE c == [task[t] EXCEPT !.outcome = "running"]
    <3>1. /\ c \in Task /\ c.pc = "fail" /\ c.kind = task[t].kind /\ c.turn = task[t].turn
          /\ c.outcome = "running"
      BY <1>1, TaskFields, StatusFacts DEF Task
    <3>2. task' = [task EXCEPT ![t] = c]
      BY <2>1 DEF StartFailed, TypeOK
    <3> HIDE DEF c
    <3> QED
      BY <3>1, <3>2, CommandMoves, StatusFacts
  <2>2. CASE FailTurn(t)
    BY <1>1, <2>2, GotoMoves, TaskFields DEF FailTurn, Step
  <2> QED
    BY <2>1, <2>2
<1>4. CASE turns' = turns
  <2>1. TypeOK'
    BY <1>1, <1>3, <1>4 DEF TypeOK, Moved
  <2> QED
    BY <1>1, <1>3, <1>4, <2>1, QuietStep DEF Moved, Opening, Driving
<1>5. ASSUME NEW next \in {"running", "failed"}, transition_ok(Status(id), next),
             turns' = [turns EXCEPT ![id[1]][id[2]].status = next]
      PROVE  RunInv'
  <2> DEFINE r == WithStatus(id, next)
  <2>0. next \in AgentTurnStatus
    BY StatusFacts
  <2> HIDE DEF id
  <2>1. r \in Turn /\ r.status = next /\ r.checkpoint = Row(id).checkpoint /\ Writes(id, r)
    BY <1>2, <1>5, <2>0, StatusWritten
  <2> HIDE DEF r
  <2>2. ~ needs_attention(next) /\ (is_terminal(Status(id)) => is_terminal(next))
    BY <1>5, StatusFacts
  <2>3. ~ Driving(t)'
    BY <1>3 DEF Driving, Moved
  <2> QED
    BY <1>1, <1>2, <1>3, <2>1, <2>2, <2>3, WriteStep DEF id
<1> QED
  BY <1>4, <1>5 DEF StartFailed, FailTurn

LEMMA UnregisterStep ==
  ASSUME RunInv, NEW t \in Tasks, Unregister(t)
  PROVE  RunInv'
<1> USE DEF RunInv
<1>1. /\ task[t].pc = "unregister" /\ task' = [task EXCEPT ![t] = Idle]
      /\ active' = [active EXCEPT ![agent_of(t)] = NoTask]
      /\ UNCHANGED <<turns, creating, cancelled_before_start, cancels, dismissals, crashes>>
  BY DEF Unregister, At
<1>2. /\ task' \in [Tasks -> Task \cup {Idle}] /\ task'[t] = Idle
      /\ \A u \in Tasks : u # t => task'[u] = task[u]
  BY <1>1 DEF TypeOK
<1>3. TypeOK'
  BY <1>1, <1>2 DEF TypeOK
<1> QED
  BY <1>1, <1>2, <1>3, QuietStep, IdleTask

(* A row is written from outside a run: the request table or a dismissal.    *)
LEMMA OutsideWriteStep ==
  ASSUME RunInv, NEW id \in TurnId, Known(id), NEW r \in Turn, Writes(id, r),
         UNCHANGED <<creating, task, active, cancelled_before_start, cancels, crashes>>,
         dismissals' \subseteq dismissals \cup {id},
         Status(id) # "queued", r.status # "queued",
         is_terminal(Status(id)) => is_terminal(r.status),
         r.checkpoint = Row(id).checkpoint,
         r.status = Status(id) \/ ~ needs_attention(r.status)
  PROVE  RunInv'
<1> USE DEF RunInv
<1>1. /\ turns' \in [Agents -> Seq(Turn)]
      /\ \A a \in Agents : Len(turns'[a]) = Len(turns[a]) /\ DOMAIN turns'[a] = DOMAIN turns[a]
      /\ \A j \in TurnId : Known(j) =>
           turns'[j[1]][j[2]] = IF j = id THEN r ELSE turns[j[1]][j[2]]
  BY DEF Writes
<1>2. TypeOK'
  BY <1>1 DEF TypeOK
<1>3. \A u \in Tasks : task[u].pc # "idle" => task[u].turn \in TurnId /\ Known(task[u].turn)
  BY TaskFields DEF KnownTurns, Running
<1>4. \A j \in TurnId : Known(j)' <=> Known(j)
  BY <1>1, IdParts DEF Known
<1>5. creating \subseteq TurnId /\ dismissals' \subseteq TurnId
  BY DEF TypeOK
<1>6. KnownTurns'
  <2>1. \A u \in Tasks : task'[u].pc # "idle" => task'[u].turn[2] \in DOMAIN turns'[task'[u].turn[1]]
    BY <1>1, <1>3, IdParts DEF Known
  <2>2. \A j \in creating' \cup dismissals' : j[2] \in DOMAIN turns'[j[1]]
    BY <1>1, <1>5, IdParts DEF Known, KnownTurns
  <2> QED
    BY <2>1, <2>2 DEF KnownTurns, Known, Running
<1>7. EarlierFinished'
  <2> SUFFICES ASSUME NEW a \in Agents, NEW n \in DOMAIN turns'[a], n # Len(turns'[a])
               PROVE  is_terminal(turns'[a][n].status)
    BY DEF EarlierFinished
  <2>1. n \in DOMAIN turns[a] /\ n # Len(turns[a]) /\ n \in 1..MaxTurns
    BY <1>1, SchedulerAssumption DEF TypeOK
  <2> DEFINE j == <<a, n>>
  <2>2. j \in TurnId /\ Known(j) /\ j[1] = a /\ j[2] = n
    BY <2>1 DEF TurnId, Known
  <2>3. is_terminal(turns[a][n].status)
    BY <2>1 DEF EarlierFinished
  <2> HIDE DEF j
  <2> QED
    BY <1>1, <2>2, <2>3 DEF Status, Row
<1>8. QueuedUntouched'
  <2> SUFFICES ASSUME NEW j \in TurnId, Known(j), turns'[j[1]][j[2]].status = "queued"
               PROVE  /\ turns'[j[1]][j[2]].asked = "none"
                      /\ j \notin dismissals'
                      /\ \A u \in Tasks : (task'[u].pc # "idle" /\ task'[u].turn = j) =>
                           task'[u].kind = "start" /\ ~ Driving(u)'
    BY <1>4 DEF QueuedUntouched, Status, Row, Running
  <2>1. j # id /\ turns'[j[1]][j[2]] = turns[j[1]][j[2]]
    BY <1>1
  <2> QED
    BY <2>1 DEF QueuedUntouched, Status, Row, Running, Driving
<1>9. OpeningAlone'
  <2> SUFFICES ASSUME NEW u \in Tasks, Opening(u)
               PROVE  turns'[task[u].turn[1]][task[u].turn[2]].status = "queued"
    BY DEF OpeningAlone, Opening, Status, Row, Running
  <2>1. task[u].turn \in TurnId /\ Known(task[u].turn) /\ Status(task[u].turn) = "queued"
    BY <1>3 DEF Opening, OpeningAlone
  <2>2. task[u].turn # id
    BY <2>1
  <2> QED
    BY <1>1, <2>1, <2>2 DEF Status, Row
<1>10. CreatingAlone'
  <2> SUFFICES ASSUME NEW j \in creating PROVE turns'[j[1]][j[2]].status = "queued"
    BY DEF CreatingAlone, Status, Row, Running
  <2>1. j \in TurnId /\ Known(j) /\ Status(j) = "queued"
    BY <1>5 DEF CreatingAlone, KnownTurns
  <2>2. j # id
    BY <2>1
  <2> QED
    BY <1>1, <2>1, <2>2 DEF Status, Row
<1>11. OneDriver'
  BY DEF OneDriver, Driving
<1>12. DrivenNotWaiting'
  <2> SUFFICES ASSUME NEW u \in Tasks, Driving(u)
               PROVE  ~ needs_attention(turns'[task[u].turn[1]][task[u].turn[2]].status)
    BY DEF DrivenNotWaiting, Driving, Status, Row
  <2>1. task[u].turn \in TurnId /\ Known(task[u].turn) /\ ~ needs_attention(Status(task[u].turn))
    BY <1>3 DEF Driving, DrivenNotWaiting
  <2> QED
    BY <1>1, <2>1 DEF Status, Row
<1>13. CheckpointFirst'
  <2>1. ASSUME NEW u \in Tasks, task[u].pc = "finish", needs_attention(task[u].outcome)
        PROVE  turns'[task[u].turn[1]][task[u].turn[2]].checkpoint
    <3>1. task[u].turn \in TurnId /\ Known(task[u].turn) /\ Row(task[u].turn).checkpoint
      BY <1>3, <2>1 DEF CheckpointFirst
    <3> QED
      BY <1>1, <3>1 DEF Row
  <2>2. ASSUME NEW j \in TurnId, Known(j), needs_attention(turns'[j[1]][j[2]].status)
        PROVE  turns'[j[1]][j[2]].checkpoint
    BY <1>1, <2>2 DEF CheckpointFirst, Status, Row
  <2> QED
    BY <1>4, <2>1, <2>2 DEF CheckpointFirst, Status, Row
<1> QED
  BY <1>2, <1>6, <1>7, <1>8, <1>9, <1>10, <1>11, <1>12, <1>13

(* A Turn about which something was asked or dismissed has begun.            *)
LEMMA AskedHasBegun ==
  ASSUME RunInv, NEW id \in TurnId, Known(id), Row(id).asked # "none" \/ id \in dismissals
  PROVE  Status(id) # "queued"
BY DEF RunInv, QueuedUntouched

LEMMA DismissStep ==
  ASSUME RunInv, NEW id \in TurnId, UserDismisses(id)
  PROVE  RunInv'
<1> DEFINE r == WithAsked(id, "none")
<1> USE DEF RunInv
<1>1. /\ Known(id) /\ Row(id).asked # "none" /\ dismissals' = dismissals \cup {id}
      /\ turns' = [turns EXCEPT ![id[1]][id[2]].asked = "none"]
      /\ UNCHANGED <<creating, task, active, cancelled_before_start, cancels, crashes>>
  BY DEF UserDismisses, TurnIds, Known
<1>2. r \in Turn /\ r.status = Status(id) /\ r.checkpoint = Row(id).checkpoint /\ Writes(id, r)
  BY <1>1, AskedWritten
<1> HIDE DEF r
<1> QED
  BY <1>1, <1>2, AskedHasBegun, OutsideWriteStep

LEMMA CancelDismissedStep ==
  ASSUME RunInv, NEW id \in TurnId, CancelDismissed(id)
  PROVE  RunInv'
<1> USE DEF RunInv
<1>1. /\ id \in dismissals /\ dismissals' = dismissals \ {id} /\ Known(id)
      /\ UNCHANGED <<creating, task, active, cancelled_before_start, cancels, crashes>>
  BY DEF CancelDismissed, KnownTurns
<1>2. CASE /\ transition_ok(Status(id), "cancelled")
           /\ turns' = [turns EXCEPT ![id[1]][id[2]].status = "cancelled"]
  <2> DEFINE r == WithStatus(id, "cancelled")
  <2>1. r \in Turn /\ r.status = "cancelled" /\ r.checkpoint = Row(id).checkpoint /\ Writes(id, r)
    BY <1>1, <1>2, StatusWritten, StatusFacts
  <2> HIDE DEF r
  <2> QED
    BY <1>1, <2>1, StatusFacts, AskedHasBegun, OutsideWriteStep
<1>3. CASE turns' = turns
  <2> DEFINE r == Row(id)
  <2>1. Writes(id, r)
    BY <1>3 DEF Writes, TypeOK, Row
  <2>2. r \in Turn
    BY <1>1, RowFields
  <2>3. r.status = Status(id) /\ r.checkpoint = Row(id).checkpoint
    BY DEF Status
  <2> HIDE DEF r
  <2> QED
    BY <1>1, <2>1, <2>2, <2>3, AskedHasBegun, OutsideWriteStep
<1> QED
  BY <1>2, <1>3 DEF CancelDismissed

(* submit: a new command takes an idle task.                                 *)
Begins(t, kind, id) ==
  /\ task[t].pc = "idle"
  /\ task' \in [Tasks -> Task \cup {Idle}]
  /\ \A u \in Tasks : u # t => task'[u] = task[u]
  /\ task'[t].pc = "global"
  /\ task'[t].kind = kind
  /\ task'[t].turn = id
  /\ task'[t].lease = FALSE

LEMMA CommandFields ==
  ASSUME NEW id \in TurnId, NEW kind \in {"start", "resume"}
  PROVE  /\ Command(kind, id) \in Task
         /\ Command(kind, id).pc = "global"
         /\ Command(kind, id).kind = kind
         /\ Command(kind, id).turn = id
         /\ Command(kind, id).lease = FALSE
BY StatusFacts DEF Command, Task, Step

LEMMA SubmitBegins ==
  ASSUME TypeOK, NEW id \in TurnId, NEW kind \in {"start", "resume"}, Submit(kind, id)
  PROVE  \E t \in Tasks : Begins(t, kind, id)
<1>1. PICK t \in Tasks : task[t].pc = "idle" /\ task' = [task EXCEPT ![t] = Command(kind, id)]
  BY DEF Submit, At
<1>2. /\ task' \in [Tasks -> Task \cup {Idle}] /\ task'[t] = Command(kind, id)
      /\ \A u \in Tasks : u # t => task'[u] = task[u]
  BY <1>1, CommandFields DEF TypeOK
<1>3. Begins(t, kind, id)
  <2> DEFINE c == Command(kind, id)
  <2>1. c.pc = "global" /\ c.kind = kind /\ c.turn = id /\ c.lease = FALSE
    BY CommandFields
  <2> HIDE DEF c
  <2> QED
    BY <1>1, <1>2, <2>1 DEF Begins, c
<1> QED
  BY <1>3

LEMMA ResumeSubmitted ==
  ASSUME RunInv, NEW id \in TurnId, Known(id), NEW r \in Turn, Writes(id, r),
         UNCHANGED <<creating, active, cancelled_before_start, cancels, dismissals, crashes>>,
         Status(id) # "queued", r.status = Status(id), r.checkpoint = Row(id).checkpoint,
         NEW t \in Tasks, Begins(t, "resume", id)
  PROVE  RunInv'
<1> USE DEF RunInv
<1>1. /\ turns' \in [Agents -> Seq(Turn)]
      /\ \A a \in Agents : Len(turns'[a]) = Len(turns[a]) /\ DOMAIN turns'[a] = DOMAIN turns[a]
      /\ \A j \in TurnId : Known(j) =>
           turns'[j[1]][j[2]] = IF j = id THEN r ELSE turns[j[1]][j[2]]
  BY DEF Writes
<1>2. /\ task[t].pc = "idle" /\ task' \in [Tasks -> Task \cup {Idle}]
      /\ \A u \in Tasks : u # t => task'[u] = task[u]
      /\ task'[t].pc = "global" /\ task'[t].kind = "resume" /\ task'[t].turn = id
  BY DEF Begins
<1>3. TypeOK'
  BY <1>1, <1>2 DEF TypeOK
<1>4. \A u \in Tasks : task[u].pc # "idle" => task[u].turn \in TurnId /\ Known(task[u].turn)
  BY TaskFields DEF KnownTurns, Running
<1>5. \A j \in TurnId :
        /\ Known(j)' <=> Known(j)
        /\ Known(j) => /\ turns'[j[1]][j[2]].status = turns[j[1]][j[2]].status
                       /\ turns'[j[1]][j[2]].checkpoint = turns[j[1]][j[2]].checkpoint
  BY <1>1, IdParts DEF Known, Status, Row
<1>6. creating \subseteq TurnId /\ dismissals \subseteq TurnId
  BY DEF TypeOK
<1>7. \A u \in Tasks : task'[u].pc # "idle" =>
        task'[u].turn \in TurnId /\ task'[u].turn[2] \in DOMAIN turns[task'[u].turn[1]]
  BY <1>2, <1>4 DEF Known
<1>8. KnownTurns'
  <2>1. \A u \in Tasks : task'[u].pc # "idle" => task'[u].turn[2] \in DOMAIN turns'[task'[u].turn[1]]
    BY <1>1, <1>7, IdParts
  <2>2. \A j \in creating' \cup dismissals' : j[2] \in DOMAIN turns'[j[1]]
    BY <1>1, <1>6, IdParts DEF Known, KnownTurns
  <2> QED
    BY <2>1, <2>2 DEF KnownTurns, Known, Running
<1>9. EarlierFinished'
  <2> SUFFICES ASSUME NEW a \in Agents, NEW n \in DOMAIN turns'[a], n # Len(turns'[a])
               PROVE  is_terminal(turns'[a][n].status)
    BY DEF EarlierFinished
  <2>1. n \in DOMAIN turns[a] /\ n # Len(turns[a]) /\ n \in 1..MaxTurns
    BY <1>1, SchedulerAssumption DEF TypeOK
  <2> DEFINE j == <<a, n>>
  <2>2. j \in TurnId /\ Known(j) /\ j[1] = a /\ j[2] = n
    BY <2>1 DEF TurnId, Known
  <2>3. is_terminal(turns[a][n].status)
    BY <2>1 DEF EarlierFinished
  <2> HIDE DEF j
  <2> QED
    BY <1>5, <2>2, <2>3
<1>10. QueuedUntouched'
  <2> SUFFICES ASSUME NEW j \in TurnId, Known(j), turns'[j[1]][j[2]].status = "queued"
               PROVE  /\ turns'[j[1]][j[2]].asked = "none"
                      /\ j \notin dismissals'
                      /\ \A u \in Tasks : (task'[u].pc # "idle" /\ task'[u].turn = j) =>
                           task'[u].kind = "start" /\ ~ Driving(u)'
    BY <1>5 DEF QueuedUntouched, Status, Row, Running
  <2>1. j # id /\ turns'[j[1]][j[2]] = turns[j[1]][j[2]]
    BY <1>1
  <2> QED
    BY <1>2, <2>1 DEF QueuedUntouched, Status, Row, Running, Driving
<1>11. OpeningAlone'
  <2> SUFFICES ASSUME NEW u \in Tasks, Opening(u)'
               PROVE  /\ turns'[task'[u].turn[1]][task'[u].turn[2]].status = "queued"
                      /\ task'[u].turn \notin creating'
                      /\ \A v \in Tasks : task'[v].pc # "idle" /\ task'[v].turn = task'[u].turn => v = u
    BY DEF OpeningAlone, Status, Row, Running
  <2>1. u # t /\ Opening(u) /\ task'[u] = task[u]
    BY <1>2 DEF Opening
  <2>2. task[u].turn \in TurnId /\ Known(task[u].turn) /\ Status(task[u].turn) = "queued"
    BY <1>4, <2>1 DEF Opening, OpeningAlone
  <2>3. task[u].turn # id
    BY <2>2
  <2> QED
    BY <1>1, <1>2, <2>1, <2>2, <2>3 DEF OpeningAlone, Status, Row, Running
<1>12. CreatingAlone'
  <2> SUFFICES ASSUME NEW j \in creating
               PROVE  /\ turns'[j[1]][j[2]].status = "queued"
                      /\ \A u \in Tasks : task'[u].pc # "idle" => task'[u].turn # j
    BY DEF CreatingAlone, Status, Row, Running
  <2>1. j \in TurnId /\ Known(j) /\ Status(j) = "queued"
    BY <1>6 DEF CreatingAlone, KnownTurns
  <2>2. j # id
    BY <2>1
  <2> QED
    BY <1>1, <1>2, <2>1, <2>2 DEF Status, Row, CreatingAlone, Running
<1>13. OneDriver'
  BY <1>2 DEF OneDriver, Driving
<1>14. DrivenNotWaiting'
  <2> SUFFICES ASSUME NEW u \in Tasks, Driving(u)'
               PROVE  ~ needs_attention(turns'[task'[u].turn[1]][task'[u].turn[2]].status)
    BY DEF DrivenNotWaiting, Status, Row
  <2>1. Driving(u) /\ task'[u] = task[u]
    BY <1>2 DEF Driving
  <2>2. task[u].turn \in TurnId /\ Known(task[u].turn) /\ ~ needs_attention(Status(task[u].turn))
    BY <1>4, <2>1 DEF Driving, DrivenNotWaiting
  <2> QED
    BY <1>5, <2>1, <2>2 DEF Status, Row
<1>15. CheckpointFirst'
  <2>1. ASSUME NEW u \in Tasks, task'[u].pc = "finish", needs_attention(task'[u].outcome)
        PROVE  turns'[task'[u].turn[1]][task'[u].turn[2]].checkpoint
    <3>1. task'[u] = task[u]
      BY <1>2, <2>1
    <3>2. task[u].turn \in TurnId /\ Known(task[u].turn) /\ Row(task[u].turn).checkpoint
      BY <1>4, <2>1, <3>1 DEF CheckpointFirst
    <3> QED
      BY <1>5, <3>1, <3>2 DEF Row
  <2>2. ASSUME NEW j \in TurnId, Known(j), needs_attention(turns'[j[1]][j[2]].status)
        PROVE  turns'[j[1]][j[2]].checkpoint
    BY <1>5, <2>2 DEF CheckpointFirst, Status, Row
  <2> QED
    BY <1>5, <2>1, <2>2 DEF CheckpointFirst, Status, Row
<1> QED
  BY <1>3, <1>8, <1>9, <1>10, <1>11, <1>12, <1>13, <1>14, <1>15

LEMMA DecideStep ==
  ASSUME RunInv, NEW id \in TurnId, UserDecides(id) \/ UserResumes(id)
  PROVE  RunInv'
<1> USE DEF RunInv
<1>1. /\ Known(id) /\ Submit("resume", id)
      /\ UNCHANGED <<creating, active, cancelled_before_start, cancels, dismissals, crashes>>
  BY DEF UserDecides, UserResumes, TurnIds, Known
<1>2. PICK t \in Tasks : Begins(t, "resume", id)
  BY <1>1, SubmitBegins
<1>3. Status(id) # "queued"
  BY <1>1, AskedHasBegun DEF UserDecides, UserResumes
<1>4. PICK r \in Turn : /\ r.status = Status(id) /\ r.checkpoint = Row(id).checkpoint
                        /\ Writes(id, r)
  <2>1. CASE UserDecides(id)
    BY <1>1, <2>1, AskedWritten DEF UserDecides
  <2>2. CASE UserResumes(id)
    <3>1. Writes(id, Row(id))
      BY <2>2 DEF UserResumes, Writes, TypeOK, Row
    <3> QED
      BY <1>1, <3>1, RowFields DEF Status
  <2> QED
    BY <2>1, <2>2
<1> QED
  BY <1>1, <1>2, <1>3, <1>4, ResumeSubmitted

LEMMA SubmitStartStep ==
  ASSUME RunInv, NEW id \in TurnId, submit_start(id)
  PROVE  RunInv'
<1> USE DEF RunInv
<1>1. /\ id \in creating /\ creating' = creating \ {id} /\ Submit("start", id)
      /\ UNCHANGED <<turns, active, cancelled_before_start, cancels, dismissals, crashes>>
  BY DEF submit_start
<1>2. PICK t \in Tasks : Begins(t, "start", id)
  BY <1>1, SubmitBegins
<1>3. /\ task[t].pc = "idle" /\ task' \in [Tasks -> Task \cup {Idle}]
      /\ \A u \in Tasks : u # t => task'[u] = task[u]
      /\ task'[t].pc = "global" /\ task'[t].kind = "start" /\ task'[t].turn = id
  BY <1>2 DEF Begins
<1>4. TypeOK'
  BY <1>1, <1>3 DEF TypeOK
<1>5. /\ Known(id) /\ Status(id) = "queued"
      /\ \A u \in Tasks : task[u].pc # "idle" => task[u].turn # id
  BY <1>1 DEF CreatingAlone, KnownTurns, Running
<1>6. KnownTurns' /\ EarlierFinished'
  BY <1>1, <1>3, <1>5 DEF KnownTurns, EarlierFinished, Known, Running, is_terminal
<1>7. QueuedUntouched'
  BY <1>1, <1>3 DEF QueuedUntouched, Known, Status, Row, Running, Driving
<1>8. OpeningAlone'
  BY <1>1, <1>3, <1>5 DEF OpeningAlone, Opening, Status, Row, Running
<1>9. CreatingAlone'
  BY <1>1, <1>3 DEF CreatingAlone, Status, Row, Running
<1>10. OneDriver' /\ DrivenNotWaiting'
  BY <1>1, <1>3 DEF OneDriver, DrivenNotWaiting, Driving, Status, Row, needs_attention
<1>11. CheckpointFirst'
  BY <1>1, <1>3 DEF CheckpointFirst, Known, Status, Row, needs_attention
<1> QED
  BY <1>4, <1>6, <1>7, <1>8, <1>9, <1>10, <1>11

LEMMA CreateStep ==
  ASSUME RunInv, NEW a \in Agents, CreateTurn(a)
  PROVE  RunInv'
<1> DEFINE k == Len(turns[a])
           id == <<a, k + 1>>
<1> USE DEF RunInv
<1>1. /\ turns' = [turns EXCEPT ![a] = Append(turns[a], NewTurn)]
      /\ creating' = creating \cup {id} /\ k < MaxTurns
      /\ UNCHANGED <<task, active, cancelled_before_start, cancels, dismissals, crashes>>
  BY DEF CreateTurn
<1>2. /\ NewTurn \in Turn /\ NewTurn.status = "queued" /\ NewTurn.asked = "none"
  BY DEF NewTurn, Turn, AgentTurnStatus
<1>3. turns[a] \in Seq(Turn) /\ k \in Nat /\ DOMAIN turns[a] = 1..k
  BY DEF TypeOK
<1>4. k # 0 => is_terminal(turns[a][k].status)
  BY <1>3 DEF CreateTurn
<1>5. id \in TurnId /\ id[1] = a /\ id[2] = k + 1
  BY <1>1, <1>3, SchedulerAssumption DEF TurnId
<1> HIDE DEF id
<1>6. /\ turns'[a] \in Seq(Turn) /\ Len(turns'[a]) = k + 1 /\ DOMAIN turns'[a] = 1..(k + 1)
      /\ turns'[a][k + 1] = NewTurn
      /\ \A n \in 1..k : turns'[a][n] = turns[a][n]
      /\ \A b \in Agents : b # a => turns'[b] = turns[b]
      /\ turns' \in [Agents -> Seq(Turn)]
  <2> DEFINE s == Append(turns[a], NewTurn)
  <2>1. /\ s \in Seq(Turn) /\ Len(s) = k + 1 /\ DOMAIN s = 1..(k + 1)
        /\ s[k + 1] = NewTurn /\ \A n \in 1..k : s[n] = turns[a][n]
    BY <1>2, <1>3
  <2> HIDE DEF s
  <2>2. turns' = [turns EXCEPT ![a] = s]
    BY <1>1 DEF s
  <2> QED
    BY <2>1, <2>2 DEF TypeOK
<1> HIDE DEF k
<1>7. /\ turns'[id[1]][id[2]] = NewTurn /\ ~ Known(id) /\ id[2] \in DOMAIN turns'[id[1]]
      /\ \A j \in TurnId : Known(j) => Known(j)' /\ turns'[j[1]][j[2]] = turns[j[1]][j[2]]
      /\ \A j \in TurnId : Known(j)' => Known(j) \/ j = id
  <2>1. turns'[id[1]][id[2]] = NewTurn /\ ~ Known(id) /\ id[2] \in DOMAIN turns'[id[1]]
    BY <1>3, <1>5, <1>6 DEF Known
  <2>2. ASSUME NEW j \in TurnId, Known(j)
        PROVE  Known(j)' /\ turns'[j[1]][j[2]] = turns[j[1]][j[2]]
    <3>1. j[1] \in Agents /\ j[2] \in DOMAIN turns[j[1]]
      BY <2>2, IdParts DEF Known
    <3>2. CASE j[1] = a
      BY <1>3, <1>6, <3>1, <3>2 DEF Known
    <3>3. CASE j[1] # a
      BY <1>6, <3>1, <3>3 DEF Known
    <3> QED
      BY <3>2, <3>3
  <2>3. ASSUME NEW j \in TurnId, Known(j)', ~ Known(j)
        PROVE  j = id
    <3>1. j[1] = a /\ j[2] = k + 1
      BY <1>3, <1>6, <2>3, IdParts DEF Known
    <3> QED
      BY <1>5, <3>1, IdParts
  <2> QED
    BY <2>1, <2>2, <2>3
<1>8. TypeOK'
  BY <1>1, <1>3, <1>5, <1>6, SchedulerAssumption DEF TypeOK
<1>9. \A u \in Tasks : task[u].pc # "idle" => task[u].turn \in TurnId /\ Known(task[u].turn)
  BY TaskFields DEF KnownTurns, Running
<1>10. creating \subseteq TurnId /\ dismissals \subseteq TurnId
  BY DEF TypeOK
<1>11. KnownTurns'
  <2>1. \A u \in Tasks : task[u].pc # "idle" => task[u].turn[2] \in DOMAIN turns'[task[u].turn[1]]
    BY <1>7, <1>9 DEF Known
  <2>2. \A j \in creating' \cup dismissals' : j[2] \in DOMAIN turns'[j[1]]
    BY <1>1, <1>7, <1>10 DEF Known, KnownTurns
  <2> QED
    BY <1>1, <2>1, <2>2 DEF KnownTurns, Known, Running
<1>12. EarlierFinished'
  <2> SUFFICES ASSUME NEW b \in Agents, NEW n \in DOMAIN turns'[b], n # Len(turns'[b])
               PROVE  is_terminal(turns'[b][n].status)
    BY DEF EarlierFinished
  <2>1. CASE b # a
    BY <1>6, <2>1 DEF EarlierFinished
  <2>2. CASE b = a
    BY <1>3, <1>4, <1>6, <2>2 DEF EarlierFinished, k
  <2> QED
    BY <2>1, <2>2
<1>13. QueuedUntouched'
  <2> SUFFICES ASSUME NEW j \in TurnId, Known(j)', turns'[j[1]][j[2]].status = "queued"
               PROVE  /\ turns'[j[1]][j[2]].asked = "none"
                      /\ j \notin dismissals'
                      /\ \A u \in Tasks : (task'[u].pc # "idle" /\ task'[u].turn = j) =>
                           task'[u].kind = "start" /\ ~ Driving(u)'
    BY DEF QueuedUntouched, Status, Row, Running
  <2>1. CASE Known(j)
    BY <1>1, <1>7, <2>1 DEF QueuedUntouched, Status, Row, Running, Driving
  <2>2. CASE j = id
    BY <1>1, <1>2, <1>7, <1>9, <2>2 DEF KnownTurns
  <2> QED
    BY <1>7, <2>1, <2>2
<1>14. OpeningAlone'
  <2> SUFFICES ASSUME NEW u \in Tasks, Opening(u)
               PROVE  /\ turns'[task[u].turn[1]][task[u].turn[2]].status = "queued"
                      /\ task[u].turn \notin creating'
    BY <1>1 DEF OpeningAlone, Opening, Status, Row, Running
  <2>1. task[u].turn \in TurnId /\ Known(task[u].turn)
    BY <1>9 DEF Opening
  <2> QED
    BY <1>1, <1>7, <2>1 DEF OpeningAlone, Status, Row
<1>15. CreatingAlone'
  <2> SUFFICES ASSUME NEW j \in creating'
               PROVE  /\ turns'[j[1]][j[2]].status = "queued"
                      /\ \A u \in Tasks : task[u].pc # "idle" => task[u].turn # j
    BY <1>1 DEF CreatingAlone, Status, Row, Running
  <2>1. CASE j \in creating
    BY <1>7, <1>10, <2>1 DEF CreatingAlone, KnownTurns, Status, Row, Running
  <2>2. CASE j = id
    BY <1>2, <1>7, <1>9, <2>2
  <2> QED
    BY <1>1, <2>1, <2>2
<1>16. OneDriver'
  BY <1>1 DEF OneDriver, Driving
<1>17. DrivenNotWaiting'
  <2> SUFFICES ASSUME NEW u \in Tasks, Driving(u)
               PROVE  ~ needs_attention(turns'[task[u].turn[1]][task[u].turn[2]].status)
    BY <1>1 DEF DrivenNotWaiting, Driving, Status, Row
  <2>1. task[u].turn \in TurnId /\ Known(task[u].turn) /\ ~ needs_attention(Status(task[u].turn))
    BY <1>9 DEF Driving, DrivenNotWaiting
  <2> QED
    BY <1>7, <2>1 DEF Status, Row
<1>18. CheckpointFirst'
  <2>1. ASSUME NEW u \in Tasks, task[u].pc = "finish", needs_attention(task[u].outcome)
        PROVE  turns'[task[u].turn[1]][task[u].turn[2]].checkpoint
    <3>1. task[u].turn \in TurnId /\ Known(task[u].turn) /\ Row(task[u].turn).checkpoint
      BY <1>9, <2>1 DEF CheckpointFirst
    <3> QED
      BY <1>7, <3>1 DEF Row
  <2>2. ASSUME NEW j \in TurnId, Known(j)', needs_attention(turns'[j[1]][j[2]].status)
        PROVE  turns'[j[1]][j[2]].checkpoint
    BY <1>2, <1>7, <2>2, StatusFacts DEF CheckpointFirst, Status, Row
  <2> QED
    BY <1>1, <2>1, <2>2 DEF CheckpointFirst, Status, Row
<1> QED
  BY <1>8, <1>11, <1>12, <1>13, <1>14, <1>15, <1>16, <1>17, <1>18

(* A step that touches neither a row nor a command.                          *)
LEMMA NoStep ==
  ASSUME RunInv, TypeOK', UNCHANGED <<turns, creating, task, dismissals>>
  PROVE  RunInv'
<1>1. KnownTurns'
  BY DEF RunInv, KnownTurns, Known, Running
<1>2. EarlierFinished'
  BY DEF RunInv, EarlierFinished, is_terminal
<1>3. QueuedUntouched'
  BY DEF RunInv, QueuedUntouched, Known, Status, Row, Running, Driving
<1>4. OpeningAlone'
  BY DEF RunInv, OpeningAlone, Opening, Status, Row, Running
<1>5. CreatingAlone'
  BY DEF RunInv, CreatingAlone, Status, Row, Running
<1>6. OneDriver'
  BY DEF RunInv, OneDriver, Driving
<1>7. DrivenNotWaiting'
  BY DEF RunInv, DrivenNotWaiting, Driving, Status, Row, needs_attention
<1>8. CheckpointFirst'
  BY DEF RunInv, CheckpointFirst, Known, Status, Row, needs_attention
<1> QED
  BY <1>1, <1>2, <1>3, <1>4, <1>5, <1>6, <1>7, <1>8 DEF RunInv

(* Cancels: a token is set, or a request moves on; no row changes.           *)
LEMMA CancelStep ==
  ASSUME RunInv, ActiveEntryLive, NEW id \in TurnId, CancelActive(id)
  PROVE  RunInv'
<1> DEFINE t == active[id[1]]
<1> USE DEF RunInv
<1>1. /\ UNCHANGED <<turns, creating, active, cancelled_before_start, dismissals, crashes>>
      /\ cancels' \subseteq TurnId \X {"lookup", "park"}
  BY DEF CancelActive, TypeOK
<1>2. CASE task' = task
  <2>1. TypeOK'
    BY <1>1, <1>2 DEF TypeOK
  <2> QED
    BY <1>1, <1>2, <2>1, NoStep
<1>3. CASE t # NoTask /\ task' = [task EXCEPT ![t].cancelled = TRUE]
  <2> DEFINE c == [task[t] EXCEPT !.cancelled = TRUE]
  <2>1. t \in Tasks /\ task[t].pc # "idle"
    BY <1>3, IdParts DEF ActiveEntryLive, Busy, At
  <2>2. /\ c \in Task /\ c.pc = task[t].pc /\ c.kind = task[t].kind /\ c.turn = task[t].turn
        /\ c.outcome = task[t].outcome
    <3>1. TypeOK
      OBVIOUS
    <3> HIDE DEF RunInv, t
    <3>2. task[t] \in Task
      BY <2>1, <3>1, TaskFields
    <3> QED
      BY <3>2 DEF Task
  <2>3. task' = [task EXCEPT ![t] = c]
    BY <1>3, <2>1 DEF TypeOK
  <2> HIDE DEF c, t
  <2>4. Moved(t, task[t].pc, task[t].outcome)
    BY <2>1, <2>2, <2>3, CommandMoves
  <2>5. TypeOK'
    BY <1>1, <2>4 DEF TypeOK, Moved
  <2> QED
    BY <1>1, <2>1, <2>4, <2>5, QuietStep DEF Moved, Opening, Driving, CheckpointFirst
<1> QED
  BY <1>2, <1>3 DEF CancelActive

LEMMA RequestStep ==
  ASSUME RunInv, \/ \E a \in Agents : RequestCancel(a)
                 \/ \E id \in TurnId : ParkCancel(id)
  PROVE  RunInv'
<1> USE DEF RunInv
<1>1. /\ UNCHANGED <<turns, creating, task, active, dismissals, crashes>>
      /\ cancels' \subseteq TurnId \X {"lookup", "park"}
      /\ cancelled_before_start' \subseteq TurnId
  <2>1. ASSUME NEW a \in Agents, RequestCancel(a)
        PROVE  cancels' \subseteq TurnId \X {"lookup", "park"}
    <3>1. turns[a] # <<>> /\ turns[a] \in Seq(Turn) /\ Len(turns[a]) <= MaxTurns
      BY <2>1 DEF RequestCancel, TypeOK
    <3>2. <<a, Len(turns[a])>> \in TurnId
      BY <3>1, SchedulerAssumption DEF TurnId
    <3>3. cancels' = cancels \cup {<<<<a, Len(turns[a])>>, "lookup">>}
      BY <2>1 DEF RequestCancel
    <3>4. <<<<a, Len(turns[a])>>, "lookup">> \in TurnId \X {"lookup", "park"}
      BY <3>2
    <3> QED
      BY <3>3, <3>4 DEF TypeOK
  <2> QED
    BY <2>1 DEF RequestCancel, ParkCancel, TypeOK
<1>2. TypeOK'
  BY <1>1 DEF TypeOK
<1> QED
  BY <1>1, <1>2, NoStep

-----------------------------------------------------------------------------
(* A restart                                                                 *)

Slot == CHOOSE f \in Slots : TRUE

LEMMA SlotFacts ==
  ASSUME Restart
  PROVE  /\ \A id \in Queued : Slot[id] \in Tasks
         /\ \A i, j \in Queued : Slot[i] = Slot[j] => i = j
<1>1. Slot \in Slots
  BY DEF Restart, Slot
<1> QED
  BY <1>1 DEF Slots

LEMMA RestartRows ==
  ASSUME TypeOK, Restart
  PROVE  /\ turns' \in [Agents -> Seq(Turn)]
         /\ \A a \in Agents : Len(turns'[a]) = Len(turns[a]) /\ DOMAIN turns'[a] = DOMAIN turns[a]
         /\ \A a \in Agents : \A n \in DOMAIN turns[a] :
              /\ turns'[a][n].status = IF turns[a][n].status = "running" THEN "interrupted"
                                       ELSE turns[a][n].status
              /\ turns'[a][n].invocation_id = turns[a][n].invocation_id
              /\ turns'[a][n].checkpoint = turns[a][n].checkpoint
              /\ turns'[a][n].asked = turns[a][n].asked
<1>1. ASSUME NEW a \in Agents
      PROVE  /\ turns'[a] \in Seq(Turn)
             /\ Len(turns'[a]) = Len(turns[a]) /\ DOMAIN turns'[a] = DOMAIN turns[a]
             /\ \A n \in DOMAIN turns[a] :
                  /\ turns'[a][n].status = IF turns[a][n].status = "running" THEN "interrupted"
                                           ELSE turns[a][n].status
                  /\ turns'[a][n].invocation_id = turns[a][n].invocation_id
                  /\ turns'[a][n].checkpoint = turns[a][n].checkpoint
                  /\ turns'[a][n].asked = turns[a][n].asked
  <2> DEFINE k == Len(turns[a])
             s == turns'[a]
  <2>1. k \in Nat /\ DOMAIN turns[a] = 1..k /\ \A n \in 1..k : turns[a][n] \in Turn
    BY DEF TypeOK
  <2>2. s = [n \in 1..k |-> IF turns[a][n].status = "running"
                            THEN [turns[a][n] EXCEPT !.status = "interrupted"]
                            ELSE turns[a][n]]
    BY <2>1 DEF Restart
  <2> HIDE DEF s, k
  <2>3. ASSUME NEW n \in 1..k
        PROVE  /\ s[n] \in Turn
               /\ s[n].status = IF turns[a][n].status = "running" THEN "interrupted"
                                ELSE turns[a][n].status
               /\ s[n].invocation_id = turns[a][n].invocation_id
               /\ s[n].checkpoint = turns[a][n].checkpoint
               /\ s[n].asked = turns[a][n].asked
    <3>1. turns[a][n] \in Turn /\ "interrupted" \in AgentTurnStatus
      BY <2>1, StatusFacts
    <3>2. s[n] = IF turns[a][n].status = "running"
                 THEN [turns[a][n] EXCEPT !.status = "interrupted"] ELSE turns[a][n]
      BY <2>2
    <3> QED
      BY <3>1, <3>2 DEF Turn
  <2>4. s \in [1..k -> Turn]
    BY <2>2, <2>3
  <2>5. s \in Seq(Turn) /\ Len(s) = k /\ DOMAIN s = 1..k
    BY <2>1, <2>4
  <2> QED
    BY <2>1, <2>3, <2>5 DEF s, k
<1>2. turns' = [a \in Agents |-> turns'[a]]
  BY DEF Restart
<1>3. turns' \in [Agents -> Seq(Turn)]
  BY <1>1, <1>2
<1> QED
  BY <1>1, <1>3

LEMMA RestartTasks ==
  ASSUME TypeOK, Restart
  PROVE  /\ task' \in [Tasks -> Task \cup {Idle}]
         /\ \A t \in Tasks : task'[t].pc # "idle" =>
              /\ task'[t].pc = "global" /\ task'[t].kind = "start" /\ task'[t].lease = FALSE
              /\ task'[t].turn \in Queued /\ Slot[task'[t].turn] = t
         /\ \A id \in Queued : /\ Slot[id] \in Tasks
                               /\ task'[Slot[id]].pc = "global"
                               /\ task'[Slot[id]].kind = "start"
                               /\ task'[Slot[id]].turn = id
<1>1. task' = [t \in Tasks |-> IF \E id \in Queued : Slot[id] = t
                               THEN Command("start", CHOOSE id \in Queued : Slot[id] = t)
                               ELSE Idle]
  BY DEF Restart, Slot
<1>2. ASSUME NEW t \in Tasks, NEW id \in Queued, Slot[id] = t
      PROVE  /\ task'[t] \in Task
             /\ task'[t].pc = "global" /\ task'[t].kind = "start"
             /\ task'[t].lease = FALSE /\ task'[t].turn = id
  <2> DEFINE j == CHOOSE k \in Queued : Slot[k] = t
  <2>1. j \in Queued /\ Slot[j] = t
    BY <1>2
  <2>2. j = id
    BY <1>2, <2>1, SlotFacts
  <2>3. task'[t] = Command("start", j)
    BY <1>1, <1>2
  <2> HIDE DEF j
  <2>4. id \in TurnId
    BY DEF Queued, TurnIds
  <2> DEFINE c == Command("start", id)
  <2>5. c \in Task /\ c.pc = "global" /\ c.kind = "start" /\ c.lease = FALSE /\ c.turn = id
    BY <2>4, StatusFacts DEF Command, Task, Step
  <2>6. task'[t] = c
    BY <2>2, <2>3
  <2> HIDE DEF c
  <2> QED
    BY <2>5, <2>6
<1>3. ASSUME NEW t \in Tasks, ~ \E id \in Queued : Slot[id] = t
      PROVE  task'[t] = Idle
  BY <1>1, <1>3
<1>4. \A t \in Tasks : task'[t] \in Task \cup {Idle}
  BY <1>2, <1>3
<1>5. task' \in [Tasks -> Task \cup {Idle}]
  BY <1>1, <1>4
<1>6. ASSUME NEW t \in Tasks, task'[t].pc # "idle"
      PROVE  /\ task'[t].pc = "global" /\ task'[t].kind = "start" /\ task'[t].lease = FALSE
             /\ task'[t].turn \in Queued /\ Slot[task'[t].turn] = t
  <2>1. PICK id \in Queued : Slot[id] = t
    BY <1>3, <1>6, IdleTask
  <2> QED
    BY <1>2, <2>1
<1>7. ASSUME NEW id \in Queued
      PROVE  /\ Slot[id] \in Tasks
             /\ task'[Slot[id]].pc = "global"
             /\ task'[Slot[id]].kind = "start"
             /\ task'[Slot[id]].turn = id
  BY <1>2, SlotFacts
<1> QED
  BY <1>5, <1>6, <1>7

LEMMA RestartStep ==
  ASSUME RunInv, Restart
  PROVE  RunInv'
<1> USE DEF RunInv
<1>1. /\ creating' = {} /\ dismissals' = {} /\ cancels' = {} /\ cancelled_before_start' = {}
      /\ active' \in [Agents -> Tasks \cup {NoTask}] /\ crashes' \in 0..MaxCrashes
  BY SchedulerAssumption DEF Restart, TypeOK
<1>2. TypeOK'
  BY <1>1, RestartRows, RestartTasks DEF TypeOK
<1>3. \A id \in Queued : id \in TurnId /\ Known(id) /\ Status(id) = "queued"
  BY DEF Queued, TurnIds, Known
<1>4. \A j \in TurnId : Known(j) =>
        /\ turns'[j[1]][j[2]].status = IF Status(j) = "running" THEN "interrupted" ELSE Status(j)
        /\ turns'[j[1]][j[2]].checkpoint = Row(j).checkpoint
        /\ turns'[j[1]][j[2]].asked = Row(j).asked
  BY RestartRows, IdParts DEF Known, Status, Row
<1>5. \A j \in TurnId : Known(j)' <=> Known(j)
  BY RestartRows, IdParts DEF Known
<1>6. \A t \in Tasks : task'[t].pc # "idle" =>
        /\ task'[t].pc = "global" /\ task'[t].kind = "start"
        /\ task'[t].turn \in TurnId /\ Known(task'[t].turn) /\ Status(task'[t].turn) = "queued"
        /\ Slot[task'[t].turn] = t
  <2> SUFFICES ASSUME NEW t \in Tasks, task'[t].pc # "idle"
               PROVE  /\ task'[t].pc = "global" /\ task'[t].kind = "start"
                      /\ task'[t].turn \in Queued /\ Slot[task'[t].turn] = t
    BY <1>3
  <2> QED
    BY RestartTasks
<1>7. KnownTurns'
  <2>1. \A t \in Tasks : task'[t].pc # "idle" => task'[t].turn[2] \in DOMAIN turns'[task'[t].turn[1]]
    BY <1>6, RestartRows, IdParts DEF Known
  <2> QED
    BY <1>1, <2>1 DEF KnownTurns, Known, Running
<1>8. EarlierFinished'
  BY RestartRows, StatusFacts DEF EarlierFinished
<1>9. QueuedUntouched'
  <2> SUFFICES ASSUME NEW j \in TurnId, Known(j), turns'[j[1]][j[2]].status = "queued"
               PROVE  /\ turns'[j[1]][j[2]].asked = "none"
                      /\ j \notin dismissals'
                      /\ \A u \in Tasks : (task'[u].pc # "idle" /\ task'[u].turn = j) =>
                           task'[u].kind = "start" /\ ~ Driving(u)'
    BY <1>5 DEF QueuedUntouched, Status, Row, Running
  <2> QED
    BY <1>1, <1>4, <1>6 DEF QueuedUntouched, Driving
<1>10. OpeningAlone'
  <2> SUFFICES ASSUME NEW u \in Tasks, Opening(u)'
               PROVE  /\ turns'[task'[u].turn[1]][task'[u].turn[2]].status = "queued"
                      /\ task'[u].turn \notin creating'
                      /\ \A v \in Tasks : task'[v].pc # "idle" /\ task'[v].turn = task'[u].turn => v = u
    BY DEF OpeningAlone, Status, Row, Running
  <2>1. task'[u].pc # "idle"
    BY DEF Opening
  <2> QED
    BY <1>1, <1>4, <1>6, <2>1
<1>11. CreatingAlone' /\ OneDriver' /\ DrivenNotWaiting'
  BY <1>1, <1>6 DEF CreatingAlone, OneDriver, DrivenNotWaiting, Driving
<1>12. CheckpointFirst'
  <2>1. \A t \in Tasks : task'[t].pc # "finish"
    BY <1>6
  <2>2. ASSUME NEW j \in TurnId, Known(j), needs_attention(turns'[j[1]][j[2]].status)
        PROVE  turns'[j[1]][j[2]].checkpoint
    BY <1>4, <2>2, StatusFacts DEF CheckpointFirst
  <2> QED
    BY <1>5, <2>1, <2>2 DEF CheckpointFirst, Status, Row
<1> QED
  BY <1>2, <1>7, <1>8, <1>9, <1>10, <1>11, <1>12

-----------------------------------------------------------------------------
(* What a step does to the commands in flight                                *)

Registered(t) ==
  task[t].pc \in {"begin", "drive", "checkpoint", "finish", "error", "fail", "unregister"}

(* Past admission.                                                           *)
Admitted(t) == Registered(t) \/ task[t].pc \in {"consume", "register"}

(* An admitted run goes on to its next statement.                            *)
GoesOn(t) ==
  /\ \A u \in Tasks : u # t => task'[u] = task[u]
  /\ Admitted(t) /\ Admitted(t)'
  /\ task[t].pc # "consume" => Registered(t)'
  /\ task[t].pc \in {"consume", "register"} => task'[t].pc \in {"register", "begin"}
  /\ task'[t].kind = task[t].kind
  /\ task'[t].turn = task[t].turn
  /\ task'[t].lease = task[t].lease

LEMMA GotoGoesOn ==
  ASSUME TypeOK, NEW t \in Tasks, Admitted(t), NEW pc \in Step, Goto(t, pc),
         pc \in {"begin", "drive", "checkpoint", "finish", "error", "fail", "unregister"},
         task[t].pc \in {"consume", "register"} => pc = "begin"
  PROVE  GoesOn(t)
<1>1. task[t].pc # "idle"
  BY DEF Admitted, Registered
<1>2. Moved(t, pc, task[t].outcome) /\ task'[t].lease = task[t].lease
  BY <1>1, GotoMoves
<1> QED
  BY <1>2 DEF Moved, GoesOn, Admitted, Registered

LEMMA FieldsGoOn ==
  ASSUME TypeOK, NEW t \in Tasks, Admitted(t), NEW c, task' = [task EXCEPT ![t] = c],
         c.pc \in {"register", "begin", "drive", "checkpoint", "finish", "error", "fail", "unregister"},
         c.pc = "register" => task[t].pc = "consume",
         task[t].pc \in {"consume", "register"} => c.pc \in {"register", "begin"},
         c.kind = task[t].kind, c.turn = task[t].turn, c.lease = task[t].lease
  PROVE  GoesOn(t)
<1>1. task'[t] = c /\ \A u \in Tasks : u # t => task'[u] = task[u]
  BY DEF TypeOK
<1> QED
  BY <1>1 DEF GoesOn, Admitted, Registered

LEMMA RunGoesOn ==
  ASSUME TypeOK, NEW t \in Tasks,
         \/ ConsumeCancel(t) \/ Register(t) \/ BeginStart(t) \/ BeginResume(t)
         \/ (\E outcome \in Outcomes : Drive(t, outcome)) \/ Checkpoint(t) \/ Finish(t)
         \/ ReadAfterError(t) \/ StartFailed(t) \/ FailTurn(t)
         \/ BeginFails(t) \/ DriveFails(t) \/ RunFails(t) \/ ErrorPathFails(t)
  PROVE  GoesOn(t)
<1>0. Admitted(t) /\ task[t].pc # "idle"
  BY DEF ConsumeCancel, Register, BeginStart, BeginResume, Drive, Checkpoint, Finish,
         ReadAfterError, StartFailed, FailTurn, BeginFails, DriveFails, RunFails,
         ErrorPathFails, Driving, At, Admitted, Registered
<1>1. task[t] \in Task
  BY <1>0, TaskFields
<1>2. CASE ConsumeCancel(t)
  <2> DEFINE c == [task[t] EXCEPT !.pc = "register",
                                  !.cancelled = task[t].turn \in cancelled_before_start]
  <2>1. task' = [task EXCEPT ![t] = c] /\ task[t].pc = "consume"
    BY <1>2 DEF ConsumeCancel, TypeOK, At
  <2>2. /\ c.pc = "register" /\ c.kind = task[t].kind /\ c.turn = task[t].turn
        /\ c.lease = task[t].lease
    BY <1>1 DEF Task
  <2> HIDE DEF c
  <2> QED
    BY <1>0, <2>1, <2>2, FieldsGoOn
<1>3. CASE ReadAfterError(t)
  <2> DEFINE pc == IF is_terminal(Status(task[t].turn)) THEN "unregister" ELSE "fail"
             c == [task[t] EXCEPT !.outcome = Status(task[t].turn), !.pc = pc]
  <2>1. task' = [task EXCEPT ![t] = c] /\ task[t].pc = "error"
    BY <1>3 DEF ReadAfterError, TypeOK, At
  <2>2. pc \in {"unregister", "fail"}
    OBVIOUS
  <2> HIDE DEF pc
  <2>3. /\ c.pc = pc /\ c.kind = task[t].kind /\ c.turn = task[t].turn
        /\ c.lease = task[t].lease
    BY <1>1 DEF Task
  <2> HIDE DEF c
  <2> QED
    BY <1>0, <2>1, <2>2, <2>3, FieldsGoOn
<1>4. CASE StartFailed(t)
  <2> DEFINE c == [task[t] EXCEPT !.outcome = "running"]
  <2>1. task' = [task EXCEPT ![t] = c] /\ task[t].pc = "fail"
    BY <1>4 DEF StartFailed, TypeOK, At
  <2>2. /\ c.pc = task[t].pc /\ c.kind = task[t].kind /\ c.turn = task[t].turn
        /\ c.lease = task[t].lease
    BY <1>1 DEF Task
  <2> HIDE DEF c
  <2> QED
    BY <1>0, <2>1, <2>2, FieldsGoOn
<1>5. ASSUME NEW outcome \in Outcomes, Drive(t, outcome) PROVE GoesOn(t)
  <2> DEFINE c == [task[t] EXCEPT !.pc = "checkpoint", !.outcome = outcome]
  <2>1. task' = [task EXCEPT ![t] = c] /\ task[t].pc = "drive"
    BY <1>5 DEF Drive, TypeOK, At
  <2>2. /\ c.pc = "checkpoint" /\ c.kind = task[t].kind /\ c.turn = task[t].turn
        /\ c.lease = task[t].lease
    BY <1>1 DEF Task
  <2> HIDE DEF c
  <2> QED
    BY <1>0, <2>1, <2>2, FieldsGoOn
<1>6. CASE DriveFails(t)
  <2> DEFINE c == [task[t] EXCEPT !.pc = "finish", !.outcome = "failed"]
  <2>1. task' = [task EXCEPT ![t] = c] /\ task[t].pc = "drive"
    BY <1>6 DEF DriveFails, TypeOK, At
  <2>2. /\ c.pc = "finish" /\ c.kind = task[t].kind /\ c.turn = task[t].turn
        /\ c.lease = task[t].lease
    BY <1>1 DEF Task
  <2> HIDE DEF c
  <2> QED
    BY <1>0, <2>1, <2>2, FieldsGoOn
<1>7. CASE Register(t)
  BY <1>0, <1>7, GotoGoesOn DEF Register, At, Step
<1>8. CASE BeginStart(t) \/ BeginResume(t)
  <2>1. task[t].pc = "begin"
    BY <1>8 DEF BeginStart, BeginResume, At
  <2>2. Goto(t, "drive") \/ Goto(t, "error") \/ Goto(t, "unregister")
    BY <1>8 DEF BeginStart, BeginResume, Record
  <2> QED
    BY <1>0, <2>1, <2>2, GotoGoesOn DEF Step
<1>9. CASE Checkpoint(t) \/ FailTurn(t) \/ BeginFails(t) \/ RunFails(t) \/ ErrorPathFails(t)
  <2>1. task[t].pc \notin {"consume", "register"}
    BY <1>9 DEF Checkpoint, FailTurn, BeginFails, RunFails, ErrorPathFails, At, Driving
  <2>2. Goto(t, "finish") \/ Goto(t, "error") \/ Goto(t, "unregister")
    BY <1>9 DEF Checkpoint, FailTurn, BeginFails, RunFails, ErrorPathFails
  <2> QED
    BY <1>0, <2>1, <2>2, GotoGoesOn DEF Step
<1>10. CASE Finish(t)
  <2>1. task[t].pc = "finish" /\ (Goto(t, "error") \/ Goto(t, "unregister"))
    BY <1>10 DEF Finish, Record, At
  <2> QED
    BY <1>0, <2>1, GotoGoesOn DEF Step
<1> QED
  BY <1>2, <1>3, <1>4, <1>5, <1>6, <1>7, <1>8, <1>9, <1>10

(* A task still waiting for a permit takes a step.                           *)
LEMMA AcquireMoves ==
  ASSUME TypeOK, NEW t \in Tasks,
         \/ AcquireGlobal(t) \/ AcquireSession(t) \/ AcquireWorkspace(t) \/ LeaseReadFails(t)
  PROVE  /\ task[t].pc \in {"global", "session", "workspace"}
         /\ task'[t].pc \in {"session", "workspace", "consume"}
         /\ \A u \in Tasks : u # t => task'[u] = task[u]
         /\ task'[t].kind = task[t].kind
         /\ task'[t].turn = task[t].turn
<1>1. task[t].pc \in {"global", "session", "workspace"}
  BY DEF AcquireGlobal, AcquireSession, AcquireWorkspace, LeaseReadFails, At
<1>2. CASE AcquireWorkspace(t)
  <2> DEFINE c == [task[t] EXCEPT !.pc = "consume", !.lease = TRUE]
  <2>1. task' = [task EXCEPT ![t] = c]
    BY <1>2 DEF AcquireWorkspace, TypeOK
  <2>2. c.pc = "consume" /\ c.kind = task[t].kind /\ c.turn = task[t].turn
    BY <1>1, TaskFields DEF Task
  <2> HIDE DEF c
  <2> QED
    BY <1>1, <2>1, <2>2 DEF TypeOK
<1>3. CASE AcquireGlobal(t) \/ AcquireSession(t) \/ LeaseReadFails(t)
  <2>1. Goto(t, "session") \/ Goto(t, "workspace") \/ Goto(t, "consume")
    BY <1>3 DEF AcquireGlobal, AcquireSession, LeaseReadFails
  <2>2. PICK pc \in {"session", "workspace", "consume"} : Goto(t, pc)
    BY <2>1
  <2>3. Moved(t, pc, task[t].outcome)
    BY <1>1, <2>2, GotoMoves DEF Step
  <2> QED
    BY <1>1, <2>3 DEF Moved
<1> QED
  BY <1>2, <1>3

(* A cancel only raises the token of a registered run.                       *)
LEMMA CancelTouches ==
  ASSUME TypeOK, ActiveEntryLive, NEW id \in TurnId, CancelActive(id)
  PROVE  \A u \in Tasks :
           /\ task'[u].pc = task[u].pc
           /\ task[u].pc # "idle" => /\ task'[u].kind = task[u].kind
                                     /\ task'[u].turn = task[u].turn
                                     /\ task'[u].lease = task[u].lease
<1> DEFINE t == active[id[1]]
<1>1. CASE UNCHANGED task
  BY <1>1
<1>2. CASE t # NoTask /\ task' = [task EXCEPT ![t].cancelled = TRUE]
  <2> DEFINE c == [task[t] EXCEPT !.cancelled = TRUE]
  <2>1. t \in Tasks /\ task[t].pc # "idle"
    BY <1>2, IdParts DEF ActiveEntryLive, Busy, At
  <2>2. /\ c.pc = task[t].pc /\ c.kind = task[t].kind /\ c.turn = task[t].turn
        /\ c.lease = task[t].lease
    BY <2>1, TaskFields DEF Task
  <2>3. task' = [task EXCEPT ![t] = c]
    BY <1>2, <2>1 DEF TypeOK
  <2> HIDE DEF c
  <2>4. task'[t] = c /\ \A u \in Tasks : u # t => task'[u] = task[u]
    BY <2>1, <2>3 DEF TypeOK
  <2> QED
    BY <2>2, <2>4
<1> QED
  BY <1>1, <1>2 DEF CancelActive

(* The steps of requests and of the user: a command begins, or none moves.   *)
OutsideStep ==
  \/ \E a \in Agents : CreateTurn(a) \/ RequestCancel(a)
  \/ \E id \in TurnId : \/ submit_start(id) \/ ParkCancel(id) \/ UserDecides(id)
                        \/ UserDismisses(id) \/ CancelDismissed(id) \/ UserResumes(id)

LEMMA OutsideTasks ==
  ASSUME TypeOK, OutsideStep
  PROVE  /\ UNCHANGED active
         /\ \/ UNCHANGED task
            \/ \E t \in Tasks, kind \in {"start", "resume"}, id \in TurnId : Begins(t, kind, id)
<1>1. ASSUME NEW a \in Agents, CreateTurn(a) \/ RequestCancel(a) PROVE UNCHANGED <<task, active>>
  BY <1>1 DEF CreateTurn, RequestCancel
<1>2. ASSUME NEW id \in TurnId, ParkCancel(id) \/ UserDismisses(id) \/ CancelDismissed(id)
      PROVE  UNCHANGED <<task, active>>
  BY <1>2 DEF ParkCancel, UserDismisses, CancelDismissed
<1>3. ASSUME NEW id \in TurnId, submit_start(id) \/ UserDecides(id) \/ UserResumes(id)
      PROVE  UNCHANGED active /\ \E kind \in {"start", "resume"} : Submit(kind, id)
  BY <1>3 DEF submit_start, UserDecides, UserResumes
<1> QED
  BY <1>1, <1>2, <1>3, SubmitBegins DEF OutsideStep

-----------------------------------------------------------------------------
(* The map of active runs                                                    *)

LEMMA EntriesKept ==
  ASSUME TypeOK, ActiveEntryLive, UNCHANGED active,
         \A u \in Tasks : Registered(u) => Registered(u)' /\ task'[u].turn = task[u].turn
  PROVE  ActiveEntryLive'
<1> SUFFICES ASSUME NEW a \in Agents, active[a] # NoTask
             PROVE  /\ active[a] \in Tasks /\ task'[active[a]].pc # "idle"
                    /\ task'[active[a]].turn[1] = a
                    /\ task'[active[a]].pc \notin
                         {"global", "session", "workspace", "consume", "register"}
  BY DEF ActiveEntryLive, Busy, At, agent_of
<1>1. /\ active[a] \in Tasks /\ task[active[a]].pc # "idle"
      /\ task[active[a]].turn[1] = a
      /\ task[active[a]].pc \notin {"global", "session", "workspace", "consume", "register"}
  BY DEF ActiveEntryLive, Busy, At, agent_of
<1>2. task[active[a]].pc \in Step
  BY <1>1, TaskFields
<1>3. Registered(active[a])
  BY <1>1, <1>2 DEF Registered, Step
<1> QED
  BY <1>1, <1>3 DEF Registered

LEMMA ActiveStep ==
  ASSUME TypeOK, ActiveEntryLive, [Next]_vars
  PROVE  ActiveEntryLive'
<1>1. ASSUME NEW t \in Tasks, GoesOn(t), UNCHANGED active PROVE ActiveEntryLive'
  BY <1>1, EntriesKept DEF GoesOn, Registered
<1>2. ASSUME NEW t \in Tasks, Acquire(t) \/ LeaseReadFails(t) PROVE ActiveEntryLive'
  <2>1. UNCHANGED active
    BY <1>2 DEF Acquire, AcquireGlobal, AcquireSession, AcquireWorkspace, LeaseReadFails
  <2>2. /\ task[t].pc \in {"global", "session", "workspace"}
        /\ \A u \in Tasks : u # t => task'[u] = task[u]
    BY <1>2, AcquireMoves DEF Acquire
  <2> QED
    BY <2>1, <2>2, EntriesKept DEF Registered
<1>3. ASSUME NEW t \in Tasks, Register(t) PROVE ActiveEntryLive'
  <2>1. /\ active' = [active EXCEPT ![agent_of(t)] = t] /\ task[t].pc = "register"
        /\ GoesOn(t)
    BY <1>3, RunGoesOn DEF Register, At
  <2>2. /\ Registered(t)' /\ task'[t].turn = task[t].turn
        /\ \A u \in Tasks : u # t => task'[u] = task[u]
    BY <2>1 DEF GoesOn
  <2> SUFFICES ASSUME NEW a \in Agents, active'[a] # NoTask
               PROVE  /\ active'[a] \in Tasks /\ task'[active'[a]].pc # "idle"
                      /\ task'[active'[a]].turn[1] = a
                      /\ task'[active'[a]].pc \notin
                           {"global", "session", "workspace", "consume", "register"}
    BY DEF ActiveEntryLive, Busy, At, agent_of
  <2>3. CASE a = agent_of(t)
    <3>1. active'[a] = t
      BY <2>1, <2>3 DEF TypeOK
    <3> QED
      BY <2>2, <2>3, <3>1 DEF Registered, agent_of
  <2>4. CASE a # agent_of(t)
    <3>1. active'[a] = active[a]
      BY <2>1, <2>4 DEF TypeOK
    <3>2. /\ active[a] \in Tasks /\ task[active[a]].pc # "idle" /\ active[a] # t
          /\ task[active[a]].turn[1] = a
          /\ task[active[a]].pc \notin {"global", "session", "workspace", "consume", "register"}
      BY <2>1, <3>1 DEF ActiveEntryLive, Busy, At, agent_of
    <3> QED
      BY <2>2, <3>1, <3>2
  <2> QED
    BY <2>3, <2>4
<1>4. ASSUME NEW t \in Tasks, Unregister(t) PROVE ActiveEntryLive'
  <2>1. /\ active' = [active EXCEPT ![agent_of(t)] = NoTask]
        /\ \A u \in Tasks : u # t => task'[u] = task[u]
    BY <1>4 DEF Unregister, TypeOK
  <2> SUFFICES ASSUME NEW a \in Agents, active'[a] # NoTask
               PROVE  /\ active'[a] \in Tasks /\ task'[active'[a]].pc # "idle"
                      /\ task'[active'[a]].turn[1] = a
                      /\ task'[active'[a]].pc \notin
                           {"global", "session", "workspace", "consume", "register"}
    BY DEF ActiveEntryLive, Busy, At, agent_of
  <2>2. a # agent_of(t) /\ active'[a] = active[a]
    BY <2>1 DEF TypeOK
  <2>3. /\ active[a] \in Tasks /\ task[active[a]].pc # "idle"
        /\ task[active[a]].turn[1] = a
        /\ task[active[a]].pc \notin {"global", "session", "workspace", "consume", "register"}
    BY <2>2 DEF ActiveEntryLive, Busy, At, agent_of
  <2>4. active[a] # t
    BY <2>2, <2>3 DEF agent_of
  <2> QED
    BY <2>1, <2>2, <2>3, <2>4
<1>5. ASSUME NEW t \in Tasks,
             \/ ConsumeCancel(t) \/ BeginStart(t) \/ BeginResume(t)
             \/ (\E outcome \in Outcomes : Drive(t, outcome)) \/ Checkpoint(t) \/ Finish(t)
             \/ ReadAfterError(t) \/ StartFailed(t) \/ FailTurn(t)
             \/ BeginFails(t) \/ DriveFails(t) \/ RunFails(t) \/ ErrorPathFails(t)
      PROVE  ActiveEntryLive'
  <2>1. UNCHANGED active
    BY <1>5 DEF ConsumeCancel, BeginStart, BeginResume, Drive, Checkpoint, Finish,
                ReadAfterError, StartFailed, FailTurn, BeginFails, DriveFails, RunFails,
                ErrorPathFails
  <2>2. GoesOn(t)
    BY <1>5, RunGoesOn
  <2> QED
    BY <1>1, <2>1, <2>2
<1>6. ASSUME NEW id \in TurnId, CancelActive(id) PROVE ActiveEntryLive'
  <2>1. UNCHANGED active
    BY <1>6 DEF CancelActive
  <2>2. \A u \in Tasks : /\ task'[u].pc = task[u].pc
                         /\ task[u].pc # "idle" => task'[u].turn = task[u].turn
    BY <1>6, CancelTouches
  <2>3. \A u \in Tasks : Registered(u) => Registered(u)' /\ task'[u].turn = task[u].turn
    BY <2>2 DEF Registered
  <2> QED
    BY <2>1, <2>3, EntriesKept
<1>7. CASE OutsideStep
  <2>1. /\ UNCHANGED active
        /\ \/ UNCHANGED task
           \/ \E t \in Tasks, kind \in {"start", "resume"}, id \in TurnId : Begins(t, kind, id)
    BY <1>7, OutsideTasks
  <2>2. \A u \in Tasks : Registered(u) => Registered(u)' /\ task'[u].turn = task[u].turn
    BY <2>1 DEF Begins, Registered
  <2> QED
    BY <2>1, <2>2, EntriesKept
<1>8. CASE Restart
  BY <1>8 DEF Restart, ActiveEntryLive
<1>9. CASE UNCHANGED vars
  BY <1>9 DEF vars, ActiveEntryLive, Busy, At, agent_of
<1> QED
  BY <1>2, <1>3, <1>4, <1>5, <1>6, <1>7, <1>8, <1>9 DEF Next, Run, Fault, OutsideStep

-----------------------------------------------------------------------------
(* RunInv holds of every state                                               *)

RunAndEntries == RunInv /\ ActiveEntryLive

LEMMA RunInit == ASSUME Init PROVE RunAndEntries
<1>1. \A t \in Tasks : task[t] = Idle /\ task[t].pc = "idle"
  BY IdleTask DEF Init
<1>2. turns \in [Agents -> Seq(Turn)] /\ \A a \in Agents : Len(turns[a]) = 0 /\ DOMAIN turns[a] = {}
  BY DEF Init
<1>3. TypeOK
  BY <1>1, <1>2, SchedulerAssumption DEF Init, TypeOK
<1>4. KnownTurns /\ EarlierFinished
  BY <1>1, <1>2 DEF Init, KnownTurns, EarlierFinished, Running
<1>5. QueuedUntouched
  BY <1>2, IdParts DEF QueuedUntouched, Known
<1>6. OpeningAlone /\ CreatingAlone /\ OneDriver /\ DrivenNotWaiting
  BY <1>1 DEF Init, OpeningAlone, CreatingAlone, OneDriver, DrivenNotWaiting, Opening, Driving
<1>7. CheckpointFirst
  BY <1>1, <1>2, IdParts DEF CheckpointFirst, Known
<1>8. ActiveEntryLive
  BY DEF Init, ActiveEntryLive
<1> QED
  BY <1>3, <1>4, <1>5, <1>6, <1>7, <1>8 DEF RunAndEntries, RunInv

LEMMA RunStep ==
  ASSUME RunAndEntries, [Next]_vars
  PROVE  RunAndEntries'
<1> USE DEF RunAndEntries
<1>1. ActiveEntryLive'
  BY ActiveStep DEF RunInv
<1>2. ASSUME NEW t \in Tasks, Acquire(t) PROVE RunInv'
  BY <1>2, AdmissionStep DEF Acquire
<1>3. ASSUME NEW t \in Tasks, Run(t) PROVE RunInv'
  BY <1>3, AdmissionStep, BeginStartStep, BeginResumeStep, DriveStep, CheckpointStep, FinishStep,
     FaultStep, ErrorWriteStep, UnregisterStep DEF Run
<1>4. ASSUME NEW t \in Tasks, Fault(t) PROVE RunInv'
  BY <1>4, AdmissionStep, FaultStep DEF Fault
<1>5. CASE UNCHANGED vars
  <2>1. TypeOK' /\ KnownTurns' /\ EarlierFinished' /\ QueuedUntouched'
    BY <1>5 DEF vars, RunInv, TypeOK, KnownTurns, EarlierFinished, QueuedUntouched, Known,
                Running, Driving, Status, Row
  <2>2. OpeningAlone' /\ CreatingAlone' /\ OneDriver'
    BY <1>5 DEF vars, RunInv, OpeningAlone, CreatingAlone, OneDriver, Running, Opening, Driving,
                Status, Row
  <2>3. DrivenNotWaiting' /\ CheckpointFirst'
    BY <1>5 DEF vars, RunInv, DrivenNotWaiting, CheckpointFirst, Known, Driving, Status, Row
  <2> QED
    BY <1>1, <2>1, <2>2, <2>3 DEF RunInv
<1>6. CASE Restart
  BY <1>1, <1>6, RestartStep
<1>7. ASSUME NEW id \in TurnId,
             \/ submit_start(id) \/ CancelActive(id) \/ ParkCancel(id) \/ UserDecides(id)
             \/ UserDismisses(id) \/ CancelDismissed(id) \/ UserResumes(id)
      PROVE  RunInv'
  BY <1>7, SubmitStartStep, CancelStep, RequestStep, DecideStep, DismissStep, CancelDismissedStep
<1>8. ASSUME NEW a \in Agents, CreateTurn(a) \/ RequestCancel(a) PROVE RunInv'
  BY <1>8, CreateStep, RequestStep
<1> QED
  BY <1>1, <1>2, <1>3, <1>4, <1>5, <1>6, <1>7, <1>8 DEF Next

LEMMA RunInvariant == Spec => []RunAndEntries
BY RunInit, RunStep, PTL DEF Spec

(* No Turn is driven by two runs at a time, however many Resume commands     *)
(* were submitted and however often the server restarted: execute_start and  *)
(* execute_resume let only the run whose status change was accepted go on.   *)
THEOREM SchedulerHasOneDriver == Spec => []OneDriverPerTurn
<1>1. RunAndEntries => OneDriverPerTurn
  BY DEF RunAndEntries, RunInv, OneDriver, OneDriverPerTurn, Busy
<1> QED
  BY <1>1, RunInvariant, PTL

(* A Turn that waits has its checkpoint, and an entry of active names a run  *)
(* of its own thread that is registered and not finished, although the runs  *)
(* of one thread overlap and each removes the entry by thread (run).         *)
THEOREM EntriesMatchRunsHolds == Spec => []EntriesMatchRuns
<1>1. RunAndEntries => EntriesMatchRuns
  BY DEF RunAndEntries, RunInv, CheckpointFirst, EntriesMatchRuns, WaitingHasCheckpoint,
         TurnIds, Known
<1> QED
  BY <1>1, RunInvariant, PTL

-----------------------------------------------------------------------------
(* Admission                                                                 *)

LEMMA FiniteHolders ==
  /\ IsFiniteSet(GlobalHolders) /\ Cardinality(GlobalHolders) \in Nat
  /\ \A s : IsFiniteSet(SessionHolders(s)) /\ Cardinality(SessionHolders(s)) \in Nat
<1>1. GlobalHolders \subseteq Tasks /\ \A s : SessionHolders(s) \subseteq Tasks
  BY DEF GlobalHolders, SessionHolders, Busy
<1> QED
  BY <1>1, SchedulerAssumption, FS_Subset, FS_CardinalityType

(* One more holder where there was room, or no more holders at all.          *)
LEMMA RoomForOne ==
  ASSUME NEW S, NEW T, NEW t, IsFiniteSet(S), T \subseteq S \cup {t}, NEW k \in Nat,
         Cardinality(S) <= k, t \in T \ S => Cardinality(S) < k
  PROVE  Cardinality(T) <= k
<1>1. IsFiniteSet(S \cup {t}) /\ Cardinality(S) \in Nat
      /\ (t \notin S => Cardinality(S \cup {t}) = Cardinality(S) + 1)
  BY FS_AddElement, FS_CardinalityType
<1>2. CASE t \in T \ S
  BY <1>1, <1>2, FS_Subset, FS_CardinalityType
<1>3. CASE t \notin T \ S
  <2>1. T \subseteq S
    BY <1>3
  <2> QED
    BY <1>1, <2>1, FS_Subset, FS_CardinalityType
<1> QED
  BY <1>2, <1>3

(* Nobody is admitted: a task goes on past admission, ends, or begins.       *)
NobodyAdmitted ==
  \A u \in Tasks :
    \/ task'[u] = task[u]
    \/ task'[u].pc = "idle"
    \/ task'[u].pc = "global" /\ task'[u].lease = FALSE
    \/ /\ Admitted(u) /\ Admitted(u)'
       /\ task'[u].turn = task[u].turn /\ task'[u].lease = task[u].lease

LEMMA PermitsKept ==
  ASSUME PermitInv, NobodyAdmitted
  PROVE  PermitInv'
<1>1. GlobalHolders' \subseteq GlobalHolders
  BY DEF NobodyAdmitted, GlobalHolders, Busy, At, Admitted, Registered
<1>2. \A s \in Sessions : SessionHolders(s)' \subseteq SessionHolders(s)
  BY DEF NobodyAdmitted, SessionHolders, GlobalHolders, Busy, At, agent_of, Admitted, Registered
<1>3. /\ Cardinality(GlobalHolders') <= Cardinality(GlobalHolders)
      /\ Cardinality(GlobalHolders') \in Nat
  BY <1>1, FiniteHolders, FS_Subset, FS_CardinalityType
<1>4. \A s \in Sessions : /\ Cardinality(SessionHolders(s)') <= Cardinality(SessionHolders(s))
                          /\ Cardinality(SessionHolders(s)') \in Nat
  BY <1>2, FiniteHolders, FS_Subset, FS_CardinalityType
<1>5. ASSUME LeaseHeld PROVE LeaseHeld'
  <2>1. \A u \in Tasks : (Running(u)' /\ task'[u].lease) =>
          Running(u) /\ task[u].lease /\ task'[u].turn = task[u].turn
    BY DEF NobodyAdmitted, Running, Admitted, Registered
  <2>2. \A u \in Tasks :
          (Running(u)' /\ task'[u].pc \notin {"global", "session", "workspace"}) =>
             /\ Running(u) /\ task[u].pc \notin {"global", "session", "workspace"}
             /\ task'[u].turn = task[u].turn /\ task'[u].lease = task[u].lease
    BY DEF NobodyAdmitted, Running, Admitted, Registered
  <2> QED
    BY <1>5, <2>1, <2>2 DEF LeaseHeld, agent_of
<1>6. Cardinality(GlobalHolders') <= GlobalSlots
  BY <1>3, FiniteHolders, SchedulerAssumption DEF PermitInv
<1>7. \A s \in Sessions : Cardinality(SessionHolders(s)') <= SessionSlots
  BY <1>4, FiniteHolders, SchedulerAssumption DEF PermitInv
<1> QED
  BY <1>5, <1>6, <1>7 DEF PermitInv

LEMMA AcquirePermits ==
  ASSUME TypeOK, PermitInv, NEW t \in Tasks,
         \/ AcquireGlobal(t) \/ AcquireSession(t) \/ AcquireWorkspace(t) \/ LeaseReadFails(t)
  PROVE  PermitInv'
<1>0. /\ task[t].pc \in {"global", "session", "workspace"}
      /\ task'[t].pc \in {"session", "workspace", "consume"}
      /\ \A u \in Tasks : u # t => task'[u] = task[u]
      /\ task'[t].kind = task[t].kind
      /\ task'[t].turn = task[t].turn
  BY AcquireMoves
<1>1. Cardinality(GlobalHolders') <= GlobalSlots
  <2>1. GlobalHolders' \subseteq GlobalHolders \cup {t}
    BY <1>0 DEF GlobalHolders, Busy, At
  <2>2. t \notin GlobalHolders => Cardinality(GlobalHolders) < GlobalSlots
    BY <1>0 DEF AcquireGlobal, AcquireSession, AcquireWorkspace, LeaseReadFails, GlobalHolders,
                Busy, At
  <2> QED
    BY <2>1, <2>2, FiniteHolders, RoomForOne, SchedulerAssumption DEF PermitInv
<1>2. ASSUME NEW s \in Sessions PROVE Cardinality(SessionHolders(s)') <= SessionSlots
  <2>1. SessionHolders(s)' \subseteq SessionHolders(s) \cup {t}
    BY <1>0 DEF SessionHolders, GlobalHolders, Busy, At, agent_of
  <2>2. t \in SessionHolders(s)' \ SessionHolders(s) =>
          Cardinality(SessionHolders(s)) < SessionSlots
    <3> SUFFICES ASSUME t \in SessionHolders(s)', t \notin SessionHolders(s)
                 PROVE  Cardinality(SessionHolders(s)) < SessionSlots
      OBVIOUS
    <3>1. task'[t].pc # "session" /\ session_of[agent_of(t)] = s
      BY <1>0 DEF SessionHolders, agent_of, At
    <3>2. task[t].pc \in {"global", "session"}
      BY <1>0, <3>1 DEF SessionHolders, GlobalHolders, Busy, At
    <3>3. CASE AcquireGlobal(t)
      <4>1. Moved(t, "session", task[t].outcome)
        BY <1>0, <3>3, GotoMoves DEF AcquireGlobal, Step
      <4> QED
        BY <3>1, <4>1 DEF Moved
    <3> QED
      BY <3>1, <3>2, <3>3 DEF AcquireSession, AcquireWorkspace, LeaseReadFails, At
  <2> QED
    BY <2>1, <2>2, FiniteHolders, RoomForOne, SchedulerAssumption DEF PermitInv
<1>3. ASSUME RepositoryFaults = FALSE PROVE LeaseHeld'
  <2>0. LeaseHeld /\ ~ LeaseReadFails(t)
    BY <1>3 DEF PermitInv, LeaseReadFails
  <2>1. CASE AcquireWorkspace(t)
    <3> DEFINE c == [task[t] EXCEPT !.pc = "consume", !.lease = TRUE]
    <3>1. task' = [task EXCEPT ![t] = c]
      BY <2>1 DEF AcquireWorkspace, TypeOK
    <3>2. c.pc = "consume" /\ c.lease = TRUE
      BY <1>0, TaskFields DEF Task
    <3> HIDE DEF c
    <3>3. task'[t].pc = "consume" /\ task'[t].lease
      BY <3>1, <3>2 DEF TypeOK
    <3>4. \A u \in Tasks : u # t /\ Running(u) /\ task[u].lease =>
            workspace_of[agent_of(u)] # workspace_of[agent_of(t)]
      BY <2>1 DEF AcquireWorkspace, WorkspaceHolders, Busy, At, Running
    <3> QED
      BY <1>0, <2>0, <3>3, <3>4 DEF LeaseHeld, Running, agent_of
  <2>2. CASE AcquireGlobal(t) \/ AcquireSession(t)
    <3>1. PICK pc \in {"session", "workspace", "consume"} :
            /\ Goto(t, pc)
            /\ pc = "consume" => workspace_of[agent_of(t)] = NoWorkspace
      BY <2>2 DEF AcquireGlobal, AcquireSession
    <3>2. Moved(t, pc, task[t].outcome) /\ task'[t].lease = task[t].lease
      BY <1>0, <3>1, GotoMoves DEF Step
    <3>3. task'[t].pc = pc
      BY <3>2 DEF Moved
    <3>4. \A u \in Tasks : (Running(u)' /\ task'[u].lease) =>
            Running(u) /\ task[u].lease /\ task'[u].turn = task[u].turn
      BY <1>0, <3>2 DEF Running
    <3>5. ASSUME NEW u \in Tasks, Running(u)',
                 task'[u].pc \notin {"global", "session", "workspace"},
                 workspace_of[task'[u].turn[1]] # NoWorkspace
          PROVE  task'[u].lease
      <4>1. u # t
        BY <1>0, <3>1, <3>3, <3>5 DEF agent_of
      <4> QED
        BY <1>0, <2>0, <3>5, <4>1 DEF LeaseHeld, Running, agent_of
    <3> QED
      BY <2>0, <3>4, <3>5 DEF LeaseHeld, agent_of
  <2> QED
    BY <2>0, <2>1, <2>2
<1> QED
  BY <1>1, <1>2, <1>3 DEF PermitInv

LEMMA PermitInit == ASSUME Init PROVE PermitInv
<1>1. \A t \in Tasks : task[t].pc = "idle"
  BY IdleTask DEF Init
<1>2. GlobalHolders = {} /\ \A s : SessionHolders(s) = {}
  BY <1>1 DEF GlobalHolders, SessionHolders, Busy, At
<1>3. LeaseHeld
  BY <1>1 DEF LeaseHeld, Running
<1> QED
  BY <1>2, <1>3, FS_EmptySet, SchedulerAssumption DEF PermitInv

LEMMA PermitStep ==
  ASSUME RunAndEntries, PermitInv, [Next]_vars
  PROVE  PermitInv'
<1> USE DEF RunAndEntries, RunInv
<1>1. ASSUME NEW t \in Tasks, Acquire(t) \/ LeaseReadFails(t) PROVE PermitInv'
  BY <1>1, AcquirePermits DEF Acquire
<1>2. ASSUME NEW t \in Tasks, GoesOn(t) PROVE NobodyAdmitted
  BY <1>2 DEF GoesOn, NobodyAdmitted
<1>3. ASSUME NEW t \in Tasks, Unregister(t) PROVE NobodyAdmitted
  BY <1>3, IdleTask DEF Unregister, NobodyAdmitted, TypeOK
<1>4. ASSUME NEW id \in TurnId, CancelActive(id) PROVE NobodyAdmitted
  <2> SUFFICES ASSUME NEW u \in Tasks, task'[u].pc # "idle",
                      ~ (task'[u].pc = "global" /\ task'[u].lease = FALSE), task'[u] # task[u]
               PROVE  /\ Admitted(u) /\ Admitted(u)'
                      /\ task'[u].turn = task[u].turn /\ task'[u].lease = task[u].lease
    BY DEF NobodyAdmitted
  <2>1. /\ task'[u].pc = task[u].pc /\ task'[u].turn = task[u].turn
        /\ task'[u].lease = task[u].lease
    BY <1>4, CancelTouches
  <2>2. u = active[id[1]] /\ u # NoTask
    BY <1>4 DEF CancelActive, TypeOK
  <2>3. task[u].pc \notin {"global", "session", "workspace", "consume", "register"}
    BY <2>2, IdParts DEF ActiveEntryLive
  <2>4. task[u].pc \in Step
    BY <2>1, TaskFields
  <2> QED
    BY <2>1, <2>3, <2>4 DEF Step, Admitted, Registered
<1>5. CASE OutsideStep
  <2>1. \/ UNCHANGED task
        \/ \E t \in Tasks, kind \in {"start", "resume"}, id \in TurnId : Begins(t, kind, id)
    BY <1>5, OutsideTasks
  <2>2. NobodyAdmitted
    BY <2>1 DEF Begins, NobodyAdmitted
  <2> QED
    BY <2>2, PermitsKept
<1>6. CASE Restart
  <2>1. NobodyAdmitted
    BY <1>6, RestartTasks DEF NobodyAdmitted
  <2> QED
    BY <2>1, PermitsKept
<1>7. CASE UNCHANGED vars
  <2>1. NobodyAdmitted
    BY <1>7 DEF vars, NobodyAdmitted
  <2> QED
    BY <2>1, PermitsKept
<1> QED
  BY <1>1, <1>2, <1>3, <1>4, <1>5, <1>6, <1>7, PermitsKept, RunGoesOn
  DEF Next, Run, Fault, OutsideStep

(* With any number of permits, neither the process nor a session runs more   *)
(* than it has permits for; and unless a read of the repository fails, two   *)
(* runs never hold one coordinated workspace, on whatever path a run ends    *)
(* (run).  With faults a lease may be skipped: see LeaseReadFails.           *)
THEOREM AdmissionWithinLimitsHolds ==
  RepositoryFaults = FALSE => (Spec => []AdmissionWithinLimits)
<1> SUFFICES ASSUME RepositoryFaults = FALSE PROVE Spec => []AdmissionWithinLimits
  OBVIOUS
<1>1. RunAndEntries /\ PermitInv /\ [Next]_vars => PermitInv'
  BY PermitStep
<1>2. RunAndEntries /\ PermitInv => AdmissionWithinLimits
  <2> SUFFICES ASSUME LeaseHeld, PermitInv PROVE AdmissionWithinLimits
    BY DEF PermitInv
  <2>1. OneWriterPerWorkspace
    BY DEF LeaseHeld, OneWriterPerWorkspace, Busy, At, Running
  <2> QED
    BY <2>1 DEF AdmissionWithinLimits, PermitInv
<1> QED
  BY <1>1, <1>2, PermitInit, RunInvariant, PTL DEF Spec

-----------------------------------------------------------------------------
(* What a step does to the statuses and invocations of the Turn rows         *)

SameRow(id) ==
  /\ turns'[id[1]][id[2]].status = turns[id[1]][id[2]].status
  /\ turns'[id[1]][id[2]].invocation_id = turns[id[1]][id[2]].invocation_id

SameLengths == \A a \in Agents : DOMAIN turns'[a] = DOMAIN turns[a]

RowsKept == SameLengths /\ \A id \in TurnId : Known(id) => SameRow(id)

RowMoved(id) ==
  /\ SameLengths
  /\ Known(id)
  /\ \A j \in TurnId : j # id /\ Known(j) => SameRow(j)
  /\ turns'[id[1]][id[2]].status \in AgentTurnStatus
  /\ can_transition_to(Status(id), turns'[id[1]][id[2]].status)
  /\ \/ turns'[id[1]][id[2]].invocation_id = turns[id[1]][id[2]].invocation_id
     \/ /\ turns'[id[1]][id[2]].invocation_id = turns[id[1]][id[2]].invocation_id + 1
        /\ needs_attention(Status(id))
        /\ turns'[id[1]][id[2]].status = "running"

LEMMA UntouchedRows == ASSUME UNCHANGED turns PROVE RowsKept
BY DEF RowsKept, SameLengths, SameRow

LEMMA StatusMoves ==
  ASSUME TypeOK, NEW id \in TurnId, Known(id), NEW next \in AgentTurnStatus,
         transition_ok(Status(id), next),
         turns' = [turns EXCEPT ![id[1]][id[2]].status = next]
  PROVE  RowsKept \/ RowMoved(id)
<1> DEFINE r == WithStatus(id, next)
<1>1. r.status = next /\ r.invocation_id = Row(id).invocation_id /\ Writes(id, r)
  BY StatusWritten
<1> HIDE DEF r
<1>2. /\ SameLengths
      /\ \A j \in TurnId : Known(j) =>
           turns'[j[1]][j[2]] = IF j = id THEN r ELSE turns[j[1]][j[2]]
  BY <1>1 DEF Writes, SameLengths
<1>3. CASE Status(id) = next
  BY <1>1, <1>2, <1>3 DEF RowsKept, SameRow, Status, Row
<1>4. CASE can_transition_to(Status(id), next)
  BY <1>1, <1>2, <1>4 DEF RowMoved, SameRow, Row
<1> QED
  BY <1>3, <1>4 DEF transition_ok

LEMMA ResumeMoves ==
  ASSUME TypeOK, NEW id \in TurnId, Known(id), needs_attention(Status(id)),
         turns' = [turns EXCEPT ![id[1]][id[2]] =
                     [Row(id) EXCEPT !.status = "running",
                                     !.invocation_id = Row(id).invocation_id + 1]]
  PROVE  RowMoved(id)
<1> DEFINE r == Resumed(id)
<1>1. r.status = "running" /\ r.invocation_id = Row(id).invocation_id + 1 /\ Writes(id, r)
  BY ResumeWritten
<1> HIDE DEF r
<1>2. /\ SameLengths
      /\ \A j \in TurnId : Known(j) =>
           turns'[j[1]][j[2]] = IF j = id THEN r ELSE turns[j[1]][j[2]]
  BY <1>1 DEF Writes, SameLengths
<1>3. can_transition_to(Status(id), "running") /\ "running" \in AgentTurnStatus
  BY DEF needs_attention, can_transition_to, AgentTurnStatus
<1> QED
  BY <1>1, <1>2, <1>3 DEF RowMoved, SameRow, Row

LEMMA OtherFieldsKept ==
  ASSUME NEW id \in TurnId, Known(id), NEW r, Writes(id, r),
         r.status = Status(id), r.invocation_id = Row(id).invocation_id
  PROVE  RowsKept
BY DEF Writes, RowsKept, SameLengths, SameRow, Status, Row

LEMMA RecordMoves ==
  ASSUME RunInv, NEW t \in Tasks, task[t].pc # "idle", NEW next \in AgentTurnStatus,
         Record(t, next)
  PROVE  RowsKept \/ RowMoved(task[t].turn)
<1>1. task[t].turn \in TurnId /\ Known(task[t].turn) /\ TypeOK
  BY OwnTurn DEF RunInv
<1> QED
  BY <1>1, StatusMoves, UntouchedRows DEF Record

LEMMA RunMovesRows ==
  ASSUME RunInv, NEW t \in Tasks, Run(t)
  PROVE  RowsKept \/ RowMoved(task[t].turn)
<1> DEFINE id == task[t].turn
<1>0. ASSUME task[t].pc # "idle" PROVE id \in TurnId /\ Known(id) /\ TypeOK
  BY <1>0, OwnTurn DEF RunInv
<1>1. CASE ConsumeCancel(t) \/ Register(t) \/ ReadAfterError(t) \/ Unregister(t)
  BY <1>1, UntouchedRows DEF ConsumeCancel, Register, ReadAfterError, Unregister
<1>2. CASE BeginStart(t)
  <2>1. task[t].pc # "idle"
    BY <1>2 DEF BeginStart, At
  <2>2. \/ Record(t, "cancelled")
        \/ /\ transition_ok(Status(id), "running")
           /\ turns' = [turns EXCEPT ![id[1]][id[2]].status = "running"]
        \/ UNCHANGED turns
    BY <1>2 DEF BeginStart
  <2>3. "cancelled" \in AgentTurnStatus /\ "running" \in AgentTurnStatus
    BY StatusFacts
  <2> QED
    BY <1>0, <2>1, <2>2, <2>3, RecordMoves, StatusMoves, UntouchedRows
<1>3. CASE BeginResume(t)
  <2>1. task[t].pc # "idle"
    BY <1>3 DEF BeginResume, At
  <2>2. \/ /\ needs_attention(Status(id))
           /\ turns' = [turns EXCEPT ![id[1]][id[2]] =
                          [Row(id) EXCEPT !.status = "running",
                                          !.invocation_id = Row(id).invocation_id + 1]]
        \/ UNCHANGED turns
    BY <1>3 DEF BeginResume
  <2> QED
    BY <1>0, <2>1, <2>2, ResumeMoves, UntouchedRows
<1>4. ASSUME NEW outcome \in Outcomes, Drive(t, outcome) PROVE RowsKept
  <2>1. /\ task[t].pc # "idle"
        /\ \/ /\ outcome \in {"waiting_approval", "waiting_input"}
              /\ turns' = [turns EXCEPT ![id[1]][id[2]].asked = outcome]
           \/ UNCHANGED turns
    BY <1>4 DEF Drive, At
  <2>2. CASE /\ outcome \in {"waiting_approval", "waiting_input"}
             /\ turns' = [turns EXCEPT ![id[1]][id[2]].asked = outcome]
    <3> DEFINE r == WithAsked(id, outcome)
    <3>1. outcome \in {"none", "waiting_approval", "waiting_input"}
      BY <2>2
    <3>2. turns' = [turns EXCEPT ![id[1]][id[2]].asked = outcome]
      BY <2>2
    <3>3. id \in TurnId /\ Known(id) /\ TypeOK
      BY <1>0, <2>1
    <3> HIDE DEF id
    <3>4. r.status = Status(id) /\ r.invocation_id = Row(id).invocation_id /\ Writes(id, r)
      BY <3>1, <3>2, <3>3, AskedWritten
    <3> HIDE DEF r
    <3> QED
      BY <3>3, <3>4, OtherFieldsKept
  <2> QED
    BY <2>1, <2>2, UntouchedRows
<1>5. CASE Checkpoint(t)
  <2> DEFINE b == needs_attention(task[t].outcome)
             r == WithCheckpoint(id, b)
  <2>1. task[t].pc # "idle" /\ turns' = [turns EXCEPT ![id[1]][id[2]].checkpoint = b]
    BY <1>5 DEF Checkpoint, At
  <2>2. b \in BOOLEAN
    BY DEF needs_attention
  <2> HIDE DEF b
  <2>3. r.status = Status(id) /\ r.invocation_id = Row(id).invocation_id /\ Writes(id, r)
    BY <1>0, <2>1, <2>2, CheckpointWritten
  <2> HIDE DEF r
  <2> QED
    BY <1>0, <2>1, <2>3, OtherFieldsKept
<1>6. CASE Finish(t)
  <2>1. task[t].pc # "idle" /\ Record(t, task[t].outcome)
    BY <1>6 DEF Finish, At
  <2>2. task[t].outcome \in AgentTurnStatus
    BY <1>0, <2>1, TaskFields
  <2> QED
    BY <2>1, <2>2, RecordMoves
<1>7. CASE StartFailed(t) \/ FailTurn(t)
  <2>1. /\ task[t].pc # "idle"
        /\ \/ UNCHANGED turns
           \/ \E next \in {"running", "failed"} :
                /\ transition_ok(Status(id), next)
                /\ turns' = [turns EXCEPT ![id[1]][id[2]].status = next]
    BY <1>7 DEF StartFailed, FailTurn, At
  <2>2. "running" \in AgentTurnStatus /\ "failed" \in AgentTurnStatus
    BY StatusFacts
  <2> QED
    BY <1>0, <2>1, <2>2, StatusMoves, UntouchedRows
<1> QED
  BY <1>1, <1>2, <1>3, <1>4, <1>5, <1>6, <1>7 DEF Run

LEMMA OutsideRows ==
  ASSUME RunInv, NEW id \in TurnId,
         \/ submit_start(id) \/ CancelActive(id) \/ ParkCancel(id) \/ UserDecides(id)
         \/ UserDismisses(id) \/ CancelDismissed(id) \/ UserResumes(id)
  PROVE  RowsKept \/ RowMoved(id)
<1>1. CASE submit_start(id) \/ CancelActive(id) \/ ParkCancel(id) \/ UserResumes(id)
  BY <1>1, UntouchedRows DEF submit_start, CancelActive, ParkCancel, UserResumes
<1>2. CASE UserDecides(id) \/ UserDismisses(id)
  <2> DEFINE r == WithAsked(id, "none")
  <2>1. Known(id) /\ turns' = [turns EXCEPT ![id[1]][id[2]].asked = "none"]
    BY <1>2 DEF UserDecides, UserDismisses, TurnIds, Known
  <2>2. r.status = Status(id) /\ r.invocation_id = Row(id).invocation_id /\ Writes(id, r)
    BY <2>1, AskedWritten DEF RunInv
  <2> HIDE DEF r
  <2> QED
    BY <2>1, <2>2, OtherFieldsKept
<1>3. CASE CancelDismissed(id)
  <2>1. /\ Known(id)
        /\ \/ UNCHANGED turns
           \/ /\ transition_ok(Status(id), "cancelled")
              /\ turns' = [turns EXCEPT ![id[1]][id[2]].status = "cancelled"]
    BY <1>3 DEF CancelDismissed, RunInv, KnownTurns
  <2> QED
    BY <2>1, StatusFacts, StatusMoves, UntouchedRows DEF RunInv
<1> QED
  BY <1>1, <1>2, <1>3

-----------------------------------------------------------------------------
(* No Start is lost or doubled                                               *)

NoneQueued ==
  \A j \in TurnId : (Known(j)' /\ turns'[j[1]][j[2]].status = "queued") =>
                       Known(j) /\ turns[j[1]][j[2]].status = "queued"

LEMMA MovesNeverQueue ==
  ASSUME RowsKept \/ \E id \in TurnId : RowMoved(id)
  PROVE  NoneQueued
<1>1. SameLengths
  BY DEF RowsKept, RowMoved
<1>2. \A j \in TurnId : Known(j)' <=> Known(j)
  BY <1>1, IdParts DEF SameLengths, Known
<1>3. \A s : ~ can_transition_to(s, "queued")
  BY DEF can_transition_to, WaitingStatuses, TerminalStatuses
<1>4. CASE RowsKept
  BY <1>2, <1>4 DEF RowsKept, SameRow, NoneQueued
<1>5. ASSUME NEW id \in TurnId, RowMoved(id) PROVE NoneQueued
  <2>1. turns'[id[1]][id[2]].status # "queued"
    BY <1>3, <1>5 DEF RowMoved
  <2>2. \A j \in TurnId : j # id /\ Known(j) => SameRow(j)
    BY <1>5 DEF RowMoved
  <2> QED
    BY <1>2, <2>1, <2>2 DEF SameRow, NoneQueued
<1> QED
  BY <1>4, <1>5

LEMMA StartersKept ==
  ASSUME QueuedHasStarter, NoneQueued, creating \subseteq creating',
         \A u \in Tasks : Opening(u) =>
           \/ Opening(u)' /\ task'[u].turn = task[u].turn
           \/ turns'[task[u].turn[1]][task[u].turn[2]].status # "queued"
  PROVE  QueuedHasStarter'
<1> SUFFICES ASSUME NEW j \in TurnId, Known(j)', turns'[j[1]][j[2]].status = "queued",
                    j \notin creating'
             PROVE  \E u \in Tasks : Opening(u)' /\ task'[u].turn = j
  BY DEF QueuedHasStarter, Status, Row
<1>1. Known(j) /\ turns[j[1]][j[2]].status = "queued" /\ j \notin creating
  BY DEF NoneQueued
<1>2. PICK u \in Tasks : Opening(u) /\ task[u].turn = j
  BY <1>1 DEF QueuedHasStarter, Status, Row
<1> QED
  BY <1>2

LEMMA BeginStartLeavesQueue ==
  ASSUME RunInv, NEW t \in Tasks, BeginStart(t)
  PROVE  turns'[task[t].turn[1]][task[t].turn[2]].status # "queued"
<1> DEFINE id == task[t].turn
<1>1. task[t].pc = "begin" /\ task[t].kind = "start"
  BY DEF BeginStart, At
<1>2. id \in TurnId /\ Known(id) /\ TypeOK
  BY <1>1, OwnTurn DEF RunInv
<1>3. Status(id) = "queued"
  BY <1>1 DEF RunInv, OpeningAlone, Opening
<1>4. transition_ok(Status(id), "cancelled") /\ transition_ok(Status(id), "running")
  BY <1>3 DEF transition_ok, can_transition_to
<1>5. PICK next \in {"cancelled", "running"} :
        turns' = [turns EXCEPT ![id[1]][id[2]].status = next]
  BY <1>4 DEF BeginStart, Record
<1>6. next \in AgentTurnStatus
  BY StatusFacts
<1> DEFINE r == WithStatus(id, next)
<1>7. r.status = next /\ Writes(id, r)
  BY <1>2, <1>5, <1>6, StatusWritten
<1> HIDE DEF r
<1> QED
  BY <1>2, <1>7 DEF Writes

LEMMA RunKeepsStarters ==
  ASSUME RunInv, QueuedHasStarter, NEW t \in Tasks, Run(t)
  PROVE  QueuedHasStarter'
<1>0. RowsKept \/ RowMoved(task[t].turn)
  BY RunMovesRows
<1>1. NoneQueued
  <2>1. CASE RowsKept
    BY <2>1, MovesNeverQueue
  <2>2. CASE ~ RowsKept
    <3>1. ~ Unregister(t)
      BY <2>2, UntouchedRows DEF Unregister
    <3>2. GoesOn(t)
      BY <3>1, RunGoesOn DEF Run, RunInv
    <3>3. task[t].pc # "idle"
      BY <3>2 DEF GoesOn, Admitted, Registered
    <3> QED
      BY <1>0, <2>2, <3>3, OwnTurn, MovesNeverQueue
  <2> QED
    BY <2>1, <2>2
<1>2. UNCHANGED creating
  BY DEF Run, ConsumeCancel, Register, BeginStart, BeginResume, Drive, Checkpoint, Finish,
         ReadAfterError, StartFailed, FailTurn, Unregister
<1>3. ASSUME NEW u \in Tasks, Opening(u)
      PROVE  \/ Opening(u)' /\ task'[u].turn = task[u].turn
             \/ turns'[task[u].turn[1]][task[u].turn[2]].status # "queued"
  <2>1. CASE Unregister(t)
    <3>1. u # t /\ task'[u] = task[u]
      BY <1>3, <2>1 DEF Unregister, Opening, At, RunInv, TypeOK
    <3> QED
      BY <1>3, <3>1 DEF Opening
  <2>2. CASE BeginStart(t) /\ u = t
    BY <2>2, BeginStartLeavesQueue
  <2>3. CASE ~ Unregister(t) /\ ~ (BeginStart(t) /\ u = t)
    <3>1. GoesOn(t)
      BY <2>3, RunGoesOn DEF Run, RunInv
    <3>2. CASE u # t
      BY <1>3, <3>1, <3>2 DEF GoesOn, Opening
    <3>3. CASE u = t
      <4>1. task[t].pc \in {"consume", "register"}
        BY <1>3, <2>3, <3>3 DEF Run, ConsumeCancel, Register, BeginStart, BeginResume, Drive,
           Checkpoint, Finish, ReadAfterError, StartFailed, FailTurn, Opening, At
      <4> QED
        BY <1>3, <3>1, <3>3, <4>1 DEF GoesOn, Opening
    <3> QED
      BY <3>2, <3>3
  <2> QED
    BY <2>1, <2>2, <2>3
<1> QED
  BY <1>1, <1>2, <1>3, StartersKept

LEMMA SubmitKeepsStarters ==
  ASSUME RunInv, QueuedHasStarter, NEW id \in TurnId, submit_start(id)
  PROVE  QueuedHasStarter'
<1>1. /\ creating' = creating \ {id} /\ Submit("start", id) /\ UNCHANGED turns
  BY DEF submit_start
<1>2. PICK t \in Tasks : Begins(t, "start", id)
  BY <1>1, SubmitBegins DEF RunInv
<1> SUFFICES ASSUME NEW j \in TurnId, Known(j), turns[j[1]][j[2]].status = "queued",
                    j \notin creating'
             PROVE  \E u \in Tasks : Opening(u)' /\ task'[u].turn = j
  BY <1>1 DEF QueuedHasStarter, Status, Row, Known
<1>3. CASE j = id
  BY <1>2, <1>3 DEF Begins, Opening
<1>4. CASE j # id
  <2>1. PICK u \in Tasks : Opening(u) /\ task[u].turn = j
    BY <1>1, <1>4 DEF QueuedHasStarter, Status, Row
  <2>2. u # t /\ task'[u] = task[u]
    BY <1>2, <2>1 DEF Begins, Opening
  <2> QED
    BY <2>1, <2>2 DEF Opening
<1> QED
  BY <1>3, <1>4

LEMMA CreateKeepsStarters ==
  ASSUME RunInv, QueuedHasStarter, NEW a \in Agents, CreateTurn(a)
  PROVE  QueuedHasStarter'
<1> DEFINE k == Len(turns[a])
<1>1. /\ turns' = [turns EXCEPT ![a] = Append(turns[a], NewTurn)] /\ UNCHANGED task
      /\ creating' = creating \cup {<<a, k + 1>>}
  BY DEF CreateTurn
<1>2. k \in Nat /\ turns[a] \in Seq(Turn) /\ DOMAIN turns[a] = 1..k
  BY DEF RunInv, TypeOK
<1>3. NewTurn \in Turn
  BY StatusFacts DEF NewTurn, Turn
<1> HIDE DEF k
<1> SUFFICES ASSUME NEW j \in TurnId, Known(j)', turns'[j[1]][j[2]].status = "queued",
                    j \notin creating'
             PROVE  \E u \in Tasks : Opening(u)' /\ task'[u].turn = j
  BY DEF QueuedHasStarter, Status, Row
<1>4. Known(j) /\ turns[j[1]][j[2]] = turns'[j[1]][j[2]]
  <2>1. CASE j[1] = a
    <3>1. /\ turns'[a] = Append(turns[a], NewTurn)
          /\ DOMAIN turns'[a] = 1..(k + 1)
          /\ \A n \in 1..k : turns'[a][n] = turns[a][n]
      BY <1>1, <1>2, <1>3 DEF RunInv, TypeOK, k
    <3>2. j[2] # k + 1
      BY <1>1, <2>1, IdParts
    <3>3. j[2] \in 1..k
      BY <1>2, <2>1, <3>1, <3>2 DEF Known
    <3> QED
      BY <1>2, <2>1, <3>1, <3>3 DEF Known
  <2>2. CASE j[1] # a
    BY <1>1, <2>2, IdParts DEF RunInv, TypeOK, Known
  <2> QED
    BY <2>1, <2>2
<1>5. PICK u \in Tasks : Opening(u) /\ task[u].turn = j
  BY <1>1, <1>4 DEF QueuedHasStarter, Status, Row
<1> QED
  BY <1>1, <1>5 DEF Opening

LEMMA RestartKeepsStarters ==
  ASSUME RunInv, Restart
  PROVE  QueuedHasStarter'
<1> SUFFICES ASSUME NEW j \in TurnId, Known(j)', turns'[j[1]][j[2]].status = "queued"
             PROVE  \E u \in Tasks : Opening(u)' /\ task'[u].turn = j
  BY DEF QueuedHasStarter, Status, Row
<1>1. Known(j)
  BY RestartRows, IdParts DEF Known, RunInv
<1>2. turns'[j[1]][j[2]].status = IF Status(j) = "running" THEN "interrupted" ELSE Status(j)
  BY <1>1, RestartRows, IdParts DEF Known, Status, Row, RunInv
<1>3. j \in Queued
  BY <1>1, <1>2 DEF Queued, TurnIds, Known
<1>4. Slot[j] \in Tasks /\ task'[Slot[j]].pc = "global" /\ task'[Slot[j]].kind = "start"
      /\ task'[Slot[j]].turn = j
  BY <1>3, RestartTasks DEF RunInv
<1> QED
  BY <1>4 DEF Opening

LEMMA StarterStep ==
  ASSUME RepositoryFaults = FALSE, RunAndEntries, QueuedHasStarter, [Next]_vars
  PROVE  QueuedHasStarter'
<1> USE DEF RunAndEntries
<1>1. ASSUME NEW t \in Tasks, Acquire(t) PROVE QueuedHasStarter'
  <2>1. UNCHANGED <<turns, creating>>
    BY <1>1 DEF Acquire, AcquireGlobal, AcquireSession, AcquireWorkspace
  <2>2. /\ task'[t].pc \in {"session", "workspace", "consume"}
        /\ \A u \in Tasks : u # t => task'[u] = task[u]
        /\ task'[t].kind = task[t].kind
        /\ task'[t].turn = task[t].turn
    BY <1>1, AcquireMoves DEF Acquire, RunInv
  <2>3. NoneQueued
    BY <2>1, UntouchedRows, MovesNeverQueue
  <2>4. \A u \in Tasks : Opening(u) => Opening(u)' /\ task'[u].turn = task[u].turn
    BY <2>2 DEF Opening
  <2> QED
    BY <2>1, <2>3, <2>4, StartersKept
<1>2. ASSUME NEW t \in Tasks, Fault(t) PROVE QueuedHasStarter'
  <2>1. DriveFails(t) \/ RunFails(t)
    BY <1>2 DEF Fault, LeaseReadFails, BeginFails, ErrorPathFails
  <2>2. UNCHANGED <<turns, creating>> /\ task[t].pc \in {"drive", "checkpoint", "finish"}
    BY <2>1 DEF DriveFails, RunFails, Driving, At
  <2>3. GoesOn(t)
    BY <2>1, RunGoesOn DEF RunInv
  <2>4. \A u \in Tasks : Opening(u) => Opening(u)' /\ task'[u].turn = task[u].turn
    BY <2>2, <2>3 DEF GoesOn, Opening
  <2> QED
    BY <2>2, <2>4, StartersKept, UntouchedRows, MovesNeverQueue
<1>3. ASSUME NEW id \in TurnId,
             \/ CancelActive(id) \/ ParkCancel(id) \/ UserDecides(id)
             \/ UserDismisses(id) \/ CancelDismissed(id) \/ UserResumes(id)
      PROVE  QueuedHasStarter'
  <2>1. UNCHANGED creating
    BY <1>3 DEF CancelActive, ParkCancel, UserDecides, UserDismisses, CancelDismissed, UserResumes
  <2>2. NoneQueued
    BY <1>3, OutsideRows, MovesNeverQueue
  <2>3. \A u \in Tasks : Opening(u) => Opening(u)' /\ task'[u].turn = task[u].turn
    <3>1. CASE CancelActive(id)
      <4>1. \A u \in Tasks :
              /\ task'[u].pc = task[u].pc
              /\ task[u].pc # "idle" => /\ task'[u].kind = task[u].kind
                                        /\ task'[u].turn = task[u].turn
        BY <3>1, CancelTouches DEF RunInv
      <4> QED
        BY <4>1 DEF Opening
    <3>2. CASE ~ CancelActive(id)
      <4>1. \/ UNCHANGED task
            \/ \E t \in Tasks, kind \in {"start", "resume"}, i \in TurnId : Begins(t, kind, i)
        BY <1>3, <3>2, OutsideTasks DEF OutsideStep, RunInv
      <4> QED
        BY <4>1 DEF Begins, Opening
    <3> QED
      BY <3>1, <3>2
  <2> QED
    BY <2>1, <2>2, <2>3, StartersKept
<1>4. ASSUME NEW a \in Agents, RequestCancel(a) PROVE QueuedHasStarter'
  <2>1. UNCHANGED <<turns, creating, task>>
    BY <1>4 DEF RequestCancel
  <2> QED
    BY <2>1 DEF QueuedHasStarter, Known, Status, Row, Opening
<1>5. CASE UNCHANGED vars
  BY <1>5 DEF vars, QueuedHasStarter, Known, Status, Row, Opening
<1>6. CASE Restart
  BY <1>6, RestartKeepsStarters
<1> QED
  BY <1>1, <1>2, <1>3, <1>4, <1>5, <1>6, RunKeepsStarters, SubmitKeepsStarters,
     CreateKeepsStarters DEF Next

(* A queued Turn has exactly one Start under way, submitted or about to be,  *)
(* at whatever point the server stops and restarts (submit_start and         *)
(* recover_collaboration_runs).  When the repository fails, the error path   *)
(* may end with the Turn still queued and without a Start: the exception is  *)
(* the code's, which drops the errors of that path.                          *)
THEOREM QueuedHasOneStartHolds ==
  RepositoryFaults = FALSE => (Spec => []QueuedHasOneStart)
<1> SUFFICES ASSUME RepositoryFaults = FALSE PROVE Spec => []QueuedHasOneStart
  OBVIOUS
<1>1. Init => QueuedHasStarter
  BY IdParts DEF Init, QueuedHasStarter, Known
<1>2. RunAndEntries /\ QueuedHasStarter /\ [Next]_vars => QueuedHasStarter'
  BY StarterStep
<1>3. RunAndEntries /\ QueuedHasStarter => QueuedHasOneStart
  <2> SUFFICES ASSUME RunInv, QueuedHasStarter, NEW id \in TurnId, Known(id),
                      Status(id) = "queued"
               PROVE  \/ id \in creating /\ StartsOf(id) = {}
                      \/ id \notin creating /\ Cardinality(StartsOf(id)) = 1
    BY DEF RunAndEntries, QueuedHasOneStart, TurnIds, Known
  <2>1. CASE id \in creating
    BY <2>1 DEF RunInv, CreatingAlone, StartsOf, Busy, At, Running
  <2>2. CASE id \notin creating
    <3>1. PICK t \in Tasks : Opening(t) /\ task[t].turn = id
      BY <2>2 DEF QueuedHasStarter
    <3>2. StartsOf(id) = {t}
      BY <3>1 DEF RunInv, OpeningAlone, Opening, StartsOf, Busy, At, Running
    <3> QED
      BY <2>2, <3>2, FS_Singleton
  <2> QED
    BY <2>1, <2>2
<1> QED
  BY <1>1, <1>2, <1>3, RunInvariant, PTL DEF Spec

-----------------------------------------------------------------------------
(* The refinement of TurnHistory                                             *)

RowShown(r) == [status |-> r.status, invocation_id |-> r.invocation_id]

LEMMA SameStatuses ==
  /\ History!AgentTurnStatus = AgentTurnStatus
  /\ \A s : History!is_terminal(s) <=> is_terminal(s)
  /\ \A s : History!needs_attention(s) <=> needs_attention(s)
  /\ \A s, next : History!can_transition_to(s, next) <=> can_transition_to(s, next)
BY DEF History!AgentTurnStatus, History!is_terminal, History!needs_attention,
       History!can_transition_to, History!WaitingStatuses, History!TerminalStatuses,
       AgentTurnStatus, is_terminal, needs_attention, can_transition_to, WaitingStatuses,
       TerminalStatuses

LEMMA RowsOf ==
  ASSUME NEW a \in Agents
  PROVE  /\ TurnRows[a] = [n \in DOMAIN turns[a] |-> RowShown(turns[a][n])]
         /\ TurnRows'[a] = [n \in DOMAIN turns'[a] |-> RowShown(turns'[a][n])]
         /\ \A n \in DOMAIN turns[a] : TurnRows[a][n] = RowShown(turns[a][n])
         /\ \A n \in DOMAIN turns[a] : /\ TurnRows[a][n].status = turns[a][n].status
                                       /\ TurnRows[a][n].invocation_id = turns[a][n].invocation_id
BY DEF TurnRows, RowShown

LEMMA ThreadUnchanged ==
  ASSUME NEW a \in Agents, DOMAIN turns'[a] = DOMAIN turns[a],
         \A n \in DOMAIN turns[a] : /\ turns'[a][n].status = turns[a][n].status
                                    /\ turns'[a][n].invocation_id = turns[a][n].invocation_id
  PROVE  History!Unchanged(a)
<1>1. \A n \in DOMAIN turns[a] : RowShown(turns'[a][n]) = RowShown(turns[a][n])
  BY DEF RowShown
<1>2. [n \in DOMAIN turns[a] |-> RowShown(turns'[a][n])]
        = [n \in DOMAIN turns[a] |-> RowShown(turns[a][n])]
  BY <1>1, Zenon
<1>3. TurnRows'[a] = TurnRows[a]
  <2>1. TurnRows'[a] = [n \in DOMAIN turns[a] |-> RowShown(turns'[a][n])]
    BY RowsOf
  <2>2. TurnRows[a] = [n \in DOMAIN turns[a] |-> RowShown(turns[a][n])]
    BY RowsOf
  <2> QED
    BY <1>2, <2>1, <2>2, Zenon
<1> QED
  BY <1>3 DEF History!Unchanged

LEMMA ThreadMoved ==
  ASSUME NEW a \in Agents, DOMAIN turns'[a] = DOMAIN turns[a], NEW k \in DOMAIN turns[a],
         \A n \in DOMAIN turns[a] : n # k =>
            /\ turns'[a][n].status = turns[a][n].status
            /\ turns'[a][n].invocation_id = turns[a][n].invocation_id,
         turns'[a][k].status \in AgentTurnStatus,
         can_transition_to(turns[a][k].status, turns'[a][k].status),
         \/ turns'[a][k].invocation_id = turns[a][k].invocation_id
         \/ /\ turns'[a][k].invocation_id = turns[a][k].invocation_id + 1
            /\ needs_attention(turns[a][k].status)
            /\ turns'[a][k].status = "running"
  PROVE  History!Moved(a)
<1> DEFINE R == TurnRows[a]
           next == turns'[a][k].status
           inv == turns'[a][k].invocation_id
<1>1. /\ DOMAIN R = DOMAIN turns[a]
      /\ R[k].status = turns[a][k].status /\ R[k].invocation_id = turns[a][k].invocation_id
  BY RowsOf
<1>2. TurnRows'[a] = [n \in DOMAIN turns[a] |-> RowShown(turns'[a][n])]
  BY RowsOf
<1>3. \A n \in DOMAIN turns[a] : n # k => RowShown(turns'[a][n]) = RowShown(turns[a][n])
  BY DEF RowShown
<1>4. \A n \in DOMAIN turns[a] :
        RowShown(turns'[a][n]) = IF n = k THEN [status |-> next, invocation_id |-> inv]
                                 ELSE R[n]
  <2>1. RowShown(turns'[a][k]) = [status |-> next, invocation_id |-> inv]
    BY DEF RowShown
  <2>2. \A n \in DOMAIN turns[a] : R[n] = RowShown(turns[a][n])
    BY RowsOf
  <2> HIDE DEF R, next, inv
  <2> QED
    BY <1>3, <2>1, <2>2
<1>5. TurnRows'[a] = [R EXCEPT ![k] = [status |-> next, invocation_id |-> inv]]
  <2>1. [R EXCEPT ![k] = [status |-> next, invocation_id |-> inv]]
          = [n \in DOMAIN turns[a] |-> IF n = k THEN [status |-> next, invocation_id |-> inv]
                                       ELSE R[n]]
    BY <1>1
  <2>2. [n \in DOMAIN turns[a] |-> RowShown(turns'[a][n])]
          = [n \in DOMAIN turns[a] |-> IF n = k THEN [status |-> next, invocation_id |-> inv]
                                       ELSE R[n]]
    BY <1>4, Zenon
  <2> QED
    BY <1>2, <2>1, <2>2, Zenon
<1>6. /\ next \in History!AgentTurnStatus
      /\ History!can_transition_to(R[k].status, next)
      /\ inv \in {R[k].invocation_id, R[k].invocation_id + 1}
      /\ inv # R[k].invocation_id =>
           History!needs_attention(R[k].status) /\ next = "running"
  BY <1>1, SameStatuses
<1> HIDE DEF next, inv
<1> SUFFICES \E n \in DOMAIN R, nx \in History!AgentTurnStatus :
               /\ History!can_transition_to(R[n].status, nx)
               /\ \E i \in {R[n].invocation_id, R[n].invocation_id + 1} :
                    /\ i # R[n].invocation_id =>
                         History!needs_attention(R[n].status) /\ nx = "running"
                    /\ TurnRows'[a] = [R EXCEPT ![n] = [status |-> nx, invocation_id |-> i]]
  BY DEF History!Moved
<1> USE <1>1, <1>6
<1> WITNESS k \in DOMAIN R, next \in History!AgentTurnStatus
<1> QED
  BY <1>5, <1>6

LEMMA ThreadAdded ==
  ASSUME RunInv, NEW a \in Agents, turns'[a] = Append(turns[a], NewTurn),
         turns[a] # <<>> => is_terminal(turns[a][Len(turns[a])].status)
  PROVE  History!Added(a)
<1> DEFINE k == Len(turns[a])
           S == [status : AgentTurnStatus, invocation_id : Nat]
           R == TurnRows[a]
           new == Append(R, History!Created)
<1>1. NewTurn \in Turn /\ RowShown(NewTurn) = History!Created
  BY StatusFacts DEF NewTurn, Turn, RowShown, History!Created
<1>2. /\ k \in Nat /\ DOMAIN turns[a] = 1..k /\ DOMAIN turns'[a] = 1..(k + 1)
      /\ turns'[a][k + 1] = NewTurn /\ \A n \in 1..k : turns'[a][n] = turns[a][n]
  BY <1>1 DEF RunInv, TypeOK
<1>3. \A n \in 1..k : turns[a][n] \in Turn
  BY <1>2 DEF RunInv, TypeOK
<1>4. \A n \in DOMAIN R : History!is_terminal(R[n].status)
  <2>1. \A n \in DOMAIN turns[a] : is_terminal(turns[a][n].status)
    BY <1>2 DEF RunInv, EarlierFinished, TypeOK
  <2> QED
    BY <2>1, RowsOf, SameStatuses
<1> HIDE DEF k
<1>5. R \in Seq(S) /\ Len(R) = k
  <2>1. \A n \in 1..k : RowShown(turns[a][n]) \in S
    BY <1>3 DEF RowShown, Turn
  <2>2. R = [n \in 1..k |-> RowShown(turns[a][n])]
    BY <1>2, RowsOf
  <2> QED
    BY <1>2, <2>1, <2>2
<1>6. History!Created \in S
  BY DEF History!Created, AgentTurnStatus
<1>7. TurnRows'[a] = [n \in 1..(k + 1) |-> RowShown(turns'[a][n])]
  BY <1>2, RowsOf
<1>8. new = [n \in 1..(k + 1) |-> new[n]]
  <2>1. new \in Seq(S) /\ Len(new) = k + 1
    BY <1>2, <1>5, <1>6
  <2> QED
    BY <1>2, <2>1
<1>9. \A n \in 1..(k + 1) : RowShown(turns'[a][n]) = new[n]
  <2>1. \A n \in 1..k : new[n] = R[n] /\ R[n] = RowShown(turns[a][n])
    <3>1. \A n \in 1..k : R[n] = RowShown(turns[a][n])
      BY <1>2, RowsOf
    <3> HIDE DEF R
    <3>2. \A n \in 1..k : new[n] = R[n]
      BY <1>2, <1>5, <1>6
    <3> QED
      BY <3>1, <3>2
  <2>2. new[k + 1] = History!Created
    BY <1>2, <1>5, <1>6
  <2>3. \A n \in 1..(k + 1) : n \in 1..k \/ n = k + 1
    BY <1>2
  <2> HIDE DEF new
  <2>4. \A n \in 1..k : RowShown(turns'[a][n]) = new[n]
    BY <1>2, <2>1
  <2>5. RowShown(turns'[a][k + 1]) = new[k + 1]
    BY <1>1, <1>2, <2>2
  <2> QED
    BY <2>3, <2>4, <2>5, Zenon
<1>10. TurnRows'[a] = new
  <2> HIDE DEF new
  <2>1. [n \in 1..(k + 1) |-> RowShown(turns'[a][n])] = [n \in 1..(k + 1) |-> new[n]]
    BY <1>9, Zenon
  <2> QED
    BY <1>7, <1>8, <2>1, Zenon
<1> QED
  BY <1>4, <1>10 DEF History!Added

LEMMA ThreadsShow ==
  ASSUME \A a \in Agents : History!Unchanged(a) \/ History!Added(a) \/ History!Moved(a)
  PROVE  History!Next
<1>1. DOMAIN TurnRows' = Agents
  BY DEF TurnRows
<1> QED
  BY <1>1 DEF History!Next

LEMMA MovesShow ==
  ASSUME TypeOK, RowsKept \/ \E id \in TurnId : RowMoved(id)
  PROVE  History!Next
<1>1. \A a \in Agents : \A n \in DOMAIN turns[a] :
        <<a, n>> \in TurnId /\ Known(<<a, n>>) /\ <<a, n>>[1] = a /\ <<a, n>>[2] = n
  BY SchedulerAssumption DEF TypeOK, TurnId, Known
<1>2. SameLengths
  BY DEF RowsKept, RowMoved
<1>3. ASSUME NEW a \in Agents, \A n \in DOMAIN turns[a] : SameRow(<<a, n>>)
      PROVE  History!Unchanged(a)
  BY <1>1, <1>2, <1>3, ThreadUnchanged DEF SameRow, SameLengths
<1>4. CASE RowsKept
  BY <1>1, <1>3, <1>4, ThreadsShow DEF RowsKept
<1>5. ASSUME NEW id \in TurnId, RowMoved(id) PROVE History!Next
  <2> DEFINE b == id[1]
             k == id[2]
  <2>1. b \in Agents /\ k \in DOMAIN turns[b] /\ id = <<b, k>>
    BY <1>5, IdParts DEF RowMoved, Known
  <2>2. \A j \in TurnId : j # id /\ Known(j) => SameRow(j)
    BY <1>5 DEF RowMoved
  <2>3. ASSUME NEW a \in Agents, a # b PROVE History!Unchanged(a)
    <3>1. \A n \in DOMAIN turns[a] : <<a, n>> # id
      BY <2>1, <2>3
    <3> QED
      BY <1>1, <1>3, <2>2, <3>1
  <2>4. \A n \in DOMAIN turns[b] : n # k =>
          /\ turns'[b][n].status = turns[b][n].status
          /\ turns'[b][n].invocation_id = turns[b][n].invocation_id
    <3> SUFFICES ASSUME NEW n \in DOMAIN turns[b], n # k PROVE SameRow(<<b, n>>)
      BY <1>1, <2>1 DEF SameRow
    <3>1. <<b, n>> # id
      BY <2>1
    <3> QED
      BY <1>1, <2>1, <2>2, <3>1
  <2>5. /\ turns'[b][k].status \in AgentTurnStatus
        /\ can_transition_to(turns[b][k].status, turns'[b][k].status)
        /\ \/ turns'[b][k].invocation_id = turns[b][k].invocation_id
           \/ /\ turns'[b][k].invocation_id = turns[b][k].invocation_id + 1
              /\ needs_attention(turns[b][k].status)
              /\ turns'[b][k].status = "running"
    BY <1>5 DEF RowMoved, Status, Row
  <2>6. DOMAIN turns'[b] = DOMAIN turns[b]
    BY <1>2, <2>1 DEF SameLengths
  <2> HIDE DEF b, k
  <2>7. History!Moved(b)
    BY <2>1, <2>4, <2>5, <2>6, ThreadMoved
  <2> QED
    BY <2>3, <2>7, ThreadsShow
<1> QED
  BY <1>4, <1>5

LEMMA CreateShows ==
  ASSUME RunInv, NEW b \in Agents, CreateTurn(b)
  PROVE  History!Next
<1>1. /\ turns'[b] = Append(turns[b], NewTurn)
      /\ turns[b] # <<>> => is_terminal(turns[b][Len(turns[b])].status)
      /\ \A a \in Agents : a # b => turns'[a] = turns[a]
  BY DEF CreateTurn, RunInv, TypeOK
<1>2. History!Added(b)
  BY <1>1, ThreadAdded
<1>3. \A a \in Agents : a # b => History!Unchanged(a)
  BY <1>1, ThreadUnchanged
<1> QED
  BY <1>2, <1>3, ThreadsShow

(* A restart moves at most one Turn of each thread: the earlier ones are     *)
(* finished.                                                                 *)
LEMMA RestartShows ==
  ASSUME RunInv, Restart
  PROVE  History!Next
<1> SUFFICES ASSUME NEW a \in Agents
             PROVE  History!Unchanged(a) \/ History!Moved(a)
  BY ThreadsShow
<1> DEFINE k == Len(turns[a])
<1>1. /\ DOMAIN turns'[a] = DOMAIN turns[a]
      /\ \A n \in DOMAIN turns[a] :
           /\ turns'[a][n].status = IF turns[a][n].status = "running" THEN "interrupted"
                                    ELSE turns[a][n].status
           /\ turns'[a][n].invocation_id = turns[a][n].invocation_id
  BY RestartRows DEF RunInv
<1>2. \A n \in DOMAIN turns[a] : n # k => turns[a][n].status # "running"
  BY StatusFacts DEF RunInv, EarlierFinished
<1>3. CASE \A n \in DOMAIN turns[a] : turns[a][n].status # "running"
  BY <1>1, <1>3, ThreadUnchanged
<1>4. ASSUME NEW n \in DOMAIN turns[a], turns[a][n].status = "running"
      PROVE  History!Moved(a)
  <2>1. \A m \in DOMAIN turns[a] : m # n => turns[a][m].status # "running"
    BY <1>2, <1>4
  <2>2. /\ can_transition_to("running", "interrupted")
        /\ "interrupted" \in AgentTurnStatus
    BY DEF can_transition_to, TerminalStatuses, AgentTurnStatus
  <2>3. turns'[a][n].status = "interrupted" /\ turns[a][n].status = "running"
    BY <1>1, <1>4
  <2> QED
    BY <1>1, <2>1, <2>2, <2>3, ThreadMoved
<1> QED
  BY <1>3, <1>4

LEMMA RefinementStep ==
  ASSUME RunAndEntries, [Next]_vars
  PROVE  [History!Next]_TurnRows
<1> USE DEF RunAndEntries
<1>0. TypeOK
  BY DEF RunInv
<1>1. ASSUME UNCHANGED turns PROVE UNCHANGED TurnRows
  BY <1>1 DEF TurnRows
<1>2. ASSUME NEW t \in Tasks, Acquire(t) \/ Fault(t) PROVE UNCHANGED turns
  BY <1>2 DEF Acquire, AcquireGlobal, AcquireSession, AcquireWorkspace, Fault, LeaseReadFails,
              BeginFails, DriveFails, RunFails, ErrorPathFails
<1>3. ASSUME NEW t \in Tasks, Run(t) PROVE [History!Next]_TurnRows
  <2>1. CASE Unregister(t)
    BY <1>1, <2>1 DEF Unregister
  <2>2. CASE ~ Unregister(t)
    <3>1. GoesOn(t)
      BY <1>0, <1>3, <2>2, RunGoesOn DEF Run
    <3>2. task[t].pc # "idle"
      BY <3>1 DEF GoesOn, Admitted, Registered
    <3>3. task[t].turn \in TurnId
      BY <3>2, OwnTurn
    <3>4. RowsKept \/ RowMoved(task[t].turn)
      BY <1>3, RunMovesRows
    <3> QED
      BY <1>0, <3>3, <3>4, MovesShow
  <2> QED
    BY <2>1, <2>2
<1>4. ASSUME NEW id \in TurnId,
             \/ submit_start(id) \/ CancelActive(id) \/ ParkCancel(id) \/ UserDecides(id)
             \/ UserDismisses(id) \/ CancelDismissed(id) \/ UserResumes(id)
      PROVE  History!Next
  BY <1>0, <1>4, OutsideRows, MovesShow
<1>5. ASSUME NEW a \in Agents, RequestCancel(a) PROVE UNCHANGED turns
  BY <1>5 DEF RequestCancel
<1>6. CASE UNCHANGED vars
  BY <1>1, <1>6 DEF vars
<1>7. CASE Restart
  BY <1>7, RestartShows
<1> QED
  BY <1>1, <1>2, <1>3, <1>4, <1>5, <1>6, <1>7, CreateShows DEF Next

(* The runs, the user's decisions and the restarts move the Turn rows as     *)
(* TurnHistory says: no finished Turn is reopened, none is added behind an   *)
(* unfinished one, and an invocation number rises only on the way out of a   *)
(* wait, although every write of record_turn_state races with the others.    *)
THEOREM SchedulerImplementsTurnHistory == Spec => ImplementsTurnHistory
<1>1. Init => History!Init
  <2> SUFFICES ASSUME Init PROVE TurnRows = [a \in Agents |-> <<>>]
    BY DEF History!Init
  <2>1. \A a \in Agents : turns[a] = <<>> /\ DOMAIN turns[a] = {}
    BY DEF Init
  <2> QED
    BY <2>1 DEF TurnRows
<1> QED
  BY <1>1, RefinementStep, RunInvariant, PTL DEF Spec, ImplementsTurnHistory, History!Spec

=============================================================================
