------------------------- MODULE AgentRunScheduler -------------------------
(* How the server runs the Turns of descendant Agents.  A command (Start or  *)
(* Resume) is handed to ServerAgentRunScheduler, which spawns one task for   *)
(* it; the task collects its permits, registers itself as the active run of  *)
(* its thread and calls AgentTurnCoordinator, which drives the Turn and      *)
(* records what became of it.  Cancels, the user's decisions and restarts    *)
(* arrive at any moment.                                                     *)
(*                                                                           *)
(* turns and the requests waiting for a decision are rows of the database    *)
(* and survive a crash; everything else lives in memory.  Every statement of *)
(* the repository or under a lock is a step of its own.  The channel between *)
(* submit and the spawned task only delays the task, as waiting for its      *)
(* first permit does, so the two waits are one.                              *)
(*                                                                           *)
(* Abstracted: the model and tool loop of a driven Turn (Drive chooses an    *)
(* outcome), the ledger, activity and provider rows, the mailbox (see        *)
(* CollaborationRepository) and the root Agent, which is not run here.       *)
EXTENDS TurnStatus, Integers, Sequences, FiniteSets

CONSTANTS
  Agents,            \* the descendant AgentThreads
  Sessions,          \* CollaborationSessions
  session_of,        \* the session of each thread
  Workspaces,        \* roots of SharedCoordinated workspaces
  NoWorkspace,       \* an isolated or a read-only Agent: takes no lease
  workspace_of,      \* from the thread's runtime snapshot
  GlobalSlots,       \* permits of global_slots
  SessionSlots,      \* permits of each session's semaphore
  Cancellable,       \* the threads somebody may interrupt
  WaitKinds,         \* the waits a driven Turn may end in
  RepositoryFaults,  \* may a read of the repository fail?
  Tasks,             \* bound: commands in flight at the same time
  NoTask,
  MaxTurns,          \* bound: Turns per thread
  MaxInvocations,    \* bound: invocations per Turn
  MaxCrashes         \* bound: restarts

ASSUME PlacementAssumption ==
  /\ session_of \in [Agents -> Sessions]
  /\ workspace_of \in [Agents -> Workspaces \cup {NoWorkspace}]
  /\ NoWorkspace \notin Workspaces

ASSUME SchedulerAssumption ==
  /\ GlobalSlots \in Nat \ {0}
  /\ SessionSlots \in Nat \ {0}
  /\ Cancellable \subseteq Agents
  /\ WaitKinds \subseteq WaitingStatuses
  /\ RepositoryFaults \in BOOLEAN
  /\ IsFiniteSet(Tasks)
  /\ NoTask \notin Tasks
  /\ MaxTurns \in Nat
  /\ MaxInvocations \in Nat
  /\ MaxCrashes \in Nat

VARIABLES
  turns,            \* agent_turns, their checkpoints and pending requests
  creating,         \* Turns committed whose Start is not submitted yet
  task,             \* one per command in flight
  active,           \* thread -> the run that registered last
  cancelled_before_start,
  cancels,          \* Cancel commands on their way through submit
  dismissals,       \* requests resolved as dismissed, Turn not yet cancelled
  crashes

vars == <<turns, creating, task, active, cancelled_before_start, cancels,
          dismissals, crashes>>

-----------------------------------------------------------------------------
(* Records                                                                   *)

(* asked: the approval or user-input request whose continuation is stored    *)
(* and which nobody has decided yet.                                         *)
Turn == [status : AgentTurnStatus, invocation_id : Nat, checkpoint : BOOLEAN,
         asked : {"none", "waiting_approval", "waiting_input"}]

NewTurn == [status |-> "queued", invocation_id |-> 1, checkpoint |-> FALSE,
            asked |-> "none"]

TurnId == Agents \X (1..MaxTurns)

(* The steps of a task.  Up to "workspace" it waits for a permit.            *)
Step == {"idle", "global", "session", "workspace", "consume", "register",
         "begin", "drive", "checkpoint", "finish", "error", "fail", "unregister"}

(* lease: the task holds the permit of its workspace.  outcome: what the     *)
(* driver returned; on the error path, the status read.                      *)
Task == [pc : Step, kind : {"start", "resume"}, turn : TurnId,
         lease : BOOLEAN, cancelled : BOOLEAN, outcome : AgentTurnStatus]

Idle == [pc |-> "idle"]

Command(kind, id) ==
  [pc |-> "global", kind |-> kind, turn |-> id, lease |-> FALSE,
   cancelled |-> FALSE, outcome |-> "queued"]

(* Rows, commands, the map of active runs and the parked cancels have their  *)
(* types; a status a descendant cannot report is none of them.               *)
TypeOK ==
  /\ turns \in [Agents -> Seq(Turn)]
  /\ \A a \in Agents : Len(turns[a]) <= MaxTurns
  /\ creating \subseteq TurnId
  /\ task \in [Tasks -> Task \cup {Idle}]
  /\ active \in [Agents -> Tasks \cup {NoTask}]
  /\ cancelled_before_start \subseteq TurnId
  /\ cancels \subseteq TurnId \X {"lookup", "park"}
  /\ dismissals \subseteq TurnId
  /\ crashes \in 0..MaxCrashes

Row(id) == turns[id[1]][id[2]]

Status(id) == Row(id).status

TurnIds == {id \in TurnId : id[2] \in DOMAIN turns[id[1]]}

agent_of(t) == task[t].turn[1]

At(t, pc) == task[t].pc = pc

Busy == {t \in Tasks : ~ At(t, "idle")}

Driving(t) == task[t].pc \in {"drive", "checkpoint", "finish"}

-----------------------------------------------------------------------------
(* Permits.  A task gives all of them back when it ends.                     *)

GlobalHolders == {t \in Busy : ~ At(t, "global")}

SessionHolders(s) ==
  {t \in GlobalHolders : session_of[agent_of(t)] = s /\ ~ At(t, "session")}

WorkspaceHolders(w) ==
  {t \in Busy : task[t].lease /\ workspace_of[agent_of(t)] = w}

Goto(t, pc) == task' = [task EXCEPT ![t].pc = pc]

Submit(kind, id) ==
  \E t \in Tasks :
    /\ At(t, "idle")
    /\ t = CHOOSE u \in Tasks : At(u, "idle")
    /\ task' = [task EXCEPT ![t] = Command(kind, id)]

-----------------------------------------------------------------------------
Init ==
  /\ turns = [a \in Agents |-> <<>>]
  /\ creating = {}
  /\ task = [t \in Tasks |-> Idle]
  /\ active = [a \in Agents |-> NoTask]
  /\ cancelled_before_start = {}
  /\ cancels = {}
  /\ dismissals = {}
  /\ crashes = 0

(* Faulty variant: a follow-up is committed but never submitted.             *)
CreateTurn_unsubmitted(a) ==
  /\ Len(turns[a]) < MaxTurns
  /\ turns[a] # <<>> => is_terminal(turns[a][Len(turns[a])].status)
  /\ turns' = [turns EXCEPT ![a] = Append(@, NewTurn)]
  /\ UNCHANGED <<creating, task, active, cancelled_before_start, cancels, dismissals, crashes>>

(* spawn_agent and followup_task: the Turn is committed first ...            *)
CreateTurn(a) ==
  /\ Len(turns[a]) < MaxTurns
  /\ turns[a] # <<>> => is_terminal(turns[a][Len(turns[a])].status)
  /\ turns' = [turns EXCEPT ![a] = Append(@, NewTurn)]
  /\ creating' = creating \cup {<<a, Len(turns[a]) + 1>>}
  /\ UNCHANGED <<task, active, cancelled_before_start, cancels, dismissals, crashes>>

(* ... and its Start is submitted afterwards.                                *)
submit_start(id) ==
  /\ id \in creating
  /\ creating' = creating \ {id}
  /\ Submit("start", id)
  /\ UNCHANGED <<turns, active, cancelled_before_start, cancels, dismissals, crashes>>

-----------------------------------------------------------------------------
(* The scheduler's task: admission                                           *)

AcquireGlobal(t) ==
  /\ At(t, "global")
  /\ Cardinality(GlobalHolders) < GlobalSlots
  /\ Goto(t, "session")
  /\ UNCHANGED <<turns, creating, active, cancelled_before_start, cancels, dismissals, crashes>>

(* With the session permit the task reads the workspace mode.                *)
AcquireSession(t) ==
  /\ At(t, "session")
  /\ Cardinality(SessionHolders(session_of[agent_of(t)])) < SessionSlots
  /\ Goto(t, IF workspace_of[agent_of(t)] = NoWorkspace THEN "consume" ELSE "workspace")
  /\ UNCHANGED <<turns, creating, active, cancelled_before_start, cancels, dismissals, crashes>>

(* The thread or its runtime snapshot cannot be read or decoded: the task    *)
(* goes on without a lease.                                                  *)
LeaseReadFails(t) ==
  /\ RepositoryFaults
  /\ At(t, "session")
  /\ Cardinality(SessionHolders(session_of[agent_of(t)])) < SessionSlots
  /\ Goto(t, "consume")
  /\ UNCHANGED <<turns, creating, active, cancelled_before_start, cancels, dismissals, crashes>>

(* Faulty variant: the lease is kept per session, not per workspace.         *)
AcquireWorkspace_per_session(t) ==
  /\ At(t, "workspace")
  /\ WorkspaceHolders(workspace_of[agent_of(t)])
       \cap SessionHolders(session_of[agent_of(t)]) = {}
  /\ task' = [task EXCEPT ![t].pc = "consume", ![t].lease = TRUE]
  /\ UNCHANGED <<turns, creating, active, cancelled_before_start, cancels, dismissals, crashes>>

AcquireWorkspace(t) ==
  /\ At(t, "workspace")
  /\ WorkspaceHolders(workspace_of[agent_of(t)]) = {}
  /\ task' = [task EXCEPT ![t].pc = "consume", ![t].lease = TRUE]
  /\ UNCHANGED <<turns, creating, active, cancelled_before_start, cancels, dismissals, crashes>>

(* A parked cancel of this Turn cancels the new token.                       *)
ConsumeCancel(t) ==
  /\ At(t, "consume")
  /\ task' = [task EXCEPT ![t].pc = "register",
                          ![t].cancelled = task[t].turn \in cancelled_before_start]
  /\ cancelled_before_start' = cancelled_before_start \ {task[t].turn}
  /\ UNCHANGED <<turns, creating, active, cancels, dismissals, crashes>>

(* The entry of an earlier run of the thread is overwritten.                 *)
Register(t) ==
  /\ At(t, "register")
  /\ active' = [active EXCEPT ![agent_of(t)] = t]
  /\ Goto(t, "begin")
  /\ UNCHANGED <<turns, creating, cancelled_before_start, cancels, dismissals, crashes>>

(* Faulty variant: the entry is left behind.                                 *)
Unregister_keeps_entry(t) ==
  /\ At(t, "unregister")
  /\ task' = [task EXCEPT ![t] = Idle]
  /\ UNCHANGED <<turns, creating, active, cancelled_before_start, cancels, dismissals, crashes>>

(* The entry of the thread is removed, whichever run it names.               *)
Unregister(t) ==
  /\ At(t, "unregister")
  /\ active' = [active EXCEPT ![agent_of(t)] = NoTask]
  /\ task' = [task EXCEPT ![t] = Idle]
  /\ UNCHANGED <<turns, creating, cancelled_before_start, cancels, dismissals, crashes>>

-----------------------------------------------------------------------------
(* AgentTurnCoordinator: one run of a Turn                                   *)

(* record_turn_state by a run: a refused transition is an error.             *)
Record(t, next) ==
  LET id == task[t].turn IN
  IF transition_ok(Status(id), next)
  THEN /\ turns' = [turns EXCEPT ![id[1]][id[2]].status = next]
       /\ Goto(t, "unregister")
  ELSE /\ Goto(t, "error")
       /\ UNCHANGED turns

(* execute_start: a token already cancelled ends the Turn, else it runs.     *)
BeginStart(t) ==
  LET id == task[t].turn IN
  /\ At(t, "begin")
  /\ task[t].kind = "start"
  /\ IF task[t].cancelled
     THEN Record(t, "cancelled")
     ELSE IF transition_ok(Status(id), "running")
          THEN /\ turns' = [turns EXCEPT ![id[1]][id[2]].status = "running"]
               /\ Goto(t, "drive")
          ELSE /\ Goto(t, "error")
               /\ UNCHANGED turns
  /\ UNCHANGED <<creating, active, cancelled_before_start, cancels, dismissals, crashes>>

(* Faulty variant: any Turn that is not finished may be resumed.             *)
BeginResume_unfinished(t) ==
  LET id == task[t].turn IN
  /\ At(t, "begin")
  /\ task[t].kind = "resume"
  /\ IF is_terminal(Status(id))
     THEN /\ Goto(t, "error")
          /\ UNCHANGED turns
     ELSE /\ turns' = [turns EXCEPT ![id[1]][id[2]].status = "running",
                                    ![id[1]][id[2]].invocation_id = @ + 1]
          /\ Goto(t, IF Row(id).checkpoint THEN "drive" ELSE "error")
  /\ UNCHANGED <<creating, active, cancelled_before_start, cancels, dismissals, crashes>>

(* execute_resume: resume_turn refuses a Turn that does not wait; then the   *)
(* checkpoint is read.                                                       *)
BeginResume(t) ==
  LET id == task[t].turn IN
  /\ At(t, "begin")
  /\ task[t].kind = "resume"
  /\ IF needs_attention(Status(id))
     THEN /\ turns' = [turns EXCEPT ![id[1]][id[2]] =
                         [Row(id) EXCEPT !.status = "running",
                                         !.invocation_id = Row(id).invocation_id + 1]]
          /\ Goto(t, IF Row(id).checkpoint THEN "drive" ELSE "error")
     ELSE /\ Goto(t, "error")
          /\ UNCHANGED turns
  /\ UNCHANGED <<creating, active, cancelled_before_start, cancels, dismissals, crashes>>

(* get_thread or get_turn fails before anything was changed.                 *)
BeginFails(t) ==
  /\ RepositoryFaults
  /\ At(t, "begin")
  /\ Goto(t, "error")
  /\ UNCHANGED <<turns, creating, active, cancelled_before_start, cancels, dismissals, crashes>>

(* The driver returns an outcome.  The token may have been cancelled after   *)
(* the driver's last look at it, so a cancelled run may end in any way; only *)
(* a cancelled token makes the outcome Cancelled.  An approval or user-input *)
(* request can be decided from here on: its continuation is stored before    *)
(* the Turn's checkpoint and status.                                         *)
Drive(t, outcome) ==
  LET id == task[t].turn IN
  /\ At(t, "drive")
  /\ outcome = "cancelled" => task[t].cancelled
  /\ outcome \in WaitKinds => Row(id).invocation_id < MaxInvocations
  /\ task' = [task EXCEPT ![t].pc = "checkpoint", ![t].outcome = outcome]
  /\ turns' = IF outcome \in {"waiting_approval", "waiting_input"}
              THEN [turns EXCEPT ![id[1]][id[2]].asked = outcome]
              ELSE turns
  /\ UNCHANGED <<creating, active, cancelled_before_start, cancels, dismissals, crashes>>

(* The driver itself fails: the Turn is recorded as failed and its old       *)
(* checkpoint stays.                                                         *)
DriveFails(t) ==
  /\ At(t, "drive")
  /\ task' = [task EXCEPT ![t].pc = "finish", ![t].outcome = "failed"]
  /\ UNCHANGED <<turns, creating, active, cancelled_before_start, cancels, dismissals, crashes>>

(* Preparing the run, or storing any of its results, fails.                  *)
RunFails(t) ==
  /\ Driving(t)
  /\ Goto(t, "error")
  /\ UNCHANGED <<turns, creating, active, cancelled_before_start, cancels, dismissals, crashes>>

(* put_turn_checkpoint for a wait, delete_turn_checkpoint otherwise.         *)
Checkpoint(t) ==
  LET id == task[t].turn IN
  /\ At(t, "checkpoint")
  /\ turns' = [turns EXCEPT ![id[1]][id[2]].checkpoint = needs_attention(task[t].outcome)]
  /\ Goto(t, "finish")
  /\ UNCHANGED <<creating, active, cancelled_before_start, cancels, dismissals, crashes>>

Finish(t) ==
  /\ At(t, "finish")
  /\ Record(t, task[t].outcome)
  /\ UNCHANGED <<creating, active, cancelled_before_start, cancels, dismissals, crashes>>

(* The error path of execute: read the status ...                            *)
ReadAfterError(t) ==
  LET id == task[t].turn IN
  /\ At(t, "error")
  /\ task' = [task EXCEPT
                ![t].outcome = Status(id),
                ![t].pc = IF is_terminal(Status(id)) THEN "unregister" ELSE "fail"]
  /\ UNCHANGED <<turns, creating, active, cancelled_before_start, cancels, dismissals, crashes>>

(* ... start the Turn if it was queued, ...                                  *)
StartFailed(t) ==
  LET id == task[t].turn IN
  /\ At(t, "fail")
  /\ task[t].outcome = "queued"
  /\ task' = [task EXCEPT ![t].outcome = "running"]
  /\ turns' = IF transition_ok(Status(id), "running")
              THEN [turns EXCEPT ![id[1]][id[2]].status = "running"]
              ELSE turns
  /\ UNCHANGED <<creating, active, cancelled_before_start, cancels, dismissals, crashes>>

(* ... and fail it.  A refusal is ignored: a waiting Turn goes on waiting.   *)
FailTurn(t) ==
  LET id == task[t].turn IN
  /\ At(t, "fail")
  /\ task[t].outcome # "queued"
  /\ turns' = IF transition_ok(Status(id), "failed")
              THEN [turns EXCEPT ![id[1]][id[2]].status = "failed"]
              ELSE turns
  /\ Goto(t, "unregister")
  /\ UNCHANGED <<creating, active, cancelled_before_start, cancels, dismissals, crashes>>

(* The database fails on the error path too: the errors are dropped and the  *)
(* Turn keeps the status it has.                                             *)
ErrorPathFails(t) ==
  /\ RepositoryFaults
  /\ task[t].pc \in {"error", "fail"}
  /\ Goto(t, "unregister")
  /\ UNCHANGED <<turns, creating, active, cancelled_before_start, cancels, dismissals, crashes>>

-----------------------------------------------------------------------------
(* Requests from outside the run                                             *)

(* interrupt_agent and cancel_collaboration_descendants: the latest Turn is  *)
(* read, then a Cancel for it is submitted.                                  *)
RequestCancel(a) ==
  /\ a \in Cancellable
  /\ turns[a] # <<>>
  /\ ~ is_terminal(turns[a][Len(turns[a])].status)
  /\ cancels' = cancels \cup {<<<<a, Len(turns[a])>>, "lookup">>}
  /\ UNCHANGED <<turns, creating, task, active, cancelled_before_start, dismissals, crashes>>

(* submit(Cancel): the active run of the thread is looked up ...             *)
CancelActive(id) ==
  LET t == active[id[1]] IN
  /\ <<id, "lookup">> \in cancels
  /\ IF t # NoTask /\ task[t].turn = id
     THEN /\ task' = [task EXCEPT ![t].cancelled = TRUE]
          /\ cancels' = cancels \ {<<id, "lookup">>}
     ELSE /\ cancels' = (cancels \ {<<id, "lookup">>}) \cup {<<id, "park">>}
          /\ UNCHANGED task
  /\ UNCHANGED <<turns, creating, active, cancelled_before_start, dismissals, crashes>>

(* ... and, under another lock, the cancel is parked if there was none.      *)
ParkCancel(id) ==
  /\ <<id, "park">> \in cancels
  /\ cancels' = cancels \ {<<id, "park">>}
  /\ cancelled_before_start' = cancelled_before_start \cup {id}
  /\ UNCHANGED <<turns, creating, task, active, dismissals, crashes>>

(* decide_approval and respond_to_user_input: the request is resolved if it  *)
(* is pending, whatever the Turn is doing, and a Resume is submitted.        *)
UserDecides(id) ==
  /\ id \in TurnIds
  /\ Row(id).asked # "none"
  /\ turns' = [turns EXCEPT ![id[1]][id[2]].asked = "none"]
  /\ Submit("resume", id)
  /\ UNCHANGED <<creating, active, cancelled_before_start, cancels, dismissals, crashes>>

(* respond_to_user_input with cancelled set: the request is resolved, then   *)
(* the Turn is cancelled if its status still allows it.                      *)
UserDismisses(id) ==
  /\ id \in TurnIds
  /\ Row(id).asked = "waiting_input"
  /\ turns' = [turns EXCEPT ![id[1]][id[2]].asked = "none"]
  /\ dismissals' = dismissals \cup {id}
  /\ UNCHANGED <<creating, task, active, cancelled_before_start, cancels, crashes>>

(* Faulty variant: the current status is not looked at.                      *)
CancelDismissed_unchecked(id) ==
  /\ id \in dismissals
  /\ dismissals' = dismissals \ {id}
  /\ turns' = [turns EXCEPT ![id[1]][id[2]].status = "cancelled"]
  /\ UNCHANGED <<creating, task, active, cancelled_before_start, cancels, crashes>>

CancelDismissed(id) ==
  /\ id \in dismissals
  /\ dismissals' = dismissals \ {id}
  /\ turns' = IF transition_ok(Status(id), "cancelled")
              THEN [turns EXCEPT ![id[1]][id[2]].status = "cancelled"]
              ELSE turns
  /\ UNCHANGED <<creating, task, active, cancelled_before_start, cancels, crashes>>

(* resume_external_action: any number of times while the Turn waits.         *)
UserResumes(id) ==
  /\ id \in TurnIds
  /\ Status(id) = "waiting_action"
  /\ Submit("resume", id)
  /\ UNCHANGED <<turns, creating, active, cancelled_before_start, cancels, dismissals, crashes>>

(* Faulty variant: recovery interrupts what ran and forgets what was queued. *)
Restart_forgets_queued ==
  /\ crashes < MaxCrashes
  /\ crashes' = crashes + 1
  /\ turns' = [a \in Agents |-> [n \in DOMAIN turns[a] |->
                 IF turns[a][n].status = "running"
                 THEN [turns[a][n] EXCEPT !.status = "interrupted"]
                 ELSE turns[a][n]]]
  /\ task' = [t \in Tasks |-> Idle]
  /\ creating' = {}
  /\ active' = [a \in Agents |-> NoTask]
  /\ cancelled_before_start' = {}
  /\ cancels' = {}
  /\ dismissals' = {}

Queued == {id \in TurnIds : Status(id) = "queued"}

(* The tasks that the Starts of a recovery may take.                         *)
Slots == {f \in [Queued -> Tasks] : \A i, j \in Queued : f[i] = f[j] => i = j}

(* The process dies and comes back: recover_collaboration_runs interrupts    *)
(* what was running and submits the queued Turns again, before the server    *)
(* takes requests.  The bound on Tasks must leave room for them.             *)
Restart ==
  LET slot == CHOOSE f \in Slots : TRUE IN
  /\ crashes < MaxCrashes
  /\ crashes' = crashes + 1
  /\ Slots # {}
  /\ turns' = [a \in Agents |-> [n \in DOMAIN turns[a] |->
                 IF turns[a][n].status = "running"
                 THEN [turns[a][n] EXCEPT !.status = "interrupted"]
                 ELSE turns[a][n]]]
  /\ task' = [t \in Tasks |->
                IF \E id \in Queued : slot[id] = t
                THEN Command("start", CHOOSE id \in Queued : slot[id] = t)
                ELSE Idle]
  /\ creating' = {}
  /\ active' = [a \in Agents |-> NoTask]
  /\ cancelled_before_start' = {}
  /\ cancels' = {}
  /\ dismissals' = {}

-----------------------------------------------------------------------------
Outcomes == {"completed", "failed", "cancelled"} \cup WaitKinds

Acquire(t) == AcquireGlobal(t) \/ AcquireSession(t) \/ AcquireWorkspace(t)

Run(t) ==
  \/ ConsumeCancel(t)
  \/ Register(t)
  \/ BeginStart(t)
  \/ BeginResume(t)
  \/ \E outcome \in Outcomes : Drive(t, outcome)
  \/ Checkpoint(t)
  \/ Finish(t)
  \/ ReadAfterError(t)
  \/ StartFailed(t)
  \/ FailTurn(t)
  \/ Unregister(t)

Fault(t) ==
  \/ LeaseReadFails(t)
  \/ BeginFails(t)
  \/ DriveFails(t)
  \/ RunFails(t)
  \/ ErrorPathFails(t)

Next ==
  \/ \E a \in Agents : CreateTurn(a)
  \/ \E id \in TurnId : submit_start(id)
  \/ \E t \in Tasks : Acquire(t)
  \/ \E t \in Tasks : Run(t)
  \/ \E t \in Tasks : Fault(t)
  \/ \E a \in Agents : RequestCancel(a)
  \/ \E id \in TurnId : CancelActive(id)
  \/ \E id \in TurnId : ParkCancel(id)
  \/ \E id \in TurnId : UserDecides(id)
  \/ \E id \in TurnId : UserDismisses(id)
  \/ \E id \in TurnId : CancelDismissed(id)
  \/ \E id \in TurnId : UserResumes(id)
  \/ Restart

Spec == Init /\ [][Next]_vars

(* A spawned task keeps going; a semaphore serves its waiters in order, so a *)
(* permit that keeps becoming free is eventually ours; the caller of         *)
(* spawn_agent or submit goes on to its next statement.  Nothing obliges a   *)
(* user to decide, anyone to cancel, or the process to crash.                *)
Fairness ==
  /\ \A t \in Tasks : WF_vars(Run(t)) /\ SF_vars(Acquire(t))
  /\ \A id \in TurnId :
       /\ SF_vars(submit_start(id))
       /\ WF_vars(CancelActive(id) \/ ParkCancel(id))
       /\ WF_vars(CancelDismissed(id))

FairSpec == Spec /\ Fairness

-----------------------------------------------------------------------------
(* What the scheduler and the coordinator promise                            *)

(* The comment in run(): two Agents that share a coordinated workspace never *)
(* execute at the same time, on whatever path their runs end.                *)
OneWriterPerWorkspace ==
  \A t, u \in Busy :
    (/\ task[t].pc \notin {"global", "session", "workspace"}
     /\ task[u].pc \notin {"global", "session", "workspace"}
     /\ workspace_of[agent_of(t)] # NoWorkspace
     /\ workspace_of[agent_of(t)] = workspace_of[agent_of(u)]) => t = u

(* While the repository answers, admission keeps its promises: no workspace  *)
(* has two writers, also across sessions, and neither the process nor a      *)
(* session runs more than it has permits for (run).                          *)
AdmissionWithinLimits ==
  /\ OneWriterPerWorkspace
  /\ Cardinality(GlobalHolders) <= GlobalSlots
  /\ \A s \in Sessions : Cardinality(SessionHolders(s)) <= SessionSlots

(* No Turn is driven by two runs, although Resume commands are submitted     *)
(* without looking at what is in flight and a restart submits Starts again:  *)
(* execute_start and execute_resume rely on the status alone.                *)
OneDriverPerTurn ==
  \A t, u \in Busy :
    (Driving(t) /\ Driving(u) /\ task[t].turn = task[u].turn) => t = u

(* A Turn that waits can be taken up from its checkpoint: execute_start and  *)
(* execute_resume write it before the waiting status, and nothing removes it *)
(* while the Turn waits.                                                     *)
WaitingHasCheckpoint ==
  \A id \in TurnIds : needs_attention(Status(id)) => Row(id).checkpoint

(* An entry of active is the thread's own run, registered and not yet        *)
(* finished, although runs of one thread may overlap and each removes the    *)
(* entry by thread: a cancel never hits a run of another Agent or one that   *)
(* is gone.                                                                  *)
ActiveEntryLive ==
  \A a \in Agents : active[a] # NoTask =>
    /\ active[a] \in Busy
    /\ agent_of(active[a]) = a
    /\ task[active[a]].pc \notin {"global", "session", "workspace", "consume", "register"}

(* What the server remembers agrees with what runs and with what is stored:  *)
(* every waiting Turn can be taken up (put_turn_checkpoint), every entry of  *)
(* active can be cancelled (run), and all of it has its type.                *)
EntriesMatchRuns == TypeOK /\ WaitingHasCheckpoint /\ ActiveEntryLive

(* A queued Turn has exactly one Start under way, submitted or about to be:  *)
(* none is lost between the commit of spawn_agent and submit_start, and a    *)
(* restart does not double it.                                               *)
StartsOf(id) == {t \in Busy : task[t].kind = "start" /\ task[t].turn = id}

QueuedHasOneStart ==
  \A id \in TurnIds :
    Status(id) = "queued" =>
      \/ id \in creating /\ StartsOf(id) = {}
      \/ id \notin creating /\ Cardinality(StartsOf(id)) = 1

(* Every queued Turn is eventually begun or ended: no permit is kept for     *)
(* ever and no Start is lost, crashes included (run, submit_start and        *)
(* recover_collaboration_runs).                                              *)
QueuedTurnLeaves ==
  \A id \in TurnId :
    (id \in TurnIds /\ Status(id) = "queued") ~> (id \in TurnIds /\ Status(id) # "queued")

(* The runs move the Turn rows as the repository promises: see TurnHistory.  *)
TurnRows ==
  [a \in Agents |-> [n \in DOMAIN turns[a] |->
     [status |-> turns[a][n].status, invocation_id |-> turns[a][n].invocation_id]]]

History == INSTANCE TurnHistory WITH history <- TurnRows

ImplementsTurnHistory == History!Spec

=============================================================================
