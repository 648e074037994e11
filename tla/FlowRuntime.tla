----------------------------- MODULE FlowRuntime -----------------------------
(***************************************************************************)
(* One flow run: the durable document that the driver task, the operators   *)
(* and the restart recovery all read, change and write back.                *)
(*                                                                          *)
(* The document carries a revision and every write names the revision that  *)
(* was read (`update_flow_run`), so a request handler that reads, computes  *)
(* and writes is one step here: it either finds the document it read or     *)
(* changes nothing.  The driver keeps what it read across its own steps;    *)
(* `stale' holds the drivers whose expected revision is no longer stored.   *)
(***************************************************************************)
EXTENDS Integers, FiniteSets

CONSTANTS
  Nodes,              \* graph nodes, numbered in the order they are enqueued
  Kind,               \* [Nodes -> {"agent", "runtime", "join", "output", "approval"}]
  ParallelSafe,       \* nodes that one superstep may execute together
  EntryNodes,         \* initial_ready_nodes of the graph
  Edges,              \* sequence of [from, to, cond, loop, exhausted]
  ErrorRoute,         \* [Nodes -> Nodes \cup {0}]: target of on_error, 0 if none
  MaxNodeExecutions,  \* budget.max_node_executions
  ReviewRequired,     \* output_review_required of the flow revision
  MaxInterrupts,      \* bound: interrupts the agents raise
  Drivers             \* bound: driver tasks alive at the same time; nothing in
                      \* the code keeps a second one from being spawned

ASSUME FlowAssumption ==
  /\ \E last \in Nodes : Nodes \subseteq 1..last
  /\ Kind \in [Nodes -> {"agent", "runtime", "join", "output", "approval"}]
  /\ ParallelSafe \subseteq Nodes /\ EntryNodes \subseteq Nodes
  /\ \A e \in DOMAIN Edges : Edges[e].from \in Nodes /\ Edges[e].to \in Nodes
  /\ ErrorRoute \in [Nodes -> Nodes \cup {0}]
  /\ MaxNodeExecutions \in Nat \ {0}
  /\ MaxInterrupts \in Nat
  /\ ReviewRequired \in BOOLEAN

VARIABLES
  run,         \* the stored FlowRunV1 document
  tasks,       \* [TaskIds -> status]: the human_tasks table
  pc,          \* [Drivers -> where drive_flow_run stands, "idle" if there is no task]
  view,        \* [Drivers -> the document the driver read last]
  stale,       \* drivers whose read document has been overwritten
  todo,        \* [Drivers -> nodes of the superstep still to be executed]
  results,     \* [Drivers -> [Nodes -> write produced and not yet persisted]]
  interrupts,  \* interrupts raised so far
  ran,         \* [Nodes -> executions started], history
  overlapped,  \* two driver tasks have been alive at the same time, history
  up           \* FALSE: the store could not be opened after a restart

drivers == <<pc, view, stale, todo, results>>
vars == <<run, tasks, pc, view, stale, todo, results, interrupts, ran, overlapped, up>>

Terminal == {"succeeded", "failed", "cancelled"}
Statuses == Terminal \cup {"queued", "running", "pause_requested", "paused",
              "waiting_approval", "waiting_human", "resuming", "cancel_requested"}
OpenNode == {"running", "waiting_human", "waiting_approval", "resuming"}
NodeStatuses == OpenNode \cup {"none", "succeeded", "failed", "cancelled"}
Pcs == {"idle", "read", "write", "exec", "commit", "resume", "replace", "error", "fail"}

(* A human task is named by the boundary it stands for (stable_task_id):    *)
(* an interrupt, the attempt of a node, or the superstep that is reviewed.  *)
NoTask == <<"none", 0, 0>>
TaskIds ==
  ({"interrupt"} \X (1..MaxInterrupts) \X {0})
    \cup ({"approval", "recovery"} \X Nodes \X (1..MaxNodeExecutions))
    \cup ({"review"} \X (1..MaxNodeExecutions) \X {0})

(* A pending write: result, result past the tool budget, error or interrupt. *)
(* `cmd' names the interrupt that the stored resume command answers.         *)
Write(kind, id, cmd) == [kind |-> kind, id |-> id, cmd |-> cmd]
NoWrite == Write("none", 0, 0)
NoWrites == [n \in Nodes |-> NoWrite]
Writes == [kind : {"none", "result", "costly", "error", "interrupt"},
           id : 0..MaxInterrupts, cmd : 0..MaxInterrupts]
Completed(w) == w.kind \in {"result", "costly"}

NewRun ==
  [status |-> "queued", ready |-> EntryNodes, outputs |-> {},
   loops |-> [e \in DOMAIN Edges |-> 0], executions |-> 0, superstep |-> 0,
   cpNodes |-> {}, writes |-> NoWrites, batch |-> {},
   node |-> [n \in Nodes |-> "none"], attempt |-> [n \in Nodes |-> 0],
   waiting |-> 0, task |-> NoTask]

Runs == [status : Statuses, ready : SUBSET Nodes, outputs : SUBSET Nodes,
         loops : [DOMAIN Edges -> Nat], executions : Nat, superstep : Nat,
         cpNodes : SUBSET Nodes, writes : [Nodes -> Writes], batch : SUBSET Nodes,
         node : [Nodes -> NodeStatuses], attempt : [Nodes -> Nat],
         waiting : Nodes \cup {0}, task : TaskIds \cup {NoTask}]

LargestOf(S) == CHOOSE n \in S : \A m \in S : m <= n
FirstOf(S) == CHOOSE n \in S : \A m \in S : n <= m
-----------------------------------------------------------------------------
(* Graph operations on a document.                                          *)

JoinReady(r, n) ==
  \A e \in DOMAIN Edges :
    (Edges[e].to = n /\ Edges[e].loop = 0) => Edges[e].from \in r.outputs

ReadyNodes(r) == {n \in r.ready : Kind[n] = "join" => JoinReady(r, n)}

(* The edges out of S whose conditions may hold for the outputs of S: an    *)
(* edge with neither a condition nor a loop policy always holds.            *)
MatchingEdges(S) ==
  LET out == {e \in DOMAIN Edges : Edges[e].from \in S}
  IN {T \in SUBSET out :
        \A e \in out : (~Edges[e].cond /\ Edges[e].loop = 0) => e \in T}

SpentLoops(r, T) == {e \in T : Edges[e].loop > 0 /\ r.loops[e] >= Edges[e].loop}
LoopFails(r, T) == \E e \in SpentLoops(r, T) : Edges[e].exhausted = "fail"

(* Follows the edges T; an exhausted loop is not followed and pauses the    *)
(* run or ends it, as its policy says.                                      *)
RouteAfter(r, T) ==
  LET spent == SpentLoops(r, T)
      go == T \ spent
  IN [r EXCEPT
        !.ready = @ \cup {Edges[e].to : e \in go},
        !.loops = [e \in DOMAIN Edges |->
                     IF e \in go /\ Edges[e].loop > 0 THEN @[e] + 1 ELSE @[e]],
        !.status = IF spent = {} THEN @
                   ELSE IF Edges[LargestOf(spent)].exhausted = "partial"
                        THEN "succeeded" ELSE "paused"]

(* A fresh attempt of every node in S is recorded as running.               *)
StartNodes(r, S) ==
  [r EXCEPT
     !.node = [n \in Nodes |-> IF n \in S THEN "running" ELSE @[n]],
     !.attempt = [n \in Nodes |-> IF n \in S THEN @[n] + 1 ELSE @[n]],
     !.executions = @ + Cardinality(S),
     !.batch = IF S = {} THEN @ ELSE S]

CancelCheckpoint(r) ==
  [r EXCEPT
     !.node = [n \in Nodes |->
                 IF n \in r.cpNodes /\ @[n] \in OpenNode THEN "cancelled" ELSE @[n]],
     !.cpNodes = {}, !.writes = NoWrites]

(* prepare_flow_resume with retryInterruptedNode: results are kept, every    *)
(* other node of the superstep gets a fresh attempt, within the budget.      *)
Unfinished(r) == {n \in r.cpNodes : ~Completed(r.writes[n])}
MayRetry(r) == r.executions + Cardinality(Unfinished(r)) <= MaxNodeExecutions

(* Faulty variant: the interrupted attempt is run again under its old number. *)
PrepareFlowResumeSameAttempt(r) ==
  [r EXCEPT !.writes = [n \in Nodes |-> IF n \in Unfinished(r) THEN NoWrite ELSE @[n]],
            !.task = NoTask]
PrepareFlowResume(r) ==
  LET fresh == Unfinished(r)
      kept == [r EXCEPT !.writes = [n \in Nodes |->
                                      IF n \in fresh THEN NoWrite ELSE @[n]]]
  IN [StartNodes(kept, fresh) EXCEPT !.task = NoTask]
-----------------------------------------------------------------------------
(* Writing the document.                                                    *)

(* Every write moves the revision: what the drivers read is now old.        *)
Put(r) == run' = r /\ stale' = Drivers
PutTask(r, id, status) ==
  /\ Put(r)
  /\ tasks' = [t \in TaskIds |-> IF t = id THEN status ELSE tasks[t]]

(* A task of the run that still waits for a person.                         *)
Pending(id) == id \in TaskIds /\ tasks[id] = "pending"
PendingTasks == {id \in TaskIds : tasks[id] = "pending"}
(* insert_human_task: the id is the primary key.                            *)
Insertable(id) == tasks[id] = "none"

Goto(d, to) == pc' = [pc EXCEPT ![d] = to]
Return(d) ==
  /\ Goto(d, "idle")
  /\ view' = [view EXCEPT ![d] = NewRun]
  /\ todo' = [todo EXCEPT ![d] = {}]
  /\ results' = [results EXCEPT ![d] = NoWrites]
Look(d) == view' = [view EXCEPT ![d] = run] /\ stale' = stale \ {d}

(* spawn_flow_run: a new driver task, whether or not another one is alive: a *)
(* driver that has put the run to rest reads it once more before it returns, *)
(* and somebody may have resumed it by then.                                 *)
Spawn ==
  \E d \in Drivers :
    /\ pc[d] = "idle"
    /\ pc' = [pc EXCEPT ![d] = "read"]
    /\ overlapped' = (overlapped \/ \E e \in Drivers : pc[e] # "idle")
    /\ UNCHANGED <<view, todo, results>>
-----------------------------------------------------------------------------
(* drive_flow_run: one pass of the loop starts with reading the document.   *)

Answered(r) == {n \in r.cpNodes : r.writes[n].kind = "interrupt"
                                    /\ r.writes[n].cmd = r.writes[n].id}
(* Faulty variant: a run that was cancelled while it waited is driven on. *)
StopsNotCancelled(r) ==
  r.status \in {"succeeded", "failed", "waiting_approval", "waiting_human", "paused"}
Stops(r) == r.status \in Terminal \cup {"waiting_approval", "waiting_human", "paused"}
(* Requests that are settled before the budget is looked at.                *)
Settles(r) == \/ r.status = "cancel_requested"
              \/ r.status = "pause_requested" /\ r.cpNodes = {}
Exhausted(r) == r.executions >= MaxNodeExecutions

DriveReturn(d) ==
  /\ up /\ pc[d] = "read" /\ Stops(run)
  /\ Return(d)
  /\ UNCHANGED <<run, tasks, stale, interrupts, ran, overlapped, up>>

(* enforce_run_budget: executions, or the duration, which may run out       *)
(* whenever it is looked at.                                                *)
DriveOverBudget(d) ==
  /\ up /\ pc[d] = "read" /\ ~Stops(run) /\ ~Settles(run)
  /\ Goto(d, "error")
  /\ UNCHANGED <<run, tasks, view, stale, todo, results, interrupts, ran, overlapped, up>>

DriveInspect(d) ==
  /\ up /\ pc[d] = "read" /\ ~Stops(run)
  /\ Look(d)
  /\ IF Settles(run) THEN Goto(d, "write") /\ UNCHANGED todo
     ELSE /\ ~Exhausted(run)
          /\ IF run.cpNodes = {} THEN Goto(d, "write") /\ UNCHANGED todo
             ELSE IF run.status # "resuming"
             THEN /\ Goto(d, "exec")
                  /\ todo' = [todo EXCEPT ![d] =
                                {n \in run.cpNodes : run.writes[n] = NoWrite}]
             ELSE /\ Goto(d, IF Answered(run) = {} THEN "error" ELSE "resume")
                  /\ UNCHANGED todo
  /\ UNCHANGED <<run, tasks, results, interrupts, ran, overlapped, up>>

(* Between supersteps: settle a request, end the run, wait for an approval  *)
(* or begin the next superstep.                                             *)
Settled(r) ==
  IF r.status = "cancel_requested"
  THEN [CancelCheckpoint(r) EXCEPT !.status = "cancelled"]
  ELSE [r EXCEPT !.status = "paused"]
Ended(r) == [r EXCEPT !.status = IF r.ready = {} THEN "succeeded" ELSE "failed"]
PauseForApproval(r, n) ==
  LET started == StartNodes([r EXCEPT !.ready = @ \ {n}], {n})
  IN [started EXCEPT !.node[n] = "waiting_approval", !.waiting = n,
                     !.status = "waiting_approval",
                     !.task = <<"approval", n, started.attempt[n]>>]
BeginSuperstep(r, S) ==
  [StartNodes([r EXCEPT !.ready = @ \ S], S) EXCEPT
     !.status = "running", !.cpNodes = S, !.writes = NoWrites]

DriveWrite(d) ==
  LET r == view[d]
      S == ReadyNodes(r)
      approvals == {n \in S : Kind[n] = "approval"}
  IN /\ up /\ pc[d] = "write" /\ d \notin stale
     /\ IF Settles(r) THEN Put(Settled(r)) /\ UNCHANGED tasks /\ Return(d)
        ELSE IF S = {} THEN Put(Ended(r)) /\ UNCHANGED tasks /\ Return(d)
        ELSE IF approvals # {}
        THEN LET next == PauseForApproval(r, FirstOf(approvals))
             IN PutTask(next, next.task, "pending") /\ Return(d)
        ELSE IF r.executions + Cardinality(S) <= MaxNodeExecutions
        THEN /\ Put(BeginSuperstep(r, S)) /\ Goto(d, "read")
             /\ UNCHANGED <<tasks, view, todo, results>>
        ELSE Goto(d, "error") /\ UNCHANGED <<run, tasks, view, stale, todo, results>>
     /\ UNCHANGED <<interrupts, ran, overlapped, up>>

(* RunRevisionConflict in the loop or in the commit, which do not retry.    *)
DriveConflict(d) ==
  /\ up /\ pc[d] \in {"write", "commit"} /\ d \in stale
  /\ Goto(d, "error")
  /\ UNCHANGED <<run, tasks, view, stale, todo, results, interrupts, ran, overlapped, up>>
-----------------------------------------------------------------------------
(* Executing a superstep: parallel-safe nodes first and together, the other *)
(* ones one after the other, each write persisted before the next node.     *)

Outcomes(n) ==
  IF Kind[n] # "agent" THEN {Write("result", 0, 0)}
  ELSE {Write(k, 0, 0) : k \in {"result", "costly", "error"}}
         \cup (IF interrupts < MaxInterrupts
               THEN {Write("interrupt", interrupts + 1, 0)} ELSE {})
Raised(w) == interrupts' = IF w.kind = "interrupt" THEN w.id ELSE interrupts
Produced(d) == {n \in Nodes : results[d][n] # NoWrite}

ExecuteNode(d, n) ==
  /\ up /\ pc[d] = "exec" /\ n \in todo[d]
  /\ n \notin ParallelSafe => todo[d] \cap ParallelSafe = {} /\ Produced(d) = {}
  /\ \E w \in Outcomes(n) :
       results' = [results EXCEPT ![d][n] = w] /\ Raised(w)
  /\ todo' = [todo EXCEPT ![d] = @ \ {n}]
  /\ ran' = [ran EXCEPT ![n] = @ + 1]
  /\ UNCHANGED <<run, tasks, pc, view, stale, overlapped, up>>

(* The checkpoint a driver works on is still the active one.                *)
SameCheckpoint(d) == run.cpNodes # {} /\ run.superstep = view[d].superstep

(* persist_pending_write: reads again and retries on a conflict; the first  *)
(* write of a node stays.                                                   *)
PersistWrite(d, n) ==
  /\ up /\ pc[d] = "exec" /\ n \in Produced(d) /\ todo[d] \cap ParallelSafe = {}
  /\ results' = [results EXCEPT ![d][n] = NoWrite]
  /\ IF ~SameCheckpoint(d) THEN Goto(d, "error") /\ UNCHANGED <<run, stale>>
     ELSE /\ UNCHANGED pc
          /\ IF run.writes[n] # NoWrite THEN UNCHANGED <<run, stale>>
             ELSE Put([run EXCEPT !.writes[n] = results[d][n]])
  /\ UNCHANGED <<tasks, view, todo, interrupts, ran, overlapped, up>>

CommitRead(d) ==
  /\ up /\ pc[d] = "exec" /\ todo[d] = {} /\ Produced(d) = {}
  /\ IF SameCheckpoint(d) THEN Goto(d, "commit") /\ Look(d)
     ELSE Goto(d, "error") /\ UNCHANGED <<view, stale>>
  /\ UNCHANGED <<run, tasks, todo, results, interrupts, ran, overlapped, up>>

(* The continuation of an answered interrupt is resumed; an error of the    *)
(* resumption is an interrupt of its own (resume_retry).                    *)
ResumeNode(d) ==
  LET n == FirstOf(Answered(view[d]))
      cmd == view[d].writes[n].cmd
  IN /\ up /\ pc[d] = "resume"
     /\ \E w \in {o \in Outcomes(n) : o.kind # "error"} :
          results' = [results EXCEPT ![d][n] = [w EXCEPT !.cmd = cmd]] /\ Raised(w)
     /\ Goto(d, "replace")
     /\ UNCHANGED <<run, tasks, view, stale, todo, ran, overlapped, up>>

(* replace_pending_write: the run goes on whatever its status has become.   *)
ReplaceWrite(d) ==
  /\ up /\ pc[d] = "replace"
  /\ \E n \in Produced(d) :
       /\ results' = [results EXCEPT ![d][n] = NoWrite]
       /\ IF SameCheckpoint(d) /\ run.writes[n].cmd = results[d][n].cmd
          THEN /\ Put([run EXCEPT !.writes[n] = results[d][n], !.status = "running",
                                  !.task = NoTask])
               /\ Goto(d, "read")
          ELSE Goto(d, "error") /\ UNCHANGED <<run, stale>>
  /\ UNCHANGED <<tasks, view, todo, interrupts, ran, overlapped, up>>
-----------------------------------------------------------------------------
(* commit_active_checkpoint.                                                *)

Interrupted(r) == {n \in r.cpNodes : r.writes[n].kind = "interrupt"}
PauseForInterrupt(r, n) ==
  [r EXCEPT !.node[n] = "waiting_human", !.waiting = n, !.status = "waiting_human",
            !.task = <<"interrupt", r.writes[n].id, 0>>]

Succeeded(r) == {n \in r.cpNodes : Completed(r.writes[n])}
Unhandled(r) == \/ \E n \in r.cpNodes \ Succeeded(r) : ErrorRoute[n] = 0
                \/ \E n \in r.cpNodes : r.writes[n].kind = "costly"
Outputs(r) == {n \in Succeeded(r) : Kind[n] = "output"}
Routable(r) == IF Unhandled(r) THEN {} ELSE Succeeded(r) \ Outputs(r)

(* The document after the writes of its superstep, T the edges taken.       *)
(* Faulty variant: the committed superstep stays the active one. *)
CommitSuperstepKept(r, T) ==
  LET ok == Succeeded(r)
      routed == RouteAfter([r EXCEPT !.outputs = @ \cup ok], T)
  IN [routed EXCEPT !.status = "running"]
CommitSuperstep(r, T) ==
  LET ok == Succeeded(r)
      closed == [r EXCEPT
        !.node = [n \in Nodes |-> IF n \notin r.cpNodes THEN @[n]
                                  ELSE IF n \in ok THEN "succeeded" ELSE "failed"],
        !.superstep = @ + 1, !.cpNodes = {}, !.writes = NoWrites]
      routed == RouteAfter([closed EXCEPT
                  !.outputs = @ \cup ok,
                  !.ready = @ \cup {ErrorRoute[n] : n \in r.cpNodes \ ok}], T)
  IN IF Unhandled(r) THEN [closed EXCEPT !.status = "failed"]
     ELSE IF Outputs(r) # {} /\ ReviewRequired
     THEN [routed EXCEPT !.status = "waiting_human",
                         !.task = <<"review", routed.superstep, 0>>]
     ELSE [routed EXCEPT !.status =
             IF Outputs(r) # {} THEN "succeeded"
             ELSE IF @ = "pause_requested" THEN "paused" ELSE "running"]

Commit(d) ==
  LET r == view[d]
      blocked == Interrupted(r)
      Raise == Goto(d, "error") /\ UNCHANGED <<run, tasks, stale>>
      Store(next) == Put(next) /\ UNCHANGED tasks /\ Goto(d, "read")
      StoreWaiting(next) ==
        IF Insertable(next.task)
        THEN PutTask(next, next.task, "pending") /\ Goto(d, "read")
        ELSE Raise
  IN /\ up /\ pc[d] = "commit" /\ d \notin stale
     /\ IF r.status = "cancel_requested"
        THEN Store([CancelCheckpoint(r) EXCEPT !.status = "cancelled"])
        ELSE IF \E n \in r.cpNodes : r.writes[n] = NoWrite THEN Raise
        ELSE IF blocked # {}
        THEN StoreWaiting(PauseForInterrupt(r, FirstOf(blocked)))
        ELSE \E T \in MatchingEdges(Routable(r)) :
               IF LoopFails(r, T) THEN Raise
               ELSE LET next == CommitSuperstep(r, T)
                    IN IF next.status = "waiting_human" THEN StoreWaiting(next)
                       ELSE Store(next)
     /\ UNCHANGED <<view, todo, results, interrupts, ran, overlapped, up>>

(* The driver failed: the run is read again and failed unless it has ended; *)
(* a conflict of that write is ignored.                                     *)
DriveError(d) ==
  /\ up /\ pc[d] = "error"
  /\ IF run.status \in Terminal THEN Return(d) /\ UNCHANGED stale
     ELSE Goto(d, "fail") /\ Look(d) /\ UNCHANGED <<todo, results>>
  /\ UNCHANGED <<run, tasks, interrupts, ran, overlapped, up>>

DriveFail(d) ==
  /\ up /\ pc[d] = "fail"
  /\ IF d \in stale THEN UNCHANGED <<run, stale>>
     ELSE Put([view[d] EXCEPT !.status = "failed"])
  /\ Return(d)
  /\ UNCHANGED <<tasks, interrupts, ran, overlapped, up>>
-----------------------------------------------------------------------------
(* What operators ask for.  Each handler reads the document, computes the    *)
(* next one and writes both it and the task, if there is one, in one         *)
(* transaction.                                                              *)

PauseRun ==
  /\ up /\ run.status \in {"queued", "running", "resuming"}
  /\ Put([run EXCEPT !.status = "pause_requested"])
  /\ UNCHANGED <<tasks, pc, view, todo, results, interrupts, ran, overlapped, up>>

(* Closes the pending task of the run, if it has one.                        *)
CloseTask(status) ==
  tasks' = [t \in TaskIds |-> IF tasks[t] = "pending" THEN status ELSE tasks[t]]

(* POST resume of a paused run; a superstep that was under way is retried    *)
(* only on the explicit word of the operator.                                *)
ResumeRun ==
  /\ up /\ run.status = "paused" /\ MayRetry(run)
  /\ Put([PrepareFlowResume(run) EXCEPT !.status = "running"])
  /\ CloseTask("completed")
  /\ Spawn
  /\ UNCHANGED <<interrupts, ran, up>>

(* Cancel over HTTP ends a run that rests; the flow_cancel tool takes a run  *)
(* that waits for a person for one that is being driven.                     *)
(* Faulty variant: the task of the cancelled run stays open. *)
CancelRunOnly ==
  /\ up /\ run.status \notin Terminal
  /\ Put([run EXCEPT !.status = "cancel_requested", !.task = NoTask])
  /\ UNCHANGED <<tasks, pc, view, todo, results, interrupts, ran, overlapped, up>>
CancelRun ==
  /\ up /\ run.status \notin Terminal
  /\ \E resting \in {{"paused", "waiting_approval", "waiting_human"},
                     {"paused", "waiting_approval"}} :
       Put([run EXCEPT !.status = IF @ \in resting THEN "cancelled" ELSE "cancel_requested",
                       !.task = NoTask])
  /\ CloseTask("cancelled")
  /\ UNCHANGED <<pc, view, todo, results, interrupts, ran, overlapped, up>>

(* resolve_flow_approval, from the task or from the run.                     *)
Approve ==
  LET n == run.waiting
      granted == [run EXCEPT !.node[n] = "succeeded", !.outputs = @ \cup {n},
                             !.status = "running", !.waiting = 0, !.task = NoTask]
  IN /\ up /\ run.status = "waiting_approval"
     /\ \E T \in MatchingEdges({n}) :
          /\ ~LoopFails(run, T)
          /\ PutTask(RouteAfter(granted, T), run.task, "completed")
          /\ IF SpentLoops(run, T) = {} THEN Spawn
             ELSE UNCHANGED <<pc, view, todo, results, overlapped>>
     /\ UNCHANGED <<interrupts, ran, up>>
Reject ==
  /\ up /\ run.status = "waiting_approval"
  /\ PutTask([run EXCEPT !.node[run.waiting] = "cancelled", !.status = "cancelled",
                         !.waiting = 0, !.task = NoTask], run.task, "completed")
  /\ UNCHANGED <<pc, view, todo, results, interrupts, ran, overlapped, up>>

(* prepare_flow_interrupt_resume: the answer is stored with the interrupt.   *)
AnswerInterrupt ==
  /\ up /\ run.status = "waiting_human" /\ Pending(run.task)
  /\ \E n \in run.cpNodes :
       /\ run.writes[n].kind = "interrupt"
       /\ run.task = <<"interrupt", run.writes[n].id, 0>>
       /\ PutTask([run EXCEPT !.writes[n].cmd = run.writes[n].id, !.node[n] = "resuming",
                              !.status = "resuming", !.waiting = 0, !.task = NoTask],
                  run.task, "completed")
  /\ Spawn
  /\ UNCHANGED <<interrupts, ran, up>>

(* The person cancels the task instead: the run ends with it.                *)
CancelTask ==
  /\ up /\ Pending(run.task) /\ run.task[1] \in {"interrupt", "recovery"}
  /\ PutTask([run EXCEPT !.status = "cancelled", !.task = NoTask], run.task, "cancelled")
  /\ UNCHANGED <<pc, view, todo, results, interrupts, ran, overlapped, up>>

(* Retry of a recovery task: an answered interrupt is resumed, anything else *)
(* gets fresh attempts.                                                      *)
RetryRecovery ==
  /\ up /\ Pending(run.task) /\ run.task[1] = "recovery"
  /\ IF Answered(run) # {}
     THEN PutTask([run EXCEPT !.status = "resuming", !.task = NoTask],
                  run.task, "completed")
     ELSE /\ MayRetry(run)
          /\ PutTask([PrepareFlowResume(run) EXCEPT !.status = "running"],
                     run.task, "completed")
  /\ Spawn
  /\ UNCHANGED <<interrupts, ran, up>>

ReviewOutput ==
  /\ up /\ Pending(run.task) /\ run.task[1] = "review"
  /\ \E verdict \in {"succeeded", "cancelled"} :
       PutTask([run EXCEPT !.status = verdict, !.task = NoTask], run.task, "completed")
  /\ UNCHANGED <<pc, view, todo, results, interrupts, ran, overlapped, up>>
-----------------------------------------------------------------------------
(* The process stops and the store is opened again                           *)
(* (recover_interrupted_runtime_state): a run that was under way is paused,  *)
(* with a task for the node that was executing.  Inserting a task twice      *)
(* fails, and the store is then not opened.                                  *)

Interruptible == {"queued", "running", "pause_requested"}
Cut(r) == {n \in Nodes : r.node[n] \in {"running", "resuming"}}
(* The node run recorded last among those that were cut off.                 *)
LastCut(r) == IF Cut(r) \cap r.batch # {} THEN LargestOf(Cut(r) \cap r.batch)
              ELSE LargestOf(Cut(r))

Restart ==
  /\ up
  /\ pc' = [d \in Drivers |-> "idle"]
  /\ view' = [d \in Drivers |-> NewRun]
  /\ todo' = [d \in Drivers |-> {}]
  /\ results' = [d \in Drivers |-> NoWrites]
  /\ IF run.status \notin Interruptible THEN UNCHANGED <<run, tasks, stale, overlapped, up>>
     ELSE IF Cut(run) = {}
     THEN Put([run EXCEPT !.status = "paused"]) /\ UNCHANGED <<tasks, overlapped, up>>
     ELSE LET n == LastCut(run)
              id == <<"recovery", n, run.attempt[n]>>
          IN IF Insertable(id)
             THEN /\ PutTask([run EXCEPT !.status = "paused", !.task = id], id, "pending")
                  /\ UNCHANGED up
             ELSE /\ Put([run EXCEPT !.status = "paused"])
                  /\ up' = FALSE /\ UNCHANGED tasks
  /\ UNCHANGED <<interrupts, ran, overlapped>>
-----------------------------------------------------------------------------
Init ==
  /\ run = NewRun
  /\ tasks = [t \in TaskIds |-> "none"]
  /\ \E d \in Drivers : pc = [e \in Drivers |-> IF e = d THEN "read" ELSE "idle"]
  /\ view = [d \in Drivers |-> NewRun]
  /\ stale = Drivers
  /\ todo = [d \in Drivers |-> {}]
  /\ results = [d \in Drivers |-> NoWrites]
  /\ interrupts = 0
  /\ ran = [n \in Nodes |-> 0]
  /\ overlapped = FALSE
  /\ up = TRUE

Drive(d) ==
  \/ DriveReturn(d) \/ DriveOverBudget(d) \/ DriveInspect(d)
  \/ DriveWrite(d) \/ DriveConflict(d)
  \/ \E n \in Nodes : ExecuteNode(d, n) \/ PersistWrite(d, n)
  \/ CommitRead(d) \/ Commit(d) \/ ResumeNode(d) \/ ReplaceWrite(d)
  \/ DriveError(d) \/ DriveFail(d)

Operate ==
  \/ PauseRun \/ ResumeRun \/ CancelRun \/ Approve \/ Reject
  \/ AnswerInterrupt \/ CancelTask \/ RetryRecovery \/ ReviewOutput

Next == (\E d \in Drivers : Drive(d)) \/ Operate \/ Restart

Spec == Init /\ [][Next]_vars
(* A spawned task is polled until it returns. *)
FairSpec == Spec /\ \A d \in Drivers : WF_vars(Drive(d))
-----------------------------------------------------------------------------
(* The stored run, the copies the drivers hold and the writes they carry are *)
(* documents a FlowRunV1 can be; counters stay within their budgets.         *)
TypeOK ==
  /\ run \in Runs
  /\ tasks \in [TaskIds -> {"none", "pending", "completed", "cancelled"}]
  /\ pc \in [Drivers -> Pcs]
  /\ view \in [Drivers -> Runs]
  /\ stale \subseteq Drivers
  /\ todo \in [Drivers -> SUBSET Nodes]
  /\ results \in [Drivers -> [Nodes -> Writes]]
  /\ interrupts \in 0..MaxInterrupts
  /\ ran \in [Nodes -> Nat]
  /\ overlapped \in BOOLEAN
  /\ up \in BOOLEAN

(* A run that waits for a person has a task that the person can still       *)
(* answer, and an interrupt that waits is still unanswered in the           *)
(* checkpoint: nobody can be left waiting for a decision that has no door.  *)
WaitingHasTask ==
  run.status \in {"waiting_approval", "waiting_human"} =>
    /\ Pending(run.task)
    /\ run.status = "waiting_approval" => run.task[1] = "approval" /\ run.waiting # 0
    /\ run.task[1] = "interrupt" =>
         \E n \in run.cpNodes : /\ run.writes[n].kind = "interrupt"
                                /\ run.writes[n].id = run.task[2]

(* No task outlives the wait it was made for: a pending task is the one its  *)
(* run is waiting on, so an answer can never reach a run that has moved on.  *)
(* Two drivers that resume the same interrupt do leave such a task behind.   *)
PendingTaskIsAwaited ==
  overlapped \/ \A id \in PendingTasks : run.task = id /\ run.status \notin Terminal

(* However often supersteps are interrupted and retried, no more node runs   *)
(* are started than the run's budget allows.                                 *)
WithinExecutionBudget == run.executions <= MaxNodeExecutions

(* An attempt of a node is executed once: whatever the process died in the   *)
(* middle of is executed again only as a fresh attempt, which an operator    *)
(* asked for. Two drivers at once do execute the same attempt.               *)
AttemptRunsOnce == overlapped \/ \A n \in Nodes : ran[n] <= run.attempt[n]

(* Tasks and waits belong together, both ways: whoever waits can be answered *)
(* and whatever can be answered is waited for, through pauses, cancels and   *)
(* restarts (resolve_human_task, cancel_flow_run); the first even when two   *)
(* drivers overlap.                                                          *)
TasksMatchWaits == WaitingHasTask /\ PendingTaskIsAwaited

(* The account of executions is right (prepare_flow_resume, begin_superstep): *)
(* the document has its type, no budget is overdrawn, however many drivers   *)
(* there are, and a driver that is alone executes no attempt twice.          *)
ExecutionsAccounted == TypeOK /\ WithinExecutionBudget /\ AttemptRunsOnce

(* A run that has ended stays as it ended: neither a late write of its       *)
(* driver, a late request nor a restart brings it back, as long as it never  *)
(* had two drivers at once.                                                  *)
TerminalIsFinal ==
  [][run.status \in Terminal /\ ~overlapped => run'.status = run.status]_run

(* docs/enterprise-agent-platform-design-zh-cn.md:800: after a restart of    *)
(* the process a run is recovered from its last consistent checkpoint. It is *)
(* not when recover_interrupted_runtime_state returns an error: opening the  *)
(* store fails and the server does not come up.                              *)
RestartSucceeds == up

(* Every driver comes to its end: budgets bound the supersteps of a run and  *)
(* every wait for a person returns.                                          *)
DriverReturns == \A d \in Drivers : pc[d] # "idle" ~> pc[d] = "idle"
=============================================================================
