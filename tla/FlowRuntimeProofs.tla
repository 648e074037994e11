------------------------- MODULE FlowRuntimeProofs -------------------------
(* What the flow runtime promises of a run, for every graph, every budget    *)
(* and any number of driver tasks alive at once: who waits can be answered,  *)
(* no budget is overdrawn; and, until two drivers overlap, no task outlives  *)
(* its wait, no attempt is executed twice and a run that ended stays ended.  *)
EXTENDS FlowRuntime, FiniteSetTheorems, WellFoundedInduction, TLAPS

-----------------------------------------------------------------------------
(* The inductive invariant                                                   *)

Waits == {"waiting_approval", "waiting_human"}
Resting == Waits \cup {"paused"}
Active == Statuses \ (Terminal \cup Resting)

(* An interrupt has a number: its task has a name.                           *)
WriteOK(w) == w \in Writes /\ (w.kind = "interrupt" => w.id > 0)

(* What holds of every document that was ever stored. Attempts and           *)
(* supersteps are paid for with executions, which is what bounds the names   *)
(* of the tasks; whatever has a status has had an attempt.                   *)
RunOK(r) ==
  /\ r \in Runs
  /\ r.executions <= MaxNodeExecutions
  /\ \A n \in Nodes : r.attempt[n] <= r.executions
  /\ r.superstep <= r.executions
  /\ r.cpNodes # {} => r.superstep < r.executions
  /\ \A n \in Nodes : (n \in r.cpNodes \/ r.node[n] # "none" \/ n = r.waiting) => r.attempt[n] > 0
  /\ \A n \in Nodes : WriteOK(r.writes[n])

TypePart ==
  /\ RunOK(run)
  /\ tasks \in [TaskIds -> {"none", "pending", "completed", "cancelled"}]
  /\ pc \in [Drivers -> Pcs]
  /\ view \in [Drivers -> Runs]
  /\ \A d \in Drivers : RunOK(view[d])
  /\ stale \subseteq Drivers
  /\ todo \in [Drivers -> SUBSET Nodes]
  /\ results \in [Drivers -> [Nodes -> Writes]]
  /\ \A d \in Drivers : \A n \in Nodes : WriteOK(results[d][n])
  /\ interrupts \in 0..MaxInterrupts
  /\ ran \in [Nodes -> Nat]
  /\ overlapped \in BOOLEAN
  /\ up \in BOOLEAN

(* What a driver knows of the document it has read. A driver whose revision  *)
(* is current holds the stored document.                                     *)
KnowsRun(d) ==
  /\ pc[d] \in {"write", "commit", "fail"} /\ d \notin stale => view[d] = run
  /\ pc[d] = "write" => ~Stops(view[d])
                        /\ (Settles(view[d]) \/ (view[d].cpNodes = {} /\ ~Exhausted(view[d])))
  /\ pc[d] = "commit" => view[d].cpNodes # {}
  /\ pc[d] = "resume" => Answered(view[d]) # {}
  /\ pc[d] = "fail" => view[d].status \notin Terminal

(* The results a driver carries: none between supersteps, one that answers a *)
(* command after a resumption, plain ones during a superstep.                *)
CarriesResults(d) ==
  /\ pc[d] \in {"idle", "read", "write", "commit", "resume"} => results[d] = NoWrites
  /\ pc[d] = "replace" => \A m, n \in Produced(d) : m = n
  /\ pc[d] = "exec" => \A n \in Nodes : results[d][n].cmd = 0

DriverPart == \A d \in Drivers : KnowsRun(d) /\ CarriesResults(d)

Written(r) == \A n \in r.cpNodes : r.writes[n] # NoWrite
(* The nodes of the superstep that have no write have an attempt to execute. *)
FreshRun(r) == \A n \in r.cpNodes : r.writes[n] = NoWrite => ran[n] < r.attempt[n]

(* As long as drivers have not overlapped there is one at most. Past its     *)
(* reading of the document the run is under way, whatever it executes has an *)
(* attempt of its own, and what it no longer has to execute it carries.      *)
OneDriver == \A d, e \in Drivers : pc[d] # "idle" /\ pc[e] # "idle" => d = e
AloneDriver(d) ==
  /\ pc[d] \notin {"idle", "read"} => run.status \in Active
  /\ pc[d] = "read" /\ run.status \in Active => FreshRun(run)
  /\ pc[d] \in {"resume", "replace"} => Written(run)
  /\ pc[d] = "exec" => \A n \in todo[d] : ran[n] < run.attempt[n]
  /\ pc[d] = "exec" =>
       \A n \in run.cpNodes : run.writes[n] = NoWrite => n \in todo[d] \cup Produced(d)

(* A pending task is that of a run at rest, and a superstep that waits for   *)
(* somebody, or was answered, has all its writes: a resumption executes      *)
(* nothing but the answered node.                                            *)
PendingRests == \A id \in PendingTasks : run.task = id /\ run.status \in Resting
WaitsWritten == run.status \in Waits => Written(run)
AnsweredWritten == Answered(run) # {} => Written(run)
RanOnce == \A n \in Nodes : ran[n] <= run.attempt[n]
AloneRun == PendingRests /\ WaitsWritten /\ AnsweredWritten /\ RanOnce

AlonePart == OneDriver /\ AloneRun /\ \A d \in Drivers : AloneDriver(d)

FlowInv == TypePart /\ DriverPart /\ WaitingHasTask /\ (overlapped \/ AlonePart)


-----------------------------------------------------------------------------
(* Nodes are finitely many numbers.                                          *)

LEMMA NodeSets ==
  ASSUME NEW S \in SUBSET Nodes
  PROVE  /\ IsFiniteSet(S) /\ Cardinality(S) \in Nat
         /\ S # {} => Cardinality(S) >= 1
<1>1. PICK last \in Nodes : Nodes \subseteq 1..last
  BY FlowAssumption
<1>2. last \in Nat
  BY <1>1
<1>3. IsFiniteSet(1..last)
  BY <1>2, FS_Interval
<1>4. IsFiniteSet(S)
  BY <1>1, <1>3, FS_Subset
<1>5. Cardinality(S) \in Nat /\ (Cardinality(S) = 0 <=> S = {})
  BY <1>4, FS_CardinalityType, FS_EmptySet
<1> QED
  BY <1>4, <1>5

LEMMA LeastNumber ==
  ASSUME NEW S \in SUBSET Nat, S # {}
  PROVE  \E n \in S : \A m \in S : n <= m
<1> DEFINE Less == {ss \in Nat \X Nat : ss[1] < ss[2]}
<1>1. IsWellFoundedOn(Less, Nat)
  BY NatLessThanWellFounded, Zenon DEF OpToRel
<1>2. \A m, n \in Nat : m < n => <<m, n>> \in Less
  OBVIOUS
<1> HIDE DEF Less
<1>3. PICK n \in S : \A m \in S : ~(<<m, n>> \in Less)
  BY <1>1, WFMin
<1>4. \A m \in S : ~(m < n)
  BY <1>2, <1>3
<1> QED
  BY <1>4

LEMMA FirstOfNodes ==
  ASSUME NEW S \in SUBSET Nodes, S # {}
  PROVE  FirstOf(S) \in S
<1>1. \A n \in Nodes : n \in Nat
  BY FlowAssumption
<1>2. \E n \in S : \A m \in S : n <= m
  BY <1>1, LeastNumber
<1> QED
  BY <1>2 DEF FirstOf

LEMMA LargestOfNodes ==
  ASSUME NEW S \in SUBSET Nodes, S # {}
  PROVE  LargestOf(S) \in S
<1>1. PICK last \in Nodes : Nodes \subseteq 1..last
  BY FlowAssumption
<1>2. last \in Nat /\ \A n \in S : n \in Nat /\ n <= last /\ last - n \in Nat
  BY <1>1
<1> DEFINE Mirror == {last - n : n \in S}
<1>3. Mirror \in SUBSET Nat /\ Mirror # {}
  BY <1>2
<1>4. \E k \in Mirror : \A j \in Mirror : k <= j
  <2> HIDE DEF Mirror
  <2> QED
    BY <1>3, LeastNumber
<1>5. PICK n \in S : \A m \in S : last - n <= last - m
  BY <1>4
<1>6. \A m \in S : m <= n
  BY <1>2, <1>5
<1> QED
  BY <1>6 DEF LargestOf

-----------------------------------------------------------------------------
(* Documents: what each graph operation leaves of one.                       *)

LEMMA NoWriteOK == NoWrite \in Writes /\ WriteOK(NoWrite) /\ NoWrites \in [Nodes -> Writes]
                   /\ \A n \in Nodes : NoWrites[n] = NoWrite
BY FlowAssumption DEF NoWrite, NoWrites, Write, Writes, WriteOK

LEMMA NewRunOK == RunOK(NewRun)
<1>1. NewRun \in Runs
  BY FlowAssumption, NoWriteOK DEF NewRun, Runs, Statuses, NodeStatuses, NoTask
<1> QED
  BY <1>1, NoWriteOK, FlowAssumption DEF RunOK, NewRun

(* Every field of a document, by name.                                       *)
LEMMA RunFields ==
  ASSUME NEW r \in Runs
  PROVE  /\ r.status \in Statuses /\ r.ready \in SUBSET Nodes /\ r.outputs \in SUBSET Nodes
         /\ r.loops \in [DOMAIN Edges -> Nat] /\ r.executions \in Nat /\ r.superstep \in Nat
         /\ r.cpNodes \in SUBSET Nodes /\ r.writes \in [Nodes -> Writes]
         /\ r.batch \in SUBSET Nodes /\ r.node \in [Nodes -> NodeStatuses]
         /\ r.attempt \in [Nodes -> Nat] /\ r.waiting \in Nodes \cup {0}
         /\ r.task \in TaskIds \cup {NoTask}
BY DEF Runs

LEMMA StartNodesFields ==
  ASSUME NEW r \in Runs, NEW S \in SUBSET Nodes, NEW q, q = StartNodes(r, S)
  PROVE  /\ q \in Runs
         /\ q.executions = r.executions + Cardinality(S)
         /\ \A n \in Nodes : q.attempt[n] = IF n \in S THEN r.attempt[n] + 1 ELSE r.attempt[n]
         /\ \A n \in Nodes : q.node[n] = IF n \in S THEN "running" ELSE r.node[n]
         /\ q.superstep = r.superstep /\ q.cpNodes = r.cpNodes /\ q.writes = r.writes
         /\ q.status = r.status /\ q.waiting = r.waiting /\ q.task = r.task
         /\ q.ready = r.ready /\ q.outputs = r.outputs
<1>1. Cardinality(S) \in Nat
  BY NodeSets
<1> DEFINE C == Cardinality(S)
           nd == [n \in Nodes |-> IF n \in S THEN "running" ELSE r.node[n]]
           at == [n \in Nodes |-> IF n \in S THEN r.attempt[n] + 1 ELSE r.attempt[n]]
           ex == r.executions + C
           bt == IF S = {} THEN r.batch ELSE S
<1>2. q = [r EXCEPT !.node = nd, !.attempt = at, !.executions = ex, !.batch = bt]
  BY DEF StartNodes
<1>3. nd \in [Nodes -> NodeStatuses] /\ at \in [Nodes -> Nat] /\ ex \in Nat /\ bt \in SUBSET Nodes
  BY <1>1, RunFields DEF NodeStatuses, OpenNode
<1>4. \A n \in Nodes : nd[n] = (IF n \in S THEN "running" ELSE r.node[n])
                        /\ at[n] = (IF n \in S THEN r.attempt[n] + 1 ELSE r.attempt[n])
  OBVIOUS
<1> HIDE DEF nd, at, bt
<1> QED
  BY <1>2, <1>3, <1>4, ZenonT(60) DEF Runs

(* A document with the same work on it is as good.                           *)
SameWork(q, r) ==
  /\ q.executions = r.executions /\ q.attempt = r.attempt /\ q.superstep = r.superstep
  /\ q.cpNodes = r.cpNodes /\ q.node = r.node /\ q.writes = r.writes

LEMMA SameWorkOK ==
  ASSUME NEW r, RunOK(r), NEW q \in Runs, SameWork(q, r), q.waiting \in {r.waiting, 0}
  PROVE  RunOK(q)
<1>1. \A n \in Nodes : n # 0
  BY FlowAssumption
<1> QED
  BY <1>1 DEF RunOK, SameWork

(* Only the status of the document is written, or its status and its task.   *)
LEMMA StatusOK ==
  ASSUME NEW r, RunOK(r), NEW s \in Statuses, NEW q, q = [r EXCEPT !.status = s]
  PROVE  RunOK(q) /\ q.status = s /\ q.task = r.task /\ SameWork(q, r) /\ q.waiting = r.waiting
<1>1. r \in Runs
  BY DEF RunOK
<1>2. q \in Runs /\ q.status = s /\ q.task = r.task /\ SameWork(q, r) /\ q.waiting = r.waiting
  BY <1>1 DEF Runs, SameWork
<1> QED
  BY <1>2, SameWorkOK

Restated(q, r, s, t) == q = [r EXCEPT !.status = s, !.task = t]

LEMMA RestatedOK ==
  ASSUME NEW r, RunOK(r), NEW s \in Statuses, NEW t, t \in TaskIds \cup {NoTask}, NEW q,
         Restated(q, r, s, t)
  PROVE  RunOK(q) /\ q.status = s /\ q.task = t /\ SameWork(q, r) /\ q.waiting = r.waiting
<1>1. r \in Runs
  BY DEF RunOK
<1>2. q \in Runs /\ q.status = s /\ q.task = t /\ SameWork(q, r) /\ q.waiting = r.waiting
  BY <1>1 DEF Runs, SameWork, Restated
<1> QED
  BY <1>2, SameWorkOK

LEMMA CancelCheckpointOK ==
  ASSUME NEW r, RunOK(r), NEW q, q = [CancelCheckpoint(r) EXCEPT !.status = "cancelled"]
  PROVE  RunOK(q) /\ q.status = "cancelled" /\ q.task = r.task /\ q.cpNodes = {}
         /\ q.attempt = r.attempt
<1> DEFINE nd == [n \in Nodes |->
                    IF n \in r.cpNodes /\ r.node[n] \in OpenNode THEN "cancelled" ELSE r.node[n]]
<1>1. r \in Runs
  BY DEF RunOK
<1>2. nd \in [Nodes -> NodeStatuses] /\ \A n \in Nodes : nd[n] # "none" => r.attempt[n] > 0
  <2>1. \A n \in Nodes : r.node[n] \in NodeStatuses
    BY <1>1, RunFields
  <2>2. \A n \in Nodes : n \in r.cpNodes \/ r.node[n] # "none" => r.attempt[n] > 0
    BY DEF RunOK
  <2> QED
    BY <2>1, <2>2 DEF NodeStatuses
<1>3. q = [[r EXCEPT !.node = nd, !.cpNodes = {}, !.writes = NoWrites] EXCEPT !.status = "cancelled"]
  BY DEF CancelCheckpoint
<1> HIDE DEF nd
<1>4. /\ q \in Runs /\ q.status = "cancelled" /\ q.task = r.task /\ q.cpNodes = {}
      /\ q.attempt = r.attempt /\ q.executions = r.executions /\ q.superstep = r.superstep
      /\ q.waiting = r.waiting /\ q.node = nd /\ q.writes = NoWrites
  <2>1. NoWrites \in [Nodes -> Writes] /\ "cancelled" \in Statuses
    BY NoWriteOK DEF Statuses, Terminal
  <2> DEFINE p == [r EXCEPT !.node = nd, !.cpNodes = {}, !.writes = NoWrites]
  <2>2. /\ p \in Runs /\ p.task = r.task /\ p.cpNodes = {} /\ p.attempt = r.attempt
        /\ p.executions = r.executions /\ p.superstep = r.superstep
        /\ p.waiting = r.waiting /\ p.node = nd /\ p.writes = NoWrites
    BY <1>1, <1>2, <2>1 DEF Runs
  <2>3. q = [p EXCEPT !.status = "cancelled"]
    BY <1>3
  <2> HIDE DEF p
  <2> QED
    BY <2>1, <2>2, <2>3 DEF Runs
<1> QED
  BY <1>2, <1>4, NoWriteOK DEF RunOK

(* prepare_flow_resume: every unfinished node has a fresh attempt.           *)
Retried(q, r) ==
  \A n \in r.cpNodes :
    \/ Completed(r.writes[n]) /\ q.writes[n] = r.writes[n] /\ q.attempt[n] = r.attempt[n]
    \/ q.writes[n] = NoWrite /\ q.attempt[n] = r.attempt[n] + 1

LEMMA PrepareFlowResumeOK ==
  ASSUME NEW r, RunOK(r), MayRetry(r), NEW q,
         q = [PrepareFlowResume(r) EXCEPT !.status = "running"]
  PROVE  /\ RunOK(q) /\ q.status = "running" /\ q.task = NoTask /\ q.cpNodes = r.cpNodes
         /\ Retried(q, r)
         /\ \A n \in Nodes : q.attempt[n] >= r.attempt[n]
<1> DEFINE fresh == Unfinished(r)
           ws == [n \in Nodes |-> IF n \in fresh THEN NoWrite ELSE r.writes[n]]
           kept == [r EXCEPT !.writes = ws]
           started == StartNodes(kept, fresh)
           C == Cardinality(fresh)
<1>1. r \in Runs /\ r.executions \in Nat /\ r.superstep \in Nat /\ r.attempt \in [Nodes -> Nat]
  BY RunFields DEF RunOK
<1>2. fresh \in SUBSET Nodes /\ fresh \subseteq r.cpNodes
      /\ \A n \in r.cpNodes \ fresh : Completed(r.writes[n])
  BY <1>1, RunFields DEF Unfinished
<1>3. C \in Nat /\ r.executions + C <= MaxNodeExecutions /\ (fresh # {} => C >= 1)
  BY <1>2, NodeSets DEF MayRetry
<1>4. ws \in [Nodes -> Writes] /\ (\A n \in Nodes : WriteOK(ws[n]))
      /\ \A n \in Nodes : ws[n] = IF n \in fresh THEN NoWrite ELSE r.writes[n]
  BY <1>1, NoWriteOK DEF RunOK, Runs
<1>5. kept \in Runs
      /\ kept.executions = r.executions /\ kept.attempt = r.attempt /\ kept.node = r.node
      /\ kept.cpNodes = r.cpNodes /\ kept.superstep = r.superstep /\ kept.waiting = r.waiting
      /\ kept.writes = ws
  <2> HIDE DEF ws
  <2> QED
    BY <1>1, <1>4 DEF Runs
<1>6. q = [[started EXCEPT !.task = NoTask] EXCEPT !.status = "running"]
  BY DEF PrepareFlowResume
<1> HIDE DEF fresh, ws, kept, C
<1>7. /\ started \in Runs /\ started.executions = r.executions + C
      /\ \A n \in Nodes : started.attempt[n] = IF n \in fresh THEN r.attempt[n] + 1 ELSE r.attempt[n]
      /\ \A n \in Nodes : started.node[n] = IF n \in fresh THEN "running" ELSE r.node[n]
      /\ started.superstep = r.superstep /\ started.cpNodes = r.cpNodes /\ started.writes = ws
      /\ started.waiting = r.waiting
  BY <1>2, <1>5, StartNodesFields DEF C
<1> HIDE DEF started
<1>8. /\ q \in Runs /\ q.status = "running" /\ q.task = NoTask
      /\ q.executions = r.executions + C /\ q.attempt = started.attempt /\ q.node = started.node
      /\ q.superstep = r.superstep /\ q.cpNodes = r.cpNodes /\ q.writes = ws
      /\ q.waiting = r.waiting
  BY <1>6, <1>7 DEF Runs, Statuses
<1>9. \A n \in Nodes : q.attempt[n] \in Nat /\ q.attempt[n] >= r.attempt[n] /\ q.attempt[n] <= q.executions
  <2>1. \A n \in Nodes : r.attempt[n] <= r.executions
    BY DEF RunOK
  <2> QED
    BY <2>1, <1>1, <1>3, <1>7, <1>8
<1>10. \A n \in Nodes : (n \in q.cpNodes \/ q.node[n] # "none" \/ n = q.waiting) => q.attempt[n] > 0
  <2>1. \A n \in Nodes : (n \in r.cpNodes \/ r.node[n] # "none" \/ n = r.waiting) => r.attempt[n] > 0
    BY DEF RunOK
  <2> QED
    BY <2>1, <1>1, <1>7, <1>8
<1>11. q.superstep <= q.executions /\ (q.cpNodes # {} => q.superstep < q.executions)
  BY <1>1, <1>3, <1>8 DEF RunOK
<1>12. RunOK(q)
  BY <1>3, <1>4, <1>8, <1>9, <1>10, <1>11 DEF RunOK
<1>13. Retried(q, r)
  BY <1>1, <1>2, <1>4, <1>7, <1>8, RunFields DEF Retried
<1> QED
  BY <1>8, <1>9, <1>12, <1>13

LEMMA PauseForApprovalOK ==
  ASSUME NEW r, RunOK(r), r.cpNodes = {}, r.executions < MaxNodeExecutions, NEW n \in Nodes, NEW q,
         q = PauseForApproval(r, n)
  PROVE  /\ RunOK(q) /\ q.status = "waiting_approval" /\ q.waiting = n /\ q.cpNodes = {}
         /\ q.task \in TaskIds /\ q.task[1] = "approval"
         /\ \A m \in Nodes : q.attempt[m] >= r.attempt[m]
<1> DEFINE base == [r EXCEPT !.ready = @ \ {n}]
           started == StartNodes(base, {n})
           id == <<"approval", n, started.attempt[n]>>
           nd == [started.node EXCEPT ![n] = "waiting_approval"]
<1>1. r \in Runs /\ r.executions \in Nat /\ r.superstep \in Nat /\ r.attempt \in [Nodes -> Nat]
      /\ r.node \in [Nodes -> NodeStatuses] /\ MaxNodeExecutions \in Nat
  BY RunFields, FlowAssumption DEF RunOK
<1>2. base \in Runs /\ SameWork(base, r) /\ base.waiting = r.waiting
  BY <1>1 DEF Runs, SameWork
<1>3. Cardinality({n}) = 1
  BY FS_Singleton
<1>4. q = [started EXCEPT !.node[n] = "waiting_approval", !.waiting = n,
                         !.status = "waiting_approval", !.task = id]
  BY DEF PauseForApproval
<1> HIDE DEF base
<1>5. /\ started \in Runs /\ started.executions = r.executions + 1
      /\ \A m \in Nodes : started.attempt[m] = IF m = n THEN r.attempt[m] + 1 ELSE r.attempt[m]
      /\ \A m \in Nodes : started.node[m] = IF m = n THEN "running" ELSE r.node[m]
      /\ started.superstep = r.superstep /\ started.cpNodes = {} /\ started.writes = r.writes
  <2> DEFINE S == {n}
  <2>1. S \in SUBSET Nodes /\ Cardinality(S) = 1 /\ \A m \in Nodes : m \in S <=> m = n
    BY <1>3
  <2> HIDE DEF S
  <2>2. started = StartNodes(base, S)
    BY DEF S
  <2> HIDE DEF started
  <2> QED
    BY <1>2, <2>1, <2>2, StartNodesFields DEF SameWork
<1> HIDE DEF started
<1>6. started.attempt[n] \in 1..MaxNodeExecutions
  <2>1. r.attempt[n] \in Nat /\ r.attempt[n] <= r.executions
    BY <1>1 DEF RunOK
  <2> QED
    BY <2>1, <1>1, <1>5
<1>7. id \in TaskIds /\ id[1] = "approval"
  BY <1>6 DEF TaskIds
<1>8. nd \in [Nodes -> NodeStatuses]
      /\ \A m \in Nodes : nd[m] = IF m = n THEN "waiting_approval" ELSE r.node[m]
  BY <1>5, RunFields DEF NodeStatuses, OpenNode
<1> HIDE DEF id
<1>9. /\ q \in Runs /\ q.status = "waiting_approval" /\ q.waiting = n /\ q.cpNodes = {}
      /\ q.task = id /\ q.executions = r.executions + 1 /\ q.attempt = started.attempt
      /\ q.node = nd /\ q.superstep = r.superstep /\ q.writes = r.writes
  <2>1. q = [started EXCEPT !.node = nd, !.waiting = n, !.status = "waiting_approval", !.task = id]
    BY <1>4, <1>5 DEF Runs
  <2> HIDE DEF nd
  <2> QED
    BY <2>1, <1>5, <1>7, <1>8, ZenonT(60) DEF Runs, Statuses
<1> HIDE DEF nd
<1>10. \A m \in Nodes : q.attempt[m] <= q.executions /\ q.attempt[m] >= r.attempt[m]
  <2>1. \A m \in Nodes : r.attempt[m] <= r.executions
    BY DEF RunOK
  <2> QED
    BY <2>1, <1>1, <1>5, <1>9
<1>11. \A m \in Nodes : (m \in q.cpNodes \/ q.node[m] # "none" \/ m = q.waiting) => q.attempt[m] > 0
  <2>1. \A m \in Nodes : r.node[m] # "none" => r.attempt[m] > 0
    BY DEF RunOK
  <2> QED
    BY <2>1, <1>1, <1>5, <1>8, <1>9
<1>12. RunOK(q)
  BY <1>1, <1>9, <1>10, <1>11 DEF RunOK
<1> QED
  BY <1>7, <1>9, <1>10, <1>12

LEMMA BeginSuperstepOK ==
  ASSUME NEW r, RunOK(r), NEW S \in SUBSET Nodes, S # {}, r.cpNodes = {},
         r.executions + Cardinality(S) <= MaxNodeExecutions, NEW q, q = BeginSuperstep(r, S)
  PROVE  /\ RunOK(q) /\ q.status = "running" /\ q.cpNodes = S /\ q.task = r.task
         /\ \A n \in Nodes : q.writes[n] = NoWrite
         /\ \A n \in Nodes : q.attempt[n] = IF n \in S THEN r.attempt[n] + 1 ELSE r.attempt[n]
<1> DEFINE base == [r EXCEPT !.ready = @ \ S]
           started == StartNodes(base, S)
           C == Cardinality(S)
<1>1. r \in Runs /\ r.executions \in Nat /\ r.superstep \in Nat /\ r.attempt \in [Nodes -> Nat]
  BY RunFields DEF RunOK
<1>2. base \in Runs /\ SameWork(base, r) /\ base.waiting = r.waiting /\ base.task = r.task
  BY <1>1 DEF Runs, SameWork
<1>3. C \in Nat /\ C >= 1
  BY NodeSets
<1>4. q = [started EXCEPT !.status = "running", !.cpNodes = S, !.writes = NoWrites]
  BY DEF BeginSuperstep
<1> HIDE DEF base
<1>5. /\ started \in Runs /\ started.executions = r.executions + C
      /\ \A m \in Nodes : started.attempt[m] = IF m \in S THEN r.attempt[m] + 1 ELSE r.attempt[m]
      /\ \A m \in Nodes : started.node[m] = IF m \in S THEN "running" ELSE r.node[m]
      /\ started.superstep = r.superstep /\ started.waiting = r.waiting /\ started.task = r.task
  BY <1>2, StartNodesFields DEF SameWork
<1> HIDE DEF started, C
<1>6. /\ q \in Runs /\ q.status = "running" /\ q.cpNodes = S /\ q.writes = NoWrites
      /\ q.task = r.task /\ q.executions = r.executions + C /\ q.attempt = started.attempt
      /\ q.node = started.node /\ q.superstep = r.superstep /\ q.waiting = r.waiting
  BY <1>4, <1>5, NoWriteOK, ZenonT(60) DEF Runs, Statuses
<1>7. \A m \in Nodes : q.attempt[m] <= q.executions
  <2>1. \A m \in Nodes : r.attempt[m] <= r.executions
    BY DEF RunOK
  <2> QED
    BY <2>1, <1>1, <1>3, <1>5, <1>6
<1>8. \A m \in Nodes : (m \in q.cpNodes \/ q.node[m] # "none" \/ m = q.waiting) => q.attempt[m] > 0
  <2>1. \A m \in Nodes : r.node[m] # "none" \/ m = r.waiting => r.attempt[m] > 0
    BY DEF RunOK
  <2> QED
    BY <2>1, <1>1, <1>5, <1>6
<1>9. q.executions <= MaxNodeExecutions /\ q.superstep < q.executions
  <2>1. r.superstep <= r.executions
    BY DEF RunOK
  <2> QED
    BY <2>1, <1>1, <1>3, <1>6 DEF C
<1>10. RunOK(q)
  BY <1>1, <1>3, <1>6, <1>7, <1>8, <1>9, NoWriteOK DEF RunOK
<1> QED
  BY <1>5, <1>6, <1>10, NoWriteOK

(* route_after_node: the status changes only when a loop is spent.           *)
LEMMA RouteAfterOK ==
  ASSUME NEW r \in Runs, NEW T \in SUBSET DOMAIN Edges, NEW q, q = RouteAfter(r, T)
  PROVE  /\ q \in Runs /\ SameWork(q, r) /\ q.waiting = r.waiting /\ q.task = r.task
         /\ SpentLoops(r, T) = {} => q.status = r.status
         /\ SpentLoops(r, T) # {} => q.status \in {"succeeded", "paused"}
<1> DEFINE spent == SpentLoops(r, T)
           go == T \ spent
           rd == r.ready \cup {Edges[e].to : e \in go}
           ls == [e \in DOMAIN Edges |->
                    IF e \in go /\ Edges[e].loop > 0 THEN r.loops[e] + 1 ELSE r.loops[e]]
           st == IF spent = {} THEN r.status
                 ELSE IF Edges[LargestOf(spent)].exhausted = "partial" THEN "succeeded" ELSE "paused"
<1>1. q = [r EXCEPT !.ready = rd, !.loops = ls, !.status = st]
  BY DEF RouteAfter
<1>2. rd \in SUBSET Nodes
  <2>1. \A e \in go : Edges[e].to \in Nodes
    BY FlowAssumption
  <2> QED
    BY <2>1, RunFields
<1>3. ls \in [DOMAIN Edges -> Nat]
  BY RunFields
<1>4. st \in Statuses /\ (spent = {} => st = r.status) /\ (spent # {} => st \in {"succeeded", "paused"})
  BY RunFields DEF Statuses, Terminal
<1> HIDE DEF rd, ls, st
<1> QED
  BY <1>1, <1>2, <1>3, <1>4 DEF Runs, SameWork

LEMMA PauseForInterruptOK ==
  ASSUME NEW r, RunOK(r), NEW n \in r.cpNodes, r.writes[n].kind = "interrupt", NEW q,
         q = PauseForInterrupt(r, n)
  PROVE  /\ RunOK(q) /\ q.status = "waiting_human" /\ q.cpNodes = r.cpNodes
         /\ q.writes = r.writes /\ q.attempt = r.attempt
         /\ q.task \in TaskIds /\ q.task[1] = "interrupt" /\ q.task[2] = r.writes[n].id
<1> DEFINE id == <<"interrupt", r.writes[n].id, 0>>
           nd == [r.node EXCEPT ![n] = "waiting_human"]
<1>1. r \in Runs /\ n \in Nodes /\ r.node \in [Nodes -> NodeStatuses]
  BY RunFields DEF RunOK
<1>2. r.writes[n].id \in 1..MaxInterrupts
  <2>1. WriteOK(r.writes[n])
    BY <1>1 DEF RunOK
  <2> QED
    BY <2>1, FlowAssumption DEF WriteOK, Writes
<1>3. id \in TaskIds /\ id[1] = "interrupt" /\ id[2] = r.writes[n].id
  BY <1>2 DEF TaskIds
<1>4. nd \in [Nodes -> NodeStatuses] /\ \A m \in Nodes : m # n => nd[m] = r.node[m]
  BY <1>1 DEF NodeStatuses, OpenNode
<1>5. q = [r EXCEPT !.node = nd, !.waiting = n, !.status = "waiting_human", !.task = id]
  BY <1>1 DEF PauseForInterrupt, Runs
<1> HIDE DEF id, nd
<1>6. /\ q \in Runs /\ q.status = "waiting_human" /\ q.cpNodes = r.cpNodes /\ q.writes = r.writes
      /\ q.attempt = r.attempt /\ q.task = id /\ q.node = nd /\ q.waiting = n
      /\ q.executions = r.executions /\ q.superstep = r.superstep
  BY <1>1, <1>3, <1>4, <1>5, ZenonT(60) DEF Runs, Statuses
<1>7. RunOK(q)
  BY <1>1, <1>4, <1>6 DEF RunOK
<1> QED
  BY <1>3, <1>6, <1>7

(* commit_active_checkpoint: a superstep is closed, with what follows it.    *)
LEMMA CommitSuperstepOK ==
  ASSUME NEW r, RunOK(r), r.cpNodes # {}, NEW T \in SUBSET DOMAIN Edges, NEW q,
         q = CommitSuperstep(r, T)
  PROVE  /\ RunOK(q) /\ q.cpNodes = {} /\ q.attempt = r.attempt
         /\ q.status \in Statuses \ {"waiting_approval"}
         /\ q.status = "waiting_human" => q.task \in TaskIds /\ q.task[1] = "review"
         /\ q.status # "waiting_human" => q.task = r.task
<1> DEFINE ok == Succeeded(r)
           nd == [n \in Nodes |-> IF n \notin r.cpNodes THEN r.node[n]
                                  ELSE IF n \in ok THEN "succeeded" ELSE "failed"]
           ss == r.superstep + 1
           closed == [r EXCEPT !.node = nd, !.superstep = ss, !.cpNodes = {}, !.writes = NoWrites]
           errors == {ErrorRoute[n] : n \in r.cpNodes \ ok}
           base == [closed EXCEPT !.outputs = @ \cup ok, !.ready = @ \cup errors]
           routed == RouteAfter(base, T)
           id == <<"review", routed.superstep, 0>>
           st == IF Outputs(r) # {} THEN "succeeded"
                 ELSE IF routed.status = "pause_requested" THEN "paused" ELSE "running"
<1>1. /\ r \in Runs /\ r.executions \in Nat /\ r.superstep \in Nat /\ r.cpNodes \in SUBSET Nodes
      /\ r.superstep < r.executions /\ r.executions <= MaxNodeExecutions
  BY RunFields DEF RunOK
<1>2. ok \subseteq r.cpNodes
  BY DEF Succeeded
<1>3. nd \in [Nodes -> NodeStatuses] /\ \A n \in Nodes : nd[n] # "none" => n \in r.cpNodes \/ r.node[n] # "none"
  BY <1>1, RunFields DEF NodeStatuses
<1>4. ss \in Nat /\ ss <= r.executions /\ ss \in 1..MaxNodeExecutions
  BY <1>1, FlowAssumption
<1>5. /\ closed \in Runs /\ closed.executions = r.executions /\ closed.attempt = r.attempt
      /\ closed.superstep = ss /\ closed.cpNodes = {} /\ closed.node = nd
      /\ closed.writes = NoWrites /\ closed.waiting = r.waiting /\ closed.task = r.task
      /\ closed.status = r.status /\ closed.outputs = r.outputs /\ closed.ready = r.ready
  <2> HIDE DEF nd, ss
  <2> QED
    BY <1>1, <1>3, <1>4, NoWriteOK DEF Runs
<1>6. q = IF Unhandled(r) THEN [closed EXCEPT !.status = "failed"]
          ELSE IF Outputs(r) # {} /\ ReviewRequired
          THEN [routed EXCEPT !.status = "waiting_human", !.task = id]
          ELSE [routed EXCEPT !.status = st]
  BY DEF CommitSuperstep
<1> HIDE DEF nd, ss, closed
<1>7. RunOK(closed)
  <2>1. \A n \in Nodes : r.attempt[n] <= r.executions
        /\ ((n \in r.cpNodes \/ r.node[n] # "none" \/ n = r.waiting) => r.attempt[n] > 0)
    BY DEF RunOK
  <2> QED
    BY <2>1, <1>1, <1>3, <1>4, <1>5, NoWriteOK DEF RunOK
<1>8. ASSUME ~Unhandled(r)
      PROVE  /\ routed \in Runs /\ SameWork(routed, closed) /\ routed.waiting = r.waiting
             /\ routed.task = r.task /\ routed.superstep = ss
  <2>1. errors \in SUBSET Nodes
    BY <1>8, <1>1, FlowAssumption DEF Unhandled
  <2> HIDE DEF errors, ok
  <2>2. base \in Runs /\ SameWork(base, closed) /\ base.waiting = r.waiting /\ base.task = r.task
    BY <2>1, <1>1, <1>2, <1>5 DEF Runs, SameWork
  <2> HIDE DEF base
  <2> QED
    BY <2>2, <1>5, RouteAfterOK DEF SameWork
<1> HIDE DEF routed, base, id, st
<1>9. CASE Unhandled(r)
  <2>1. q = [closed EXCEPT !.status = "failed"]
    BY <1>6, <1>9
  <2>2. "failed" \in Statuses /\ closed.task \in TaskIds \cup {NoTask}
    BY <1>5, RunFields DEF Statuses, Terminal
  <2>3. RunOK(q) /\ q.status = "failed" /\ q.task = closed.task /\ SameWork(q, closed)
    BY <2>1, <2>2, <1>7, StatusOK
  <2> QED
    BY <2>2, <2>3, <1>5 DEF SameWork
<1>10. CASE ~Unhandled(r) /\ Outputs(r) # {} /\ ReviewRequired
  <2>1. q = [routed EXCEPT !.status = "waiting_human", !.task = id]
    BY <1>6, <1>10
  <2>2. id \in TaskIds /\ id[1] = "review"
    BY <1>8, <1>10, <1>4 DEF TaskIds, id
  <2>3. /\ q \in Runs /\ SameWork(q, closed) /\ q.waiting = closed.waiting /\ q.task = id
        /\ q.status = "waiting_human"
    BY <2>1, <2>2, <1>8, <1>10, <1>5, ZenonT(60) DEF Runs, SameWork, Statuses
  <2>4. RunOK(q)
    BY <2>3, <1>7, SameWorkOK
  <2> QED
    BY <2>2, <2>3, <2>4, <1>5 DEF SameWork, Statuses
<1>11. CASE ~Unhandled(r) /\ ~(Outputs(r) # {} /\ ReviewRequired)
  <2>1. q = [routed EXCEPT !.status = st]
    BY <1>6, <1>11
  <2>2. st \in {"succeeded", "paused", "running"}
    BY DEF st
  <2>3. /\ q \in Runs /\ SameWork(q, closed) /\ q.waiting = closed.waiting /\ q.task = r.task
        /\ q.status = st
    BY <2>1, <2>2, <1>8, <1>11, <1>5 DEF Runs, SameWork, Statuses, Terminal
  <2>4. RunOK(q)
    BY <2>3, <1>7, SameWorkOK
  <2> QED
    BY <2>2, <2>3, <2>4, <1>5 DEF SameWork, Statuses, Terminal
<1> QED
  BY <1>9, <1>10, <1>11

(* A write of a node is stored or replaced.                                  *)
Stored(ws, r, n, w) == ws = [r.writes EXCEPT ![n] = w]
Replaced(q, r, ws) == q = [r EXCEPT !.writes = ws, !.status = "running", !.task = NoTask]

LEMMA StoredWriteOK ==
  ASSUME NEW r, RunOK(r), NEW n \in Nodes, NEW w, WriteOK(w),
         NEW ws, Stored(ws, r, n, w), NEW q, q = [r EXCEPT !.writes = ws]
  PROVE  /\ RunOK(q) /\ q.status = r.status /\ q.task = r.task /\ q.cpNodes = r.cpNodes
         /\ q.attempt = r.attempt /\ q.waiting = r.waiting
         /\ q.writes = ws
<1>1. r \in Runs /\ r.writes \in [Nodes -> Writes]
  BY RunFields DEF RunOK
<1>2. ws \in [Nodes -> Writes] /\ \A m \in Nodes : ws[m] = IF m = n THEN w ELSE r.writes[m]
  BY <1>1 DEF WriteOK, Stored
<1>4. /\ q \in Runs /\ q.status = r.status /\ q.task = r.task /\ q.cpNodes = r.cpNodes
      /\ q.attempt = r.attempt /\ q.waiting = r.waiting /\ q.writes = ws /\ q.node = r.node
      /\ q.executions = r.executions /\ q.superstep = r.superstep
  BY <1>1, <1>2 DEF Runs
<1>5. RunOK(q)
  BY <1>1, <1>2, <1>4 DEF RunOK
<1> QED
  BY <1>2, <1>4, <1>5

LEMMA ReplacedWriteOK ==
  ASSUME NEW r, RunOK(r), NEW n \in Nodes, NEW w, WriteOK(w),
         NEW ws, Stored(ws, r, n, w), NEW q, Replaced(q, r, ws)
  PROVE  /\ RunOK(q) /\ q.status = "running" /\ q.task = NoTask /\ q.cpNodes = r.cpNodes
         /\ q.attempt = r.attempt
         /\ q.writes = ws
<1>1. r \in Runs /\ r.writes \in [Nodes -> Writes]
  BY RunFields DEF RunOK
<1>2. ws \in [Nodes -> Writes] /\ \A m \in Nodes : ws[m] = IF m = n THEN w ELSE r.writes[m]
  BY <1>1 DEF WriteOK, Stored
<1>4. /\ q \in Runs /\ q.status = "running" /\ q.task = NoTask /\ q.cpNodes = r.cpNodes
      /\ q.attempt = r.attempt /\ q.waiting = r.waiting /\ q.writes = ws /\ q.node = r.node
      /\ q.executions = r.executions /\ q.superstep = r.superstep
  BY <1>1, <1>2 DEF Runs, Statuses, Replaced
<1>5. RunOK(q)
  BY <1>1, <1>2, <1>4 DEF RunOK
<1> QED
  BY <1>2, <1>4, <1>5

(* prepare_flow_interrupt_resume.                                            *)
Resumed(q, r, ws, nd) ==
  q = [r EXCEPT !.writes = ws, !.node = nd, !.status = "resuming", !.waiting = 0, !.task = NoTask]
SetNode(nd, r, n, s) == nd = [r.node EXCEPT ![n] = s]

LEMMA AnsweredOK ==
  ASSUME NEW r, RunOK(r), NEW n \in r.cpNodes, r.writes[n].kind = "interrupt",
         NEW w, w = [r.writes[n] EXCEPT !.cmd = r.writes[n].id],
         NEW ws, Stored(ws, r, n, w), NEW nd, SetNode(nd, r, n, "resuming"),
         NEW q, Resumed(q, r, ws, nd)
  PROVE  /\ RunOK(q) /\ q.status = "resuming" /\ q.task = NoTask /\ q.cpNodes = r.cpNodes
         /\ q.attempt = r.attempt
         /\ \A m \in Nodes : q.writes[m] # NoWrite \/ r.writes[m] = NoWrite
<1>1. r \in Runs /\ n \in Nodes /\ r.writes \in [Nodes -> Writes] /\ r.node \in [Nodes -> NodeStatuses]
      /\ WriteOK(r.writes[n])
  BY RunFields DEF RunOK
<1>2. WriteOK(w) /\ w.kind = "interrupt"
  BY <1>1 DEF WriteOK, Writes
<1>3. w # NoWrite
  BY <1>2 DEF NoWrite, Write
<1>4. ws \in [Nodes -> Writes] /\ \A m \in Nodes : ws[m] = IF m = n THEN w ELSE r.writes[m]
  BY <1>1, <1>2 DEF WriteOK, Stored
<1>5. nd \in [Nodes -> NodeStatuses] /\ \A m \in Nodes : m # n => nd[m] = r.node[m]
  BY <1>1 DEF NodeStatuses, OpenNode, SetNode
<1>7. /\ q \in Runs /\ q.status = "resuming" /\ q.task = NoTask /\ q.cpNodes = r.cpNodes
      /\ q.attempt = r.attempt /\ q.waiting = 0 /\ q.writes = ws /\ q.node = nd
      /\ q.executions = r.executions /\ q.superstep = r.superstep
  BY <1>1, <1>4, <1>5 DEF Runs, Statuses, Resumed
<1>8. \A m \in Nodes : (m \in q.cpNodes \/ q.node[m] # "none" \/ m = q.waiting) => q.attempt[m] > 0
  <2>1. \A m \in Nodes : (m \in r.cpNodes \/ r.node[m] # "none") => r.attempt[m] > 0
    BY DEF RunOK
  <2>2. \A m \in Nodes : m # 0
    BY FlowAssumption
  <2> QED
    BY <2>1, <2>2, <1>5, <1>7
<1>9. RunOK(q)
  BY <1>2, <1>4, <1>7, <1>8 DEF RunOK
<1> QED
  BY <1>3, <1>4, <1>7, <1>9

(* resolve_flow_approval: the document of the node that was waited for.      *)
Decided(q, r, nd, o, st) ==
  q = [r EXCEPT !.node = nd, !.outputs = o, !.status = st, !.waiting = 0, !.task = NoTask]

LEMMA DecidedOK ==
  ASSUME NEW r, RunOK(r), NEW n \in Nodes, n = r.waiting, NEW s \in NodeStatuses,
         NEW o \in SUBSET Nodes, NEW st \in Statuses, NEW nd, SetNode(nd, r, n, s), NEW q,
         Decided(q, r, nd, o, st)
  PROVE  /\ RunOK(q) /\ q.status = st /\ q.task = NoTask /\ q.cpNodes = r.cpNodes
         /\ q.attempt = r.attempt /\ q.writes = r.writes /\ q.loops = r.loops
<1>1. r \in Runs /\ r.node \in [Nodes -> NodeStatuses]
  BY RunFields DEF RunOK
<1>2. nd \in [Nodes -> NodeStatuses] /\ \A m \in Nodes : m # n => nd[m] = r.node[m]
  BY <1>1 DEF SetNode
<1>3. q \in Runs
  BY <1>1, <1>2 DEF Runs, Decided
<1>4. /\ q.status = st /\ q.task = NoTask /\ q.cpNodes = r.cpNodes
      /\ q.attempt = r.attempt /\ q.waiting = 0 /\ q.writes = r.writes /\ q.node = nd
      /\ q.executions = r.executions /\ q.superstep = r.superstep /\ q.loops = r.loops
  BY <1>1 DEF Runs, Decided
<1>5. \A m \in Nodes : (m \in q.cpNodes \/ q.node[m] # "none" \/ m = q.waiting) => q.attempt[m] > 0
  <2>1. \A m \in Nodes : (m \in r.cpNodes \/ r.node[m] # "none" \/ m = r.waiting) => r.attempt[m] > 0
    BY DEF RunOK
  <2>2. \A m \in Nodes : m # 0
    BY FlowAssumption
  <2> QED
    BY <2>1, <2>2, <1>2, <1>4
<1>6. RunOK(q)
  BY <1>3, <1>4, <1>5 DEF RunOK
<1> QED
  BY <1>4, <1>6

-----------------------------------------------------------------------------
(* One driver moves, or an operator does: what it leaves of the others.      *)

DriverFrame(d) ==
  /\ pc[d] # "idle"
  /\ \E x \in Pcs : pc' = [pc EXCEPT ![d] = x]
  /\ \A e \in Drivers \ {d} : view'[e] = view[e] /\ results'[e] = results[e]
  /\ (run' = run /\ stale \ {d} \subseteq stale') \/ stale' = Drivers
  /\ overlapped' = overlapped

LEMMA UntouchedDriver ==
  ASSUME NEW e \in Drivers, KnowsRun(e), CarriesResults(e),
         pc'[e] = pc[e], view'[e] = view[e], results'[e] = results[e],
         (run' = run /\ (e \in stale => e \in stale')) \/ e \in stale'
  PROVE  KnowsRun(e)' /\ CarriesResults(e)'
<1>1. KnowsRun(e)'
  BY DEF KnowsRun, Stops, Settles, Exhausted, Answered
<1>2. CarriesResults(e)'
  BY DEF CarriesResults, Produced
<1> QED
  BY <1>1, <1>2

LEMMA DriverStep ==
  ASSUME FlowInv, NEW d \in Drivers, DriverFrame(d), TypePart', KnowsRun(d)', CarriesResults(d)',
         WaitingHasTask', AlonePart => AloneRun' /\ AloneDriver(d)'
  PROVE  FlowInv'
<1>1. \A e \in Drivers \ {d} : pc'[e] = pc[e]
  BY DEF DriverFrame, FlowInv, TypePart
<1>2. DriverPart'
  <2> SUFFICES ASSUME NEW e \in Drivers, e # d PROVE KnowsRun(e)' /\ CarriesResults(e)'
    BY DEF DriverPart
  <2>1. KnowsRun(e) /\ CarriesResults(e)
    BY DEF FlowInv, DriverPart
  <2> QED
    BY <1>1, <2>1, UntouchedDriver DEF DriverFrame
<1>3. (overlapped \/ AlonePart)'
  <2> SUFFICES ASSUME AlonePart PROVE AlonePart'
    BY DEF FlowInv, DriverFrame
  <2>1. \A e \in Drivers \ {d} : pc'[e] = "idle"
    BY <1>1 DEF AlonePart, OneDriver, DriverFrame
  <2>2. \A e \in Drivers \ {d} : AloneDriver(e)'
    BY <2>1 DEF AloneDriver
  <2>3. OneDriver'
    BY <2>1 DEF OneDriver
  <2> QED
    BY <2>2, <2>3 DEF AlonePart
<1> QED
  BY <1>2, <1>3 DEF FlowInv

(* A request changes the document and may spawn a driver.                    *)
OperatorFrame == stale' = Drivers /\ UNCHANGED <<view, todo, results, ran>>

LEMMA QuietStep ==
  ASSUME FlowInv, OperatorFrame, UNCHANGED <<pc, overlapped>>, TypePart', WaitingHasTask',
         AlonePart => AloneRun' /\ \A d \in Drivers : AloneDriver(d)'
  PROVE  FlowInv'
<1>1. DriverPart'
  <2> SUFFICES ASSUME NEW e \in Drivers PROVE KnowsRun(e)' /\ CarriesResults(e)'
    BY DEF DriverPart
  <2>1. KnowsRun(e) /\ CarriesResults(e)
    BY DEF FlowInv, DriverPart
  <2> QED
    BY <2>1, UntouchedDriver DEF OperatorFrame
<1>2. (overlapped \/ AlonePart)'
  BY DEF FlowInv, AlonePart, OneDriver
<1> QED
  BY <1>1, <1>2 DEF FlowInv

LEMMA SpawnStep ==
  ASSUME FlowInv, OperatorFrame, Spawn, TypePart', WaitingHasTask',
         AlonePart => AloneRun' /\ FreshRun(run)'
  PROVE  FlowInv'
<1>1. PICK d \in Drivers : pc[d] = "idle" /\ pc' = [pc EXCEPT ![d] = "read"]
  BY DEF Spawn
<1>2. pc'[d] = "read" /\ \A e \in Drivers \ {d} : pc'[e] = pc[e]
  BY <1>1 DEF FlowInv, TypePart
<1>3. DriverPart'
  <2> SUFFICES ASSUME NEW e \in Drivers PROVE KnowsRun(e)' /\ CarriesResults(e)'
    BY DEF DriverPart
  <2>1. KnowsRun(e) /\ CarriesResults(e)
    BY DEF FlowInv, DriverPart
  <2>2. CASE e # d
    BY <1>2, <2>1, <2>2, UntouchedDriver DEF OperatorFrame
  <2>3. CASE e = d
    <3>1. results'[e] = NoWrites
      BY <1>1, <2>1, <2>3 DEF CarriesResults, OperatorFrame
    <3> QED
      BY <1>2, <2>3, <3>1 DEF KnowsRun, CarriesResults, NoWrites, NoWrite, Write
  <2> QED
    BY <2>2, <2>3
<1>4. (overlapped \/ AlonePart)'
  <2> SUFFICES ASSUME ~overlapped' PROVE AlonePart'
    OBVIOUS
  <2>1. ~overlapped /\ \A e \in Drivers : pc[e] = "idle"
    BY DEF Spawn
  <2>2. AloneRun' /\ FreshRun(run)'
    BY <2>1 DEF FlowInv
  <2>3. OneDriver' /\ \A e \in Drivers : pc'[e] = "idle" \/ pc'[e] = "read"
    BY <1>2, <2>1 DEF OneDriver
  <2>4. \A e \in Drivers : AloneDriver(e)'
    BY <2>2, <2>3 DEF AloneDriver
  <2> QED
    BY <2>2, <2>3, <2>4 DEF AlonePart
<1> QED
  BY <1>3, <1>4 DEF FlowInv

-----------------------------------------------------------------------------
(* The driver's steps that leave the document alone                          *)

LEMMA ReturnTypes ==
  ASSUME TypePart, NEW d \in Drivers, Return(d)
  PROVE  /\ pc' = [pc EXCEPT ![d] = "idle"] /\ pc' \in [Drivers -> Pcs] /\ pc'[d] = "idle"
         /\ view' \in [Drivers -> Runs] /\ \A e \in Drivers : RunOK(view'[e])
         /\ todo' \in [Drivers -> SUBSET Nodes]
         /\ results' \in [Drivers -> [Nodes -> Writes]] /\ results'[d] = NoWrites
         /\ \A e \in Drivers : \A n \in Nodes : WriteOK(results'[e][n])
         /\ \A e \in Drivers \ {d} : view'[e] = view[e] /\ results'[e] = results[e]
<1>1. NewRun \in Runs /\ RunOK(NewRun)
  BY NewRunOK DEF RunOK
<1>2. pc' = [pc EXCEPT ![d] = "idle"] /\ pc' \in [Drivers -> Pcs] /\ pc'[d] = "idle"
  BY DEF Return, Goto, TypePart, Pcs
<1>3. view' \in [Drivers -> Runs] /\ todo' \in [Drivers -> SUBSET Nodes]
  BY <1>1 DEF Return, TypePart
<1>4. \A e \in Drivers : view'[e] \in {view[e], NewRun} /\ results'[e] \in {results[e], NoWrites}
  BY DEF Return, TypePart
<1>5. \A e \in Drivers : RunOK(view'[e])
  BY <1>1, <1>4 DEF TypePart
<1>6. results' \in [Drivers -> [Nodes -> Writes]] /\ results'[d] = NoWrites
  BY NoWriteOK DEF Return, TypePart
<1>7. \A e \in Drivers : \A n \in Nodes : WriteOK(results'[e][n])
  BY <1>4, NoWriteOK DEF TypePart
<1>8. \A e \in Drivers \ {d} : view'[e] = view[e] /\ results'[e] = results[e]
  BY DEF Return, TypePart
<1> QED
  BY <1>2, <1>3, <1>5, <1>6, <1>7, <1>8

LEMMA LookTypes ==
  ASSUME TypePart, NEW d \in Drivers, Look(d)
  PROVE  /\ view' \in [Drivers -> Runs] /\ \A e \in Drivers : RunOK(view'[e])
         /\ view'[d] = run /\ \A e \in Drivers \ {d} : view'[e] = view[e]
         /\ stale' = stale \ {d}
<1>1. view' \in [Drivers -> Runs] /\ view'[d] = run /\ \A e \in Drivers \ {d} : view'[e] = view[e]
  BY DEF Look, TypePart, RunOK
<1> QED
  BY <1>1 DEF Look, TypePart

(* The document is what it was.                                              *)
LEMMA RunUnchanged ==
  ASSUME FlowInv, UNCHANGED <<run, tasks>>
  PROVE  WaitingHasTask' /\ (AlonePart /\ ran' = ran => AloneRun')
BY DEF FlowInv, WaitingHasTask, Pending, AlonePart, AloneRun, PendingRests, PendingTasks,
       WaitsWritten, AnsweredWritten, RanOnce, Answered, Written

LEMMA DriveReturnInv ==
  ASSUME FlowInv, NEW d \in Drivers, DriveReturn(d)
  PROVE  FlowInv'
<1>1. TypePart /\ Return(d) /\ UNCHANGED <<run, tasks, stale, interrupts, ran, overlapped, up>>
  BY DEF FlowInv, DriveReturn
<1>2. TypePart'
  BY <1>1, ReturnTypes DEF TypePart
<1>3. DriverFrame(d)
  BY <1>1, ReturnTypes DEF DriverFrame, DriveReturn, Pcs
<1>4. KnowsRun(d)' /\ CarriesResults(d)' /\ AloneDriver(d)'
  BY <1>1, ReturnTypes DEF KnowsRun, CarriesResults, AloneDriver
<1> QED
  BY <1>1, <1>2, <1>3, <1>4, RunUnchanged, DriverStep

LEMMA DriveOverBudgetInv ==
  ASSUME FlowInv, NEW d \in Drivers, DriveOverBudget(d)
  PROVE  FlowInv'
<1>1. TypePart /\ pc[d] = "read" /\ pc' = [pc EXCEPT ![d] = "error"] /\ ~Stops(run)
      /\ UNCHANGED <<run, tasks, view, stale, todo, results, interrupts, ran, overlapped, up>>
  BY DEF FlowInv, DriveOverBudget, Goto
<1>2. pc' \in [Drivers -> Pcs] /\ pc'[d] = "error"
  BY <1>1 DEF TypePart, Pcs
<1>3. TypePart'
  BY <1>1, <1>2 DEF TypePart
<1>4. DriverFrame(d)
  BY <1>1 DEF DriverFrame, Pcs
<1>5. KnowsRun(d)' /\ CarriesResults(d)'
  BY <1>2 DEF KnowsRun, CarriesResults
<1>6. AloneDriver(d)'
  <2>1. run.status \in Active
    BY <1>1, RunFields DEF TypePart, RunOK, Stops, Active, Resting, Waits
  <2> QED
    BY <1>1, <1>2, <2>1 DEF AloneDriver
<1> QED
  BY <1>1, <1>3, <1>4, <1>5, <1>6, RunUnchanged, DriverStep

LEMMA DriveConflictInv ==
  ASSUME FlowInv, NEW d \in Drivers, DriveConflict(d)
  PROVE  FlowInv'
<1>1. TypePart /\ pc[d] \in {"write", "commit"} /\ pc' = [pc EXCEPT ![d] = "error"]
      /\ UNCHANGED <<run, tasks, view, stale, todo, results, interrupts, ran, overlapped, up>>
  BY DEF FlowInv, DriveConflict, Goto
<1>2. pc' \in [Drivers -> Pcs] /\ pc'[d] = "error"
  BY <1>1 DEF TypePart, Pcs
<1>3. TypePart'
  BY <1>1, <1>2 DEF TypePart
<1>4. DriverFrame(d)
  BY <1>1 DEF DriverFrame, Pcs
<1>5. KnowsRun(d)' /\ CarriesResults(d)'
  BY <1>2 DEF KnowsRun, CarriesResults
<1>6. AlonePart => AloneDriver(d)'
  BY <1>1, <1>2 DEF AlonePart, AloneDriver
<1> QED
  BY <1>1, <1>3, <1>4, <1>5, <1>6, RunUnchanged, DriverStep

LEMMA DriveErrorInv ==
  ASSUME FlowInv, NEW d \in Drivers, DriveError(d)
  PROVE  FlowInv'
<1>1. TypePart /\ pc[d] = "error" /\ UNCHANGED <<run, tasks, interrupts, ran, overlapped, up>>
  BY DEF FlowInv, DriveError
<1>2. CASE run.status \in Terminal
  <2>1. Return(d) /\ UNCHANGED stale
    BY <1>2 DEF DriveError
  <2>2. TypePart'
    BY <1>1, <2>1, ReturnTypes DEF TypePart
  <2>3. DriverFrame(d)
    BY <1>1, <2>1, ReturnTypes DEF DriverFrame, Pcs
  <2>4. KnowsRun(d)' /\ CarriesResults(d)' /\ AloneDriver(d)'
    BY <1>1, <2>1, ReturnTypes DEF KnowsRun, CarriesResults, AloneDriver
  <2> QED
    BY <1>1, <2>2, <2>3, <2>4, RunUnchanged, DriverStep
<1>3. CASE run.status \notin Terminal
  <2>1. pc' = [pc EXCEPT ![d] = "fail"] /\ Look(d) /\ UNCHANGED <<todo, results>>
    BY <1>3 DEF DriveError, Goto
  <2>2. pc' \in [Drivers -> Pcs] /\ pc'[d] = "fail"
    BY <1>1, <2>1 DEF TypePart, Pcs
  <2>3. TypePart'
    BY <1>1, <2>1, <2>2, LookTypes DEF TypePart
  <2>4. DriverFrame(d)
    BY <1>1, <2>1, LookTypes DEF DriverFrame, Pcs
  <2>5. KnowsRun(d)' /\ CarriesResults(d)'
    BY <1>1, <1>3, <2>1, <2>2, LookTypes DEF KnowsRun, CarriesResults
  <2>6. AlonePart => AloneDriver(d)'
    BY <1>1, <2>2 DEF AlonePart, AloneDriver
  <2> QED
    BY <1>1, <2>3, <2>4, <2>5, <2>6, RunUnchanged, DriverStep
<1> QED
  BY <1>2, <1>3

LEMMA DriveInspectInv ==
  ASSUME FlowInv, NEW d \in Drivers, DriveInspect(d)
  PROVE  FlowInv'
<1>1. /\ TypePart /\ pc[d] = "read" /\ ~Stops(run) /\ Look(d)
      /\ UNCHANGED <<run, tasks, results, interrupts, ran, overlapped, up>>
  BY DEF FlowInv, DriveInspect
<1>2. run.status \in Active /\ run.cpNodes \in SUBSET Nodes
  BY <1>1, RunFields DEF TypePart, RunOK, Stops, Active, Resting, Waits
<1>3. PICK x \in Pcs :
        /\ pc' = [pc EXCEPT ![d] = x]
        /\ \/ x = "write" /\ (Settles(run) \/ (run.cpNodes = {} /\ ~Exhausted(run))) /\ todo' = todo
           \/ x = "exec" /\ run.status # "resuming"
              /\ todo' = [todo EXCEPT ![d] = {n \in run.cpNodes : run.writes[n] = NoWrite}]
           \/ x = "error" /\ todo' = todo
           \/ x = "resume" /\ Answered(run) # {} /\ todo' = todo
  <2>1. {"write", "exec", "error", "resume"} \subseteq Pcs
    BY DEF Pcs
  <2> QED
    BY <2>1 DEF DriveInspect, Goto
<1>4. pc' \in [Drivers -> Pcs] /\ pc'[d] = x
  BY <1>1, <1>3 DEF TypePart
<1>5. todo' \in [Drivers -> SUBSET Nodes]
      /\ (x = "exec" => todo'[d] = {n \in run.cpNodes : run.writes[n] = NoWrite})
  BY <1>1, <1>2, <1>3 DEF TypePart
<1>6. TypePart'
  BY <1>1, <1>4, <1>5, LookTypes DEF TypePart
<1>7. DriverFrame(d)
  BY <1>1, <1>3, LookTypes DEF DriverFrame
<1>8. results[d] = NoWrites
  BY <1>1 DEF FlowInv, DriverPart, CarriesResults
<1>9. CarriesResults(d)'
  <2>1. \A n \in Nodes : results[d][n].cmd = 0
    BY <1>8, NoWriteOK DEF NoWrite, Write
  <2> QED
    BY <1>1, <1>3, <1>4, <1>8, <2>1 DEF CarriesResults
<1>10. KnowsRun(d)'
  <2>1. view'[d] = run /\ run' = run
    BY <1>1, LookTypes
  <2> QED
    BY <1>1, <1>3, <1>4, <2>1 DEF KnowsRun, Stops, Settles, Exhausted, Answered
<1>11. ASSUME AlonePart PROVE AloneDriver(d)'
  <2>1. FreshRun(run) /\ (Answered(run) # {} => Written(run))
    BY <1>1, <1>2, <1>11 DEF AlonePart, AloneDriver, AloneRun, AnsweredWritten
  <2>2. x # "read" /\ x # "idle" /\ x # "replace"
    BY <1>3
  <2>3. x = "exec" => \A n \in todo'[d] : ran[n] < run.attempt[n]
    BY <1>5, <2>1 DEF FreshRun
  <2>4. x = "exec" => \A n \in run.cpNodes : run.writes[n] = NoWrite => n \in todo'[d]
    BY <1>5
  <2>5. x = "resume" => Written(run)
    BY <1>3, <2>1
  <2> QED
    BY <1>1, <1>2, <1>4, <2>2, <2>3, <2>4, <2>5 DEF AloneDriver, Written
<1> QED
  BY <1>1, <1>6, <1>7, <1>9, <1>10, <1>11, RunUnchanged, DriverStep

LEMMA CommitReadInv ==
  ASSUME FlowInv, NEW d \in Drivers, CommitRead(d)
  PROVE  FlowInv'
<1>1. /\ TypePart /\ pc[d] = "exec" /\ Produced(d) = {}
      /\ UNCHANGED <<run, tasks, todo, results, interrupts, ran, overlapped, up>>
  BY DEF FlowInv, CommitRead
<1>2. PICK x \in {"commit", "error"} :
        /\ pc' = [pc EXCEPT ![d] = x]
        /\ \/ x = "commit" /\ SameCheckpoint(d) /\ Look(d)
           \/ x = "error" /\ UNCHANGED <<view, stale>>
  BY DEF CommitRead, Goto
<1>3. pc' \in [Drivers -> Pcs] /\ pc'[d] = x /\ x \in Pcs
  BY <1>1, <1>2 DEF TypePart, Pcs
<1>4. TypePart'
  <2>1. CASE x = "commit"
    BY <1>1, <1>2, <1>3, <2>1, LookTypes DEF TypePart
  <2>2. CASE x = "error"
    BY <1>1, <1>2, <1>3, <2>2 DEF TypePart
  <2> QED
    BY <2>1, <2>2
<1>5. DriverFrame(d)
  <2>1. \A e \in Drivers \ {d} : view'[e] = view[e]
    BY <1>1, <1>2, LookTypes
  <2>2. stale \ {d} \subseteq stale'
    BY <1>2 DEF Look
  <2> QED
    BY <1>1, <1>2, <1>3, <2>1, <2>2 DEF DriverFrame
<1>6. KnowsRun(d)'
  <2>1. CASE x = "commit"
    <3>1. view'[d] = run /\ run.cpNodes # {}
      BY <1>1, <1>2, <2>1, LookTypes DEF SameCheckpoint
    <3> QED
      BY <1>1, <1>3, <2>1, <3>1 DEF KnowsRun
  <2>2. CASE x = "error"
    BY <1>3, <2>2 DEF KnowsRun
  <2> QED
    BY <2>1, <2>2
<1>7. CarriesResults(d)'
  <2>1. results[d] = NoWrites
    <3>1. \A n \in Nodes : results[d][n] = NoWrite
      BY <1>1 DEF Produced
    <3>2. results[d] \in [Nodes -> Writes]
      BY <1>1 DEF TypePart
    <3> QED
      BY <3>1, <3>2, NoWriteOK, Zenon DEF NoWrites
  <2> QED
    BY <1>1, <1>3, <2>1 DEF CarriesResults
<1>8. AlonePart => AloneDriver(d)'
  BY <1>1, <1>2, <1>3 DEF AlonePart, AloneDriver
<1> QED
  BY <1>1, <1>4, <1>5, <1>6, <1>7, <1>8, RunUnchanged, DriverStep

LEMMA OutcomeFacts ==
  ASSUME TypePart, NEW n \in Nodes, NEW w \in Outcomes(n), Raised(w)
  PROVE  WriteOK(w) /\ w # NoWrite /\ w.cmd = 0 /\ interrupts' \in 0..MaxInterrupts
         /\ w.kind # "none" /\ (w.kind = "interrupt" => w.id = interrupts + 1)
<1>1. interrupts \in 0..MaxInterrupts /\ MaxInterrupts \in Nat
  BY FlowAssumption DEF TypePart
<1>2. \/ \E k \in {"result", "costly", "error"} : w = Write(k, 0, 0)
      \/ interrupts < MaxInterrupts /\ w = Write("interrupt", interrupts + 1, 0)
  BY DEF Outcomes
<1>3. CASE \E k \in {"result", "costly", "error"} : w = Write(k, 0, 0)
  BY <1>1, <1>3 DEF Write, WriteOK, Writes, NoWrite, Raised
<1>4. CASE interrupts < MaxInterrupts /\ w = Write("interrupt", interrupts + 1, 0)
  <2> DEFINE i == interrupts + 1
  <2>1. i \in 0..MaxInterrupts /\ i > 0
    BY <1>1, <1>4
  <2> HIDE DEF i
  <2>2. w = Write("interrupt", i, 0)
    BY <1>4 DEF i
  <2>3. WriteOK(w) /\ w # NoWrite /\ w.cmd = 0 /\ w.kind = "interrupt" /\ w.id = i
    BY <2>1, <2>2, <1>1 DEF Write, WriteOK, Writes, NoWrite
  <2> QED
    BY <2>1, <2>3 DEF Raised, i
<1> QED
  BY <1>2, <1>3, <1>4

LEMMA ExecuteNodeInv ==
  ASSUME FlowInv, NEW d \in Drivers, NEW n \in Nodes, ExecuteNode(d, n)
  PROVE  FlowInv'
<1>1. /\ TypePart /\ pc[d] = "exec" /\ n \in todo[d] /\ pc' = pc
      /\ todo' = [todo EXCEPT ![d] = @ \ {n}] /\ ran' = [ran EXCEPT ![n] = @ + 1]
      /\ UNCHANGED <<run, tasks, view, stale, overlapped, up>>
  BY DEF FlowInv, ExecuteNode
<1>2. PICK w \in Outcomes(n) : results' = [results EXCEPT ![d][n] = w] /\ Raised(w)
  BY DEF ExecuteNode
<1>3. WriteOK(w) /\ w # NoWrite /\ w.cmd = 0 /\ interrupts' \in 0..MaxInterrupts
  BY <1>1, <1>2, OutcomeFacts
<1>4. /\ results' \in [Drivers -> [Nodes -> Writes]]
      /\ \A e \in Drivers \ {d} : results'[e] = results[e]
      /\ \A m \in Nodes : results'[d][m] = IF m = n THEN w ELSE results[d][m]
  BY <1>1, <1>2, <1>3 DEF TypePart, WriteOK
<1>5. todo' \in [Drivers -> SUBSET Nodes] /\ todo'[d] = todo[d] \ {n}
  BY <1>1 DEF TypePart
<1>6. ran' \in [Nodes -> Nat] /\ \A m \in Nodes : ran'[m] = IF m = n THEN ran[m] + 1 ELSE ran[m]
  BY <1>1 DEF TypePart
<1>7. \A e \in Drivers : \A m \in Nodes : WriteOK(results'[e][m])
  BY <1>1, <1>3, <1>4 DEF TypePart
<1>8. TypePart'
  BY <1>1, <1>3, <1>4, <1>5, <1>6, <1>7 DEF TypePart
<1>9. DriverFrame(d)
  <2>1. pc' = [pc EXCEPT ![d] = "exec"] /\ "exec" \in Pcs
    BY <1>1 DEF TypePart, Pcs
  <2> QED
    BY <1>1, <1>4, <2>1 DEF DriverFrame
<1>10. KnowsRun(d)'
  BY <1>1 DEF KnowsRun
<1>11. CarriesResults(d)'
  <2>1. \A m \in Nodes : results[d][m].cmd = 0
    BY <1>1 DEF FlowInv, DriverPart, CarriesResults
  <2> QED
    BY <1>1, <1>3, <1>4, <2>1 DEF CarriesResults
<1>12. WaitingHasTask'
  BY <1>1, RunUnchanged
<1>13. ASSUME AlonePart PROVE AloneRun' /\ AloneDriver(d)'
  <2>1. /\ AloneRun /\ run.status \in Active
        /\ \A m \in todo[d] : ran[m] < run.attempt[m]
        /\ \A m \in run.cpNodes : run.writes[m] = NoWrite => m \in todo[d] \cup Produced(d)
    BY <1>1, <1>13 DEF AlonePart, AloneDriver
  <2>2. run.cpNodes \subseteq Nodes /\ run.attempt \in [Nodes -> Nat] /\ todo[d] \subseteq Nodes
        /\ ran \in [Nodes -> Nat]
    BY <1>1, RunFields DEF TypePart, RunOK
  <2>3. RanOnce'
    BY <1>1, <1>6, <2>1, <2>2 DEF AloneRun, RanOnce
  <2>4. PendingRests' /\ WaitsWritten' /\ AnsweredWritten'
    BY <1>1, <2>1 DEF AloneRun, PendingRests, PendingTasks, WaitsWritten, AnsweredWritten, Written, Answered
  <2>5. \A m \in todo'[d] : ran'[m] < run.attempt[m]
    BY <1>5, <1>6, <2>1, <2>2
  <2>6. \A m \in run.cpNodes : run.writes[m] = NoWrite => m \in todo'[d] \cup Produced(d)'
    BY <1>3, <1>4, <1>5, <2>1, <2>2 DEF Produced
  <2>7. AloneDriver(d)'
    BY <1>1, <2>1, <2>5, <2>6 DEF AloneDriver
  <2> QED
    BY <2>3, <2>4, <2>7 DEF AloneRun
<1> QED
  BY <1>8, <1>9, <1>10, <1>11, <1>12, <1>13, DriverStep

LEMMA ResumeNodeInv ==
  ASSUME FlowInv, NEW d \in Drivers, ResumeNode(d)
  PROVE  FlowInv'
<1> DEFINE n == FirstOf(Answered(view[d]))
           cmd == view[d].writes[n].cmd
<1>1. /\ TypePart /\ pc[d] = "resume" /\ pc' = [pc EXCEPT ![d] = "replace"]
      /\ UNCHANGED <<run, tasks, view, stale, todo, ran, overlapped, up>>
  BY DEF FlowInv, ResumeNode, Goto
<1>2. n \in Nodes
  <2>1. Answered(view[d]) # {} /\ view[d] \in Runs
    BY <1>1 DEF FlowInv, DriverPart, KnowsRun, TypePart
  <2>2. Answered(view[d]) \in SUBSET Nodes
    BY <2>1, RunFields DEF Answered
  <2> QED
    BY <2>1, <2>2, FirstOfNodes
<1>3. cmd \in 0..MaxInterrupts
  <2>1. view[d].writes[n] \in Writes
    BY <1>1, <1>2 DEF TypePart, RunOK, WriteOK
  <2> QED
    BY <2>1 DEF Writes
<1>4. PICK o \in Outcomes(n) : /\ results' = [results EXCEPT ![d][n] = [o EXCEPT !.cmd = cmd]]
                              /\ Raised(o)
  BY DEF ResumeNode
<1> HIDE DEF n, cmd
<1> DEFINE w == [o EXCEPT !.cmd = cmd]
<1>5. WriteOK(w) /\ w # NoWrite /\ interrupts' \in 0..MaxInterrupts
  <2>1. WriteOK(o) /\ o.kind # "none" /\ interrupts' \in 0..MaxInterrupts
    BY <1>1, <1>2, <1>4, OutcomeFacts
  <2> QED
    BY <2>1, <1>3 DEF WriteOK, Writes, NoWrite, Write
<1>6. results' = [results EXCEPT ![d][n] = w]
  BY <1>4
<1> HIDE DEF w
<1>7. /\ results' \in [Drivers -> [Nodes -> Writes]]
      /\ \A e \in Drivers \ {d} : results'[e] = results[e]
      /\ \A m \in Nodes : results'[d][m] = IF m = n THEN w ELSE results[d][m]
  BY <1>1, <1>2, <1>5, <1>6 DEF TypePart, WriteOK
<1>8. pc' \in [Drivers -> Pcs] /\ pc'[d] = "replace"
  BY <1>1 DEF TypePart, Pcs
<1>9. \A e \in Drivers : \A m \in Nodes : WriteOK(results'[e][m])
  BY <1>1, <1>5, <1>7 DEF TypePart
<1>10. TypePart'
  BY <1>1, <1>5, <1>7, <1>8, <1>9 DEF TypePart
<1>11. DriverFrame(d)
  BY <1>1, <1>7 DEF DriverFrame, Pcs
<1>12. KnowsRun(d)'
  BY <1>8 DEF KnowsRun
<1>13. CarriesResults(d)'
  <2>1. results[d] = NoWrites
    BY <1>1 DEF FlowInv, DriverPart, CarriesResults
  <2>2. \A m \in Nodes : results'[d][m] # NoWrite => m = n
    BY <1>7, <2>1, NoWriteOK
  <2> QED
    BY <1>8, <2>2 DEF CarriesResults, Produced
<1>14. AlonePart => AloneDriver(d)'
  BY <1>1, <1>8 DEF AlonePart, AloneDriver, Written
<1> QED
  BY <1>1, <1>10, <1>11, <1>12, <1>13, <1>14, RunUnchanged, DriverStep

-----------------------------------------------------------------------------
(* The driver's steps that write the document                                *)

(* A driver hands over the write it carries for a node.                      *)
HandsOver(d, n) ==
  /\ n \in Nodes /\ results[d][n] # NoWrite /\ WriteOK(results[d][n])
  /\ results' \in [Drivers -> [Nodes -> Writes]]
  /\ \A e \in Drivers : \A m \in Nodes : WriteOK(results'[e][m])
  /\ \A e \in Drivers \ {d} : results'[e] = results[e]
  /\ \A m \in Nodes : results'[d][m] = IF m = n THEN NoWrite ELSE results[d][m]

LEMMA CarriedWrite ==
  ASSUME TypePart, NEW d \in Drivers, NEW n \in Produced(d),
         results' = [results EXCEPT ![d][n] = NoWrite]
  PROVE  HandsOver(d, n)
<1>1. n \in Nodes /\ results[d][n] # NoWrite
  BY DEF Produced
<1>2. /\ results' \in [Drivers -> [Nodes -> Writes]]
      /\ \A e \in Drivers \ {d} : results'[e] = results[e]
      /\ \A m \in Nodes : results'[d][m] = IF m = n THEN NoWrite ELSE results[d][m]
  BY <1>1, NoWriteOK DEF TypePart
<1>3. \A e \in Drivers : \A m \in Nodes : WriteOK(results'[e][m])
  BY <1>2, NoWriteOK DEF TypePart
<1> QED
  BY <1>1, <1>2, <1>3 DEF TypePart, HandsOver

LEMMA PersistWriteInv ==
  ASSUME FlowInv, NEW d \in Drivers, NEW n \in Nodes, PersistWrite(d, n)
  PROVE  FlowInv'
<1>1. /\ TypePart /\ pc[d] = "exec" /\ n \in Produced(d)
      /\ results' = [results EXCEPT ![d][n] = NoWrite]
      /\ UNCHANGED <<tasks, view, todo, interrupts, ran, overlapped, up>>
  BY DEF FlowInv, PersistWrite
<1>2. /\ results[d][n] # NoWrite /\ WriteOK(results[d][n])
      /\ results' \in [Drivers -> [Nodes -> Writes]]
      /\ \A e \in Drivers : \A m \in Nodes : WriteOK(results'[e][m])
      /\ \A e \in Drivers \ {d} : results'[e] = results[e]
      /\ \A m \in Nodes : results'[d][m] = IF m = n THEN NoWrite ELSE results[d][m]
  <2>1. HandsOver(d, n)
    BY <1>1, CarriedWrite
  <2> QED
    BY <2>1 DEF HandsOver
<1>3. \A m \in Nodes : results[d][m].cmd = 0 /\ results'[d][m].cmd = 0
  <2>1. \A m \in Nodes : results[d][m].cmd = 0
    BY <1>1 DEF FlowInv, DriverPart, CarriesResults
  <2>2. NoWrite.cmd = 0
    BY DEF NoWrite, Write
  <2> QED
    BY <1>2, <2>1, <2>2
<1>4. "exec" \in Pcs /\ "error" \in Pcs
  BY DEF Pcs
<1>5. CASE ~SameCheckpoint(d)
  <2>1. pc' = [pc EXCEPT ![d] = "error"] /\ UNCHANGED <<run, stale>>
    BY <1>5 DEF PersistWrite, Goto
  <2>2. pc' \in [Drivers -> Pcs] /\ pc'[d] = "error"
    BY <1>1, <1>4, <2>1 DEF TypePart
  <2>3. TypePart'
    BY <1>1, <1>2, <2>1, <2>2 DEF TypePart
  <2>4. DriverFrame(d)
    BY <1>1, <1>2, <1>4, <2>1 DEF DriverFrame
  <2>5. KnowsRun(d)' /\ CarriesResults(d)'
    BY <2>2 DEF KnowsRun, CarriesResults
  <2>6. AlonePart => AloneDriver(d)'
    BY <1>1, <2>1, <2>2 DEF AlonePart, AloneDriver
  <2> QED
    BY <1>1, <2>1, <2>3, <2>4, <2>5, <2>6, RunUnchanged, DriverStep
<1>6. CASE SameCheckpoint(d) /\ run.writes[n] # NoWrite
  <2>1. UNCHANGED <<pc, run, stale>>
    BY <1>6 DEF PersistWrite
  <2>2. TypePart'
    BY <1>1, <1>2, <2>1 DEF TypePart
  <2>3. DriverFrame(d)
    <3>1. pc' = [pc EXCEPT ![d] = "exec"]
      BY <1>1, <2>1 DEF TypePart
    <3> QED
      BY <1>1, <1>2, <1>4, <2>1, <3>1 DEF DriverFrame
  <2>4. KnowsRun(d)' /\ CarriesResults(d)'
    BY <1>1, <1>3, <2>1 DEF KnowsRun, CarriesResults
  <2>5. ASSUME AlonePart PROVE AloneDriver(d)'
    <3>1. \A m \in run.cpNodes : run.writes[m] = NoWrite => m \in todo[d] \cup Produced(d)
      BY <1>1, <2>5 DEF AlonePart, AloneDriver
    <3>2. \A m \in run.cpNodes : run.writes[m] = NoWrite => m \in todo[d] \cup Produced(d)'
      BY <1>2, <1>6, <3>1 DEF Produced
    <3> QED
      BY <1>1, <2>1, <2>5, <3>2 DEF AlonePart, AloneDriver
  <2> QED
    BY <1>1, <2>1, <2>2, <2>3, <2>4, <2>5, RunUnchanged, DriverStep
<1>7. CASE SameCheckpoint(d) /\ run.writes[n] = NoWrite
  <2> DEFINE w == results[d][n]
  <2>1. pc' = pc /\ stale' = Drivers /\ run' = [run EXCEPT !.writes[n] = w]
    BY <1>7 DEF PersistWrite, Put
  <2>2. /\ RunOK(run) /\ RunOK(run') /\ run'.status = run.status /\ run'.task = run.task
        /\ run'.cpNodes = run.cpNodes /\ run'.attempt = run.attempt /\ run'.waiting = run.waiting
        /\ \A m \in Nodes : run'.writes[m] = IF m = n THEN w ELSE run.writes[m]
    <3> DEFINE ws == [run.writes EXCEPT ![n] = w]
    <3>1. RunOK(run) /\ WriteOK(w)
      BY <1>1, <1>2 DEF TypePart
    <3>2. run' = [run EXCEPT !.writes = ws]
      BY <2>1, <3>1 DEF RunOK, Runs
    <3>3. Stored(ws, run, n, w)
      BY DEF Stored
    <3> HIDE DEF w, ws
    <3>4. RunOK(run')
      BY <3>1, <3>2, <3>3, StoredWriteOK
    <3>5. /\ run'.status = run.status /\ run'.task = run.task /\ run'.cpNodes = run.cpNodes
          /\ run'.attempt = run.attempt /\ run'.waiting = run.waiting /\ run'.writes = ws
      BY <3>1, <3>2, <3>3, StoredWriteOK
    <3>6. \A m \in Nodes : ws[m] = IF m = n THEN w ELSE run.writes[m]
      BY <3>1, <3>3, RunFields DEF RunOK, Stored
    <3> QED
      BY <3>1, <3>4, <3>5, <3>6
  <2> HIDE DEF w
  <2>3. TypePart'
    BY <1>1, <1>2, <2>1, <2>2 DEF TypePart
  <2>4. DriverFrame(d)
    <3>1. pc' = [pc EXCEPT ![d] = "exec"]
      BY <1>1, <2>1 DEF TypePart
    <3> QED
      BY <1>1, <1>2, <1>4, <2>1, <3>1 DEF DriverFrame
  <2>5. KnowsRun(d)' /\ CarriesResults(d)'
    BY <1>1, <1>3, <2>1 DEF KnowsRun, CarriesResults
  <2>6. run.cpNodes \subseteq Nodes
    BY <2>2, RunFields DEF RunOK
  <2>7. WaitingHasTask'
    <3>1. WaitingHasTask
      BY DEF FlowInv
    <3>2. \A m \in Nodes : run.writes[m].kind = "interrupt" => run'.writes[m] = run.writes[m]
      BY <1>7, <2>2 DEF NoWrite, Write
    <3> QED
      BY <1>1, <2>2, <2>6, <3>1, <3>2 DEF WaitingHasTask, Pending
  <2>8. ASSUME AlonePart PROVE AloneRun' /\ AloneDriver(d)'
    <3>1. AloneRun /\ run.status \in Active
          /\ (\A m \in todo[d] : ran[m] < run.attempt[m])
          /\ (\A m \in run.cpNodes : run.writes[m] = NoWrite => m \in todo[d] \cup Produced(d))
      BY <1>1, <2>8 DEF AlonePart, AloneDriver
    <3>2. w # NoWrite /\ (w.kind = "interrupt" => w.cmd # w.id)
      BY <1>2, <1>3 DEF WriteOK, w
    <3>3. Written(run) => Written(run')
      BY <2>2, <2>6, <3>2 DEF Written
    <3>4. Answered(run') \subseteq Answered(run)
      BY <2>2, <2>6, <3>2 DEF Answered
    <3>5. AloneRun'
      BY <1>1, <2>2, <3>1, <3>3, <3>4
         DEF AloneRun, PendingRests, PendingTasks, WaitsWritten, AnsweredWritten, RanOnce
    <3>6. \A m \in run.cpNodes : run'.writes[m] = NoWrite => m \in todo[d] \cup Produced(d)'
      BY <1>2, <2>2, <2>6, <3>1, <3>2 DEF Produced
    <3> QED
      BY <1>1, <2>1, <2>2, <3>1, <3>5, <3>6 DEF AloneDriver
  <2> QED
    BY <2>3, <2>4, <2>5, <2>7, <2>8, DriverStep
<1> QED
  BY <1>5, <1>6, <1>7

LEMMA DriveFailInv ==
  ASSUME FlowInv, NEW d \in Drivers, DriveFail(d)
  PROVE  FlowInv'
<1>1. /\ TypePart /\ pc[d] = "fail" /\ Return(d)
      /\ UNCHANGED <<tasks, interrupts, ran, overlapped, up>>
  BY DEF FlowInv, DriveFail
<1>2. KnowsRun(d)' /\ CarriesResults(d)' /\ AloneDriver(d)'
  BY <1>1, ReturnTypes DEF KnowsRun, CarriesResults, AloneDriver
<1>3. CASE d \in stale
  <2>1. UNCHANGED <<run, stale>>
    BY <1>3 DEF DriveFail
  <2>2. TypePart'
    BY <1>1, <2>1, ReturnTypes DEF TypePart
  <2>3. DriverFrame(d)
    BY <1>1, <2>1, ReturnTypes DEF DriverFrame, Pcs
  <2> QED
    BY <1>1, <1>2, <2>1, <2>2, <2>3, RunUnchanged, DriverStep
<1>4. CASE d \notin stale
  <2>1. view[d] = run
    BY <1>1, <1>4 DEF FlowInv, DriverPart, KnowsRun
  <2>2. run' = [run EXCEPT !.status = "failed"] /\ stale' = Drivers
    BY <1>4, <2>1 DEF DriveFail, Put
  <2>3. "failed" \in Statuses /\ "failed" \notin Waits
    BY DEF Statuses, Terminal, Waits
  <2>4. RunOK(run') /\ run'.status = "failed" /\ run'.task = run.task /\ SameWork(run', run)
    BY <1>1, <2>2, <2>3, StatusOK DEF TypePart
  <2>5. TypePart'
    BY <1>1, <2>2, <2>4, ReturnTypes DEF TypePart
  <2>6. DriverFrame(d)
    BY <1>1, <2>2, ReturnTypes DEF DriverFrame, Pcs
  <2>7. WaitingHasTask'
    BY <2>4 DEF WaitingHasTask
  <2>8. ASSUME AlonePart PROVE AloneRun'
    <3>1. AloneRun /\ run.status \in Active
      BY <1>1, <2>8 DEF AlonePart, AloneDriver
    <3>2. PendingTasks' = {}
      BY <1>1, <3>1 DEF AloneRun, PendingRests, PendingTasks, Active
    <3> QED
      BY <1>1, <2>3, <2>4, <3>1, <3>2
         DEF AloneRun, PendingRests, WaitsWritten, AnsweredWritten, RanOnce, SameWork, Written, Answered
  <2> QED
    BY <1>2, <2>5, <2>6, <2>7, <2>8, DriverStep
<1> QED
  BY <1>3, <1>4

(* Until drivers overlap, a run that is under way has no pending task.       *)
LEMMA ActiveHasNoTask ==
  ASSUME AlonePart, run.status \in Active
  PROVE  PendingTasks = {}
BY DEF AlonePart, AloneRun, PendingRests, Active

LEMMA ReplaceWriteInv ==
  ASSUME FlowInv, NEW d \in Drivers, ReplaceWrite(d)
  PROVE  FlowInv'
<1>1. /\ TypePart /\ pc[d] = "replace"
      /\ UNCHANGED <<tasks, view, todo, interrupts, ran, overlapped, up>>
  BY DEF FlowInv, ReplaceWrite
<1>2. PICK n \in Produced(d) :
        /\ results' = [results EXCEPT ![d][n] = NoWrite]
        /\ \/ /\ run' = [run EXCEPT !.writes[n] = results[d][n], !.status = "running",
                                    !.task = NoTask]
              /\ stale' = Drivers /\ pc' = [pc EXCEPT ![d] = "read"]
           \/ pc' = [pc EXCEPT ![d] = "error"] /\ UNCHANGED <<run, stale>>
  BY DEF ReplaceWrite, Put, Goto
<1>3. /\ n \in Nodes /\ results[d][n] # NoWrite /\ WriteOK(results[d][n])
      /\ results' \in [Drivers -> [Nodes -> Writes]]
      /\ \A e \in Drivers : \A m \in Nodes : WriteOK(results'[e][m])
      /\ \A e \in Drivers \ {d} : results'[e] = results[e]
      /\ \A m \in Nodes : results'[d][m] = IF m = n THEN NoWrite ELSE results[d][m]
  <2>1. HandsOver(d, n)
    BY <1>1, <1>2, CarriedWrite
  <2> QED
    BY <2>1 DEF HandsOver
<1>4. "read" \in Pcs /\ "error" \in Pcs
  BY DEF Pcs
<1>5. CASE pc' = [pc EXCEPT ![d] = "error"] /\ UNCHANGED <<run, stale>>
  <2>1. pc' \in [Drivers -> Pcs] /\ pc'[d] = "error"
    BY <1>1, <1>4, <1>5 DEF TypePart
  <2>2. TypePart'
    BY <1>1, <1>3, <1>5, <2>1 DEF TypePart
  <2>3. DriverFrame(d)
    BY <1>1, <1>3, <1>4, <1>5 DEF DriverFrame
  <2>4. KnowsRun(d)' /\ CarriesResults(d)'
    BY <2>1 DEF KnowsRun, CarriesResults
  <2>5. AlonePart => AloneDriver(d)'
    BY <1>1, <1>5, <2>1 DEF AlonePart, AloneDriver
  <2> QED
    BY <1>1, <1>5, <2>2, <2>3, <2>4, <2>5, RunUnchanged, DriverStep
<1>6. CASE /\ run' = [run EXCEPT !.writes[n] = results[d][n], !.status = "running", !.task = NoTask]
           /\ stale' = Drivers /\ pc' = [pc EXCEPT ![d] = "read"]
  <2> DEFINE w == results[d][n]
             ws == [run.writes EXCEPT ![n] = w]
  <2>1. pc' \in [Drivers -> Pcs] /\ pc'[d] = "read"
    BY <1>1, <1>4, <1>6 DEF TypePart
  <2>2. RunOK(run) /\ run \in Runs /\ run.writes \in [Nodes -> Writes] /\ run.cpNodes \subseteq Nodes
    BY <1>1, RunFields DEF TypePart, RunOK
  <2>3. Replaced(run', run, ws)
    BY <1>6, <2>2 DEF Runs, Replaced
  <2>4. Stored(ws, run, n, w)
    BY DEF Stored
  <2>5. WriteOK(w) /\ w # NoWrite
    BY <1>3
  <2> HIDE DEF w, ws
  <2>6. /\ RunOK(run') /\ run'.status = "running" /\ run'.task = NoTask
        /\ run'.cpNodes = run.cpNodes /\ run'.attempt = run.attempt /\ run'.writes = ws
    BY <1>3, <2>2, <2>3, <2>4, <2>5, ReplacedWriteOK
  <2>7. \A m \in Nodes : ws[m] = IF m = n THEN w ELSE run.writes[m]
    BY <2>2, <2>4 DEF Stored
  <2>8. TypePart'
    BY <1>1, <1>3, <1>6, <2>1, <2>6 DEF TypePart
  <2>9. DriverFrame(d)
    BY <1>1, <1>3, <1>4, <1>6 DEF DriverFrame
  <2>10. results'[d] = NoWrites
    <3>1. \A m \in Nodes : results'[d][m] = NoWrite
      BY <1>1, <1>2, <1>3 DEF FlowInv, DriverPart, CarriesResults, Produced
    <3>2. results'[d] \in [Nodes -> Writes]
      BY <1>3
    <3> QED
      BY <3>1, <3>2, Zenon DEF NoWrites
  <2>11. KnowsRun(d)' /\ CarriesResults(d)'
    BY <2>1, <2>10 DEF KnowsRun, CarriesResults
  <2>12. WaitingHasTask'
    BY <2>6 DEF WaitingHasTask
  <2>13. ASSUME AlonePart PROVE AloneRun' /\ AloneDriver(d)'
    <3>1. Written(run) /\ PendingTasks = {} /\ RanOnce
      BY <1>1, <2>13, ActiveHasNoTask DEF AlonePart, AloneDriver, AloneRun
    <3>2. Written(run') /\ FreshRun(run')
      BY <2>2, <2>5, <2>6, <2>7, <3>1 DEF Written, FreshRun
    <3>3. PendingTasks' = {}
      BY <1>1, <3>1 DEF PendingTasks
    <3>4. RanOnce'
      BY <1>1, <2>6, <3>1 DEF RanOnce
    <3>5. AloneRun'
      BY <2>6, <3>2, <3>3, <3>4 DEF AloneRun, PendingRests, WaitsWritten, Waits, AnsweredWritten, Written
    <3>6. FreshRun(run)'
      BY <1>1, <3>2 DEF FreshRun
    <3> QED
      BY <2>1, <3>5, <3>6 DEF AloneDriver
  <2> QED
    BY <2>8, <2>9, <2>11, <2>12, <2>13, DriverStep
<1> QED
  BY <1>2, <1>5, <1>6

(* A task is inserted or resolved together with the document.                *)
LEMMA PutTaskTypes ==
  ASSUME TypePart, NEW q, NEW id \in TaskIds, NEW s \in {"none", "pending", "completed", "cancelled"},
         PutTask(q, id, s)
  PROVE  /\ run' = q /\ stale' = Drivers
         /\ tasks' \in [TaskIds -> {"none", "pending", "completed", "cancelled"}]
         /\ tasks'[id] = s
         /\ s = "pending" => PendingTasks' = PendingTasks \cup {id}
         /\ s # "pending" => PendingTasks' = PendingTasks \ {id}
<1>1. run' = q /\ stale' = Drivers /\ tasks' = [t \in TaskIds |-> IF t = id THEN s ELSE tasks[t]]
  BY DEF PutTask, Put
<1>2. tasks' \in [TaskIds -> {"none", "pending", "completed", "cancelled"}] /\ tasks'[id] = s
  BY <1>1 DEF TypePart
<1> QED
  BY <1>1, <1>2 DEF PendingTasks

(* The driver puts the run to rest, or ends it, and returns.                 *)
LEMMA RestStep ==
  ASSUME FlowInv, NEW d \in Drivers, pc[d] = "write", Return(d), stale' = Drivers,
         UNCHANGED <<interrupts, ran, overlapped, up>>, RunOK(run'), WaitingHasTask',
         tasks' \in [TaskIds -> {"none", "pending", "completed", "cancelled"}],
         AlonePart => AloneRun'
  PROVE  FlowInv'
<1>1. TypePart
  BY DEF FlowInv
<1>2. TypePart'
  BY <1>1, ReturnTypes DEF TypePart
<1>3. DriverFrame(d)
  BY <1>1, ReturnTypes DEF DriverFrame, Pcs
<1>4. KnowsRun(d)' /\ CarriesResults(d)' /\ AloneDriver(d)'
  BY <1>1, ReturnTypes DEF KnowsRun, CarriesResults, AloneDriver
<1> QED
  BY <1>2, <1>3, <1>4, DriverStep

LEMMA DriveWriteInv ==
  ASSUME FlowInv, NEW d \in Drivers, DriveWrite(d)
  PROVE  FlowInv'
<1> DEFINE S == ReadyNodes(run)
           approvals == {n \in S : Kind[n] = "approval"}
<1>1. /\ TypePart /\ pc[d] = "write" /\ view[d] = run /\ ~Stops(run)
      /\ Settles(run) \/ (run.cpNodes = {} /\ ~Exhausted(run))
      /\ UNCHANGED <<interrupts, ran, overlapped, up>>
  BY DEF FlowInv, DriverPart, KnowsRun, DriveWrite
<1>2. /\ run \in Runs /\ RunOK(run) /\ run.status \in Active /\ S \in SUBSET Nodes
      /\ run.executions \in Nat /\ run.cpNodes \in SUBSET Nodes
  BY <1>1, RunFields DEF TypePart, RunOK, Stops, Active, Resting, Waits, ReadyNodes
<1>3. \/ Settles(run) /\ Put(Settled(run)) /\ UNCHANGED tasks /\ Return(d)
      \/ ~Settles(run) /\ S = {} /\ Put(Ended(run)) /\ UNCHANGED tasks /\ Return(d)
      \/ /\ ~Settles(run) /\ approvals # {} /\ Return(d)
         /\ PutTask(PauseForApproval(run, FirstOf(approvals)),
                    PauseForApproval(run, FirstOf(approvals)).task, "pending")
      \/ /\ ~Settles(run) /\ S # {} /\ run.executions + Cardinality(S) <= MaxNodeExecutions
         /\ Put(BeginSuperstep(run, S)) /\ Goto(d, "read")
         /\ UNCHANGED <<tasks, view, todo, results>>
      \/ Goto(d, "error") /\ UNCHANGED <<run, tasks, view, stale, todo, results>>
  BY <1>1 DEF DriveWrite
<1>4. approvals \in SUBSET Nodes
  BY <1>2
<1> HIDE DEF S, approvals
<1>5. CASE Settles(run) /\ Put(Settled(run)) /\ UNCHANGED tasks /\ Return(d)
  <2>1. run' = Settled(run) /\ stale' = Drivers
    BY <1>5 DEF Put
  <2>2. /\ RunOK(run') /\ run'.status \in {"cancelled", "paused"} /\ run'.attempt = run.attempt
        /\ Answered(run') # {} => Answered(run) # {} /\ (Written(run) => Written(run'))
    <3>1. CASE run.status = "cancel_requested"
      <4>1. run' = [CancelCheckpoint(run) EXCEPT !.status = "cancelled"]
        BY <2>1, <3>1 DEF Settled
      <4> QED
        BY <1>2, <4>1, CancelCheckpointOK DEF Answered
    <3>2. CASE run.status # "cancel_requested"
      <4>1. run' = [run EXCEPT !.status = "paused"] /\ "paused" \in Statuses
        BY <2>1, <3>2 DEF Settled, Statuses
      <4>2. RunOK(run') /\ run'.status = "paused" /\ SameWork(run', run)
        BY <1>2, <4>1, StatusOK
      <4> QED
        BY <4>2 DEF SameWork, Answered, Written
    <3> QED
      BY <3>1, <3>2
  <2>3. WaitingHasTask'
    BY <2>2 DEF WaitingHasTask
  <2>4. tasks' \in [TaskIds -> {"none", "pending", "completed", "cancelled"}]
    BY <1>1, <1>5 DEF TypePart
  <2>5. ASSUME AlonePart PROVE AloneRun'
    <3>1. PendingTasks = {} /\ AloneRun
      BY <1>2, <2>5, ActiveHasNoTask DEF AlonePart
    <3>2. PendingTasks' = {}
      BY <1>5, <3>1 DEF PendingTasks
    <3>3. RanOnce'
      BY <1>1, <2>2, <3>1 DEF AloneRun, RanOnce
    <3> QED
      BY <2>2, <3>1, <3>2, <3>3 DEF AloneRun, PendingRests, WaitsWritten, AnsweredWritten, Waits
  <2> QED
    BY <1>1, <1>5, <2>1, <2>2, <2>3, <2>4, <2>5, RestStep
<1>6. CASE ~Settles(run) /\ S = {} /\ Put(Ended(run)) /\ UNCHANGED tasks /\ Return(d)
  <2> DEFINE st == IF run.ready = {} THEN "succeeded" ELSE "failed"
  <2>1. run' = [run EXCEPT !.status = st] /\ stale' = Drivers
    BY <1>6 DEF Put, Ended
  <2>2. st \in Statuses /\ st \notin Waits
    BY DEF Statuses, Terminal, Waits
  <2> HIDE DEF st
  <2>3. RunOK(run') /\ run'.status = st /\ SameWork(run', run)
    BY <1>2, <2>1, <2>2, StatusOK
  <2>4. WaitingHasTask'
    BY <2>2, <2>3 DEF WaitingHasTask, Waits
  <2>5. tasks' \in [TaskIds -> {"none", "pending", "completed", "cancelled"}]
    BY <1>1, <1>6 DEF TypePart
  <2>6. ASSUME AlonePart PROVE AloneRun'
    <3>1. PendingTasks = {} /\ AloneRun
      BY <1>2, <2>6, ActiveHasNoTask DEF AlonePart
    <3>2. PendingTasks' = {}
      BY <1>6, <3>1 DEF PendingTasks
    <3>3. RanOnce' /\ AnsweredWritten'
      BY <1>1, <2>3, <3>1 DEF AloneRun, RanOnce, AnsweredWritten, SameWork, Answered, Written
    <3> QED
      BY <2>2, <2>3, <3>2, <3>3 DEF AloneRun, PendingRests, WaitsWritten
  <2> QED
    BY <1>1, <1>6, <2>1, <2>3, <2>4, <2>5, <2>6, RestStep
<1>7. CASE /\ ~Settles(run) /\ approvals # {} /\ Return(d)
           /\ PutTask(PauseForApproval(run, FirstOf(approvals)),
                      PauseForApproval(run, FirstOf(approvals)).task, "pending")
  <2> DEFINE n == FirstOf(approvals)
             next == PauseForApproval(run, n)
             id == next.task
  <2>1. n \in Nodes
    BY <1>4, <1>7, FirstOfNodes
  <2>2. run.cpNodes = {} /\ run.executions < MaxNodeExecutions
    BY <1>1, <1>2, <1>7, FlowAssumption DEF Exhausted
  <2> HIDE DEF n
  <2>3. /\ RunOK(next) /\ next.status = "waiting_approval" /\ next.waiting = n /\ next.cpNodes = {}
        /\ id \in TaskIds /\ id[1] = "approval"
        /\ \A m \in Nodes : next.attempt[m] >= run.attempt[m]
    BY <1>2, <2>1, <2>2, PauseForApprovalOK
  <2>4. PutTask(next, id, "pending")
    BY <1>7 DEF n
  <2> HIDE DEF next
  <2>5. id \in TaskIds /\ next.task = id
    BY <2>3
  <2> HIDE DEF id
  <2>6. /\ run' = next /\ stale' = Drivers /\ tasks'[id] = "pending"
        /\ tasks' \in [TaskIds -> {"none", "pending", "completed", "cancelled"}]
        /\ PendingTasks' = PendingTasks \cup {id}
    BY <1>1, <2>4, <2>5, PutTaskTypes
  <2>7. WaitingHasTask'
    <3>1. n # 0
      BY <2>1, FlowAssumption
    <3> QED
      BY <2>3, <2>5, <2>6, <3>1 DEF WaitingHasTask, Pending
  <2>8. ASSUME AlonePart PROVE AloneRun'
    <3>1. PendingTasks = {} /\ AloneRun
      BY <1>2, <2>8, ActiveHasNoTask DEF AlonePart
    <3>2. PendingRests'
      BY <2>3, <2>5, <2>6, <3>1 DEF PendingRests, Resting, Waits
    <3>3. RanOnce'
      <4>1. \A m \in Nodes : run.attempt[m] \in Nat /\ next.attempt[m] \in Nat /\ ran[m] \in Nat
        BY <1>1, <1>2, <2>3, RunFields DEF RunOK, TypePart
      <4> QED
        BY <1>1, <2>3, <2>6, <3>1, <4>1 DEF AloneRun, RanOnce
    <3>4. WaitsWritten' /\ AnsweredWritten'
      BY <2>3, <2>6 DEF WaitsWritten, AnsweredWritten, Written
    <3> QED
      BY <3>2, <3>3, <3>4 DEF AloneRun
  <2> QED
    BY <1>1, <1>7, <2>3, <2>6, <2>7, <2>8, RestStep
<1>8. CASE /\ ~Settles(run) /\ S # {} /\ run.executions + Cardinality(S) <= MaxNodeExecutions
           /\ Put(BeginSuperstep(run, S)) /\ Goto(d, "read")
           /\ UNCHANGED <<tasks, view, todo, results>>
  <2> DEFINE next == BeginSuperstep(run, S)
  <2>1. run' = next /\ stale' = Drivers /\ pc' = [pc EXCEPT ![d] = "read"]
    BY <1>8 DEF Put, Goto
  <2>2. run.cpNodes = {}
    BY <1>1, <1>8
  <2>3. /\ RunOK(next) /\ next.status = "running" /\ next.cpNodes = S
        /\ \A n \in Nodes : next.writes[n] = NoWrite
        /\ \A n \in Nodes : next.attempt[n] = IF n \in S THEN run.attempt[n] + 1 ELSE run.attempt[n]
    BY <1>2, <1>8, <2>2, BeginSuperstepOK
  <2> HIDE DEF next
  <2>4. pc' \in [Drivers -> Pcs] /\ pc'[d] = "read" /\ "read" \in Pcs
    BY <1>1, <2>1 DEF TypePart, Pcs
  <2>5. TypePart'
    BY <1>1, <1>8, <2>1, <2>3, <2>4 DEF TypePart
  <2>6. DriverFrame(d)
    BY <1>1, <1>8, <2>1, <2>4 DEF DriverFrame
  <2>7. results'[d] = NoWrites
    BY <1>1, <1>8 DEF FlowInv, DriverPart, CarriesResults
  <2>8. KnowsRun(d)' /\ CarriesResults(d)'
    BY <2>4, <2>7 DEF KnowsRun, CarriesResults
  <2>9. WaitingHasTask'
    BY <2>1, <2>3 DEF WaitingHasTask
  <2>10. ASSUME AlonePart PROVE AloneRun' /\ AloneDriver(d)'
    <3>1. PendingTasks = {} /\ RanOnce
      BY <1>2, <2>10, ActiveHasNoTask DEF AlonePart, AloneRun
    <3>2. PendingTasks' = {}
      BY <1>8, <3>1 DEF PendingTasks
    <3>3. \A m \in Nodes : run.attempt[m] \in Nat /\ ran[m] \in Nat /\ ran[m] <= run.attempt[m]
      BY <1>1, <1>2, <3>1, RunFields DEF TypePart, RanOnce
    <3>4. RanOnce'
      BY <1>1, <2>1, <2>3, <3>3 DEF RanOnce
    <3>5. FreshRun(run)'
      BY <1>1, <1>2, <2>1, <2>3, <3>3 DEF FreshRun
    <3>6. Answered(run') = {}
      BY <1>2, <2>1, <2>3 DEF Answered, NoWrite, Write
    <3>7. AloneRun'
      BY <2>1, <2>3, <3>2, <3>4, <3>6 DEF AloneRun, PendingRests, WaitsWritten, Waits, AnsweredWritten
    <3> QED
      BY <2>4, <3>5, <3>7 DEF AloneDriver
  <2> QED
    BY <2>5, <2>6, <2>8, <2>9, <2>10, DriverStep
<1>9. CASE Goto(d, "error") /\ UNCHANGED <<run, tasks, view, stale, todo, results>>
  <2>1. pc' = [pc EXCEPT ![d] = "error"]
    BY <1>9 DEF Goto
  <2>2. pc' \in [Drivers -> Pcs] /\ pc'[d] = "error" /\ "error" \in Pcs
    BY <1>1, <2>1 DEF TypePart, Pcs
  <2>3. TypePart'
    BY <1>1, <1>9, <2>2 DEF TypePart
  <2>4. DriverFrame(d)
    BY <1>1, <1>9, <2>1, <2>2 DEF DriverFrame
  <2>5. KnowsRun(d)' /\ CarriesResults(d)' /\ AloneDriver(d)'
    BY <1>2, <1>9, <2>2 DEF KnowsRun, CarriesResults, AloneDriver
  <2> QED
    BY <1>1, <1>9, <2>3, <2>4, <2>5, RunUnchanged, DriverStep
<1> QED
  BY <1>3, <1>5, <1>6, <1>7, <1>8, <1>9

(* The superstep is committed and the driver goes round.                     *)
LEMMA CommitStep ==
  ASSUME FlowInv, NEW d \in Drivers, pc[d] = "commit", pc' = [pc EXCEPT ![d] = "read"],
         stale' = Drivers, UNCHANGED <<view, todo, results, interrupts, ran, overlapped, up>>,
         RunOK(run'), WaitingHasTask',
         tasks' \in [TaskIds -> {"none", "pending", "completed", "cancelled"}],
         AlonePart => AloneRun' /\ (run'.status \in Active => FreshRun(run)')
  PROVE  FlowInv'
<1>1. TypePart
  BY DEF FlowInv
<1>2. pc' \in [Drivers -> Pcs] /\ pc'[d] = "read" /\ "read" \in Pcs
  BY <1>1 DEF TypePart, Pcs
<1>3. TypePart'
  BY <1>1, <1>2 DEF TypePart
<1>4. DriverFrame(d)
  BY <1>2 DEF DriverFrame
<1>5. results'[d] = NoWrites
  BY DEF FlowInv, DriverPart, CarriesResults
<1>6. KnowsRun(d)' /\ CarriesResults(d)'
  BY <1>2, <1>5 DEF KnowsRun, CarriesResults
<1>7. AlonePart => AloneDriver(d)'
  BY <1>2 DEF AloneDriver
<1> QED
  BY <1>3, <1>4, <1>6, <1>7, DriverStep

LEMMA CommitInv ==
  ASSUME FlowInv, NEW d \in Drivers, Commit(d)
  PROVE  FlowInv'
<1> DEFINE blocked == Interrupted(run)
           waiting == PauseForInterrupt(run, FirstOf(blocked))
<1>1. /\ TypePart /\ pc[d] = "commit" /\ view[d] = run /\ run.cpNodes # {}
      /\ UNCHANGED <<view, todo, results, interrupts, ran, overlapped, up>>
  BY DEF FlowInv, DriverPart, KnowsRun, Commit
<1>2. /\ run \in Runs /\ RunOK(run) /\ run.cpNodes \in SUBSET Nodes /\ blocked \in SUBSET Nodes
      /\ tasks \in [TaskIds -> {"none", "pending", "completed", "cancelled"}]
  BY <1>1, RunFields DEF TypePart, RunOK, Interrupted
<1>3. AlonePart => PendingTasks = {} /\ AloneRun
  BY <1>1, ActiveHasNoTask DEF AlonePart, AloneDriver
<1>4. \/ /\ Put([CancelCheckpoint(run) EXCEPT !.status = "cancelled"])
         /\ UNCHANGED tasks /\ Goto(d, "read")
      \/ Goto(d, "error") /\ UNCHANGED <<run, tasks, stale>>
      \/ /\ Written(run) /\ blocked # {}
         /\ PutTask(waiting, waiting.task, "pending") /\ Goto(d, "read")
      \/ \E T \in MatchingEdges(Routable(run)) :
           /\ CommitSuperstep(run, T).status = "waiting_human" /\ Goto(d, "read")
           /\ PutTask(CommitSuperstep(run, T), CommitSuperstep(run, T).task, "pending")
      \/ \E T \in MatchingEdges(Routable(run)) :
           /\ CommitSuperstep(run, T).status # "waiting_human" /\ Goto(d, "read")
           /\ Put(CommitSuperstep(run, T)) /\ UNCHANGED tasks
  BY <1>1 DEF Commit, Written
<1> HIDE DEF blocked, waiting
<1>5. CASE /\ Put([CancelCheckpoint(run) EXCEPT !.status = "cancelled"])
           /\ UNCHANGED tasks /\ Goto(d, "read")
  <2>1. /\ run' = [CancelCheckpoint(run) EXCEPT !.status = "cancelled"]
        /\ stale' = Drivers /\ tasks' = tasks /\ pc' = [pc EXCEPT ![d] = "read"]
    BY <1>5 DEF Put, Goto
  <2>2. RunOK(run') /\ run'.status = "cancelled" /\ run'.cpNodes = {} /\ run'.attempt = run.attempt
    BY <1>2, <2>1, CancelCheckpointOK
  <2>3. WaitingHasTask'
    BY <2>2 DEF WaitingHasTask
  <2>4. ASSUME AlonePart PROVE AloneRun'
    <3>1. PendingTasks' = {}
      BY <1>3, <2>1, <2>4 DEF PendingTasks
    <3>2. RanOnce'
      BY <1>1, <1>3, <2>2, <2>4 DEF AloneRun, RanOnce
    <3> QED
      BY <2>2, <3>1, <3>2 DEF AloneRun, PendingRests, WaitsWritten, AnsweredWritten, Written
  <2>5. run'.status \notin Active
    BY <2>2 DEF Active, Terminal
  <2> QED
    BY <1>1, <1>2, <2>1, <2>2, <2>3, <2>4, <2>5, CommitStep
<1>6. CASE Goto(d, "error") /\ UNCHANGED <<run, tasks, stale>>
  <2>1. pc' = [pc EXCEPT ![d] = "error"]
    BY <1>6 DEF Goto
  <2>2. pc' \in [Drivers -> Pcs] /\ pc'[d] = "error" /\ "error" \in Pcs
    BY <1>1, <2>1 DEF TypePart, Pcs
  <2>3. TypePart'
    BY <1>1, <1>6, <2>2 DEF TypePart
  <2>4. DriverFrame(d)
    BY <1>1, <1>6, <2>1, <2>2 DEF DriverFrame
  <2>5. KnowsRun(d)' /\ CarriesResults(d)'
    BY <2>2 DEF KnowsRun, CarriesResults
  <2>6. AlonePart => AloneDriver(d)'
    BY <1>1, <1>6, <2>2 DEF AlonePart, AloneDriver
  <2> QED
    BY <1>1, <1>6, <2>3, <2>4, <2>5, <2>6, RunUnchanged, DriverStep
<1>7. CASE /\ Written(run) /\ blocked # {}
           /\ PutTask(waiting, waiting.task, "pending") /\ Goto(d, "read")
  <2> DEFINE n == FirstOf(blocked)
             id == waiting.task
  <2>1. n \in blocked
    BY <1>2, <1>7, FirstOfNodes
  <2>2. n \in run.cpNodes /\ run.writes[n].kind = "interrupt"
    BY <2>1 DEF blocked, Interrupted
  <2>3. waiting = PauseForInterrupt(run, n)
    BY DEF waiting
  <2> HIDE DEF n
  <2>4. /\ RunOK(waiting) /\ waiting.status = "waiting_human" /\ waiting.cpNodes = run.cpNodes
        /\ waiting.writes = run.writes /\ waiting.attempt = run.attempt
        /\ id \in TaskIds /\ id[1] = "interrupt" /\ id[2] = run.writes[n].id
    BY <1>2, <2>2, <2>3, PauseForInterruptOK
  <2>5. PutTask(waiting, id, "pending") /\ waiting.task = id
    BY <1>7
  <2> HIDE DEF id
  <2>6. /\ run' = waiting /\ stale' = Drivers /\ tasks'[id] = "pending"
        /\ tasks' \in [TaskIds -> {"none", "pending", "completed", "cancelled"}]
        /\ PendingTasks' = PendingTasks \cup {id}
    BY <1>1, <2>4, <2>5, PutTaskTypes
  <2>7. WaitingHasTask'
    <3>1. n \in run'.cpNodes /\ run'.writes[n].kind = "interrupt" /\ run'.writes[n].id = run'.task[2]
      BY <2>2, <2>4, <2>5, <2>6
    <3> QED
      BY <2>4, <2>5, <2>6, <3>1 DEF WaitingHasTask, Pending
  <2>8. ASSUME AlonePart PROVE AloneRun'
    <3>1. PendingRests'
      BY <1>3, <2>4, <2>5, <2>6, <2>8 DEF PendingRests, Resting, Waits
    <3>2. RanOnce'
      BY <1>1, <1>3, <2>4, <2>6, <2>8 DEF AloneRun, RanOnce
    <3>3. Written(run')
      BY <1>7, <2>4, <2>6 DEF Written
    <3>4. WaitsWritten' /\ AnsweredWritten'
      BY <3>3 DEF WaitsWritten, AnsweredWritten, Written
    <3> QED
      BY <3>1, <3>2, <3>4 DEF AloneRun
  <2>9. run'.status \notin Active
    BY <2>4, <2>6 DEF Active, Resting, Waits
  <2> QED
    BY <1>1, <1>7, <2>4, <2>6, <2>7, <2>8, <2>9, CommitStep DEF Goto
<1>8. ASSUME NEW T \in MatchingEdges(Routable(run)),
             CommitSuperstep(run, T).status = "waiting_human", Goto(d, "read"),
             PutTask(CommitSuperstep(run, T), CommitSuperstep(run, T).task, "pending")
      PROVE  FlowInv'
  <2> DEFINE next == CommitSuperstep(run, T)
             id == next.task
  <2>1. T \in SUBSET DOMAIN Edges
    BY DEF MatchingEdges
  <2>2. /\ RunOK(next) /\ next.cpNodes = {} /\ next.attempt = run.attempt
        /\ next.status = "waiting_human" /\ id \in TaskIds /\ id[1] = "review"
    BY <1>1, <1>2, <1>8, <2>1, CommitSuperstepOK
  <2>3. PutTask(next, id, "pending")
    BY <1>8
  <2> HIDE DEF next
  <2>4. next.task = id
    OBVIOUS
  <2> HIDE DEF id
  <2>5. /\ run' = next /\ stale' = Drivers /\ tasks'[id] = "pending"
        /\ tasks' \in [TaskIds -> {"none", "pending", "completed", "cancelled"}]
        /\ PendingTasks' = PendingTasks \cup {id}
    BY <1>1, <2>2, <2>3, PutTaskTypes
  <2>6. WaitingHasTask'
    BY <2>2, <2>4, <2>5 DEF WaitingHasTask, Pending
  <2>7. ASSUME AlonePart PROVE AloneRun'
    <3>1. PendingRests'
      BY <1>3, <2>2, <2>4, <2>5, <2>7 DEF PendingRests, Resting, Waits
    <3>2. RanOnce'
      BY <1>1, <1>3, <2>2, <2>5, <2>7 DEF AloneRun, RanOnce
    <3>3. WaitsWritten' /\ AnsweredWritten'
      BY <2>2, <2>5 DEF WaitsWritten, AnsweredWritten, Written
    <3> QED
      BY <3>1, <3>2, <3>3 DEF AloneRun
  <2>8. run'.status \notin Active
    BY <2>2, <2>5 DEF Active, Resting, Waits
  <2> QED
    BY <1>1, <1>8, <2>2, <2>5, <2>6, <2>7, <2>8, CommitStep DEF Goto
<1>9. ASSUME NEW T \in MatchingEdges(Routable(run)),
             CommitSuperstep(run, T).status # "waiting_human", Goto(d, "read"),
             Put(CommitSuperstep(run, T)), UNCHANGED tasks
      PROVE  FlowInv'
  <2>1. T \in SUBSET DOMAIN Edges
    BY DEF MatchingEdges
  <2>2. run' = CommitSuperstep(run, T) /\ stale' = Drivers
    BY <1>9 DEF Put
  <2>3. /\ RunOK(run') /\ run'.cpNodes = {} /\ run'.attempt = run.attempt
        /\ run'.status \notin Waits
    BY <1>1, <1>2, <1>9, <2>1, <2>2, CommitSuperstepOK DEF Waits
  <2>4. WaitingHasTask'
    BY <2>3 DEF WaitingHasTask, Waits
  <2>5. ASSUME AlonePart PROVE AloneRun' /\ FreshRun(run)'
    <3>1. PendingTasks' = {}
      BY <1>3, <1>9, <2>5 DEF PendingTasks
    <3>2. RanOnce'
      BY <1>1, <1>3, <2>3, <2>5 DEF AloneRun, RanOnce
    <3> QED
      BY <2>3, <3>1, <3>2 DEF AloneRun, PendingRests, WaitsWritten, AnsweredWritten, Written, FreshRun
  <2> QED
    BY <1>1, <1>2, <1>9, <2>2, <2>3, <2>4, <2>5, CommitStep DEF Goto
<1> QED
  BY <1>4, <1>5, <1>6, <1>7, <1>8, <1>9

-----------------------------------------------------------------------------
(* Operators                                                                 *)

(* Where the run is at rest no driver, if there is only one, is past reading *)
(* it.                                                                       *)
LEMMA RestingDrivers ==
  ASSUME AlonePart, run.status \notin Active
  PROVE  \A d \in Drivers : pc[d] \in {"idle", "read"}
BY DEF AlonePart, AloneDriver

(* The request ends or parks a run that rested.                              *)
LEMMA ParkStep ==
  ASSUME FlowInv, OperatorFrame, UNCHANGED <<pc, interrupts, overlapped, up>>, RunOK(run'),
         tasks' \in [TaskIds -> {"none", "pending", "completed", "cancelled"}],
         run'.status \notin Active \cup Waits,
         AlonePart => run.status \notin Active /\ AloneRun'
  PROVE  FlowInv'
<1>1. TypePart'
  BY DEF FlowInv, TypePart, OperatorFrame
<1>2. WaitingHasTask'
  BY DEF WaitingHasTask, Waits
<1>3. ASSUME AlonePart PROVE \A d \in Drivers : AloneDriver(d)'
  <2>1. \A d \in Drivers : pc'[d] \in {"idle", "read"}
    BY <1>3, RestingDrivers
  <2> QED
    BY <2>1 DEF AloneDriver
<1> QED
  BY <1>1, <1>2, <1>3, QuietStep

(* The request sets the run going again and spawns a driver.                 *)
LEMMA SpawnRunStep ==
  ASSUME FlowInv, OperatorFrame, Spawn, UNCHANGED <<interrupts, up>>, RunOK(run'),
         tasks' \in [TaskIds -> {"none", "pending", "completed", "cancelled"}],
         run'.status \notin Waits, AlonePart => AloneRun' /\ FreshRun(run)'
  PROVE  FlowInv'
<1>1. pc' \in [Drivers -> Pcs] /\ overlapped' \in BOOLEAN
  BY DEF FlowInv, TypePart, Spawn, Pcs
<1>2. TypePart'
  BY <1>1 DEF FlowInv, TypePart, OperatorFrame
<1>3. WaitingHasTask'
  BY DEF WaitingHasTask, Waits
<1> QED
  BY <1>2, <1>3, SpawnStep

LEMMA PauseRunInv ==
  ASSUME FlowInv, PauseRun
  PROVE  FlowInv'
<1>1. /\ TypePart /\ run.status \in Active /\ run' = [run EXCEPT !.status = "pause_requested"]
      /\ stale' = Drivers
      /\ UNCHANGED <<tasks, pc, view, todo, results, interrupts, ran, overlapped, up>>
  BY DEF FlowInv, PauseRun, Put, Active, Statuses, Terminal, Resting, Waits
<1>2. "pause_requested" \in Active /\ "pause_requested" \in Statuses /\ "pause_requested" \notin Waits
  BY DEF Active, Statuses, Terminal, Resting, Waits
<1>3. RunOK(run') /\ run'.status = "pause_requested" /\ SameWork(run', run)
  BY <1>1, <1>2, StatusOK DEF TypePart
<1>4. TypePart'
  BY <1>1, <1>3 DEF TypePart
<1>5. WaitingHasTask'
  BY <1>3 DEF WaitingHasTask
<1>6. OperatorFrame
  BY <1>1 DEF OperatorFrame
<1>7. ASSUME AlonePart PROVE AloneRun' /\ \A d \in Drivers : AloneDriver(d)'
  <2>1. PendingTasks' = {}
    BY <1>1, <1>7, ActiveHasNoTask DEF PendingTasks
  <2>2. AnsweredWritten' /\ RanOnce'
    BY <1>1, <1>3, <1>7 DEF AlonePart, AloneRun, AnsweredWritten, RanOnce, SameWork, Answered, Written
  <2>3. AloneRun'
    BY <1>2, <1>3, <2>1, <2>2 DEF AloneRun, PendingRests, WaitsWritten
  <2>4. \A d \in Drivers : AloneDriver(d)'
    <3> SUFFICES ASSUME NEW d \in Drivers PROVE AloneDriver(d)'
      OBVIOUS
    <3>1. AloneDriver(d)
      BY <1>7 DEF AlonePart
    <3> QED
      BY <1>1, <1>2, <1>3, <3>1 DEF AloneDriver, FreshRun, Written, Produced, SameWork
  <2> QED
    BY <2>3, <2>4
<1> QED
  BY <1>1, <1>4, <1>5, <1>6, <1>7, QuietStep

(* The pending task of the run is closed with it.                            *)
LEMMA CloseTaskTypes ==
  ASSUME TypePart, NEW s \in {"completed", "cancelled"}, CloseTask(s)
  PROVE  /\ tasks' \in [TaskIds -> {"none", "pending", "completed", "cancelled"}]
         /\ PendingTasks' = {}
<1>1. tasks' = [t \in TaskIds |-> IF tasks[t] = "pending" THEN s ELSE tasks[t]]
  BY DEF CloseTask
<1>2. tasks' \in [TaskIds -> {"none", "pending", "completed", "cancelled"}]
  BY <1>1 DEF TypePart
<1>3. \A t \in TaskIds : tasks'[t] # "pending"
  BY <1>1
<1> QED
  BY <1>2, <1>3 DEF PendingTasks

LEMMA CancelRunInv ==
  ASSUME FlowInv, CancelRun
  PROVE  FlowInv'
<1>1. /\ TypePart /\ run.status \notin Terminal /\ CloseTask("cancelled")
      /\ UNCHANGED <<pc, view, todo, results, interrupts, ran, overlapped, up>>
  BY DEF FlowInv, CancelRun
<1>2. PICK resting \in {{"paused", "waiting_approval", "waiting_human"},
                        {"paused", "waiting_approval"}} :
        Put([run EXCEPT !.status = IF @ \in resting THEN "cancelled" ELSE "cancel_requested",
                        !.task = NoTask])
  BY DEF CancelRun
<1> DEFINE st == IF run.status \in resting THEN "cancelled" ELSE "cancel_requested"
<1>3. Restated(run', run, st, NoTask) /\ stale' = Drivers
  BY <1>2 DEF Put, Restated
<1>4. st \in {"cancelled", "cancel_requested"} /\ (run.status \in Active => st = "cancel_requested")
  BY <1>2 DEF Active, Resting, Waits
<1> HIDE DEF st
<1>5. /\ st \in Statuses /\ st \notin Waits /\ NoTask \in TaskIds \cup {NoTask}
      /\ "cancel_requested" \in Active /\ "cancelled" \notin Active
  BY <1>4 DEF Active, Statuses, Terminal, Resting, Waits
<1>6. RunOK(run') /\ run'.status = st /\ SameWork(run', run)
  <2>1. RunOK(run)
    BY <1>1 DEF TypePart
  <2> QED
    BY <2>1, <1>3, <1>5, RestatedOK
<1>7. TypePart'
  BY <1>1, <1>3, <1>6, CloseTaskTypes DEF TypePart
<1>8. WaitingHasTask'
  BY <1>5, <1>6 DEF WaitingHasTask, Waits
<1>9. OperatorFrame
  BY <1>1, <1>3 DEF OperatorFrame
<1>10. ASSUME AlonePart PROVE AloneRun' /\ \A d \in Drivers : AloneDriver(d)'
  <2>1. PendingTasks' = {}
    BY <1>1, CloseTaskTypes
  <2>2. AnsweredWritten' /\ RanOnce'
    BY <1>1, <1>6, <1>10 DEF AlonePart, AloneRun, AnsweredWritten, RanOnce, SameWork, Answered, Written
  <2>3. AloneRun'
    BY <1>5, <1>6, <2>1, <2>2 DEF AloneRun, PendingRests, WaitsWritten
  <2>4. \A d \in Drivers : AloneDriver(d)'
    <3> SUFFICES ASSUME NEW d \in Drivers PROVE AloneDriver(d)'
      OBVIOUS
    <3>1. AloneDriver(d) /\ (run.status \in Waits => Written(run))
      BY <1>10 DEF AlonePart, AloneRun, WaitsWritten
    <3>2. CASE run.status \in Active
      BY <1>1, <1>4, <1>5, <1>6, <3>1, <3>2 DEF AloneDriver, FreshRun, Written, Produced, SameWork
    <3>3. CASE run.status \notin Active
      <4>1. pc'[d] \in {"idle", "read"}
        BY <1>1, <1>10, <3>3, RestingDrivers
      <4>2. run'.status \in Active => Written(run')
        <5>1. run.status \in Waits \/ run.status = "paused"
          BY <1>1, <3>3, RunFields DEF Active, Resting, TypePart, RunOK
        <5>2. run.status = "paused" => st = "cancelled"
          BY <1>2 DEF st
        <5> QED
          BY <1>5, <1>6, <3>1, <5>1, <5>2 DEF SameWork, Written
      <4> QED
        BY <4>1, <4>2 DEF AloneDriver, FreshRun, Written
    <3> QED
      BY <3>2, <3>3
  <2> QED
    BY <2>3, <2>4
<1> QED
  BY <1>1, <1>7, <1>8, <1>9, <1>10, QuietStep

(* The task of the run is resolved: nothing is pending any more.             *)
LEMMA ResolvedTask ==
  ASSUME TypePart, Pending(run.task), NEW q, NEW s \in {"completed", "cancelled"},
         PutTask(q, run.task, s)
  PROVE  /\ run' = q /\ stale' = Drivers
         /\ tasks' \in [TaskIds -> {"none", "pending", "completed", "cancelled"}]
         /\ AlonePart => PendingTasks' = {} /\ run.status \in Resting
<1> DEFINE id == run.task
<1>1. id \in TaskIds /\ id \in PendingTasks /\ PutTask(q, id, s)
  BY DEF Pending, PendingTasks
<1>2. s \in {"none", "pending", "completed", "cancelled"} /\ s # "pending"
  OBVIOUS
<1>3. AlonePart => run.status \in Resting /\ \A t \in PendingTasks : t = id
  BY <1>1 DEF AlonePart, AloneRun, PendingRests
<1> HIDE DEF id
<1>4. /\ run' = q /\ stale' = Drivers
      /\ tasks' \in [TaskIds -> {"none", "pending", "completed", "cancelled"}]
      /\ PendingTasks' = PendingTasks \ {id}
  BY <1>1, <1>2, PutTaskTypes
<1> QED
  BY <1>3, <1>4

(* The answer to a task ends the run.                                        *)
LEMMA AnswerEnds ==
  ASSUME FlowInv, Pending(run.task), NEW s \in {"completed", "cancelled"},
         NEW st \in {"succeeded", "cancelled"}, NEW q, Restated(q, run, st, NoTask),
         PutTask(q, run.task, s),
         UNCHANGED <<pc, view, todo, results, interrupts, ran, overlapped, up>>
  PROVE  FlowInv'
<1>1. TypePart
  BY DEF FlowInv
<1>2. /\ run' = q /\ stale' = Drivers
      /\ tasks' \in [TaskIds -> {"none", "pending", "completed", "cancelled"}]
      /\ AlonePart => PendingTasks' = {} /\ run.status \in Resting
  BY <1>1, ResolvedTask
<1>3. st \in Statuses /\ st \notin Active \cup Waits /\ NoTask \in TaskIds \cup {NoTask}
  BY DEF Active, Statuses, Terminal, Resting, Waits
<1>4. RunOK(run') /\ run'.status = st /\ SameWork(run', run)
  <2>1. RunOK(run) /\ Restated(run', run, st, NoTask)
    BY <1>1, <1>2 DEF TypePart
  <2> QED
    BY <2>1, <1>3, RestatedOK
<1>5. OperatorFrame
  BY <1>2 DEF OperatorFrame
<1>6. ASSUME AlonePart PROVE run.status \notin Active /\ AloneRun'
  <2>1. PendingTasks' = {} /\ run.status \notin Active
    BY <1>2, <1>6 DEF Active
  <2>2. AnsweredWritten' /\ RanOnce'
    BY <1>4, <1>6 DEF AlonePart, AloneRun, AnsweredWritten, RanOnce, SameWork, Answered, Written
  <2> QED
    BY <1>3, <1>4, <2>1, <2>2 DEF AloneRun, PendingRests, WaitsWritten
<1> QED
  BY <1>2, <1>3, <1>4, <1>5, <1>6, ParkStep

LEMMA CancelTaskInv ==
  ASSUME FlowInv, CancelTask
  PROVE  FlowInv'
<1> DEFINE q == [run EXCEPT !.status = "cancelled", !.task = NoTask]
<1>1. /\ Pending(run.task) /\ PutTask(q, run.task, "cancelled")
      /\ UNCHANGED <<pc, view, todo, results, interrupts, ran, overlapped, up>>
  BY DEF CancelTask
<1>2. Restated(q, run, "cancelled", NoTask)
  BY DEF Restated
<1> HIDE DEF q
<1> QED
  BY <1>1, <1>2, AnswerEnds

LEMMA ReviewOutputInv ==
  ASSUME FlowInv, ReviewOutput
  PROVE  FlowInv'
<1>1. PICK verdict \in {"succeeded", "cancelled"} :
        PutTask([run EXCEPT !.status = verdict, !.task = NoTask], run.task, "completed")
  BY DEF ReviewOutput
<1> DEFINE q == [run EXCEPT !.status = verdict, !.task = NoTask]
<1>2. /\ Pending(run.task) /\ PutTask(q, run.task, "completed")
      /\ UNCHANGED <<pc, view, todo, results, interrupts, ran, overlapped, up>>
  BY <1>1 DEF ReviewOutput
<1>3. Restated(q, run, verdict, NoTask)
  BY DEF Restated
<1> HIDE DEF q
<1> QED
  BY <1>2, <1>3, AnswerEnds

LEMMA RejectInv ==
  ASSUME FlowInv, Reject
  PROVE  FlowInv'
<1> DEFINE n == run.waiting
           nd == [run.node EXCEPT ![n] = "cancelled"]
           q == [run EXCEPT !.node[n] = "cancelled", !.status = "cancelled", !.waiting = 0,
                            !.task = NoTask]
<1>1. /\ TypePart /\ RunOK(run) /\ run.status = "waiting_approval"
      /\ Pending(run.task) /\ n \in Nodes /\ PutTask(q, run.task, "completed")
      /\ UNCHANGED <<pc, view, todo, results, interrupts, ran, overlapped, up>>
  <2>1. TypePart /\ RunOK(run) /\ run \in Runs
    BY DEF FlowInv, TypePart, RunOK
  <2> QED
    BY <2>1, RunFields DEF FlowInv, WaitingHasTask, Reject
<1>2. Decided(q, run, nd, run.outputs, "cancelled") /\ SetNode(nd, run, n, "cancelled")
      /\ run.outputs \in SUBSET Nodes
  <2>1. run \in Runs /\ run.outputs \in SUBSET Nodes
    BY <1>1, RunFields DEF RunOK
  <2> QED
    BY <2>1 DEF Runs, Decided, SetNode
<1> DEFINE o == run.outputs
<1>3. n = run.waiting /\ o \in SUBSET Nodes /\ Decided(q, run, nd, o, "cancelled")
  BY <1>2
<1> HIDE DEF nd, q, n, o
<1>4. "cancelled" \in NodeStatuses /\ "cancelled" \in Statuses /\ "cancelled" \notin Active \cup Waits
  BY DEF NodeStatuses, Statuses, Terminal, Active, Waits
<1>5. /\ RunOK(q) /\ q.status = "cancelled" /\ q.cpNodes = run.cpNodes
      /\ q.attempt = run.attempt /\ q.writes = run.writes
  BY <1>1, <1>2, <1>3, <1>4, DecidedOK
<1>6. /\ run' = q /\ stale' = Drivers
      /\ tasks' \in [TaskIds -> {"none", "pending", "completed", "cancelled"}]
      /\ AlonePart => PendingTasks' = {}
  BY <1>1, ResolvedTask
<1>7. OperatorFrame
  BY <1>1, <1>6 DEF OperatorFrame
<1>8. ASSUME AlonePart PROVE run.status \notin Active /\ AloneRun'
  <2>1. run.status \notin Active
    BY <1>1 DEF Active, Resting, Waits
  <2>2. AnsweredWritten' /\ RanOnce'
    BY <1>1, <1>5, <1>6, <1>8 DEF AlonePart, AloneRun, AnsweredWritten, RanOnce, Answered, Written
  <2> QED
    BY <1>4, <1>5, <1>6, <1>8, <2>1, <2>2 DEF AloneRun, PendingRests, WaitsWritten
<1> QED
  BY <1>1, <1>4, <1>5, <1>6, <1>7, <1>8, ParkStep

(* A superstep that is run again has a fresh attempt for whatever has no     *)
(* result.                                                                   *)
LEMMA RetriedRun ==
  ASSUME TypePart, AloneRun, MayRetry(run), PendingTasks' = {}, ran' = ran,
         run' = [PrepareFlowResume(run) EXCEPT !.status = "running"]
  PROVE  AloneRun' /\ FreshRun(run)'
<1>1. RunOK(run) /\ run.cpNodes \in SUBSET Nodes /\ run.attempt \in [Nodes -> Nat]
      /\ ran \in [Nodes -> Nat]
  BY RunFields DEF TypePart, RunOK
<1>2. /\ RunOK(run') /\ run'.status = "running" /\ run'.cpNodes = run.cpNodes
      /\ Retried(run', run) /\ \A n \in Nodes : run'.attempt[n] >= run.attempt[n]
  BY <1>1, PrepareFlowResumeOK
<1>3. \A n \in Nodes : ran[n] <= run.attempt[n] /\ run'.attempt[n] \in Nat
  BY <1>2, RunFields DEF AloneRun, RanOnce, RunOK
<1>4. RanOnce'
  BY <1>1, <1>2, <1>3 DEF RanOnce
<1>5. FreshRun(run)'
  <2>1. \A n \in Nodes : Completed(run.writes[n]) => run.writes[n] # NoWrite
    BY DEF Completed, NoWrite, Write
  <2> QED
    BY <1>1, <1>2, <1>3, <2>1 DEF FreshRun, Retried
<1>6. Answered(run') = {}
  <2>1. \A n \in run.cpNodes : run'.writes[n].kind # "interrupt"
    BY <1>2 DEF Completed, NoWrite, Write, Retried
  <2> QED
    BY <1>2, <2>1 DEF Answered
<1> QED
  BY <1>2, <1>4, <1>5, <1>6 DEF AloneRun, PendingRests, WaitsWritten, Waits, AnsweredWritten

LEMMA ResumeRunInv ==
  ASSUME FlowInv, ResumeRun
  PROVE  FlowInv'
<1>1. /\ TypePart /\ RunOK(run) /\ MayRetry(run) /\ CloseTask("completed") /\ Spawn
      /\ run' = [PrepareFlowResume(run) EXCEPT !.status = "running"] /\ stale' = Drivers
      /\ UNCHANGED <<interrupts, ran, up>> /\ UNCHANGED <<view, todo, results>>
  BY DEF FlowInv, TypePart, ResumeRun, Put, Spawn
<1>2. RunOK(run') /\ run'.status = "running"
  BY <1>1, PrepareFlowResumeOK
<1>3. /\ tasks' \in [TaskIds -> {"none", "pending", "completed", "cancelled"}]
      /\ PendingTasks' = {}
  BY <1>1, CloseTaskTypes
<1>4. AlonePart => AloneRun' /\ FreshRun(run)'
  BY <1>1, <1>3, RetriedRun DEF AlonePart
<1>5. OperatorFrame
  BY <1>1 DEF OperatorFrame
<1>6. run'.status \notin Waits
  BY <1>2 DEF Waits
<1> QED
  BY <1>1, <1>2, <1>3, <1>4, <1>5, <1>6, SpawnRunStep

LEMMA RetryRecoveryInv ==
  ASSUME FlowInv, RetryRecovery
  PROVE  FlowInv'
<1>1. /\ TypePart /\ RunOK(run) /\ Pending(run.task) /\ Spawn
      /\ UNCHANGED <<interrupts, ran, up>> /\ UNCHANGED <<view, todo, results>>
  BY DEF FlowInv, TypePart, RetryRecovery, Spawn
<1>2. CASE Answered(run) # {}
  <2> DEFINE q == [run EXCEPT !.status = "resuming", !.task = NoTask]
  <2>1. PutTask(q, run.task, "completed")
    BY <1>2 DEF RetryRecovery
  <2>2. Restated(q, run, "resuming", NoTask)
    BY DEF Restated
  <2>3. "resuming" \in Statuses /\ "resuming" \notin Waits /\ NoTask \in TaskIds \cup {NoTask}
    BY DEF Statuses, Waits
  <2> HIDE DEF q
  <2>4. RunOK(q) /\ q.status = "resuming" /\ SameWork(q, run)
    BY <1>1, <2>2, <2>3, RestatedOK
  <2>5. /\ run' = q /\ stale' = Drivers
        /\ tasks' \in [TaskIds -> {"none", "pending", "completed", "cancelled"}]
        /\ AlonePart => PendingTasks' = {}
    BY <1>1, <2>1, ResolvedTask
  <2>6. OperatorFrame
    BY <1>1, <2>5 DEF OperatorFrame
  <2>7. ASSUME AlonePart PROVE AloneRun' /\ FreshRun(run)'
    <3>1. Written(run') /\ RanOnce'
      BY <1>1, <1>2, <2>4, <2>5, <2>7 DEF AlonePart, AloneRun, AnsweredWritten, RanOnce, SameWork, Written
    <3> QED
      BY <2>3, <2>4, <2>5, <2>7, <3>1
         DEF AloneRun, PendingRests, WaitsWritten, AnsweredWritten, FreshRun, Written
  <2> QED
    BY <1>1, <2>3, <2>4, <2>5, <2>6, <2>7, SpawnRunStep
<1>3. CASE Answered(run) = {}
  <2> DEFINE q == [PrepareFlowResume(run) EXCEPT !.status = "running"]
  <2>1. PutTask(q, run.task, "completed") /\ MayRetry(run)
    BY <1>3 DEF RetryRecovery
  <2>2. RunOK(q) /\ q.status = "running"
    BY <1>1, <2>1, PrepareFlowResumeOK
  <2> HIDE DEF q
  <2>3. /\ run' = q /\ stale' = Drivers
        /\ tasks' \in [TaskIds -> {"none", "pending", "completed", "cancelled"}]
        /\ AlonePart => PendingTasks' = {}
    BY <1>1, <2>1, ResolvedTask
  <2>4. OperatorFrame
    BY <1>1, <2>3 DEF OperatorFrame
  <2>5. AlonePart => AloneRun' /\ FreshRun(run)'
    BY <1>1, <2>1, <2>3, RetriedRun DEF AlonePart, q
  <2>6. run'.status \notin Waits
    BY <2>2, <2>3 DEF Waits
  <2> QED
    BY <1>1, <2>2, <2>3, <2>4, <2>5, <2>6, SpawnRunStep
<1> QED
  BY <1>2, <1>3

LEMMA AnswerInterruptInv ==
  ASSUME FlowInv, AnswerInterrupt
  PROVE  FlowInv'
<1>1. /\ TypePart /\ RunOK(run) /\ run.status = "waiting_human" /\ Pending(run.task) /\ Spawn
      /\ UNCHANGED <<interrupts, ran, up>> /\ UNCHANGED <<view, todo, results>>
  BY DEF FlowInv, TypePart, AnswerInterrupt, Spawn
<1>2. PICK n \in run.cpNodes :
        /\ run.writes[n].kind = "interrupt"
        /\ PutTask([run EXCEPT !.writes[n].cmd = run.writes[n].id, !.node[n] = "resuming",
                               !.status = "resuming", !.waiting = 0, !.task = NoTask],
                   run.task, "completed")
  BY DEF AnswerInterrupt
<1> DEFINE w == [run.writes[n] EXCEPT !.cmd = run.writes[n].id]
           ws == [run.writes EXCEPT ![n] = w]
           nd == [run.node EXCEPT ![n] = "resuming"]
           q == [run EXCEPT !.writes = ws, !.node = nd, !.status = "resuming", !.waiting = 0,
                            !.task = NoTask]
<1>3. PutTask(q, run.task, "completed")
  <2>1. run \in Runs
    BY <1>1 DEF RunOK
  <2> QED
    BY <1>2, <2>1 DEF Runs
<1>4. Stored(ws, run, n, w) /\ SetNode(nd, run, n, "resuming") /\ Resumed(q, run, ws, nd)
  BY DEF Stored, SetNode, Resumed
<1>5. w = [run.writes[n] EXCEPT !.cmd = run.writes[n].id]
  OBVIOUS
<1> HIDE DEF q, nd, ws, w
<1>6. RunOK(q) /\ q.status = "resuming" /\ q.cpNodes = run.cpNodes /\ q.attempt = run.attempt
  BY <1>1, <1>2, <1>4, <1>5, AnsweredOK
<1>7. \A m \in Nodes : q.writes[m] # NoWrite \/ run.writes[m] = NoWrite
  BY <1>1, <1>2, <1>4, <1>5, AnsweredOK
<1>8. /\ run' = q /\ stale' = Drivers
      /\ tasks' \in [TaskIds -> {"none", "pending", "completed", "cancelled"}]
      /\ AlonePart => PendingTasks' = {}
  BY <1>1, <1>3, ResolvedTask
<1>9. OperatorFrame
  BY <1>1, <1>8 DEF OperatorFrame
<1>10. run'.status \notin Waits
  BY <1>6, <1>8 DEF Waits
<1>11. ASSUME AlonePart PROVE AloneRun' /\ FreshRun(run)'
  <2>1. Written(run) /\ run.cpNodes \in SUBSET Nodes
    BY <1>1, <1>11, RunFields DEF AlonePart, AloneRun, WaitsWritten, Waits, RunOK
  <2>2. Written(run')
    BY <1>6, <1>7, <1>8, <2>1 DEF Written
  <2>3. RanOnce'
    BY <1>1, <1>6, <1>8, <1>11 DEF AlonePart, AloneRun, RanOnce
  <2> QED
    BY <1>8, <1>10, <1>11, <2>2, <2>3
       DEF AloneRun, PendingRests, WaitsWritten, AnsweredWritten, FreshRun, Written
<1> QED
  BY <1>1, <1>6, <1>8, <1>9, <1>10, <1>11, SpawnRunStep

LEMMA ApproveInv ==
  ASSUME FlowInv, Approve
  PROVE  FlowInv'
<1> DEFINE n == run.waiting
           o == run.outputs \cup {n}
           nd == [run.node EXCEPT ![n] = "succeeded"]
           granted == [run EXCEPT !.node[n] = "succeeded", !.outputs = @ \cup {n},
                                  !.status = "running", !.waiting = 0, !.task = NoTask]
<1>1. /\ TypePart /\ RunOK(run) /\ run \in Runs /\ run.status = "waiting_approval"
      /\ Pending(run.task) /\ n \in Nodes /\ o \in SUBSET Nodes
      /\ UNCHANGED <<view, todo, results>> /\ UNCHANGED <<interrupts, ran, up>>
  <2>1. TypePart /\ RunOK(run) /\ run \in Runs
    BY DEF FlowInv, TypePart, RunOK
  <2>2. run.status = "waiting_approval" /\ Pending(run.task) /\ n \in Nodes /\ o \in SUBSET Nodes
    BY <2>1, RunFields DEF FlowInv, WaitingHasTask, Approve
  <2> QED
    BY <2>1, <2>2 DEF Approve, Spawn
<1>2. PICK T \in MatchingEdges({n}) :
        /\ PutTask(RouteAfter(granted, T), run.task, "completed")
        /\ \/ SpentLoops(run, T) = {} /\ Spawn
           \/ SpentLoops(run, T) # {} /\ UNCHANGED <<pc, overlapped>>
  BY DEF Approve
<1>3. Decided(granted, run, nd, o, "running") /\ SetNode(nd, run, n, "succeeded") /\ n = run.waiting
  BY <1>1 DEF Runs, Decided, SetNode
<1>4. T \in SUBSET DOMAIN Edges
  BY DEF MatchingEdges
<1> DEFINE q == RouteAfter(granted, T)
<1>5. q = RouteAfter(granted, T) /\ PutTask(q, run.task, "completed")
  BY <1>2
<1> HIDE DEF granted, nd, o, n, q
<1>6. "succeeded" \in NodeStatuses /\ "running" \in Statuses
  BY DEF NodeStatuses, Statuses
<1>7. /\ RunOK(granted) /\ granted.status = "running" /\ granted.cpNodes = run.cpNodes
      /\ granted.attempt = run.attempt /\ granted.writes = run.writes /\ granted.loops = run.loops
  BY <1>1, <1>3, <1>6, DecidedOK
<1>8. SpentLoops(granted, T) = SpentLoops(run, T)
  BY <1>7 DEF SpentLoops
<1>9. /\ q \in Runs /\ SameWork(q, granted) /\ q.waiting = granted.waiting
      /\ SpentLoops(run, T) = {} => q.status = "running"
      /\ SpentLoops(run, T) # {} => q.status \in {"succeeded", "paused"}
  <2>1. granted \in Runs
    BY <1>7 DEF RunOK
  <2> QED
    BY <1>4, <1>5, <1>7, <1>8, <2>1, RouteAfterOK
<1>10. RunOK(q)
  BY <1>7, <1>9, SameWorkOK
<1>11. /\ run' = q /\ stale' = Drivers
       /\ tasks' \in [TaskIds -> {"none", "pending", "completed", "cancelled"}]
       /\ AlonePart => PendingTasks' = {}
  BY <1>1, <1>5, ResolvedTask
<1>12. OperatorFrame
  BY <1>1, <1>11 DEF OperatorFrame
<1>13. run'.status \notin Waits /\ (SpentLoops(run, T) # {} => run'.status \notin Active)
  BY <1>9, <1>11 DEF Waits, Active, Terminal, Resting
<1>14. ASSUME AlonePart PROVE AloneRun' /\ FreshRun(run)'
  <2>1. Written(run) /\ RanOnce
    BY <1>1, <1>14 DEF AlonePart, AloneRun, WaitsWritten, Waits
  <2>2. Written(run') /\ RanOnce'
    BY <1>1, <1>7, <1>9, <1>11, <2>1 DEF Written, RanOnce, SameWork
  <2> QED
    BY <1>11, <1>13, <1>14, <2>2
       DEF AloneRun, PendingRests, WaitsWritten, AnsweredWritten, FreshRun, Written
<1>15. CASE SpentLoops(run, T) = {} /\ Spawn
  BY <1>1, <1>10, <1>11, <1>12, <1>13, <1>14, <1>15, SpawnRunStep
<1>16. CASE SpentLoops(run, T) # {} /\ UNCHANGED <<pc, overlapped>>
  <2>1. run.status \notin Active /\ run'.status \notin Active \cup Waits
    BY <1>1, <1>13, <1>16 DEF Active, Resting, Waits
  <2> QED
    BY <1>1, <1>10, <1>11, <1>12, <1>14, <1>16, <2>1, ParkStep
<1> QED
  BY <1>2, <1>15, <1>16

-----------------------------------------------------------------------------
(* The restart                                                               *)

LEMMA RestartStep ==
  ASSUME FlowInv, pc' = [d \in Drivers |-> "idle"], view' = [d \in Drivers |-> NewRun],
         todo' = [d \in Drivers |-> {}], results' = [d \in Drivers |-> NoWrites],
         UNCHANGED <<interrupts, ran, overlapped>>, up' \in BOOLEAN, stale' \subseteq Drivers,
         RunOK(run'), tasks' \in [TaskIds -> {"none", "pending", "completed", "cancelled"}],
         WaitingHasTask', AlonePart => AloneRun'
  PROVE  FlowInv'
<1>1. "idle" \in Pcs /\ NewRun \in Runs /\ RunOK(NewRun)
  BY NewRunOK DEF Pcs, RunOK
<1>2. /\ \A d \in Drivers : pc'[d] = "idle" /\ view'[d] = NewRun /\ results'[d] = NoWrites
      /\ pc' \in [Drivers -> Pcs] /\ view' \in [Drivers -> Runs] /\ todo' \in [Drivers -> SUBSET Nodes]
      /\ results' \in [Drivers -> [Nodes -> Writes]]
  BY <1>1, NoWriteOK
<1>3. TypePart'
  <2>1. \A d \in Drivers : RunOK(view'[d]) /\ \A n \in Nodes : WriteOK(results'[d][n])
    BY <1>1, <1>2, NoWriteOK
  <2> QED
    BY <1>2, <2>1 DEF FlowInv, TypePart
<1>4. DriverPart'
  BY <1>2 DEF DriverPart, KnowsRun, CarriesResults
<1>5. AlonePart => AlonePart'
  BY <1>2 DEF AlonePart, OneDriver, AloneDriver
<1> QED
  BY <1>3, <1>4, <1>5 DEF FlowInv

LEMMA RestartInv ==
  ASSUME FlowInv, Restart
  PROVE  FlowInv'
<1>1. /\ TypePart /\ RunOK(run) /\ run \in Runs
      /\ pc' = [d \in Drivers |-> "idle"] /\ view' = [d \in Drivers |-> NewRun]
      /\ todo' = [d \in Drivers |-> {}] /\ results' = [d \in Drivers |-> NoWrites]
      /\ UNCHANGED <<interrupts, ran, overlapped>> /\ up' \in BOOLEAN
  BY DEF FlowInv, TypePart, RunOK, Restart
<1>2. \/ UNCHANGED <<run, tasks, stale>>
      \/ /\ run.status \in Interruptible /\ UNCHANGED tasks
         /\ Put([run EXCEPT !.status = "paused"])
      \/ /\ run.status \in Interruptible /\ Cut(run) # {}
         /\ PutTask([run EXCEPT !.status = "paused",
                                !.task = <<"recovery", LastCut(run), run.attempt[LastCut(run)]>>],
                    <<"recovery", LastCut(run), run.attempt[LastCut(run)]>>, "pending")
  BY DEF Restart
<1>3. Interruptible \subseteq Active /\ "paused" \in Statuses /\ "paused" \notin Waits
  BY DEF Interruptible, Active, Statuses, Terminal, Resting, Waits
<1>4. CASE UNCHANGED <<run, tasks, stale>>
  BY <1>1, <1>4, RunUnchanged, RestartStep DEF TypePart
<1>5. CASE /\ run.status \in Interruptible /\ UNCHANGED tasks
           /\ Put([run EXCEPT !.status = "paused"])
  <2>1. run' = [run EXCEPT !.status = "paused"] /\ stale' = Drivers
    BY <1>5 DEF Put
  <2>2. RunOK(run') /\ run'.status = "paused" /\ SameWork(run', run)
    BY <1>1, <1>3, <2>1, StatusOK
  <2>3. WaitingHasTask'
    BY <2>2 DEF WaitingHasTask
  <2>4. ASSUME AlonePart PROVE AloneRun'
    <3>1. PendingTasks' = {}
      BY <1>3, <1>5, <2>4, ActiveHasNoTask DEF PendingTasks
    <3>2. AnsweredWritten' /\ RanOnce'
      BY <1>1, <2>2, <2>4 DEF AlonePart, AloneRun, AnsweredWritten, RanOnce, SameWork, Answered, Written
    <3> QED
      BY <1>3, <2>2, <3>1, <3>2 DEF AloneRun, PendingRests, WaitsWritten
  <2>5. tasks' \in [TaskIds -> {"none", "pending", "completed", "cancelled"}]
    BY <1>1, <1>5 DEF TypePart
  <2> QED
    BY <1>1, <2>1, <2>2, <2>3, <2>4, <2>5, RestartStep
<1>6. CASE /\ run.status \in Interruptible /\ Cut(run) # {}
           /\ PutTask([run EXCEPT !.status = "paused",
                                  !.task = <<"recovery", LastCut(run), run.attempt[LastCut(run)]>>],
                      <<"recovery", LastCut(run), run.attempt[LastCut(run)]>>, "pending")
  <2> DEFINE n == LastCut(run)
             id == <<"recovery", n, run.attempt[n]>>
             q == [run EXCEPT !.status = "paused", !.task = id]
  <2>1. PutTask(q, id, "pending") /\ Restated(q, run, "paused", id)
    BY <1>6 DEF Restated
  <2>2. n \in Cut(run)
    <3> DEFINE C == Cut(run)
               B == C \cap run.batch
    <3>1. C \in SUBSET Nodes /\ B \in SUBSET Nodes /\ C # {} /\ B \subseteq C
      BY <1>6 DEF Cut
    <3>2. n = IF B # {} THEN LargestOf(B) ELSE LargestOf(C)
      BY DEF LastCut
    <3> HIDE DEF C, B
    <3>3. n \in C
      BY <3>1, <3>2, LargestOfNodes
    <3> QED
      BY <3>3 DEF C
  <2>3. n \in Nodes /\ run.attempt[n] \in 1..MaxNodeExecutions
    <3>1. n \in Nodes /\ run.node[n] # "none"
      BY <2>2 DEF Cut
    <3>2. run.attempt[n] \in Nat /\ run.executions \in Nat
      BY <1>1, <3>1, RunFields
    <3>3. run.attempt[n] > 0 /\ run.attempt[n] <= run.executions /\ run.executions <= MaxNodeExecutions
      BY <1>1, <3>1 DEF RunOK
    <3> QED
      BY <3>1, <3>2, <3>3, FlowAssumption
  <2>4. id \in TaskIds /\ id \in TaskIds \cup {NoTask}
    BY <2>3 DEF TaskIds
  <2> HIDE DEF n, id, q
  <2>5. RunOK(q) /\ q.status = "paused" /\ q.task = id /\ SameWork(q, run)
    BY <1>1, <1>3, <2>1, <2>4, RestatedOK
  <2>6. /\ run' = q /\ stale' = Drivers
        /\ tasks' \in [TaskIds -> {"none", "pending", "completed", "cancelled"}]
        /\ PendingTasks' = PendingTasks \cup {id}
    BY <1>1, <2>1, <2>4, PutTaskTypes
  <2>7. WaitingHasTask'
    BY <2>5, <2>6 DEF WaitingHasTask
  <2>8. ASSUME AlonePart PROVE AloneRun'
    <3>1. PendingTasks = {}
      BY <1>3, <1>6, <2>8, ActiveHasNoTask
    <3>2. AnsweredWritten' /\ RanOnce'
      BY <1>1, <2>5, <2>6, <2>8
         DEF AlonePart, AloneRun, AnsweredWritten, RanOnce, SameWork, Answered, Written
    <3> QED
      BY <1>3, <2>5, <2>6, <3>1, <3>2 DEF AloneRun, PendingRests, Resting, WaitsWritten
  <2> QED
    BY <1>1, <2>5, <2>6, <2>7, <2>8, RestartStep
<1> QED
  BY <1>2, <1>4, <1>5, <1>6

-----------------------------------------------------------------------------
(* The theorems                                                              *)

LEMMA FlowInvInit == Init => FlowInv
<1> SUFFICES ASSUME Init PROVE FlowInv
  OBVIOUS
<1>1. NewRun \in Runs /\ RunOK(NewRun)
  BY NewRunOK DEF RunOK
<1>2. /\ run = NewRun /\ tasks = [t \in TaskIds |-> "none"] /\ view = [d \in Drivers |-> NewRun]
      /\ stale = Drivers /\ todo = [d \in Drivers |-> {}] /\ results = [d \in Drivers |-> NoWrites]
      /\ interrupts = 0 /\ ran = [n \in Nodes |-> 0] /\ overlapped = FALSE /\ up = TRUE
  BY DEF Init
<1>3. PICK d \in Drivers : pc = [e \in Drivers |-> IF e = d THEN "read" ELSE "idle"]
  BY DEF Init
<1>4. pc \in [Drivers -> Pcs] /\ \A e \in Drivers : pc[e] = IF e = d THEN "read" ELSE "idle"
  BY <1>3 DEF Pcs
<1>5. TypePart
  <2>1. view \in [Drivers -> Runs] /\ \A e \in Drivers : RunOK(view[e])
    BY <1>1, <1>2
  <2>2. /\ results \in [Drivers -> [Nodes -> Writes]]
        /\ \A e \in Drivers : \A n \in Nodes : WriteOK(results[e][n])
    BY <1>2, NoWriteOK
  <2>3. /\ tasks \in [TaskIds -> {"none", "pending", "completed", "cancelled"}]
        /\ todo \in [Drivers -> SUBSET Nodes] /\ ran \in [Nodes -> Nat]
    BY <1>2
  <2>4. interrupts \in 0..MaxInterrupts
    BY <1>2, FlowAssumption
  <2>5. overlapped \in BOOLEAN /\ up \in BOOLEAN
    BY <1>2, Zenon
  <2> QED
    BY <1>1, <1>2, <1>4, <2>1, <2>2, <2>3, <2>4, <2>5 DEF TypePart
<1>6. DriverPart
  BY <1>2, <1>4 DEF DriverPart, KnowsRun, CarriesResults
<1>7. /\ run.status = "queued" /\ run.cpNodes = {} /\ \A n \in Nodes : run.attempt[n] = 0
  BY <1>2 DEF NewRun
<1>8. WaitingHasTask
  BY <1>7 DEF WaitingHasTask
<1>9. AloneRun /\ FreshRun(run)
  BY <1>2, <1>7 DEF AloneRun, PendingRests, PendingTasks, WaitsWritten, Waits, AnsweredWritten,
                    RanOnce, Written, FreshRun
<1>10. AlonePart
  BY <1>4, <1>9 DEF AlonePart, OneDriver, AloneDriver
<1> QED
  BY <1>5, <1>6, <1>8, <1>10 DEF FlowInv

LEMMA FlowInvStep == FlowInv /\ [Next]_vars => FlowInv'
<1> SUFFICES ASSUME FlowInv, [Next]_vars PROVE FlowInv'
  OBVIOUS
<1>1. ASSUME NEW d \in Drivers, Drive(d) PROVE FlowInv'
  BY <1>1, DriveReturnInv, DriveOverBudgetInv, DriveInspectInv, DriveWriteInv, DriveConflictInv,
     ExecuteNodeInv, PersistWriteInv, CommitReadInv, CommitInv, ResumeNodeInv, ReplaceWriteInv,
     DriveErrorInv, DriveFailInv DEF Drive
<1>2. CASE Operate
  BY <1>2, PauseRunInv, ResumeRunInv, CancelRunInv, ApproveInv, RejectInv, AnswerInterruptInv,
     CancelTaskInv, RetryRecoveryInv, ReviewOutputInv DEF Operate
<1>3. CASE Restart
  BY <1>3, RestartInv
<1>4. CASE UNCHANGED vars
  BY <1>4 DEF vars, FlowInv, TypePart, DriverPart, KnowsRun, CarriesResults, Produced, WaitingHasTask,
              Pending, AlonePart, OneDriver, AloneRun, PendingRests, PendingTasks, WaitsWritten,
              AnsweredWritten, RanOnce, AloneDriver, FreshRun, Written, Answered, Stops, Settles,
              Exhausted
<1> QED
  BY <1>1, <1>2, <1>3, <1>4 DEF Next

LEMMA FlowInvariant == Spec => []FlowInv
BY FlowInvInit, FlowInvStep, PTL DEF Spec

(* A flow run that waits for a person has a pending task, whose interrupt is *)
(* still unanswered in the checkpoint; and, until two drivers overlap, a     *)
(* pending task is the one its run rests on (resolve_human_task,             *)
(* cancel_flow_run, recover_interrupted_runtime_state), for every graph,     *)
(* budget and set of drivers.                                                *)
THEOREM FlowTasksMatchWaits == Spec => []TasksMatchWaits
<1>1. FlowInv => TasksMatchWaits
  BY DEF FlowInv, AlonePart, AloneRun, PendingRests, TasksMatchWaits, PendingTaskIsAwaited, Resting,
         Waits, Terminal
<1> QED
  BY <1>1, FlowInvariant, PTL

(* Whatever the drivers do to each other, no run starts more node attempts   *)
(* than its budget (begin_superstep, prepare_flow_resume); and, until two    *)
(* overlap, no attempt is executed twice, however often the process dies.    *)
THEOREM FlowExecutionsAccounted == Spec => []ExecutionsAccounted
<1>1. FlowInv => TypeOK
  BY DEF FlowInv, TypePart, TypeOK, RunOK
<1>2. FlowInv => WithinExecutionBudget
  BY DEF FlowInv, TypePart, RunOK, WithinExecutionBudget
<1>3. FlowInv => AttemptRunsOnce
  BY DEF FlowInv, AlonePart, AloneRun, RanOnce, AttemptRunsOnce
<1>4. FlowInv => ExecutionsAccounted
  BY <1>1, <1>2, <1>3 DEF ExecutionsAccounted
<1> QED
  BY <1>4, FlowInvariant, PTL

(* Until two drivers overlap, a run that succeeded, failed or was cancelled  *)
(* stays as it ended: its driver is not past reading it, no task of it is    *)
(* pending, and a request or a restart leaves it alone.                      *)
THEOREM FlowTerminalIsFinal == Spec => TerminalIsFinal
<1>1. ASSUME FlowInv, Next, run.status \in Terminal, ~overlapped
      PROVE  run'.status = run.status
  <2>1. AlonePart /\ run.status \notin Active \cup Resting
    BY <1>1 DEF FlowInv, Active, Resting, Waits, Terminal
  <2>2. \A d \in Drivers : pc[d] \in {"idle", "read"}
    BY <2>1, RestingDrivers
  <2>3. ~Pending(run.task)
    BY <2>1 DEF AlonePart, AloneRun, PendingRests, PendingTasks, Pending
  <2>4. ASSUME NEW d \in Drivers, Drive(d) PROVE run' = run
    <3>1. pc[d] \in {"idle", "read"}
      BY <2>2
    <3> QED
      BY <2>4, <3>1 DEF Drive, DriveReturn, DriveOverBudget, DriveInspect, DriveWrite, DriveConflict,
           ExecuteNode, PersistWrite, CommitRead, Commit, ResumeNode, ReplaceWrite, DriveError, DriveFail
  <2>5. ~Operate
    BY <1>1, <2>3 DEF Operate, PauseRun, ResumeRun, CancelRun, Approve, Reject, AnswerInterrupt,
                      CancelTask, RetryRecovery, ReviewOutput, Terminal
  <2>6. CASE Restart
    BY <1>1, <2>6 DEF Restart, Interruptible, Terminal
  <2> QED
    BY <1>1, <2>4, <2>5, <2>6 DEF Next
<1>2. FlowInv /\ [Next]_vars => [run.status \in Terminal /\ ~overlapped => run'.status = run.status]_run
  BY <1>1 DEF vars
<1> QED
  BY <1>2, FlowInvariant, PTL DEF Spec, TerminalIsFinal

=============================================================================
