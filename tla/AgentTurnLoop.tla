---------------------------- MODULE AgentTurnLoop ----------------------------
(***************************************************************************)
(* The provider loop of one Turn: a model round streams tool calls, the    *)
(* calls admitted at once start while the answer is still arriving, the    *)
(* others wait in pending_tool_calls for approval, for a parallel batch or *)
(* for their turn, and the next round starts when every call has a result. *)
(* Around it: the Turn inbox with steering, cancellation and mailbox       *)
(* messages, the guard on the final answer, the effect journal that stands *)
(* between a call and its tool, suspension and resumption, and restarts.   *)
(***************************************************************************)
EXTENDS Integers, Sequences, FiniteSets, SequencesExt

CONSTANTS
  Calls,        \* the tool calls the model may issue, each with its own id
  Tool,         \* their tools: decision of the policy, execution policy, class
  Messages,     \* messages of other agents to this one
  Steers,       \* steering messages of the user
  MAX_ROLLOUT_MODEL_ROUNDS,
  MAX_FINALIZATION_GUARD_ACTIVATIONS,
  MAX_PARALLEL_TOOL_CALLS,
  MaxIssued,    \* bound: calls the model issues over the Turn
  MaxCrashes    \* bound: restarts

Decisions == {"allow", "ask", "late"}   \* late: asked for only by the execution

ASSUME LoopAssumption ==
  /\ \A c \in Calls : /\ Tool[c].decision \in Decisions
                      /\ Tool[c].read_only \in BOOLEAN
                      /\ Tool[c].idempotent \in BOOLEAN
                      /\ Tool[c].parallel_safe \in BOOLEAN
                      /\ Tool[c].interactive \in BOOLEAN
                      /\ IsFiniteSet(Tool[c].resource_keys)
                      /\ Tool[c].read_only => Tool[c].idempotent
  /\ MAX_ROLLOUT_MODEL_ROUNDS \in Nat
  /\ MAX_FINALIZATION_GUARD_ACTIVATIONS \in Nat
  /\ MAX_PARALLEL_TOOL_CALLS \in Nat \ {0}
  /\ MaxIssued \in Nat
  /\ MaxCrashes \in Nat
  /\ "cancel" \notin Messages \cup Steers
  /\ Messages \cap Steers = {}

VARIABLES
  pc,         \* where the loop is
  outcome,    \* how the Turn ended
  wait,       \* what a waiting Turn waits for
  rounds,     \* model_rounds
  guards,     \* activations of the finalization guard
  streams,    \* does this round's provider emit its calls as items
  retried,    \* was this round repeated after a context overflow
  response,   \* the calls of the answer that is arriving
  calls,      \* provider_tool_calls
  results,    \* provider_tool_results, by the call they answer
  pending,    \* pending_tool_calls
  stored,     \* parallel_outcomes: calls whose outcome waits to be taken
  approved,   \* how many calls in front of pending run with a grant
  asked,      \* pending_approval_call_ids
  task,       \* the execution of each call
  journal,    \* effect_journal: the status of each call's effect
  effects,    \* the calls whose tools took effect, in order (history)
  granted,    \* the calls somebody approved (history)
  inbox,      \* the Turn inbox
  noted,      \* observations in the ledger no answered request has carried
  sent,       \* messages and steers accepted
  shown,      \* observations an answered request carried (history)
  acked,      \* mailbox messages acknowledged
  cancelled,  \* the cancellation token
  crashes

position == <<pc, outcome, wait>>
counters == <<rounds, guards>>
round == <<streams, retried, response>>
ledger == <<calls, results, pending, stored, approved, asked>>
tools == <<task, journal, effects, granted>>
mail == <<inbox, noted, sent, shown, acked>>
vars == <<position, counters, round, ledger, tools, mail, cancelled, crashes>>

Running == {"round", "sampling", "parse", "final", "pending", "batch", "call"}
EffectStatus == {"none", "running", "succeeded", "failed", "indeterminate"}
TaskStatus == {"idle", "queued", "running", "result", "blocked", "approval", "error"}

(* One type invariant for the state of the loop (AgentCore, provider_turn_loop).  *)
TypeOK ==
  /\ pc \in Running \cup {"waiting", "ended"}
  /\ outcome \in {"none", "completed", "stopped", "cancelled", "failed", "interrupted"}
  /\ (outcome # "none") = (pc = "ended")
  /\ wait \in {"none", "approval", "input", "action"}
  /\ (wait # "none") = (pc = "waiting")
  /\ rounds \in 0..MAX_ROLLOUT_MODEL_ROUNDS
  /\ guards \in 0..MAX_FINALIZATION_GUARD_ACTIVATIONS
  /\ streams \in BOOLEAN /\ retried \in BOOLEAN /\ cancelled \in BOOLEAN
  /\ \A s \in {response, calls, results, pending, asked, effects} : s \in Seq(Calls)
  /\ stored \subseteq ToSet(pending)
  /\ approved \in 0..Len(pending)
  /\ asked # <<>> /\ pc # "ended" => wait = "approval" /\ IsPrefix(asked, pending)
  /\ task \in [Calls -> TaskStatus]
  /\ journal \in [Calls -> EffectStatus]
  /\ granted \subseteq Calls
  /\ inbox \in Seq(Messages \cup Steers \cup {"cancel"})
  /\ \A s \in {noted, sent, shown} : s \subseteq Messages \cup Steers
  /\ acked \subseteq sent \cap Messages
  /\ crashes \in 0..MaxCrashes

Init ==
  /\ pc = "round" /\ outcome = "none" /\ wait = "none"
  /\ rounds = 0 /\ guards = 0
  /\ streams = FALSE /\ retried = FALSE /\ response = <<>>
  /\ calls = <<>> /\ results = <<>> /\ pending = <<>>
  /\ stored = {} /\ approved = 0 /\ asked = <<>>
  /\ task = [c \in Calls |-> "idle"]
  /\ journal = [c \in Calls |-> "none"]
  /\ effects = <<>> /\ granted = {}
  /\ inbox = <<>> /\ noted = {} /\ sent = {} /\ shown = {} /\ acked = {}
  /\ cancelled = FALSE /\ crashes = 0

-----------------------------------------------------------------------------
(* Moving the loop *)

Go(l) == pc' = l /\ UNCHANGED <<outcome, wait>>
End(o) == pc' = "ended" /\ outcome' = o /\ wait' = "none"
Suspend(kind) == pc' = "waiting" /\ wait' = kind /\ UNCHANGED outcome

(* The elements of s at the indices kept, in their order.  SelectSeq with    *)
(* the test made a set of indices, over which a proof can count.             *)
Picked(s, kept) ==
  LET nth(n) == CHOOSE i \in kept : Cardinality({j \in kept : j <= i}) = n
  IN [n \in 1..Cardinality(kept) |-> s[nth(n)]]

Busy(c) == task[c] \in {"queued", "running"}
Settled(s) == \A c \in ToSet(s) : ~Busy(c)

-----------------------------------------------------------------------------
(* The world outside the loop *)

(* send_message with steer_current: the Turn must be running.  *)
Steer(s) ==
  /\ pc \in Running
  /\ s \notin sent
  /\ sent' = sent \cup {s}
  /\ inbox' = Append(inbox, s)
  /\ UNCHANGED <<position, counters, round, ledger, tools, noted, shown, acked, cancelled, crashes>>

(* A message is durable in the mailbox; an active run gets it pushed as well. *)
SendMessage(m) ==
  /\ pc # "ended"
  /\ m \notin sent
  /\ sent' = sent \cup {m}
  /\ inbox' = IF pc = "waiting" THEN inbox ELSE Append(inbox, m)
  /\ UNCHANGED <<position, counters, round, ledger, tools, noted, shown, acked, cancelled, crashes>>

(* cancel_turn: the token and the inbox of a running Turn, the end of a waiting one. *)
Cancel ==
  /\ ~cancelled
  /\ \/ /\ pc \in Running
        /\ cancelled' = TRUE
        /\ inbox' = Append(inbox, "cancel")
        /\ UNCHANGED position
     \/ /\ pc = "waiting"
        /\ End("cancelled")
        /\ inbox' = <<>>
        /\ UNCHANGED cancelled
  /\ UNCHANGED <<counters, round, ledger, tools, noted, sent, shown, acked, crashes>>

-----------------------------------------------------------------------------
(* A model round *)

RoundsLeft == rounds < MAX_ROLLOUT_MODEL_ROUNDS

(* The limit, then collect_step_reminders on the inbox, then the request.  *)
StartRound ==
  /\ pc = "round"
  /\ \/ /\ ~RoundsLeft
        /\ End("stopped")
        /\ UNCHANGED <<round, inbox, noted>>
     \/ /\ RoundsLeft
        /\ inbox' = <<>>
        /\ IF "cancel" \in ToSet(inbox)
           THEN End("cancelled") /\ UNCHANGED <<round, noted>>
           ELSE /\ Go("sampling")
                /\ noted' = noted \cup ToSet(inbox)
                /\ streams' \in BOOLEAN
                /\ retried' = FALSE
                /\ response' = <<>>
  /\ UNCHANGED <<counters, ledger, tools, sent, shown, acked, cancelled, crashes>>

(* StreamingToolExecution::dispatch starts what the policy allows outright. *)
Admitted(c) == ~Tool[c].interactive /\ Tool[c].decision # "ask"

(* The provider emits one more call, as an item or for the terminal answer. *)
ReceiveCall(c) ==
  /\ pc = "sampling"
  /\ Len(calls) + Len(response) < MaxIssued
  /\ c \notin ToSet(response) \cup ToSet(calls)
  /\ response' = Append(response, c)
  /\ task' = IF streams /\ Admitted(c) THEN [task EXCEPT ![c] = "queued"] ELSE task
  /\ UNCHANGED <<position, counters, streams, retried, ledger, journal, effects, granted,
                 mail, cancelled, crashes>>

(* finish() returns the first task error; the later tasks run on, detached.  *)
JoinFails ==
  /\ pc = "sampling"
  /\ \E i \in DOMAIN response :
       /\ task[response[i]] = "error"
       /\ Settled(SubSeq(response, 1, i))
  /\ End("failed")
  /\ UNCHANGED <<counters, round, ledger, tools, mail, cancelled, crashes>>

Streamed(c) == task[c] \in {"result", "blocked"}
Joined == Settled(response) /\ \A c \in ToSet(response) : task[c] # "error"

(* commit_streaming_tool_execution *)
CommitStreamed ==
  results' = results \o Picked(response, {i \in DOMAIN response : Streamed(response[i])})

Broken ==
  /\ pc = "sampling"
  /\ Joined
  /\ CommitStreamed
  /\ End(IF cancelled THEN "cancelled" ELSE "failed")
  /\ UNCHANGED <<counters, round, calls, pending, stored, approved, asked, tools, mail,
                 cancelled, crashes>>

(* Faulty variant: every overflow is answered with another attempt.        *)
MayRetry_always == ~(streams /\ response # <<>>)

(* A context overflow is retried once, and only if no item was committed. *)
MayRetry == ~retried /\ ~(streams /\ response # <<>>)

Overflowed ==
  /\ pc = "sampling"
  /\ Joined
  /\ CommitStreamed
  /\ \/ cancelled /\ End("cancelled") /\ UNCHANGED round
     \/ ~cancelled /\ End("failed") /\ UNCHANGED round
     \/ /\ ~cancelled /\ MayRetry
        /\ Go("sampling")
        /\ retried' = TRUE /\ response' = <<>> /\ streams' \in BOOLEAN
  /\ UNCHANGED <<counters, calls, pending, stored, approved, asked, tools, mail,
                 cancelled, crashes>>

(* The round reached the model: commit_step_reminders, acknowledge the mail. *)
Answered ==
  /\ pc = "sampling"
  /\ Joined
  /\ CommitStreamed
  /\ IF retried /\ cancelled
     THEN End("cancelled") /\ UNCHANGED <<rounds, noted, shown, acked>>
     ELSE /\ Go("parse")
          /\ rounds' = rounds + 1
          /\ shown' = shown \cup noted
          /\ acked' = acked \cup (noted \cap Messages)
          /\ noted' = {}
  /\ UNCHANGED <<guards, round, calls, pending, stored, approved, asked, tools,
                 inbox, sent, cancelled, crashes>>

(* Faulty variant: every call of the answer is queued, run already or not. *)
Unanswered_all(c) == TRUE

(* The calls of an answer that its streamed results do not cover. *)
Unanswered(c) == ~Streamed(c)

(* drain_post_parse_control, then the decision of the answer. *)
PostParse ==
  LET steers == ToSet(inbox) \cap Steers IN
  /\ pc = "parse"
  /\ inbox' = Picked(inbox, {i \in DOMAIN inbox : inbox[i] \in Messages})
  /\ streams' = FALSE /\ retried' = FALSE /\ response' = <<>>
  /\ IF "cancel" \in ToSet(inbox)
     THEN End("cancelled") /\ UNCHANGED <<noted, calls, pending, task>>
     ELSE /\ noted' = noted \cup steers
          /\ \/ /\ response = <<>>
                /\ IF steers # {} THEN Go("round") ELSE Go("final")
                /\ UNCHANGED <<calls, pending, task>>
             \/ /\ response # <<>>
                /\ Go("pending")
                /\ calls' = calls \o response
                /\ pending' = Picked(response, {i \in DOMAIN response : Unanswered(response[i])})
                /\ task' = [c \in Calls |-> IF task[c] = "approval" THEN "idle" ELSE task[c]]
             \/ /\ End("failed")    \* an incomplete answer, or the same invalid call again
                /\ UNCHANGED <<calls, pending, task>>
  /\ UNCHANGED <<counters, results, stored, approved, asked, journal, effects, granted,
                 sent, shown, acked, cancelled, crashes>>

(* apply_finalization_guard: unread messages send the Turn back to the model. *)
Finalize ==
  LET unread == (sent \cap Messages) \ acked IN
  /\ pc = "final"
  /\ \/ unread = {} /\ End("completed") /\ UNCHANGED <<guards, noted>>
     \/ /\ unread # {}
        /\ guards >= MAX_FINALIZATION_GUARD_ACTIVATIONS
        /\ End("failed")
        /\ UNCHANGED <<guards, noted>>
     \/ /\ unread # {}
        /\ guards < MAX_FINALIZATION_GUARD_ACTIVATIONS
        /\ guards' = guards + 1
        /\ noted' = noted \cup unread
        /\ Go("round")
  /\ UNCHANGED <<rounds, round, ledger, tools, inbox, sent, shown, acked, cancelled, crashes>>

-----------------------------------------------------------------------------
(* Scheduling the pending calls *)

(* scheduling_conflicts: a shared resource that one of the two writes; "*" is all. *)
Conflict(c, d) ==
  LET shares == \/ Tool[c].resource_keys \cap Tool[d].resource_keys # {}
                \/ "*" \in Tool[c].resource_keys /\ Tool[d].resource_keys # {}
                \/ "*" \in Tool[d].resource_keys /\ Tool[c].resource_keys # {}
  IN shares /\ (~Tool[c].read_only \/ ~Tool[d].read_only)

Allowed(c) == Tool[c].decision # "ask"

(* K holds the indices of the calls of q that may run together: a call that  *)
(* is not parallel-safe closes the selection, one that is not eligible or    *)
(* conflicts with an earlier member of K is passed by.                       *)
Together(q, eligible, K) ==
  \A i \in DOMAIN q :
    (i \in K) <=> /\ \A j \in 1..i : Tool[q[j]].parallel_safe
                  /\ i \in eligible
                  /\ \A j \in K : j < i => ~Conflict(q[i], q[j])
                  /\ Cardinality({j \in K : j < i}) < MAX_PARALLEL_TOOL_CALLS

parallel_call_indices(q, K) == Together(q, {i \in DOMAIN q : Allowed(q[i])}, K)
approved_parallel_call_indices(q, K) == Together(q, DOMAIN q, K)

(* The calls in front of q that are known to need approval. *)
approval_candidates(q) ==
  SubSeq(q, 1, Cardinality({n \in DOMAIN q : /\ n <= MAX_PARALLEL_TOOL_CALLS
                                             /\ \A i \in 1..n : ~Allowed(q[i])}))

(* Everything a Turn keeps in memory about unfinished calls is gone when it leaves the loop. *)
Forget(q) == /\ stored' = {}
             /\ task' = [c \in Calls |-> IF c \in ToSet(q) THEN "idle" ELSE task[c]]

(* Faulty variant: the grant of a call that has run passes to the next one. *)
Drop_grant_kept(n) ==
  /\ pending' = SubSeq(pending, n + 1, Len(pending))
  /\ approved' = IF approved > Len(pending) - n THEN Len(pending) - n ELSE approved

(* n calls in front of pending have their results. *)
Drop(n) == /\ pending' = SubSeq(pending, n + 1, Len(pending))
           /\ approved' = IF approved > n THEN approved - n ELSE 0

AllDone ==
  /\ pc = "pending"
  /\ pending = <<>>
  /\ Go("round")
  /\ UNCHANGED <<counters, round, ledger, tools, mail, cancelled, crashes>>

(* An outcome of a parallel batch is taken when its call is in front. *)
TakeOutcome ==
  /\ pc = "pending"
  /\ pending # <<>>
  /\ Head(pending) \in stored
  /\ stored' = stored \ {Head(pending)}
  /\ CASE task[Head(pending)] \in {"result", "blocked"} ->
            /\ results' = Append(results, Head(pending))
            /\ Drop(1)
            /\ UNCHANGED <<position, task>>
       [] task[Head(pending)] = "approval" ->     \* back to the sequential path
            /\ task' = [task EXCEPT ![Head(pending)] = "idle"]
            /\ UNCHANGED <<position, results, pending, approved>>
       [] OTHER ->
            /\ End("failed")
            /\ UNCHANGED <<results, pending, approved, task>>
  /\ UNCHANGED <<counters, round, calls, asked, journal, effects, granted, mail,
                 cancelled, crashes>>

(* What becomes of the calls of batch, which lead pending and need approval:  *)
(* the user is asked, or the guardian approves, denies, or gives up.          *)
Review(batch, ids) ==
  \/ /\ Suspend("approval")
     /\ asked' = ids
     /\ Forget(pending)
     /\ UNCHANGED <<results, pending, approved, granted>>
  \/ /\ Go("pending")
     /\ approved' = Len(batch)
     /\ granted' = granted \cup ToSet(batch)
     /\ task' = [c \in Calls |-> IF c \in ToSet(batch) THEN "idle" ELSE task[c]]
     /\ UNCHANGED <<results, pending, stored, asked>>
  \/ /\ Go("pending")
     /\ results' = results \o batch
     /\ Drop(Len(batch))
     /\ UNCHANGED <<stored, asked, granted, task>>
  \/ /\ End("failed")
     /\ UNCHANGED <<results, pending, stored, approved, asked, granted, task>>

ApprovalBatch ==
  /\ pc = "pending"
  /\ stored = {} /\ approved = 0
  /\ approval_candidates(pending) # <<>>
  /\ Review(approval_candidates(pending), approval_candidates(pending))
  /\ UNCHANGED <<counters, round, calls, journal, effects, mail, cancelled, crashes>>

(* The batch to start: two calls or more, or calls behind one that must wait. *)
IsBatch(K) ==
  \/ /\ approved > 0
     /\ K \subseteq 1..approved
     /\ approved_parallel_call_indices(SubSeq(pending, 1, approved), K)
     /\ Cardinality(K) >= 2
  \/ /\ approved = 0
     /\ parallel_call_indices(pending, K)
     /\ Cardinality(K) >= 2 \/ (K # {} /\ 1 \notin K)

NextBatch == {K \in SUBSET DOMAIN pending : IsBatch(K)}   \* at most one

Launch(cs) == task' = [c \in Calls |-> IF c \in cs THEN "queued" ELSE task[c]]

StartBatch ==
  /\ pc = "pending"
  /\ stored = {}
  /\ approved = 0 => approval_candidates(pending) = <<>>
  /\ \E K \in NextBatch :
       /\ Launch({pending[i] : i \in K})
       /\ stored' = {pending[i] : i \in K}
  /\ Go("batch")
  /\ UNCHANGED <<counters, round, calls, results, pending, approved, asked, journal, effects,
                 granted, mail, cancelled, crashes>>

BatchDone ==
  /\ pc = "batch"
  /\ \A c \in stored : ~Busy(c)
  /\ Go("pending")
  /\ UNCHANGED <<counters, round, ledger, tools, mail, cancelled, crashes>>

StartCall ==
  /\ pc = "pending"
  /\ pending # <<>>
  /\ Head(pending) \notin stored
  /\ stored = {} => /\ approved = 0 => approval_candidates(pending) = <<>>
                    /\ NextBatch = {}
  /\ Launch({Head(pending)})
  /\ Go("call")
  /\ UNCHANGED <<counters, round, ledger, journal, effects, granted, mail, cancelled, crashes>>

(* The sequential call returned: a result, a boundary, or an error. *)
CallDone ==
  LET front == Head(pending) IN
  /\ pc = "call"
  /\ ~Busy(front)
  /\ \/ /\ \/ task[front] = "result"
           \/ task[front] = "blocked" /\ approved > 0
        /\ results' = Append(results, front)
        /\ Drop(1)
        /\ IF Tool[front].interactive
           THEN Suspend("input") /\ Forget(Tail(pending))
           ELSE Go("pending") /\ UNCHANGED <<stored, task>>
        /\ UNCHANGED <<asked, granted>>
     \/ /\ task[front] = "blocked" /\ approved = 0
        /\ Suspend("action")                   \* reconcile_effect: the call stays pending
        /\ Forget(pending)
        /\ UNCHANGED <<results, pending, approved, asked, granted>>
     \/ /\ task[front] = "approval"
        /\ Review(<<front>>, <<>>)
     \/ /\ task[front] = "error"
        /\ End("failed")
        /\ UNCHANGED <<results, pending, stored, approved, asked, granted, task>>
  /\ UNCHANGED <<counters, round, calls, journal, effects, mail, cancelled, crashes>>

-----------------------------------------------------------------------------
(* Executing a call: execute_provider_call and the effect journal *)

(* Read-only parallel-safe streamed calls share the gate, the others hold it alone. *)
GateOpen(c) ==
  c \in ToSet(response) =>
    \A d \in ToSet(response) : task[d] = "running" =>
      /\ Tool[c].read_only /\ Tool[c].parallel_safe
      /\ Tool[d].read_only /\ Tool[d].parallel_safe

requires_reconciliation(c) == journal[c] = "indeterminate" /\ ~Tool[c].idempotent

(* Faulty variant: the journal is written but not consulted.                *)
BeginExecution_unchecked(c) ==
  /\ task[c] = "queued"
  /\ GateOpen(c)
  /\ journal' = [journal EXCEPT ![c] = "running"]
  /\ task' = [task EXCEPT ![c] = "running"]
  /\ UNCHANGED <<position, counters, round, ledger, effects, granted, mail, cancelled, crashes>>

(* prepare_effect and start_effect: replay, refuse, or run. *)
BeginExecution(c) ==
  /\ task[c] = "queued"
  /\ GateOpen(c)
  /\ CASE journal[c] = "succeeded" ->
            task' = [task EXCEPT ![c] = "result"] /\ UNCHANGED journal
       [] requires_reconciliation(c) \/ journal[c] = "running" ->
            task' = [task EXCEPT ![c] = "blocked"] /\ UNCHANGED journal
       [] OTHER ->
            /\ journal' = [journal EXCEPT ![c] = "running"]
            /\ task' = [task EXCEPT ![c] = "running"]
  /\ UNCHANGED <<position, counters, round, ledger, effects, granted, mail, cancelled, crashes>>

Settle(c, status, t) == /\ journal' = [journal EXCEPT ![c] = status]
                        /\ task' = [task EXCEPT ![c] = t]

Uncertain(c) == IF Tool[c].idempotent THEN "failed" ELSE "indeterminate"

(* scoped_approved_context is given to the calls of the approved batch only. *)
WithGrant(c) == c \in ToSet(SubSeq(pending, 1, approved))

NeedsApproval(c) == Tool[c].decision # "allow" /\ ~WithGrant(c)

(* The tool returns and finish_effect records how. *)
FinishExecution(c) ==
  /\ task[c] = "running"
  /\ \/ /\ NeedsApproval(c)
        /\ Settle(c, "failed", "approval")
        /\ UNCHANGED effects
     \/ /\ ~NeedsApproval(c)
        /\ \/ Settle(c, "succeeded", "result") \/ Settle(c, Uncertain(c), "result")
        /\ effects' = Append(effects, c)
     \/ /\ ~NeedsApproval(c)                   \* refused before it was executed
        /\ Settle(c, "failed", "result")
        /\ UNCHANGED effects
     \/ /\ ~NeedsApproval(c)
        /\ cancelled
        /\ Settle(c, Uncertain(c), "error")
        /\ effects' \in {effects, Append(effects, c)}
  /\ UNCHANGED <<position, counters, round, ledger, granted, mail, cancelled, crashes>>

-----------------------------------------------------------------------------
(* resume_from_signal_streaming and restart *)

ResumeApproval(yes) ==
  LET batch == IF asked = <<>> THEN <<Head(pending)>> ELSE asked IN
  /\ pc = "waiting" /\ wait = "approval"
  /\ pc' = "pending" /\ wait' = "none" /\ UNCHANGED outcome
  /\ asked' = <<>>
  /\ IF yes
     THEN /\ approved' = Len(batch)
          /\ granted' = granted \cup ToSet(batch)
          /\ UNCHANGED <<results, pending>>
     ELSE /\ results' = results \o batch
          /\ Drop(Len(batch))
          /\ UNCHANGED granted
  /\ UNCHANGED <<counters, round, calls, stored, task, journal, effects, mail,
                 cancelled, crashes>>

(* The answer replaces the content of the result the question already has. *)
ResumeInput ==
  /\ pc = "waiting" /\ wait = "input"
  /\ pc' = "pending" /\ wait' = "none" /\ UNCHANGED outcome
  /\ UNCHANGED <<counters, round, ledger, tools, mail, cancelled, crashes>>

(* The observation of the user is the result of the pending call. *)
ResumeAction ==
  /\ pc = "waiting" /\ wait = "action"
  /\ pc' = "pending" /\ wait' = "none" /\ UNCHANGED outcome
  /\ results' = Append(results, Head(pending))
  /\ Drop(1)
  /\ UNCHANGED <<counters, round, calls, stored, asked, tools, mail, cancelled, crashes>>

(* A waiting Turn keeps its checkpoint; a running one is interrupted and its *)
(* memory is gone. Effects left running become indeterminate.                *)
Restart ==
  /\ pc # "ended"
  /\ crashes < MaxCrashes
  /\ crashes' = crashes + 1
  /\ IF pc = "waiting"
     THEN UNCHANGED <<position, ledger, noted>>
     ELSE /\ End("interrupted")
          /\ calls' = <<>> /\ results' = <<>> /\ pending' = <<>>
          /\ stored' = {} /\ approved' = 0 /\ asked' = <<>> /\ noted' = {}
  /\ streams' = FALSE /\ retried' = FALSE /\ response' = <<>>
  /\ inbox' = <<>>
  /\ cancelled' = FALSE
  /\ journal' = [c \in Calls |->
                   IF journal[c] = "running" THEN "indeterminate" ELSE journal[c]]
  /\ task' = [c \in Calls |-> "idle"]
  /\ UNCHANGED <<counters, effects, granted, sent, shown, acked>>

-----------------------------------------------------------------------------
LoopStep ==
  \/ StartRound \/ JoinFails \/ Broken \/ Overflowed \/ Answered
  \/ PostParse \/ Finalize
  \/ AllDone \/ TakeOutcome \/ ApprovalBatch \/ StartBatch \/ BatchDone \/ StartCall \/ CallDone

Execute(c) == BeginExecution(c) \/ FinishExecution(c)

Outside ==
  \/ \E s \in Steers : Steer(s)
  \/ \E m \in Messages : SendMessage(m)
  \/ Cancel
  \/ \E yes \in BOOLEAN : ResumeApproval(yes)
  \/ ResumeInput \/ ResumeAction
  \/ Restart

Next ==
  \/ LoopStep
  \/ \E c \in Calls : ReceiveCall(c) \/ Execute(c)
  \/ Outside

Spec == Init /\ [][Next]_vars

(* The loop and the tasks are scheduled; a provider answers or times out, a  *)
(* tool returns or is stopped by its timeout. Users and agents need not act. *)
FairSpec ==
  /\ Spec
  /\ WF_vars(LoopStep)
  /\ \A c \in Calls : WF_vars(Execute(c))

-----------------------------------------------------------------------------
(* Properties *)

(* Whenever a request goes to the model, every call it was given an answer   *)
(* for is in the ledger once and has exactly one result: whether it ran      *)
(* while streaming, in a batch, after approval, or never.                    *)
EachCallAnsweredOnce ==
  pc = "sampling" => /\ ToSet(results) = ToSet(calls)
                     /\ IsInjective(results)
                     /\ IsInjective(calls)

(* An effect that is not idempotent is not produced twice, although a Turn   *)
(* that is suspended forgets the outcomes of the batch it had already run.   *)
EffectOnce ==
  \A i, j \in DOMAIN effects :
    effects[i] = effects[j] /\ ~Tool[effects[i]].idempotent => i = j

(* A call whose tool asks for approval has no effect before somebody gave it. *)
NoUnapprovedEffect ==
  \A c \in ToSet(effects) : Tool[c].decision # "allow" => c \in granted

(* A message leaves the mailbox only after the model answered a request that *)
(* carried it, so a failed or cancelled round does not lose it.              *)
AcknowledgedWasShown == acked \subseteq shown

(* What the model is told is complete (complete_provider_round): before a    *)
(* request every call has one result, and what is acknowledged was in one.   *)
LedgerComplete == TypeOK /\ EachCallAnsweredOnce /\ AcknowledgedWasShown

(* The loop does not run on for ever: it completes, stops, fails or waits.   *)
TurnReturns == pc \in Running ~> pc \in {"waiting", "ended"}

=============================================================================
