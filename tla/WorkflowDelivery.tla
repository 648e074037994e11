-------------------------- MODULE WorkflowDelivery --------------------------
(***************************************************************************)
(* Delivering the output of a flow run that succeeded.  The worker tick, the *)
(* request that approves the output, the retry endpoint and the recovery     *)
(* task all call deliver_run_output; a delivery receipt with a revision      *)
(* decides which of them may touch the provider.  `stale' holds the callers  *)
(* whose expected revision is no longer the stored one.                      *)
(***************************************************************************)
EXTENDS Integers, FiniteSets

CONSTANTS
  Worker,       \* the flow worker task
  Requests,     \* bound: requests served at the same time
  MaxAttempts,  \* bound: attempts on the receipt
  MaxCrashes    \* bound: how often the server stops

ASSUME DeliveryAssumption ==
  /\ Worker \notin Requests
  /\ MaxAttempts \in Nat \ {0} /\ MaxCrashes \in Nat

VARIABLES
  kind,        \* output kind of the flow revision
  status,      \* status of the receipt, "none" before it is inserted
  attempt,     \* attempts claimed so far
  aged,        \* the receipt was last written more than 30 seconds ago
  task,        \* ["handoff" and "recovery" -> status of the human task]
  pc,          \* [Callers -> where the call stands]
  mode,        \* [Callers -> who asked for it]
  outcome,     \* [Callers -> result to be recorded on the receipt]
  stale,       \* callers whose revision is old
  automatic,   \* provider calls no operator asked for, history
  crashes      \* how often the server has stopped, history

history == <<automatic, crashes>>
vars == <<kind, status, attempt, aged, task, pc, mode, outcome, stale,
          automatic, crashes>>

Callers == {Worker} \cup Requests
Modes == {"tick", "approve", "retry", "task"}
Forced(c) == mode[c] \in {"retry", "task"}
Kinds == {"inbox", "provider", "human"}
Done == {"delivered", "waiting_human", "cancelled"}
ReceiptStatuses == Done \cup {"none", "pending", "failed"}
TaskStatuses == {"none", "pending", "closed"}

(* The last attempt has no outcome after 30 seconds.                        *)
(* Faulty variant: the first attempt is not looked at. *)
InterruptedRetry == status = "pending" /\ attempt > 1 /\ aged
Interrupted == status = "pending" /\ attempt > 0 /\ aged

Goto(c, to) == pc' = [pc EXCEPT ![c] = to]
(* update_workflow_delivery_receipt: the revision moves, other callers lose. *)
Put(c, s) == status' = s /\ aged' = FALSE /\ stale' = Callers \ {c}
-----------------------------------------------------------------------------
(* Who calls.                                                               *)

Call(c, m) ==
  /\ pc[c] = "idle"
  /\ Goto(c, "open")
  /\ mode' = [mode EXCEPT ![c] = m]
  /\ UNCHANGED <<kind, status, attempt, aged, task, outcome, stale, history>>

(* process_delivery_tick, for a run that succeeded: what was interrupted is  *)
(* reconciled before anything is delivered.                                 *)
Tick == ~Interrupted /\ Call(Worker, "tick")
(* The output review was approved: the handler delivers at once.            *)
ApproveOutput(c) == c \in Requests /\ status = "none" /\ Call(c, "approve")
(* POST retry, for a receipt that is failed or still pending.               *)
RetryDelivery(c) == c \in Requests /\ status \in {"failed", "pending"} /\ Call(c, "retry")
(* The recovery task is answered with retry.                                *)
RetryTask(c) == c \in Requests /\ task["recovery"] = "pending" /\ Call(c, "task")

(* The call is over; a retry from the task closes it unless the delivery is  *)
(* failed again.                                                            *)
Answer(c, final) ==
  /\ Goto(c, "idle")
  /\ outcome' = [outcome EXCEPT ![c] = "none"]
  /\ mode' = [mode EXCEPT ![c] = "tick"]
  /\ task' = IF mode[c] = "task" /\ final # "failed"
             THEN [task EXCEPT !["recovery"] = "closed"] ELSE task
Abandon(c) == Answer(c, "failed")
-----------------------------------------------------------------------------
(* deliver_run_output.                                                      *)

(* The receipt is inserted under an id derived from the run, or read.       *)
Blocked(c) == \/ status \in Done
              \/ ~Forced(c) /\ (status = "failed" \/ attempt > 0)

OpenReceipt(c) ==
  /\ pc[c] = "open"
  /\ IF status # "none" /\ Blocked(c)
     THEN Answer(c, status) /\ UNCHANGED <<status, aged, stale>>
     ELSE /\ status' = IF status = "none" THEN "pending" ELSE status
          /\ aged' = IF status = "none" THEN FALSE ELSE aged
          /\ stale' = stale \ {c}
          /\ Goto(c, "claim")
          /\ UNCHANGED <<task, mode, outcome>>
  /\ UNCHANGED <<kind, attempt, history>>

(* begin_attempt, compare-and-swap on the revision; the loser reports what   *)
(* is stored.                                                               *)
(* Faulty variant: the claim does not look at the revision. *)
ClaimAttemptAlways(c) ==
  /\ pc[c] = "claim" /\ attempt < MaxAttempts
  /\ attempt' = attempt + 1 /\ Put(c, "pending") /\ Goto(c, "deliver")
  /\ UNCHANGED <<kind, task, mode, outcome, history>>
ClaimAttempt(c) ==
  /\ pc[c] = "claim"
  /\ IF c \in stale THEN Answer(c, status) /\ UNCHANGED <<status, attempt, aged, stale>>
     ELSE /\ attempt < MaxAttempts
          /\ attempt' = attempt + 1 /\ Put(c, "pending") /\ Goto(c, "deliver")
          /\ UNCHANGED <<task, mode, outcome>>
  /\ UNCHANGED <<kind, history>>

Observe(c, o) == outcome' = [outcome EXCEPT ![c] = o] /\ Goto(c, "record")

(* The output does not fit its schema or may not leave: nothing is sent.    *)
RejectOutput(c) ==
  /\ pc[c] = "deliver"
  /\ Observe(c, "failed")
  /\ UNCHANGED <<kind, status, attempt, aged, task, mode, stale, history>>

(* The provider is called.  An error says nothing about whether it took the  *)
(* output: the answer may be lost.                                          *)
CallProvider(c) ==
  /\ pc[c] = "deliver" /\ kind = "provider"
  /\ automatic' = IF Forced(c) THEN automatic ELSE automatic + 1
  /\ \E o \in {"delivered", "failed"} : Observe(c, o)
  /\ UNCHANGED <<kind, status, attempt, aged, task, mode, stale, crashes>>

(* An error before the call leaves the receipt pending.                     *)
LoseCredential(c) ==
  /\ pc[c] = "deliver" /\ kind = "provider"
  /\ Abandon(c)
  /\ UNCHANGED <<kind, status, attempt, aged, stale, history>>

KeepInInbox(c) ==
  /\ pc[c] = "deliver" /\ kind = "inbox"
  /\ Observe(c, "delivered")
  /\ UNCHANGED <<kind, status, attempt, aged, task, mode, stale, history>>

(* The handoff task has an id derived from the receipt: inserting it again   *)
(* finds the one that exists.                                               *)
HandOver(c) ==
  /\ pc[c] = "deliver" /\ kind = "human"
  /\ task' = [task EXCEPT !["handoff"] = IF @ = "none" THEN "pending" ELSE @]
  /\ Observe(c, "waiting_human")
  /\ UNCHANGED <<kind, status, attempt, aged, mode, stale, history>>

(* The outcome is written under the claimed revision, or dropped.           *)
(* Faulty variant: the outcome is written over whatever the receipt says. *)
RecordOutcomeAlways(c) ==
  /\ pc[c] = "record" /\ Put(c, outcome[c])
  /\ IF outcome[c] = "failed" THEN Goto(c, "ensure") /\ UNCHANGED <<task, mode, outcome>>
     ELSE Answer(c, outcome[c])
  /\ UNCHANGED <<kind, attempt, history>>
RecordOutcome(c) ==
  /\ pc[c] = "record"
  /\ IF c \in stale THEN Abandon(c) /\ UNCHANGED <<status, aged, stale>>
     ELSE /\ Put(c, outcome[c])
          /\ IF outcome[c] = "failed"
             THEN Goto(c, "ensure") /\ UNCHANGED <<task, mode, outcome>>
             ELSE Answer(c, outcome[c])
  /\ UNCHANGED <<kind, attempt, history>>

(* ensure_delivery_recovery_task: one task per receipt, ever.               *)
EnsureTask(c) ==
  /\ pc[c] = "ensure"
  /\ Goto(c, "idle")
  /\ outcome' = [outcome EXCEPT ![c] = "none"]
  /\ mode' = [mode EXCEPT ![c] = "tick"]
  /\ task' = [task EXCEPT !["recovery"] = IF @ = "none" THEN "pending" ELSE @]
  /\ UNCHANGED <<kind, status, attempt, aged, stale, history>>

(* reconcile_interrupted_deliveries: an attempt that was claimed more than   *)
(* 30 seconds ago and has no outcome is failed, never repeated.             *)
Reconcile ==
  /\ pc[Worker] = "idle" /\ Interrupted
  /\ Put(Worker, "failed")
  /\ Goto(Worker, "ensure")
  /\ UNCHANGED <<kind, attempt, task, mode, outcome, history>>

(* Time passes.                                                             *)
Age ==
  /\ status = "pending" /\ ~aged
  /\ aged' = TRUE
  /\ UNCHANGED <<kind, status, attempt, task, pc, mode, outcome, stale, history>>
-----------------------------------------------------------------------------
(* resolve_delivery_human_task: the receipt is written first, then the task  *)
(* is closed; the process may stop in between.                              *)

SettleReceipt(c, t, s) ==
  /\ c \in Requests /\ pc[c] = "idle" /\ task[t] = "pending"
  /\ status' = s /\ aged' = FALSE /\ stale' = Callers
  /\ Goto(c, IF t = "handoff" THEN "closeHandoff" ELSE "closeRecovery")
  /\ UNCHANGED <<kind, attempt, task, mode, outcome, history>>

Acknowledge(c) == SettleReceipt(c, "handoff", "delivered")
CancelDelivery(c) == \E t \in {"handoff", "recovery"} : SettleReceipt(c, t, "cancelled")

CloseTask(c) ==
  /\ pc[c] \in {"closeHandoff", "closeRecovery"}
  /\ task' = [task EXCEPT ![IF pc[c] = "closeHandoff" THEN "handoff" ELSE "recovery"] = "closed"]
  /\ Goto(c, "idle")
  /\ UNCHANGED <<kind, status, attempt, aged, mode, outcome, stale, history>>

(* The process stops: every call is lost, the tables stay.                  *)
Crash ==
  /\ crashes < MaxCrashes /\ crashes' = crashes + 1
  /\ pc' = [c \in Callers |-> "idle"]
  /\ mode' = [c \in Callers |-> "tick"]
  /\ outcome' = [c \in Callers |-> "none"]
  /\ stale' = Callers
  /\ UNCHANGED <<kind, status, attempt, aged, task, automatic>>
-----------------------------------------------------------------------------
Init ==
  /\ kind \in Kinds
  /\ status = "none" /\ attempt = 0 /\ aged = FALSE
  /\ task = [t \in {"handoff", "recovery"} |-> "none"]
  /\ pc = [c \in Callers |-> "idle"]
  /\ mode = [c \in Callers |-> "tick"]
  /\ outcome = [c \in Callers |-> "none"]
  /\ stale = Callers
  /\ automatic = 0 /\ crashes = 0

Deliver(c) ==
  \/ OpenReceipt(c) \/ ClaimAttempt(c)
  \/ RejectOutput(c) \/ CallProvider(c) \/ LoseCredential(c)
  \/ KeepInInbox(c) \/ HandOver(c)
  \/ RecordOutcome(c) \/ EnsureTask(c)

Next ==
  \/ Tick \/ Reconcile \/ Age \/ Crash
  \/ \E c \in Requests : ApproveOutput(c) \/ RetryDelivery(c) \/ RetryTask(c)
                           \/ Acknowledge(c) \/ CancelDelivery(c) \/ CloseTask(c)
  \/ \E c \in Callers : Deliver(c)

Spec == Init /\ [][Next]_vars
(* The worker task keeps running and time keeps passing; requests may hang. *)
WorkerStep == Tick \/ Reconcile \/ Deliver(Worker)
FairSpec == Spec /\ WF_vars(WorkerStep) /\ WF_vars(Age)
-----------------------------------------------------------------------------
(* Receipt, tasks and callers have their types, and a caller only records an *)
(* outcome it has obtained.                                                  *)
TypeOK ==
  /\ kind \in Kinds
  /\ status \in ReceiptStatuses
  /\ attempt \in 0..MaxAttempts
  /\ aged \in BOOLEAN
  /\ task \in [{"handoff", "recovery"} -> TaskStatuses]
  /\ pc \in [Callers -> {"idle", "open", "claim", "deliver", "record", "ensure",
                         "closeHandoff", "closeRecovery"}]
  /\ mode \in [Callers -> Modes]
  /\ outcome \in [Callers -> {"none", "delivered", "waiting_human", "failed"}]
  /\ stale \subseteq Callers
  /\ automatic \in Nat /\ crashes \in 0..MaxCrashes
  /\ \A c \in Callers : pc[c] = "record" => outcome[c] # "none"

(* However the worker, an approving request and restarts interleave, the     *)
(* provider is called at most once without an operator's word: an            *)
(* interrupted call is never replayed automatically.                        *)
NoAutomaticReplay == automatic <= 1

(* A receipt that is settled stays settled: the outcome of a slow attempt     *)
(* that was reconciled, retried and settled by somebody else in the meantime *)
(* never reopens it.                                                        *)
SettledStays == [][(status \in Done) => (status' \in Done)]_vars

(* A receipt that waits for a person has the handoff task the person can     *)
(* answer.                                                                  *)
WaitingHasHandoff == status = "waiting_human" => task["handoff"] = "pending"

(* What deliver_run_output promises of a receipt at any time: the outside    *)
(* world sees one call that nobody asked for at most, and a person it waits  *)
(* for has something to answer.                                              *)
DeliveredWithConsent == TypeOK /\ NoAutomaticReplay /\ WaitingHasHandoff

(* A receipt does not stay pending: it is attempted, and an attempt whose    *)
(* outcome never arrives is reconciled.                                     *)
PendingSettles == status \in {"none", "pending"} ~> status \notin {"none", "pending"}
=============================================================================
