---------------------- MODULE WorkflowDeliveryProofs ----------------------
(* What deliver_run_output promises of a receipt, for any number of          *)
(* concurrent requests, attempts and restarts: the provider is called at     *)
(* most once without an operator's word, a receipt that waits for a person   *)
(* has its handoff task, and a settled receipt is never reopened.            *)
EXTENDS WorkflowDelivery, TLAPS

-----------------------------------------------------------------------------
(* The inductive invariant                                                   *)

UnattendedAt(c, at) == pc[c] = at /\ ~ Forced(c)

NotStarted == status = "none" => attempt = 0

(* The revision of a settled receipt is past that of every call under way.   *)
SettledAllStale ==
  status \in Done => \A c \in Callers : pc[c] \in {"claim", "deliver", "record"} => c \in stale

(* Nobody claims unattended under a current revision after the first claim.  *)
FirstClaimOnly ==
  \A c \in Callers : (UnattendedAt(c, "claim") /\ c \notin stale) => attempt = 0

AutomaticOnce ==
  /\ automatic <= 1
  /\ attempt = 0 => automatic = 0 /\ \A c \in Callers : pc[c] # "deliver"
  /\ \A c, d \in Callers : UnattendedAt(c, "deliver") /\ UnattendedAt(d, "deliver") => c = d
  /\ automatic = 1 => \A c \in Callers : ~ UnattendedAt(c, "deliver")

(* The handoff is inserted before the outcome that promises it ...           *)
HandoffFirst ==
  \A c \in Callers :
    (pc[c] = "record" /\ outcome[c] = "waiting_human" /\ c \notin stale) =>
       task["handoff"] = "pending"

(* ... and closed after the receipt was settled.                             *)
ClosedIsSettled ==
  (task["handoff"] = "closed" \/ \E c \in Callers : pc[c] = "closeHandoff") =>
     status \in {"delivered", "cancelled"}

DeliveryInv ==
  /\ TypeOK
  /\ NotStarted
  /\ SettledAllStale
  /\ FirstClaimOnly
  /\ AutomaticOnce
  /\ HandoffFirst
  /\ ClosedIsSettled
  /\ WaitingHasHandoff

-----------------------------------------------------------------------------
(* One step per action                                                       *)

LEMMA DeliveryInit ==
  ASSUME Init
  PROVE  DeliveryInv
<1>1. \A c \in Callers : pc[c] = "idle" /\ mode[c] = "tick" /\ outcome[c] = "none"
  BY DEF Init
<1>2. TypeOK
  <2>1. task \in [{"handoff", "recovery"} -> TaskStatuses]
    BY DEF Init, TaskStatuses
  <2>2. attempt \in 0..MaxAttempts /\ automatic \in Nat /\ crashes \in 0..MaxCrashes
    BY DeliveryAssumption DEF Init
  <2>3. /\ pc \in [Callers -> {"idle", "open", "claim", "deliver", "record", "ensure",
                              "closeHandoff", "closeRecovery"}]
        /\ mode \in [Callers -> Modes]
        /\ outcome \in [Callers -> {"none", "delivered", "waiting_human", "failed"}]
    BY DEF Init, Modes
  <2>4. kind \in Kinds /\ status \in ReceiptStatuses /\ aged \in BOOLEAN /\ stale \subseteq Callers
    BY DEF Init, ReceiptStatuses
  <2> QED
    BY <1>1, <2>1, <2>2, <2>3, <2>4 DEF TypeOK
<1>3. NotStarted /\ SettledAllStale /\ FirstClaimOnly /\ AutomaticOnce
  BY <1>1 DEF Init, NotStarted, SettledAllStale, FirstClaimOnly, AutomaticOnce, UnattendedAt, Done
<1>4. HandoffFirst /\ ClosedIsSettled /\ WaitingHasHandoff
  BY <1>1 DEF Init, HandoffFirst, ClosedIsSettled, WaitingHasHandoff
<1> QED
  BY <1>2, <1>3, <1>4 DEF DeliveryInv

(* Another call begins.                                                      *)
LEMMA CallStep ==
  ASSUME DeliveryInv, NEW c \in Callers, NEW m \in Modes, Call(c, m)
  PROVE  DeliveryInv'
<1> USE DEF DeliveryInv, Call, Goto
<1>1. TypeOK'
  BY DEF TypeOK, history
<1>2. NotStarted' /\ SettledAllStale' /\ FirstClaimOnly'
  BY DEF TypeOK, NotStarted, SettledAllStale, FirstClaimOnly, UnattendedAt, Forced
<1>3. AutomaticOnce'
  BY DEF TypeOK, AutomaticOnce, UnattendedAt, Forced, history
<1>4. HandoffFirst' /\ ClosedIsSettled' /\ WaitingHasHandoff'
  BY DEF TypeOK, HandoffFirst, ClosedIsSettled, WaitingHasHandoff
<1> QED
  BY <1>1, <1>2, <1>3, <1>4

(* The call is over.                                                         *)
LEMMA AnswerTypes ==
  ASSUME TypeOK, NEW c \in Callers, NEW final, Answer(c, final)
  PROVE  /\ pc' = [pc EXCEPT ![c] = "idle"]
         /\ pc' \in [Callers -> {"idle", "open", "claim", "deliver", "record", "ensure",
                                 "closeHandoff", "closeRecovery"}]
         /\ mode' \in [Callers -> Modes]
         /\ \A d \in Callers : d # c => mode'[d] = mode[d] /\ outcome'[d] = outcome[d]
         /\ outcome' \in [Callers -> {"none", "delivered", "waiting_human", "failed"}]
         /\ task' \in [{"handoff", "recovery"} -> TaskStatuses]
         /\ task'["handoff"] = task["handoff"]
         /\ \A d \in Callers : pc'[d] = "record" => outcome'[d] # "none"
<1>1. task' \in [{"handoff", "recovery"} -> TaskStatuses] /\ task'["handoff"] = task["handoff"]
  BY DEF Answer, TypeOK, TaskStatuses
<1>2. mode' \in [Callers -> Modes] /\ \A d \in Callers : d # c => mode'[d] = mode[d]
  BY DEF Answer, TypeOK, Modes
<1> QED
  BY <1>1, <1>2 DEF Answer, Goto, TypeOK

(* Nothing but the end of one call, which no part of the invariant notices.  *)
LEMMA AnswerStep ==
  ASSUME DeliveryInv, NEW c \in Callers, NEW final, Answer(c, final),
         UNCHANGED <<kind, status, attempt, aged, stale, history>>
  PROVE  DeliveryInv'
<1> USE DEF DeliveryInv, history
<1>1. TypeOK'
  BY AnswerTypes DEF TypeOK
<1>2. NotStarted' /\ SettledAllStale' /\ FirstClaimOnly'
  BY AnswerTypes DEF TypeOK, NotStarted, SettledAllStale, FirstClaimOnly, UnattendedAt, Forced
<1>3. AutomaticOnce'
  BY AnswerTypes DEF TypeOK, AutomaticOnce, UnattendedAt, Forced
<1>4. HandoffFirst' /\ ClosedIsSettled' /\ WaitingHasHandoff'
  BY AnswerTypes DEF TypeOK, HandoffFirst, ClosedIsSettled, WaitingHasHandoff
<1> QED
  BY <1>1, <1>2, <1>3, <1>4

LEMMA OpenStep ==
  ASSUME DeliveryInv, NEW c \in Callers, OpenReceipt(c)
  PROVE  DeliveryInv'
<1> USE DEF DeliveryInv
<1>1. CASE Answer(c, status) /\ UNCHANGED <<status, aged, stale>>
  <2>1. UNCHANGED <<kind, attempt, history>>
    BY DEF OpenReceipt
  <2> QED
    BY <1>1, <2>1, AnswerStep
<1>2. CASE ~ (Answer(c, status) /\ UNCHANGED <<status, aged, stale>>)
  <2>1. /\ status = "none" \/ ~ Blocked(c)
        /\ status' = IF status = "none" THEN "pending" ELSE status
        /\ aged' = IF status = "none" THEN FALSE ELSE aged
        /\ stale' = stale \ {c}
        /\ pc' = [pc EXCEPT ![c] = "claim"]
        /\ UNCHANGED <<kind, attempt, task, mode, outcome, automatic, crashes>>
    BY <1>2 DEF OpenReceipt, Goto, history
  <2>2. status \notin Done /\ status' \notin Done /\ status' \in ReceiptStatuses /\ status' # "none"
    BY <2>1 DEF TypeOK, Blocked, Done, ReceiptStatuses
  <2>3. ~ Forced(c) => attempt = 0
    BY <2>1, DeliveryAssumption DEF TypeOK, Blocked, NotStarted
  <2>4. TypeOK'
    BY <2>1, <2>2 DEF TypeOK
  <2>5. NotStarted' /\ SettledAllStale' /\ FirstClaimOnly'
    BY <2>1, <2>2, <2>3 DEF TypeOK, NotStarted, SettledAllStale, FirstClaimOnly, UnattendedAt, Forced
  <2>6. AutomaticOnce'
    BY <2>1 DEF TypeOK, AutomaticOnce, UnattendedAt, Forced
  <2>7. HandoffFirst' /\ ClosedIsSettled' /\ WaitingHasHandoff'
    BY <2>1, <2>2 DEF TypeOK, HandoffFirst, ClosedIsSettled, WaitingHasHandoff, Done
  <2> QED
    BY <2>4, <2>5, <2>6, <2>7
<1> QED
  BY <1>1, <1>2

LEMMA ClaimStep ==
  ASSUME DeliveryInv, NEW c \in Callers, ClaimAttempt(c)
  PROVE  DeliveryInv'
<1> USE DEF DeliveryInv
<1>1. CASE c \in stale
  BY <1>1, AnswerStep DEF ClaimAttempt
<1>2. CASE c \notin stale
  <2>1. /\ pc[c] = "claim" /\ attempt < MaxAttempts /\ attempt' = attempt + 1
        /\ status' = "pending" /\ aged' = FALSE /\ stale' = Callers \ {c}
        /\ pc' = [pc EXCEPT ![c] = "deliver"]
        /\ UNCHANGED <<kind, task, mode, outcome, automatic, crashes>>
    BY <1>2 DEF ClaimAttempt, Put, Goto, history
  <2>2. attempt \in Nat /\ attempt' \in 0..MaxAttempts /\ attempt' # 0
    BY <2>1, DeliveryAssumption DEF TypeOK
  <2>3. status \notin Done
    BY <1>2, <2>1 DEF SettledAllStale
  <2>4. TypeOK'
    BY <2>1, <2>2 DEF TypeOK, ReceiptStatuses
  <2>5. NotStarted' /\ SettledAllStale' /\ FirstClaimOnly'
    BY <2>1 DEF TypeOK, NotStarted, SettledAllStale, FirstClaimOnly, UnattendedAt, Done
  <2>6. AutomaticOnce'
    <3>1. CASE Forced(c)
      BY <2>1, <2>2, <3>1 DEF TypeOK, AutomaticOnce, UnattendedAt, Forced
    <3>2. CASE ~ Forced(c)
      <4>1. attempt = 0
        BY <1>2, <2>1, <3>2 DEF FirstClaimOnly, UnattendedAt
      <4> QED
        BY <2>1, <2>2, <4>1 DEF TypeOK, AutomaticOnce, UnattendedAt, Forced
    <3> QED
      BY <3>1, <3>2
  <2>7. HandoffFirst' /\ ClosedIsSettled' /\ WaitingHasHandoff'
    BY <2>1, <2>3 DEF TypeOK, HandoffFirst, ClosedIsSettled, WaitingHasHandoff, Done
  <2> QED
    BY <2>4, <2>5, <2>6, <2>7
<1> QED
  BY <1>1, <1>2

(* The effect of an attempt is observed; only an unattended provider call    *)
(* counts as automatic.                                                      *)
LEMMA ObserveStep ==
  ASSUME DeliveryInv, NEW c \in Callers,
         RejectOutput(c) \/ CallProvider(c) \/ KeepInInbox(c) \/ HandOver(c)
  PROVE  DeliveryInv'
<1> USE DEF DeliveryInv
<1>1. /\ pc[c] = "deliver" /\ pc' = [pc EXCEPT ![c] = "record"]
      /\ UNCHANGED <<kind, status, attempt, aged, mode, stale, crashes>>
  BY DEF RejectOutput, CallProvider, KeepInInbox, HandOver, Observe, Goto, history
<1>2. PICK o \in {"delivered", "failed", "waiting_human"} :
        /\ outcome' = [outcome EXCEPT ![c] = o]
        /\ o = "waiting_human" => HandOver(c)
  BY DEF RejectOutput, CallProvider, KeepInInbox, HandOver, Observe
<1>3. \/ UNCHANGED task
      \/ HandOver(c) /\ task' = [task EXCEPT !["handoff"] = IF task["handoff"] = "none" THEN "pending"
                                                            ELSE task["handoff"]]
  BY DEF RejectOutput, CallProvider, KeepInInbox, HandOver, TypeOK
<1>4. \/ automatic' = automatic
      \/ ~ Forced(c) /\ automatic' = automatic + 1
  BY DEF RejectOutput, CallProvider, KeepInInbox, HandOver, history
<1>5. /\ task' \in [{"handoff", "recovery"} -> TaskStatuses]
      /\ task'["handoff"] = task["handoff"] \/ (task["handoff"] = "none" /\ task'["handoff"] = "pending")
  BY <1>3 DEF TypeOK, TaskStatuses
<1>6. TypeOK'
  BY <1>1, <1>2, <1>4, <1>5 DEF TypeOK
<1>7. NotStarted' /\ SettledAllStale' /\ FirstClaimOnly'
  BY <1>1 DEF TypeOK, NotStarted, SettledAllStale, FirstClaimOnly, UnattendedAt, Forced
<1>8. AutomaticOnce'
  <2>1. automatic' <= 1 /\ automatic' \in Nat
    BY <1>1, <1>4 DEF TypeOK, AutomaticOnce, UnattendedAt
  <2>2. automatic' = 1 => \A d \in Callers : ~ (pc'[d] = "deliver" /\ ~ Forced(d))
    BY <1>1, <1>4 DEF TypeOK, AutomaticOnce, UnattendedAt
  <2> QED
    BY <1>1, <2>1, <2>2 DEF TypeOK, AutomaticOnce, UnattendedAt, Forced
<1>9. ClosedIsSettled' /\ WaitingHasHandoff'
  BY <1>1, <1>5 DEF TypeOK, ClosedIsSettled, WaitingHasHandoff
<1>10. HandoffFirst'
  <2>1. CASE c \in stale
    BY <1>1, <1>2, <1>5, <2>1 DEF TypeOK, HandoffFirst
  <2>2. CASE c \notin stale
    <3>1. status \notin Done
      BY <1>1, <2>2 DEF SettledAllStale
    <3>2. task["handoff"] \in {"none", "pending"}
      BY <3>1 DEF TypeOK, ClosedIsSettled, Done, TaskStatuses
    <3>3. HandOver(c) => task'["handoff"] = "pending"
      BY <3>2 DEF HandOver, TypeOK
    <3> QED
      BY <1>1, <1>2, <1>5, <3>3 DEF TypeOK, HandoffFirst
  <2> QED
    BY <2>1, <2>2
<1> QED
  BY <1>6, <1>7, <1>8, <1>9, <1>10

LEMMA RecordStep ==
  ASSUME DeliveryInv, NEW c \in Callers, RecordOutcome(c)
  PROVE  DeliveryInv'
<1> USE DEF DeliveryInv
<1>1. CASE c \in stale
  BY <1>1, AnswerStep DEF RecordOutcome, Abandon
<1>2. CASE c \notin stale
  <2>1. /\ pc[c] = "record" /\ status' = outcome[c] /\ aged' = FALSE /\ stale' = Callers \ {c}
        /\ UNCHANGED <<kind, attempt, automatic, crashes>>
    BY <1>2 DEF RecordOutcome, Put, history
  <2>2. \/ Answer(c, outcome[c])
        \/ pc' = [pc EXCEPT ![c] = "ensure"] /\ UNCHANGED <<task, mode, outcome>>
    BY <1>2 DEF RecordOutcome, Goto
  <2>3. /\ pc' \in [Callers -> {"idle", "open", "claim", "deliver", "record", "ensure",
                               "closeHandoff", "closeRecovery"}]
        /\ pc'[c] \in {"idle", "ensure"}
        /\ \A d \in Callers : d # c =>
             pc'[d] = pc[d] /\ mode'[d] = mode[d] /\ outcome'[d] = outcome[d]
        /\ mode' \in [Callers -> Modes]
        /\ outcome' \in [Callers -> {"none", "delivered", "waiting_human", "failed"}]
        /\ task' \in [{"handoff", "recovery"} -> TaskStatuses]
        /\ task'["handoff"] = task["handoff"]
    BY <2>2, AnswerTypes DEF TypeOK
  <2>4. status' \in {"delivered", "waiting_human", "failed"} /\ status \notin Done
    BY <1>2, <2>1 DEF TypeOK, SettledAllStale
  <2>5. TypeOK'
    BY <2>1, <2>3, <2>4 DEF TypeOK, ReceiptStatuses, Done
  <2>6. NotStarted' /\ SettledAllStale' /\ FirstClaimOnly'
    BY <2>1, <2>3, <2>4 DEF TypeOK, NotStarted, SettledAllStale, FirstClaimOnly, UnattendedAt
  <2>7. AutomaticOnce'
    BY <2>1, <2>3 DEF TypeOK, AutomaticOnce, UnattendedAt, Forced
  <2>8. HandoffFirst' /\ ClosedIsSettled'
    BY <2>1, <2>3, <2>4 DEF TypeOK, HandoffFirst, ClosedIsSettled, Done
  <2>9. WaitingHasHandoff'
    BY <1>2, <2>1, <2>3 DEF HandoffFirst, WaitingHasHandoff
  <2> QED
    BY <2>5, <2>6, <2>7, <2>8, <2>9
<1> QED
  BY <1>1, <1>2

LEMMA EnsureStep ==
  ASSUME DeliveryInv, NEW c \in Callers, EnsureTask(c)
  PROVE  DeliveryInv'
<1> USE DEF DeliveryInv
<1>1. /\ pc[c] = "ensure" /\ pc' = [pc EXCEPT ![c] = "idle"]
      /\ outcome' = [outcome EXCEPT ![c] = "none"] /\ mode' = [mode EXCEPT ![c] = "tick"]
      /\ UNCHANGED <<kind, status, attempt, aged, stale, automatic, crashes>>
  BY DEF EnsureTask, Goto, history
<1>2. /\ task' \in [{"handoff", "recovery"} -> TaskStatuses]
      /\ task'["handoff"] = task["handoff"]
  BY DEF EnsureTask, TypeOK, TaskStatuses
<1>3. TypeOK'
  <2>1. mode' \in [Callers -> Modes]
    BY <1>1 DEF TypeOK, Modes
  <2> QED
    BY <1>1, <1>2, <2>1 DEF TypeOK
<1>4. NotStarted' /\ SettledAllStale' /\ FirstClaimOnly'
  BY <1>1 DEF TypeOK, NotStarted, SettledAllStale, FirstClaimOnly, UnattendedAt, Forced
<1>5. AutomaticOnce'
  BY <1>1 DEF TypeOK, AutomaticOnce, UnattendedAt, Forced
<1>6. HandoffFirst' /\ ClosedIsSettled' /\ WaitingHasHandoff'
  BY <1>1, <1>2 DEF TypeOK, HandoffFirst, ClosedIsSettled, WaitingHasHandoff
<1> QED
  BY <1>3, <1>4, <1>5, <1>6

LEMMA ReconcileStep ==
  ASSUME DeliveryInv, Reconcile
  PROVE  DeliveryInv'
<1> USE DEF DeliveryInv
<1>1. /\ Worker \in Callers /\ pc[Worker] = "idle" /\ status = "pending"
      /\ status' = "failed" /\ aged' = FALSE /\ stale' = Callers \ {Worker}
      /\ pc' = [pc EXCEPT ![Worker] = "ensure"]
      /\ UNCHANGED <<kind, attempt, task, mode, outcome, automatic, crashes>>
  BY DEF Reconcile, Interrupted, Put, Goto, history, Callers
<1>2. TypeOK'
  BY <1>1 DEF TypeOK, ReceiptStatuses
<1>3. NotStarted' /\ SettledAllStale' /\ FirstClaimOnly'
  BY <1>1 DEF TypeOK, NotStarted, SettledAllStale, FirstClaimOnly, UnattendedAt, Forced, Done
<1>4. AutomaticOnce'
  BY <1>1 DEF TypeOK, AutomaticOnce, UnattendedAt, Forced
<1>5. HandoffFirst' /\ ClosedIsSettled' /\ WaitingHasHandoff'
  BY <1>1 DEF TypeOK, HandoffFirst, ClosedIsSettled, WaitingHasHandoff
<1> QED
  BY <1>2, <1>3, <1>4, <1>5

LEMMA SettleStep ==
  ASSUME DeliveryInv, NEW c \in Requests, NEW t \in {"handoff", "recovery"},
         NEW s \in {"delivered", "cancelled"}, SettleReceipt(c, t, s)
  PROVE  DeliveryInv'
<1> USE DEF DeliveryInv
<1>1. PICK to \in {"closeHandoff", "closeRecovery"} : pc' = [pc EXCEPT ![c] = to]
  BY DEF SettleReceipt, Goto
<1>2. /\ c \in Callers /\ pc[c] = "idle"
      /\ status' = s /\ aged' = FALSE /\ stale' = Callers
      /\ UNCHANGED <<kind, attempt, task, mode, outcome, automatic, crashes>>
  BY DEF SettleReceipt, history, Callers
<1>3. TypeOK'
  BY <1>1, <1>2 DEF TypeOK, ReceiptStatuses, Done
<1>4. NotStarted' /\ SettledAllStale' /\ FirstClaimOnly'
  BY <1>1, <1>2 DEF TypeOK, NotStarted, SettledAllStale, FirstClaimOnly, UnattendedAt
<1>5. AutomaticOnce'
  BY <1>1, <1>2 DEF TypeOK, AutomaticOnce, UnattendedAt, Forced
<1>6. HandoffFirst' /\ ClosedIsSettled' /\ WaitingHasHandoff'
  BY <1>1, <1>2 DEF TypeOK, HandoffFirst, ClosedIsSettled, WaitingHasHandoff
<1> QED
  BY <1>3, <1>4, <1>5, <1>6

LEMMA CloseStep ==
  ASSUME DeliveryInv, NEW c \in Callers, CloseTask(c)
  PROVE  DeliveryInv'
<1> USE DEF DeliveryInv
<1>1. /\ pc[c] \in {"closeHandoff", "closeRecovery"} /\ pc' = [pc EXCEPT ![c] = "idle"]
      /\ UNCHANGED <<kind, status, attempt, aged, mode, outcome, stale, automatic, crashes>>
  BY DEF CloseTask, Goto, history
<1>2. /\ task' \in [{"handoff", "recovery"} -> TaskStatuses]
      /\ pc[c] = "closeRecovery" => task'["handoff"] = task["handoff"]
  BY <1>1 DEF CloseTask, TypeOK, TaskStatuses
<1>3. TypeOK'
  BY <1>1, <1>2 DEF TypeOK
<1>4. NotStarted' /\ SettledAllStale' /\ FirstClaimOnly'
  BY <1>1 DEF TypeOK, NotStarted, SettledAllStale, FirstClaimOnly, UnattendedAt, Forced
<1>5. AutomaticOnce'
  BY <1>1 DEF TypeOK, AutomaticOnce, UnattendedAt, Forced
<1>6. CASE pc[c] = "closeRecovery"
  <2>1. HandoffFirst' /\ ClosedIsSettled' /\ WaitingHasHandoff'
    BY <1>1, <1>2, <1>6 DEF TypeOK, HandoffFirst, ClosedIsSettled, WaitingHasHandoff
  <2> QED
    BY <1>3, <1>4, <1>5, <2>1
<1>7. CASE pc[c] = "closeHandoff"
  <2>1. status \in {"delivered", "cancelled"}
    BY <1>7 DEF ClosedIsSettled
  <2>2. \A d \in Callers : pc[d] = "record" => d \in stale
    BY <2>1 DEF SettledAllStale, Done
  <2>3. HandoffFirst' /\ ClosedIsSettled' /\ WaitingHasHandoff'
    BY <1>1, <2>1, <2>2 DEF TypeOK, HandoffFirst, ClosedIsSettled, WaitingHasHandoff
  <2> QED
    BY <1>3, <1>4, <1>5, <2>3
<1> QED
  BY <1>1, <1>6, <1>7

LEMMA CrashStep ==
  ASSUME DeliveryInv, Crash
  PROVE  DeliveryInv'
<1> USE DEF DeliveryInv
<1>1. /\ \A c \in Callers : pc'[c] = "idle" /\ mode'[c] = "tick" /\ outcome'[c] = "none"
      /\ stale' = Callers
      /\ UNCHANGED <<kind, status, attempt, aged, task, automatic>>
  BY DEF Crash
<1>2. TypeOK'
  <2>1. crashes' \in 0..MaxCrashes
    BY DeliveryAssumption DEF Crash, TypeOK
  <2>2. /\ pc' \in [Callers -> {"idle", "open", "claim", "deliver", "record", "ensure",
                               "closeHandoff", "closeRecovery"}]
        /\ mode' \in [Callers -> Modes]
        /\ outcome' \in [Callers -> {"none", "delivered", "waiting_human", "failed"}]
    BY DEF Crash, Modes
  <2> QED
    BY <1>1, <2>1, <2>2 DEF TypeOK
<1>3. NotStarted' /\ SettledAllStale' /\ FirstClaimOnly' /\ AutomaticOnce'
  BY <1>1 DEF NotStarted, SettledAllStale, FirstClaimOnly, AutomaticOnce, UnattendedAt
<1>4. HandoffFirst' /\ ClosedIsSettled' /\ WaitingHasHandoff'
  BY <1>1 DEF HandoffFirst, ClosedIsSettled, WaitingHasHandoff
<1> QED
  BY <1>2, <1>3, <1>4

LEMMA AgeStep ==
  ASSUME DeliveryInv, Age
  PROVE  DeliveryInv'
<1> USE DEF DeliveryInv, Age, history
<1>1. TypeOK' /\ NotStarted' /\ SettledAllStale' /\ FirstClaimOnly'
  BY DEF TypeOK, NotStarted, SettledAllStale, FirstClaimOnly, UnattendedAt, Forced
<1>2. AutomaticOnce' /\ HandoffFirst' /\ ClosedIsSettled' /\ WaitingHasHandoff'
  BY DEF AutomaticOnce, HandoffFirst, ClosedIsSettled, WaitingHasHandoff, UnattendedAt, Forced
<1> QED
  BY <1>1, <1>2

LEMMA DeliveryStep ==
  ASSUME DeliveryInv, [Next]_vars
  PROVE  DeliveryInv'
<1>1. Worker \in Callers /\ \A c \in Requests : c \in Callers
  BY DEF Callers
<1>2. CASE Tick
  BY <1>1, <1>2, CallStep DEF Tick, Modes
<1>3. ASSUME NEW c \in Requests, ApproveOutput(c) \/ RetryDelivery(c) \/ RetryTask(c)
      PROVE  DeliveryInv'
  BY <1>1, <1>3, CallStep DEF ApproveOutput, RetryDelivery, RetryTask, Modes
<1>4. ASSUME NEW c \in Requests, Acknowledge(c) \/ CancelDelivery(c) PROVE DeliveryInv'
  BY <1>4, SettleStep DEF Acknowledge, CancelDelivery
<1>5. ASSUME NEW c \in Callers, LoseCredential(c) PROVE DeliveryInv'
  BY <1>5, AnswerStep DEF LoseCredential, Abandon
<1>6. ASSUME NEW c \in Callers, Deliver(c) PROVE DeliveryInv'
  BY <1>5, <1>6, OpenStep, ClaimStep, ObserveStep, RecordStep, EnsureStep DEF Deliver
<1>7. CASE UNCHANGED vars
  <2> USE <1>7 DEF vars, DeliveryInv
  <2>1. TypeOK' /\ NotStarted' /\ SettledAllStale' /\ FirstClaimOnly'
    BY DEF TypeOK, NotStarted, SettledAllStale, FirstClaimOnly, UnattendedAt, Forced
  <2>2. AutomaticOnce' /\ HandoffFirst' /\ ClosedIsSettled' /\ WaitingHasHandoff'
    BY DEF AutomaticOnce, HandoffFirst, ClosedIsSettled, WaitingHasHandoff, UnattendedAt, Forced
  <2> QED
    BY <2>1, <2>2
<1> QED
  BY <1>1, <1>2, <1>3, <1>4, <1>6, <1>7, ReconcileStep, AgeStep, CrashStep, CloseStep DEF Next

LEMMA DeliveryInvariant == Spec => []DeliveryInv
BY DeliveryInit, DeliveryStep, PTL DEF Spec

-----------------------------------------------------------------------------
(* However many requests, retries and restarts interleave, the provider is   *)
(* called at most once without an operator's word, and a receipt that waits  *)
(* for a person has the handoff task the person can answer: the compare and  *)
(* swap of begin_attempt and the order of the two writes of HandOver carry   *)
(* it.                                                                       *)
THEOREM DeliveredWithConsentHolds == Spec => []DeliveredWithConsent
<1>1. DeliveryInv => DeliveredWithConsent
  BY DEF DeliveryInv, DeliveredWithConsent, AutomaticOnce, NoAutomaticReplay
<1> QED
  BY <1>1, DeliveryInvariant, PTL

(* A settled receipt is never reopened: the revision of every call that was  *)
(* under way when it was settled is stale (update_workflow_delivery_receipt) *)
(* and no new call gets past the status check of deliver_run_output.         *)
THEOREM SettledStaysHolds == Spec => SettledStays
<1>1. DeliveryInv /\ [Next]_vars => [(status \in Done) => (status' \in Done)]_vars
  <2> SUFFICES ASSUME DeliveryInv, Next, status \in Done PROVE status' \in Done
    OBVIOUS
  <2>1. \A c \in Callers : pc[c] \in {"claim", "deliver", "record"} => c \in stale
    BY DEF DeliveryInv, SettledAllStale
  <2>2. ASSUME NEW c \in Callers, Deliver(c) PROVE status' = status
    <3>1. CASE OpenReceipt(c)
      BY <3>1 DEF OpenReceipt, Blocked, Done
    <3>2. CASE ClaimAttempt(c) \/ RecordOutcome(c)
      BY <2>1, <3>2 DEF ClaimAttempt, RecordOutcome
    <3>3. CASE \/ RejectOutput(c) \/ CallProvider(c) \/ LoseCredential(c) \/ KeepInInbox(c)
               \/ HandOver(c) \/ EnsureTask(c)
      BY <3>3 DEF RejectOutput, CallProvider, LoseCredential, KeepInInbox, HandOver, EnsureTask
    <3> QED
      BY <2>2, <3>1, <3>2, <3>3 DEF Deliver
  <2>3. ASSUME NEW c \in Requests, Acknowledge(c) \/ CancelDelivery(c) PROVE status' \in Done
    BY <2>3 DEF Acknowledge, CancelDelivery, SettleReceipt, Done
  <2>4. ASSUME NEW c \in Requests,
               ApproveOutput(c) \/ RetryDelivery(c) \/ RetryTask(c) \/ CloseTask(c)
        PROVE  status' = status
    BY <2>4 DEF ApproveOutput, RetryDelivery, RetryTask, CloseTask, Call
  <2>5. CASE Tick \/ Age \/ Crash
    BY <2>5 DEF Tick, Call, Age, Crash
  <2>6. ~ Reconcile
    BY DEF Reconcile, Interrupted, Done
  <2> QED
    BY <2>2, <2>3, <2>4, <2>5, <2>6 DEF Next
<1> QED
  BY <1>1, DeliveryInvariant, PTL DEF Spec, SettledStays

=============================================================================
