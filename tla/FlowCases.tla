----------------------------- MODULE FlowCases -----------------------------
(***************************************************************************)
(* The ingress of a flow.  Callers (a request, a webhook, an event, the      *)
(* schedule worker) deliver an event under an idempotency key; the event     *)
(* becomes a case, which freezes the active revision, and the case becomes a *)
(* run, at once or after a review.  A case is written without a revision     *)
(* check, so every caller works on its own `copy'; the id of the run derives *)
(* from the case, so inserting the run decides who spawns the driver.        *)
(***************************************************************************)
EXTENDS Integers

CONSTANTS
  Worker,       \* the flow worker task
  Requests,     \* bound: requests served at the same time
  RequestKeys,  \* idempotency keys requests use
  Inputs,       \* event payloads
  Revisions,    \* bound: revisions activated, 1..n
  Reviewed,     \* revisions whose ingress policy is require_review
  MaxTime,      \* bound: schedule intervals that pass
  MaxCrashes    \* bound: how often the server stops

ASSUME FlowCasesAssumption ==
  /\ Worker \notin Requests
  /\ Revisions \subseteq Nat /\ 1 \in Revisions /\ Reviewed \subseteq Revisions
  /\ MaxTime \in Nat /\ MaxCrashes \in Nat

VARIABLES
  flow,      \* active flow: status, active revision, next firing
  now,       \* time, in schedule intervals
  draft,     \* the flow as the worker read and advanced it
  current,   \* the worker's flow revision is still the stored one
  case,      \* [Keys -> the stored case]
  run,       \* [Keys -> the run of the case, and what drives it]
  pc,        \* [Callers -> where the call stands]
  key,       \* [Callers -> key of the event]
  event,     \* [Callers -> payload of the event and the revision it met]
  copy,      \* [Callers -> the caller's copy of the case]
  spawns,    \* callers that inserted the run and owe it a driver
  ordered,   \* what the operator last ordered of the flow, history
  started,   \* [Keys -> drivers spawned for the case], history
  crashes    \* how often the server has stopped, history

callVars == <<pc, key, event, copy, spawns>>
flowVars == <<flow, now, draft, current, ordered>>
caseVars == <<flow, now, draft, current, case, run, pc, key, event, copy, spawns,
          ordered, started, crashes>>

Callers == {Worker} \cup Requests
Times == 0..MaxTime
Keys == RequestKeys \cup Times
NoCase == [status |-> "none"]
NoRun == [status |-> "none"]
Payloads == Inputs \cup {"schedule"}
CaseStatuses == {"accepted", "started", "failed", "superseded"}

Goto(c, to) == pc' = [pc EXCEPT ![c] = to]
NoEvent == [input |-> "none", rev |-> 1]
NoFlow == [active |-> FALSE, rev |-> 1, next |-> 0]
Return(c) ==
  /\ Goto(c, "idle")
  /\ key' = [key EXCEPT ![c] = 0]
  /\ event' = [event EXCEPT ![c] = NoEvent]
  /\ copy' = [copy EXCEPT ![c] = NoCase]
  /\ spawns' = spawns \ {c}
(* update_flow_case: the document of the caller replaces the stored one.    *)
Store(c, d) == case' = [case EXCEPT ![key[c]] = d]
-----------------------------------------------------------------------------
(* The active flow.                                                         *)

PauseFlow ==
  /\ flow.active
  /\ flow' = [flow EXCEPT !.active = FALSE]
  /\ ordered' = [ordered EXCEPT !.active = FALSE]
  /\ current' = FALSE
  /\ UNCHANGED <<now, draft, case, run, callVars, started, crashes>>
ResumeFlow ==
  /\ ~flow.active
  /\ flow' = [flow EXCEPT !.active = TRUE]
  /\ ordered' = [ordered EXCEPT !.active = TRUE]
  /\ current' = FALSE
  /\ UNCHANGED <<now, draft, case, run, callVars, started, crashes>>
(* A new revision brings its own trigger, with the firing time it was drawn  *)
(* up with.                                                                 *)
ActivateRevision(r) ==
  /\ r = flow.rev + 1
  /\ \E t \in Times : flow' = [active |-> TRUE, rev |-> r, next |-> t]
  /\ ordered' = [active |-> TRUE, rev |-> r]
  /\ current' = FALSE
  /\ UNCHANGED <<now, draft, case, run, callVars, started, crashes>>

(* process_schedule_tick: the worker reads the flow, moves the next firing   *)
(* past now and writes it back under the revision it read; only then is the  *)
(* event accepted.                                                          *)
ScheduleTick ==
  /\ pc[Worker] = "idle" /\ flow.active /\ flow.next <= now
  /\ draft' = [flow EXCEPT !.next = now + 1]
  /\ current' = TRUE
  /\ key' = [key EXCEPT ![Worker] = flow.next]
  /\ Goto(Worker, "fire")
  /\ UNCHANGED <<flow, now, case, run, event, copy, spawns, ordered, started, crashes>>
(* Faulty variant: the flow is written back without the revision check. *)
FireScheduleUnchecked ==
  /\ pc[Worker] = "fire" /\ flow' = draft
  /\ event' = [event EXCEPT ![Worker] = [input |-> "schedule", rev |-> draft.rev]]
  /\ Goto(Worker, "lookup") /\ draft' = NoFlow /\ current' = FALSE
  /\ UNCHANGED <<now, case, run, key, copy, spawns, ordered, started, crashes>>
FireSchedule ==
  /\ pc[Worker] = "fire"
  /\ IF current
     THEN /\ flow' = draft
          /\ event' = [event EXCEPT ![Worker] = [input |-> "schedule", rev |-> draft.rev]]
          /\ Goto(Worker, "lookup")
          /\ UNCHANGED <<key, copy, spawns>>
     ELSE Return(Worker) /\ UNCHANGED flow
  /\ draft' = NoFlow /\ current' = FALSE
  /\ UNCHANGED <<now, case, run, ordered, started, crashes>>
TimePasses ==
  /\ now < MaxTime /\ now' = now + 1
  /\ UNCHANGED <<flow, draft, current, case, run, callVars, ordered, started, crashes>>
-----------------------------------------------------------------------------
(* accept_flow_case.                                                        *)

AcceptFlowCase(c, k, i) ==
  /\ pc[c] = "idle" /\ flow.active
  /\ key' = [key EXCEPT ![c] = k]
  /\ event' = [event EXCEPT ![c] = [input |-> i, rev |-> flow.rev]]
  /\ Goto(c, "lookup")
  /\ UNCHANGED <<flowVars, case, run, copy, spawns, started, crashes>>

(* resume_or_reuse_case, for a case that exists: another payload under the   *)
(* same key is refused, an accepted case that needs no review is started.   *)
ResumeOrReuse(c) ==
  LET d == case[key[c]] IN
  IF d.input = event[c].input /\ d.status = "accepted" /\ d.rev \notin Reviewed
  THEN copy' = [copy EXCEPT ![c] = d] /\ Goto(c, "prepare") /\ UNCHANGED <<key, event, spawns>>
  ELSE Return(c)

LookupCase(c) ==
  /\ pc[c] = "lookup"
  /\ IF case[key[c]] = NoCase THEN Goto(c, "insert") /\ UNCHANGED <<key, event, copy, spawns>>
     ELSE ResumeOrReuse(c)
  /\ UNCHANGED <<flowVars, case, run, started, crashes>>

Accepted(c) == [status |-> "accepted", input |-> event[c].input,
                rev |-> event[c].rev, linked |-> FALSE]
(* Faulty variant: the case is left for review whatever its policy. *)
InsertCaseOnly(c) ==
  /\ pc[c] = "insert" /\ Return(c)
  /\ IF case[key[c]] = NoCase THEN Store(c, Accepted(c)) ELSE UNCHANGED case
  /\ UNCHANGED <<flowVars, run, started, crashes>>
InsertCase(c) ==
  /\ pc[c] = "insert"
  /\ IF case[key[c]] # NoCase THEN ResumeOrReuse(c) /\ UNCHANGED case
     ELSE /\ Store(c, Accepted(c))
          /\ IF event[c].rev \in Reviewed THEN Return(c)
             ELSE /\ copy' = [copy EXCEPT ![c] = Accepted(c)]
                  /\ Goto(c, "prepare") /\ UNCHANGED <<key, event, spawns>>
  /\ UNCHANGED <<flowVars, run, started, crashes>>

Pending(k) == case[k] # NoCase /\ case[k].status = "accepted" /\ ~case[k].linked

(* start_pending_flow_case: the reviewer starts the case.                   *)
StartPending(c, k) ==
  /\ pc[c] = "idle" /\ Pending(k) /\ flow.active
  /\ key' = [key EXCEPT ![c] = k]
  /\ copy' = [copy EXCEPT ![c] = case[k]]
  /\ Goto(c, "prepare")
  /\ UNCHANGED <<flowVars, case, run, event, spawns, started, crashes>>
-----------------------------------------------------------------------------
(* start_accepted_case.                                                     *)

(* The run is built, its runtime context is made and the run is inserted;     *)
(* each of them may fail.                                                   *)
PrepareRun(c) ==
  /\ pc[c] = "prepare" /\ Goto(c, "insertRun")
  /\ UNCHANGED <<flowVars, case, run, key, event, copy, spawns, started, crashes>>
FailCase(c) ==
  /\ pc[c] \in {"prepare", "insertRun"}
  /\ Store(c, [copy[c] EXCEPT !.status = "failed"])
  /\ Return(c)
  /\ UNCHANGED <<flowVars, run, started, crashes>>

(* insert_flow_run: the primary key lets one caller insert, and only that    *)
(* one spawns.                                                              *)
(* Faulty variant: whoever starts the case spawns. *)
InsertRunAlwaysSpawns(c) ==
  /\ pc[c] = "insertRun" /\ spawns' = spawns \cup {c} /\ Goto(c, "link")
  /\ run' = IF run[key[c]] # NoRun THEN run
            ELSE [run EXCEPT ![key[c]] = [status |-> "queued", rev |-> copy[c].rev]]
  /\ UNCHANGED <<flowVars, case, key, event, copy, started, crashes>>
InsertRun(c) ==
  /\ pc[c] = "insertRun"
  /\ IF run[key[c]] = NoRun
     THEN /\ run' = [run EXCEPT ![key[c]] = [status |-> "queued", rev |-> copy[c].rev]]
          /\ spawns' = spawns \cup {c}
     ELSE UNCHANGED <<run, spawns>>
  /\ Goto(c, "link")
  /\ UNCHANGED <<flowVars, case, key, event, copy, started, crashes>>

LinkCase(c) ==
  /\ pc[c] = "link"
  /\ Store(c, [copy[c] EXCEPT !.status = "started", !.linked = TRUE])
  /\ IF c \in spawns
     THEN /\ run' = [run EXCEPT ![key[c]].status = "driven"]
          /\ started' = [started EXCEPT ![key[c]] = @ + 1]
     ELSE UNCHANGED <<run, started>>
  /\ Return(c)
  /\ UNCHANGED <<flowVars, crashes>>
-----------------------------------------------------------------------------
(* supersede_pending_flow_case: the case is read as pending, then the copy   *)
(* is written.  Naming a replacement, which must be pending as well, is      *)
(* optional and leaves the replacement alone.                               *)
ReadSuperseded(c, k) ==
  /\ pc[c] = "idle" /\ Pending(k)
  /\ key' = [key EXCEPT ![c] = k]
  /\ copy' = [copy EXCEPT ![c] = case[k]]
  /\ Goto(c, "supersede")
  /\ UNCHANGED <<flowVars, case, run, event, spawns, started, crashes>>
Supersede(c) ==
  /\ pc[c] = "supersede"
  /\ Store(c, [copy[c] EXCEPT !.status = "superseded"])
  /\ Return(c)
  /\ UNCHANGED <<flowVars, run, started, crashes>>

(* The server stops; when it is back, recover_interrupted_runtime_state has  *)
(* paused the runs that were queued or running.                             *)
Restart ==
  /\ crashes < MaxCrashes /\ crashes' = crashes + 1
  /\ pc' = [c \in Callers |-> "idle"]
  /\ key' = [c \in Callers |-> 0]
  /\ event' = [c \in Callers |-> NoEvent]
  /\ copy' = [c \in Callers |-> NoCase]
  /\ draft' = NoFlow /\ current' = FALSE
  /\ spawns' = {}
  /\ run' = [k \in Keys |-> IF run[k] = NoRun THEN NoRun
                            ELSE [run[k] EXCEPT !.status = "paused"]]
  /\ UNCHANGED <<flow, now, case, ordered, started>>
-----------------------------------------------------------------------------
CasesInit ==
  /\ flow = [active |-> TRUE, rev |-> 1, next |-> 0]
  /\ ordered = [active |-> TRUE, rev |-> 1]
  /\ now = 0 /\ draft = NoFlow /\ current = FALSE
  /\ case = [k \in Keys |-> NoCase]
  /\ run = [k \in Keys |-> NoRun]
  /\ pc = [c \in Callers |-> "idle"]
  /\ key = [c \in Callers |-> 0]
  /\ event = [c \in Callers |-> NoEvent]
  /\ copy = [c \in Callers |-> NoCase]
  /\ spawns = {}
  /\ started = [k \in Keys |-> 0]
  /\ crashes = 0

Proceed(c) ==
  \/ LookupCase(c) \/ InsertCase(c)
  \/ PrepareRun(c) \/ FailCase(c) \/ InsertRun(c) \/ LinkCase(c)
  \/ Supersede(c)

CasesNext ==
  \/ PauseFlow \/ ResumeFlow \/ \E r \in Revisions : ActivateRevision(r)
  \/ ScheduleTick \/ FireSchedule \/ TimePasses \/ Restart
  \/ \E c \in Requests :
       \/ \E k \in RequestKeys, i \in Inputs : AcceptFlowCase(c, k, i)
       \/ \E k \in Keys : StartPending(c, k) \/ ReadSuperseded(c, k)
  \/ \E c \in Callers : Proceed(c)

CasesSpec == CasesInit /\ [][CasesNext]_caseVars
(* A call the server has begun goes on until it returns or the server stops. *)
FairCasesSpec == CasesSpec /\ \A c \in Callers : WF_caseVars(Proceed(c))
-----------------------------------------------------------------------------
(* Flow, cases and runs have their types, and a caller about to start a case *)
(* holds it as accepted and not yet linked to a run.                         *)
CasesTypeOK ==
  /\ flow \in [active : BOOLEAN, rev : Revisions, next : 0..(MaxTime + 1)]
  /\ draft \in [active : BOOLEAN, rev : Revisions, next : 0..(MaxTime + 1)]
  /\ now \in Times /\ current \in BOOLEAN
  /\ case \in [Keys -> {NoCase} \cup [status : CaseStatuses, input : Payloads,
                                      rev : Revisions, linked : BOOLEAN]]
  /\ run \in [Keys -> {NoRun} \cup [status : {"queued", "driven", "paused"}, rev : Revisions]]
  /\ pc \in [Callers -> {"idle", "fire", "lookup", "insert", "prepare", "insertRun",
                         "link", "supersede"}]
  /\ key \in [Callers -> Keys]
  /\ event \in [Callers -> [input : Payloads \cup {"none"}, rev : Revisions]]
  /\ \A c \in Callers :
       IF pc[c] \in {"prepare", "insertRun", "link", "supersede"}
       THEN copy[c] \in [status : {"accepted"}, input : Payloads, rev : Revisions, linked : {FALSE}]
       ELSE copy[c] = NoCase
  /\ spawns \subseteq {c \in Callers : pc[c] = "link"}
  /\ ordered \in [active : BOOLEAN, rev : Revisions]
  /\ started \in [Keys -> Nat] /\ crashes \in 0..MaxCrashes

(* However often an event is delivered under one key, by whom and around     *)
(* which restarts, its case spawns one driver at most.                      *)
OneStartPerCase == \A k \in Keys : started[k] <= 1

(* A run that was inserted and has no driver is about to get one from the    *)
(* caller that inserted it; a restart in between leaves it paused.          *)
QueuedHasStarter ==
  \A k \in Keys : run[k] # NoRun /\ run[k].status = "queued" =>
    \E c \in spawns : key[c] = k

(* A run executes the revision that was active when its event came in,       *)
(* whatever was activated before somebody started it.                       *)
RunsFrozenRevision ==
  \A k \in Keys : run[k] # NoRun => case[k] # NoCase /\ run[k].rev = case[k].rev

(* One event is one run (start_accepted_case): driven once, not left without *)
(* a driver, and of the revision that accepted the event.                    *)
EventRunsOnce == CasesTypeOK /\ OneStartPerCase /\ QueuedHasStarter /\ RunsFrozenRevision

(* The worker, which writes back the flow it read, never undoes what the     *)
(* operator ordered in between.                                             *)
OrderStands == flow.active = ordered.active /\ flow.rev = ordered.rev

(* Unless the server stops, a case that needs no review does not stay        *)
(* accepted.                                                                *)
ImmediateCaseSettles ==
  \A k \in Keys :
    (case[k] # NoCase /\ case[k].status = "accepted" /\ case[k].rev \notin Reviewed)
      ~> (case[k].status # "accepted" \/ crashes > 0)
=============================================================================
