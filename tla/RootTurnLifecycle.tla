------------------------ MODULE RootTurnLifecycle ------------------------
(* The Turns of the root Agent of one user task (turns.rs).  Each Turn is    *)
(* kept twice: the canonical AgentTurn of the collaboration repository, and  *)
(* the product's own row, which the user interface shows; a process-local    *)
(* map holds the run of the thread and its cancellation token.  HTTP         *)
(* handlers and drivers work on the three at the same time: each row update  *)
(* is a transaction, each access to the map is under its lock, and nothing   *)
(* spans both stores.                                                        *)
(*                                                                           *)
(* A process is one call in progress: a driver (begin or resume, then        *)
(* finish), a cancel or a dismissal of a waiting Turn (finish), or a status  *)
(* read.  Threads share nothing, so one thread is modelled.  Abstracted:     *)
(* the agent loop, error texts, change capture, goals and the message queue. *)
EXTENDS TurnStatus, Integers, Sequences, FiniteSets

CONSTANTS
  Procs,            \* bound: calls in progress at the same time
  NoProc,
  Outcomes,         \* what a driven Turn may end in
  MaxTurns,         \* bound: product Turns
  MaxInvocations,   \* bound: invocations per Turn
  MaxCrashes        \* bound: restarts

ASSUME RootAssumption ==
  /\ NoProc \notin Procs
  /\ Outcomes \subseteq WaitingStatuses \cup {"completed", "failed", "cancelled"}
  /\ MaxTurns \in Nat
  /\ MaxInvocations \in Nat
  /\ MaxCrashes \in Nat

VARIABLES
  row,        \* the product's turns table: the status of each Turn
  canonical,  \* the root thread's AgentTurns
  running,    \* the map's entry for this thread: an owner, a Turn, a token
  proc,       \* the calls in progress
  crashes

vars == <<row, canonical, running, proc, crashes>>

-----------------------------------------------------------------------------
(* Statuses of the product row                                               *)

ProductWaiting == {"waiting_approval", "waiting_user_input", "waiting_user_action"}

TurnStatus == {"running", "cancelling", "succeeded", "failed", "cancelled", "interrupted"}
                \cup ProductWaiting

is_active(s) == s \in {"running", "cancelling"}

product_status(s) ==
  CASE s \in {"queued", "running"} -> "running"
    [] s = "waiting_input"         -> "waiting_user_input"
    [] s = "waiting_action"        -> "waiting_user_action"
    [] s = "completed"             -> "succeeded"
    [] OTHER                       -> s

(* Defined for what finish accepts: a paused or terminal product status.     *)
agent_status(s) ==
  CASE s = "waiting_user_input"  -> "waiting_input"
    [] s = "waiting_user_action" -> "waiting_action"
    [] s = "succeeded"           -> "completed"
    [] OTHER                     -> s

-----------------------------------------------------------------------------
TurnNo == 1..MaxTurns

(* A canonical Turn has the identity of its product Turn.                    *)
Canonical == [turn : TurnNo, status : AgentTurnStatus, invocation_id : Nat]

NoEntry == [owner |-> NoProc, turn |-> 0, cancelled |-> FALSE]

Entry == [owner : Procs, turn : TurnNo, cancelled : BOOLEAN]

(* "resuming" holds the lock of the map across its writes to both stores.    *)
Step == {"bind", "start", "resuming", "drive", "effective", "record", "project",
         "compare", "update", "remove"}

Idle == [pc |-> "idle"]

(* status: the status asked for, read or about to be written.                *)
Call == [pc : Step, turn : TurnNo, status : TurnStatus, cancelled : BOOLEAN]

(* The product rows only hold statuses the product knows: a canonical status *)
(* is mapped (product_status) before it is written to one.                   *)
TypeOK ==
  /\ row \in Seq(TurnStatus) /\ Len(row) <= MaxTurns
  /\ canonical \in Seq(Canonical)
  /\ running \in Entry \cup {NoEntry}
  /\ proc \in [Procs -> Call \cup {Idle}]
  /\ crashes \in 0..MaxCrashes

At(p, pc) == proc[p].pc = pc

Goto(p, pc) == proc' = [proc EXCEPT ![p].pc = pc]

Done(p) == proc' = [proc EXCEPT ![p] = Idle]

Unlocked == \A p \in Procs : ~ At(p, "resuming")

Registered(p) == running.turn = proc[p].turn

(* find_turn                                                                 *)
Found(n) == {i \in DOMAIN canonical : canonical[i].turn = n}

CanonicalStatus(n) == canonical[CHOOSE i \in Found(n) : TRUE].status

SetCanonical(n, next) ==
  canonical' = [i \in DOMAIN canonical |->
                  IF i \in Found(n) THEN [canonical[i] EXCEPT !.status = next]
                  ELSE canonical[i]]

(* The unique index on active rows refuses a second one.                     *)
RowAllowed(n, s) ==
  is_active(s) => \A m \in DOMAIN row : m # n => ~ is_active(row[m])

-----------------------------------------------------------------------------
Init ==
  /\ row = <<>>
  /\ canonical = <<>>
  /\ running = NoEntry
  /\ proc = [p \in Procs |-> Idle]
  /\ crashes = 0

(* begin: the public identity is reserved.  What the handler checked before  *)
(* (no pending approval, input or action) may be stale by now.               *)
begin(p) ==
  /\ At(p, "idle")
  /\ Unlocked
  /\ running = NoEntry
  /\ Len(row) < MaxTurns
  /\ RowAllowed(Len(row) + 1, "running")
  /\ row' = Append(row, "running")
  /\ running' = [owner |-> p, turn |-> Len(row) + 1, cancelled |-> FALSE]
  /\ proc' = [proc EXCEPT ![p] = [pc |-> "bind", turn |-> Len(row) + 1,
                                  status |-> "running", cancelled |-> FALSE]]
  /\ UNCHANGED <<canonical, crashes>>

(* The preflight of the request fails, or binding is refused because the     *)
(* root's latest canonical Turn is not finished.                             *)
RefuseBinding(p) ==
  /\ At(p, "bind")
  /\ proc' = [proc EXCEPT ![p].pc = "effective", ![p].status = "failed"]
  /\ UNCHANGED <<row, canonical, running, crashes>>

(* bind_root_collaboration: create_session or create_root_followup_turn ...  *)
Bind(p) ==
  /\ At(p, "bind")
  /\ \A i \in DOMAIN canonical : i = Len(canonical) => is_terminal(canonical[i].status)
  /\ canonical' = Append(canonical, [turn |-> proc[p].turn, status |-> "queued",
                                     invocation_id |-> 1])
  /\ Goto(p, "start")
  /\ UNCHANGED <<row, running, crashes>>

(* ... and the transition to Running.                                        *)
Start(p) ==
  /\ At(p, "start")
  /\ SetCanonical(proc[p].turn, "running")
  /\ Goto(p, "drive")
  /\ UNCHANGED <<row, running, crashes>>

(* Faulty variant: the canonical status is not checked; the bound leaves     *)
(* room for the second resume.                                               *)
resume_authority_unchecked(p, n) ==
  /\ At(p, "idle")
  /\ Unlocked
  /\ running = NoEntry
  /\ Found(n) # {}
  /\ \A i \in Found(n) : canonical[i].invocation_id <= MaxInvocations
  /\ canonical' = [i \in DOMAIN canonical |->
                     IF i \in Found(n)
                     THEN [canonical[i] EXCEPT !.status = "running", !.invocation_id = @ + 1]
                     ELSE canonical[i]]
  /\ proc' = [proc EXCEPT ![p] = [pc |-> "resuming", turn |-> n,
                                  status |-> product_status(CanonicalStatus(n)),
                                  cancelled |-> FALSE]]
  /\ UNCHANGED <<row, running, crashes>>

(* resume: the canonical Turn is waiting and no run is registered; it is     *)
(* resumed first, under the lock of the map ...                              *)
resume_authority(p, n) ==
  /\ At(p, "idle")
  /\ Unlocked
  /\ running = NoEntry
  /\ Found(n) # {}
  /\ needs_attention(CanonicalStatus(n))
  /\ \A i \in Found(n) : canonical[i].invocation_id < MaxInvocations
  /\ canonical' = [i \in DOMAIN canonical |->
                     IF i \in Found(n)
                     THEN [canonical[i] EXCEPT !.status = "running", !.invocation_id = @ + 1]
                     ELSE canonical[i]]
  /\ proc' = [proc EXCEPT ![p] = [pc |-> "resuming", turn |-> n,
                                  status |-> product_status(CanonicalStatus(n)),
                                  cancelled |-> FALSE]]
  /\ UNCHANGED <<row, running, crashes>>

(* ... then the product row, if it waits too ...                             *)
resume_turn_invocation(p) ==
  LET n == proc[p].turn IN
  /\ At(p, "resuming")
  /\ row[n] \in ProductWaiting
  /\ RowAllowed(n, "running")
  /\ row' = [row EXCEPT ![n] = "running"]
  /\ running' = [owner |-> p, turn |-> n, cancelled |-> FALSE]
  /\ Goto(p, "drive")
  /\ UNCHANGED <<canonical, crashes>>

(* ... or else the canonical Turn is rolled back to the wait it had.         *)
rollback_authority(p) ==
  LET n == proc[p].turn IN
  /\ At(p, "resuming")
  /\ ~ (row[n] \in ProductWaiting /\ RowAllowed(n, "running"))
  /\ IF transition_ok(CanonicalStatus(n), agent_status(proc[p].status))
     THEN SetCanonical(n, agent_status(proc[p].status))
     ELSE UNCHANGED canonical
  /\ Done(p)
  /\ UNCHANGED <<row, running, crashes>>

(* The driver returns.  The token may be cancelled after its last look.      *)
Drive(p, outcome) ==
  /\ At(p, "drive")
  /\ outcome = "cancelled" => proc[p].cancelled
  /\ proc' = [proc EXCEPT ![p].pc = "effective", ![p].status = product_status(outcome)]
  /\ UNCHANGED <<row, canonical, running, crashes>>

-----------------------------------------------------------------------------
(* finish: four separate steps                                               *)

effective_finish_status(p) ==
  /\ At(p, "effective")
  /\ Unlocked
  /\ proc' = [proc EXCEPT ![p].pc = "record",
                          ![p].status = IF Registered(p) /\ running.cancelled
                                        THEN "cancelled" ELSE @]
  /\ UNCHANGED <<row, canonical, running, crashes>>

(* Faulty variant: the canonical status is overwritten.                      *)
RecordCanonical_unchecked(p) ==
  /\ At(p, "record")
  /\ SetCanonical(proc[p].turn, agent_status(proc[p].status))
  /\ Goto(p, "project")
  /\ UNCHANGED <<row, running, crashes>>

(* A Turn that was never bound is a product-only fact; a refused transition  *)
(* makes finish return the error.                                            *)
RecordCanonical(p) ==
  LET n == proc[p].turn IN
  /\ At(p, "record")
  /\ \/ /\ Found(n) = {}
        /\ Goto(p, "project")
        /\ UNCHANGED canonical
     \/ /\ Found(n) # {}
        /\ transition_ok(CanonicalStatus(n), agent_status(proc[p].status))
        /\ SetCanonical(n, agent_status(proc[p].status))
        /\ Goto(p, "project")
     \/ /\ Found(n) # {}
        /\ ~ transition_ok(CanonicalStatus(n), agent_status(proc[p].status))
        /\ Done(p)
        /\ UNCHANGED canonical
  /\ UNCHANGED <<row, running, crashes>>

(* Faulty variant: a paused Turn stays registered.                           *)
FinishProjection_keeps_paused(p) ==
  /\ At(p, "project")
  /\ Unlocked
  /\ \/ /\ Registered(p)
        /\ row' = [row EXCEPT ![proc[p].turn] =
                     IF running.cancelled THEN "cancelled" ELSE proc[p].status]
        /\ running' = IF proc[p].status \in ProductWaiting THEN running ELSE NoEntry
        /\ Done(p)
     \/ /\ ~ Registered(p)
        /\ Goto(p, "update")
        /\ UNCHANGED <<row, running>>
  /\ UNCHANGED <<canonical, crashes>>

(* TurnManager::finish, under the lock: the token has the last word.         *)
FinishProjection(p) ==
  /\ At(p, "project")
  /\ Unlocked
  /\ \/ /\ Registered(p)
        /\ row' = [row EXCEPT ![proc[p].turn] =
                     IF running.cancelled THEN "cancelled" ELSE proc[p].status]
        /\ running' = NoEntry
        /\ Done(p)
     \/ /\ ~ Registered(p)
        /\ Goto(p, "update")
        /\ UNCHANGED <<row, running>>
  /\ UNCHANGED <<canonical, crashes>>

(* project_status: the row first, without the lock ...                       *)
UpdateRow(p) ==
  LET n == proc[p].turn IN
  /\ At(p, "update")
  /\ row' = IF RowAllowed(n, proc[p].status) THEN [row EXCEPT ![n] = proc[p].status] ELSE row
  /\ IF is_active(proc[p].status) THEN Done(p) ELSE Goto(p, "remove")
  /\ UNCHANGED <<canonical, running, crashes>>

(* ... then the entry, whichever run of the Turn it belongs to.              *)
RemoveEntry(p) ==
  /\ At(p, "remove")
  /\ Unlocked
  /\ running' = IF Registered(p) THEN NoEntry ELSE running
  /\ Done(p)
  /\ UNCHANGED <<row, canonical, crashes>>

-----------------------------------------------------------------------------
(* status: the latest row is read ...                                        *)
ReadProjection(p) ==
  /\ At(p, "idle")
  /\ Unlocked
  /\ row # <<>>
  /\ proc' = [proc EXCEPT ![p] =
                [pc |-> "compare", turn |-> Len(row),
                 status |-> IF running.turn = Len(row) /\ running.cancelled
                            THEN "cancelling" ELSE row[Len(row)],
                 cancelled |-> FALSE]]
  /\ UNCHANGED <<row, canonical, running, crashes>>

(* Faulty variant: only a row that still looks active is repaired.           *)
CompareWithCanonical_active(p) ==
  LET n == proc[p].turn
      repair == /\ Found(n) # {}
                /\ proc[p].status = "running"
                /\ proc[p].status # product_status(CanonicalStatus(n))
  IN
  /\ At(p, "compare")
  /\ IF repair
     THEN proc' = [proc EXCEPT ![p].pc = "update",
                               ![p].status = product_status(CanonicalStatus(n))]
     ELSE Done(p)
  /\ UNCHANGED <<row, canonical, running, crashes>>

(* ... and compared with the canonical Turn; a difference is repaired.       *)
CompareWithCanonical(p) ==
  LET n == proc[p].turn
      repair == /\ Found(n) # {}
                /\ ~ (proc[p].status = "cancelling" /\ CanonicalStatus(n) = "running")
                /\ proc[p].status # product_status(CanonicalStatus(n))
  IN
  /\ At(p, "compare")
  /\ IF repair
     THEN proc' = [proc EXCEPT ![p].pc = "update",
                               ![p].status = product_status(CanonicalStatus(n))]
     ELSE Done(p)
  /\ UNCHANGED <<row, canonical, running, crashes>>

(* cancel of a registered run: a signal, the canonical Turn stays Running.   *)
cancel ==
  /\ Unlocked
  /\ running # NoEntry
  /\ ~ running.cancelled
  /\ RowAllowed(running.turn, "cancelling")
  /\ row' = [row EXCEPT ![running.turn] = "cancelling"]
  /\ running' = [running EXCEPT !.cancelled = TRUE]
  /\ proc' = [p \in Procs |->
                IF p = running.owner /\ proc[p] # Idle /\ proc[p].turn = running.turn
                THEN [proc[p] EXCEPT !.cancelled = TRUE]
                ELSE proc[p]]
  /\ UNCHANGED <<canonical, crashes>>

(* cancel_waiting_agent_turn, and a dismissed user-input request: no run is  *)
(* registered and the row waits, so the Turn is finished as cancelled.       *)
CancelWaiting(p) ==
  /\ At(p, "idle")
  /\ Unlocked
  /\ running = NoEntry
  /\ row # <<>>
  /\ row[Len(row)] \in ProductWaiting
  /\ proc' = [proc EXCEPT ![p] = [pc |-> "effective", turn |-> Len(row),
                                  status |-> "cancelled", cancelled |-> FALSE]]
  /\ UNCHANGED <<row, canonical, running, crashes>>

(* The process dies and comes back: recover_collaboration_runs interrupts    *)
(* the root's canonical Turn, interrupt_active_turns the product rows.       *)
Restart ==
  /\ crashes < MaxCrashes
  /\ crashes' = crashes + 1
  /\ canonical' = [i \in DOMAIN canonical |->
                     IF canonical[i].status \in {"queued", "running"}
                     THEN [canonical[i] EXCEPT !.status = "interrupted"]
                     ELSE canonical[i]]
  /\ row' = [n \in DOMAIN row |-> IF is_active(row[n]) THEN "interrupted" ELSE row[n]]
  /\ running' = NoEntry
  /\ proc' = [p \in Procs |-> Idle]

-----------------------------------------------------------------------------
(* A call that was made goes on.                                             *)
Continue(p) ==
  \/ Bind(p)
  \/ RefuseBinding(p)
  \/ Start(p)
  \/ resume_turn_invocation(p)
  \/ rollback_authority(p)
  \/ \E outcome \in Outcomes : Drive(p, outcome)
  \/ effective_finish_status(p)
  \/ RecordCanonical(p)
  \/ FinishProjection(p)
  \/ UpdateRow(p)
  \/ RemoveEntry(p)
  \/ CompareWithCanonical(p)

Next ==
  \/ \E p \in Procs : begin(p)
  \/ \E p \in Procs, n \in TurnNo : resume_authority(p, n)
  \/ \E p \in Procs : Continue(p)
  \/ \E p \in Procs : ReadProjection(p)
  \/ cancel
  \/ \E p \in Procs : CancelWaiting(p)
  \/ Restart

Spec == Init /\ [][Next]_vars

(* Every call runs on, and the user interface keeps asking for the status.   *)
FairSpec ==
  /\ Spec
  /\ \A p \in Procs : SF_vars(Continue(p))
  /\ SF_vars(\E p \in Procs : ReadProjection(p))

-----------------------------------------------------------------------------
(* What the lifecycle promises                                               *)

(* No Turn is driven by two runs: decisions, repeated resumes, repairs and   *)
(* cancels race, and only the canonical status decides who runs (resume).    *)
(* Rows and calls have their types throughout.                               *)
OneDriverPerTurn ==
  /\ TypeOK
  /\ \A p, q \in Procs :
       (At(p, "drive") /\ At(q, "drive") /\ proc[p].turn = proc[q].turn) => p = q

(* begin, resume and rollback_authority, finish and Restart together move    *)
(* the canonical Turns as TurnHistory says.                                  *)
TurnRows ==
  [a \in {"root"} |-> [i \in DOMAIN canonical |->
     [status |-> canonical[i].status, invocation_id |-> canonical[i].invocation_id]]]

History == INSTANCE TurnHistory WITH Agents <- {"root"}, history <- TurnRows

ImplementsTurnHistory == History!Spec

(* An entry of the map never outlives its run: if it did, begin would answer *)
(* "already active" for ever.                                                *)
ThreadFreed == (running # NoEntry) ~> (running = NoEntry)

(* The comment in finish: a later status read repairs the projection.  When  *)
(* the canonical Turn is finished, the row of the latest Turn shows it in    *)
(* the end, whatever late writes hit the row on the way.                     *)
Shown(n) ==
  /\ Found(n) # {}
  /\ row[n] = product_status(CanonicalStatus(n))

ProjectionRepaired ==
  \A n \in TurnNo :
    (n = Len(row) /\ Found(n) # {} /\ is_terminal(CanonicalStatus(n)))
      ~> (n < Len(row) \/ Shown(n))

=============================================================================
