--------------------------- MODULE RootTurnProofs ---------------------------
(* Two facts about RootTurnLifecycle, for any number of concurrent calls,    *)
(* Turns, invocations and restarts: no Turn of the root thread has two       *)
(* drivers, and the canonical rows move as TurnHistory says.                 *)
EXTENDS RootTurnLifecycle, TLAPS

-----------------------------------------------------------------------------
(* The inductive invariant                                                   *)

(* What finish may be asked to record.                                       *)
Settling == ProductWaiting \cup {"succeeded", "failed", "cancelled"}

(* A product Turn has at most one canonical Turn.                            *)
CanonicalUnique ==
  \A i, j \in DOMAIN canonical : canonical[i].turn = canonical[j].turn => i = j

(* Turns are numbered by their row, so a new row has a new number.           *)
KnownTurns ==
  /\ \A i \in DOMAIN canonical : canonical[i].turn <= Len(row)
  /\ \A p \in Procs : proc[p] # Idle => proc[p].turn <= Len(row)

(* bind_root_collaboration adds a Turn only behind finished ones.            *)
EarlierFinished ==
  \A i \in DOMAIN canonical : i # Len(canonical) => is_terminal(canonical[i].status)

StatusAsked ==
  \A p \in Procs :
    /\ proc[p].pc \in {"effective", "record"} => proc[p].status \in Settling
    /\ proc[p].pc = "resuming" => proc[p].status \in ProductWaiting

(* Until its driver starts, a Turn is the business of the call that created  *)
(* it: other calls have at most read its row.                                *)
OpeningAlone ==
  \A p \in Procs : proc[p].pc \in {"bind", "start"} =>
    /\ is_active(row[proc[p].turn])
    /\ \A i \in DOMAIN canonical : canonical[i].turn = proc[p].turn =>
         proc[p].pc = "start" /\ canonical[i].status = "queued"
    /\ \A q \in Procs :
         (q # p /\ proc[q] # Idle /\ proc[q].turn = proc[p].turn) =>
            \/ proc[q].pc = "compare"
            \/ proc[q].pc = "update" /\ proc[q].status = "running"

(* The calls that may still put the canonical Turn into a wait.              *)
Holder(p) ==
  \/ proc[p].pc \in {"bind", "start", "resuming", "drive"}
  \/ proc[p].pc \in {"effective", "record"} /\ proc[p].status \in ProductWaiting

OneHolder ==
  \A p, q \in Procs :
    (Holder(p) /\ Holder(q) /\ proc[p].turn = proc[q].turn) => p = q

(* While there is one the canonical Turn does not wait, so nothing resumes   *)
(* it.                                                                       *)
HeldIsNotWaiting ==
  \A p \in Procs : Holder(p) =>
    \A i \in DOMAIN canonical :
      canonical[i].turn = proc[p].turn => ~ needs_attention(canonical[i].status)

DriverInv ==
  /\ TypeOK
  /\ CanonicalUnique
  /\ KnownTurns
  /\ EarlierFinished
  /\ StatusAsked
  /\ OpeningAlone
  /\ OneHolder
  /\ HeldIsNotWaiting

-----------------------------------------------------------------------------
(* Facts about the operators                                                 *)

(* find_turn has one answer.                                                 *)
LEMMA StatusFound ==
  ASSUME CanonicalUnique, NEW n, NEW i \in Found(n)
  PROVE  Found(n) = {i} /\ CanonicalStatus(n) = canonical[i].status
BY DEF CanonicalUnique, Found, CanonicalStatus

LEMMA CallFields ==
  ASSUME TypeOK, NEW p \in Procs, proc[p] # Idle
  PROVE  /\ proc[p] \in Call
         /\ proc[p].pc \in Step
         /\ proc[p].turn \in TurnNo
         /\ proc[p].status \in TurnStatus
         /\ proc[p].cancelled \in BOOLEAN
BY DEF TypeOK, Call

LEMMA IdleFields ==
  /\ Idle.pc = "idle"
  /\ "idle" \notin Step
BY DEF Idle, Step

LEMMA CanonicalFields ==
  ASSUME TypeOK, NEW i \in DOMAIN canonical
  PROVE  /\ canonical[i] \in Canonical
         /\ canonical[i].turn \in TurnNo
         /\ canonical[i].status \in AgentTurnStatus
         /\ canonical[i].invocation_id \in Nat
<1>1. canonical[i] \in Canonical
  BY DEF TypeOK
<1> QED
  BY <1>1 DEF Canonical

LEMMA TokenOfEntry ==
  ASSUME TypeOK
  PROVE  /\ running.cancelled \in BOOLEAN
         /\ running # NoEntry => running.turn \in TurnNo /\ running.owner \in Procs
         /\ NoEntry.turn = 0 /\ NoEntry.cancelled = FALSE
<1>1. NoEntry.turn = 0 /\ NoEntry.cancelled = FALSE
  BY DEF NoEntry
<1>2. ASSUME running \in Entry
      PROVE  running.cancelled \in BOOLEAN /\ running.turn \in TurnNo /\ running.owner \in Procs
  BY <1>2 DEF Entry
<1> QED
  BY <1>1, <1>2 DEF TypeOK

(* A write of one status.                                                    *)
LEMMA SetCanonicalFacts ==
  ASSUME TypeOK, NEW n, NEW next \in AgentTurnStatus, SetCanonical(n, next)
  PROVE  /\ canonical' \in Seq(Canonical)
         /\ Len(canonical') = Len(canonical)
         /\ DOMAIN canonical' = DOMAIN canonical
         /\ \A i \in DOMAIN canonical :
              /\ canonical'[i].turn = canonical[i].turn
              /\ canonical'[i].invocation_id = canonical[i].invocation_id
              /\ canonical'[i].status = IF canonical[i].turn = n THEN next
                                        ELSE canonical[i].status
<1>1. canonical \in Seq(Canonical) /\ DOMAIN canonical = 1..Len(canonical) /\ Len(canonical) \in Nat
  BY DEF TypeOK
<1>2. \A i \in DOMAIN canonical : canonical[i] \in Canonical
  BY <1>1
<1>3. \A i \in DOMAIN canonical : [canonical[i] EXCEPT !.status = next] \in Canonical
  BY <1>2 DEF Canonical
<1>4. canonical' \in [1..Len(canonical) -> Canonical]
  BY <1>1, <1>2, <1>3 DEF SetCanonical
<1>5. canonical' \in Seq(Canonical) /\ Len(canonical') = Len(canonical)
  BY <1>1, <1>4
<1>6. ASSUME NEW i \in DOMAIN canonical
      PROVE  /\ canonical'[i].turn = canonical[i].turn
             /\ canonical'[i].invocation_id = canonical[i].invocation_id
             /\ canonical'[i].status = IF canonical[i].turn = n THEN next
                                       ELSE canonical[i].status
  <2>1. i \in Found(n) <=> canonical[i].turn = n
    BY DEF Found
  <2>2. canonical'[i] = IF canonical[i].turn = n THEN [canonical[i] EXCEPT !.status = next]
                        ELSE canonical[i]
    BY <2>1 DEF SetCanonical
  <2> QED
    BY <1>2, <2>2 DEF Canonical
<1> QED
  BY <1>1, <1>4, <1>5, <1>6

LEMMA StatusMaps ==
  /\ \A s \in AgentTurnStatus : product_status(s) \in TurnStatus
  /\ \A s \in WaitingStatuses \cup {"completed", "failed", "cancelled"} :
       product_status(s) \in Settling
  /\ \A s \in WaitingStatuses : product_status(s) \in ProductWaiting
  /\ product_status("queued") = "running"
  /\ \A s \in Settling : agent_status(s) \in AgentTurnStatus
  /\ \A s \in Settling : needs_attention(agent_status(s)) <=> s \in ProductWaiting
  /\ Settling \subseteq TurnStatus
BY DEF product_status, agent_status, Settling, ProductWaiting, TurnStatus, AgentTurnStatus,
       WaitingStatuses, TerminalStatuses, needs_attention

-----------------------------------------------------------------------------
(* What a step does to the calls in progress                                 *)

(* Call p is now at pc; the other calls are where they were.                 *)
Moves(p, pc, turn, status) ==
  /\ proc' \in [Procs -> Call \cup {Idle}]
  /\ \A q \in Procs : q # p => proc'[q] = proc[q]
  /\ proc'[p] # Idle
  /\ proc'[p].pc = pc
  /\ proc'[p].turn = turn
  /\ proc'[p].status = status

Stops(p) ==
  /\ proc' \in [Procs -> Call \cup {Idle}]
  /\ \A q \in Procs : q # p => proc'[q] = proc[q]
  /\ proc'[p] = Idle

LEMMA StatusMoves ==
  ASSUME TypeOK, NEW p \in Procs, proc[p] # Idle, NEW pc \in Step, NEW s \in TurnStatus,
         proc' = [proc EXCEPT ![p].pc = pc, ![p].status = s]
  PROVE  Moves(p, pc, proc[p].turn, s)
<1> DEFINE c == [proc[p] EXCEPT !.pc = pc, !.status = s]
<1>1. /\ c \in Call /\ c.pc = pc /\ c.turn = proc[p].turn /\ c.status = s
  BY CallFields DEF Call
<1>2. proc' = [proc EXCEPT ![p] = c]
  BY DEF TypeOK
<1> HIDE DEF c
<1>3. c # Idle
  BY <1>1, IdleFields
<1> QED
  BY <1>1, <1>2, <1>3 DEF Moves, TypeOK

LEMMA GotoMoves ==
  ASSUME TypeOK, NEW p \in Procs, proc[p] # Idle, NEW pc \in Step, Goto(p, pc)
  PROVE  Moves(p, pc, proc[p].turn, proc[p].status)
<1> DEFINE c == [proc[p] EXCEPT !.pc = pc]
<1>1. /\ c \in Call /\ c.pc = pc /\ c.turn = proc[p].turn /\ c.status = proc[p].status
  BY CallFields DEF Call
<1>2. proc' = [proc EXCEPT ![p] = c]
  BY DEF TypeOK, Goto
<1> HIDE DEF c
<1>3. c # Idle
  BY <1>1, IdleFields
<1> QED
  BY <1>1, <1>2, <1>3 DEF Moves, TypeOK

LEMMA CallBegins ==
  ASSUME TypeOK, NEW p \in Procs, NEW pc \in Step, NEW n \in TurnNo, NEW s \in TurnStatus,
         proc' = [proc EXCEPT ![p] = [pc |-> pc, turn |-> n, status |-> s, cancelled |-> FALSE]]
  PROVE  Moves(p, pc, n, s)
<1> DEFINE c == [pc |-> pc, turn |-> n, status |-> s, cancelled |-> FALSE]
<1>1. /\ c \in Call /\ c.pc = pc /\ c.turn = n /\ c.status = s
  BY DEF Call
<1>2. proc' = [proc EXCEPT ![p] = c]
  OBVIOUS
<1> HIDE DEF c
<1>3. c # Idle
  BY <1>1, IdleFields
<1>4. proc'[p] = c /\ \A q \in Procs : q # p => proc'[q] = proc[q]
  BY <1>2 DEF TypeOK
<1>5. proc' \in [Procs -> Call \cup {Idle}]
  BY ONLY TypeOK, <1>1, <1>2 DEF TypeOK
<1> QED
  BY <1>1, <1>3, <1>4, <1>5 DEF Moves

LEMMA DoneStops ==
  ASSUME TypeOK, NEW p \in Procs, Done(p)
  PROVE  Stops(p)
BY DEF TypeOK, Done, Stops


-----------------------------------------------------------------------------
(* One lemma per action                                                      *)

(* A call moves on without writing the canonical Turns: it does not become a *)
(* holder and does not disturb a Turn that is being opened.                  *)
LEMMA QuietStep ==
  ASSUME DriverInv, TypeOK', canonical' = canonical, Len(row') = Len(row),
         NEW p \in Procs,
         \A q \in Procs : q # p => proc'[q] = proc[q],
         \A q \in Procs : q # p /\ proc[q].pc \in {"bind", "start"} =>
                            row'[proc[q].turn] \in {"running", "cancelling"},
         \/ proc'[p] = Idle
         \/ /\ proc'[p] # Idle
            /\ proc'[p].turn <= Len(row)
            /\ proc'[p].pc \notin {"bind", "start"}
            /\ proc'[p].pc \in {"effective", "record"} => proc'[p].status \in Settling
            /\ proc'[p].pc # "resuming"
            /\ Holder(p)' => Holder(p) /\ proc'[p].turn = proc[p].turn
            /\ \A q \in Procs :
                 (q # p /\ proc[q].pc \in {"bind", "start"} /\ proc[q].turn = proc'[p].turn) =>
                    \/ proc'[p].pc = "compare"
                    \/ proc'[p].pc = "update" /\ proc'[p].status = "running"
  PROVE  DriverInv'
<1> USE DEF DriverInv
<1>1. CanonicalUnique' /\ EarlierFinished'
  BY DEF CanonicalUnique, EarlierFinished
<1>2. KnownTurns'
  BY IdleFields DEF KnownTurns
<1>3. StatusAsked'
  BY IdleFields DEF StatusAsked
<1>4. OpeningAlone'
  BY IdleFields DEF OpeningAlone, is_active
<1>5. OneHolder'
  BY IdleFields DEF OneHolder, Holder
<1>6. HeldIsNotWaiting'
  BY IdleFields DEF HeldIsNotWaiting, Holder, needs_attention
<1> QED
  BY <1>1, <1>2, <1>3, <1>4, <1>5, <1>6

LEMMA BeginStep ==
  ASSUME DriverInv, NEW p \in Procs, begin(p)
  PROVE  DriverInv'
<1> DEFINE n == Len(row) + 1
<1> USE DEF DriverInv
<1>1. /\ row' = Append(row, "running") /\ canonical' = canonical /\ crashes' = crashes
      /\ n \in TurnNo /\ Len(row) \in Nat
      /\ proc[p].pc = "idle"
  BY RootAssumption DEF begin, TypeOK, TurnNo, At
<1>2. Moves(p, "bind", n, "running")
  BY <1>1, CallBegins DEF begin, Step, TurnStatus
<1>3. /\ row' \in Seq(TurnStatus) /\ Len(row') = Len(row) + 1 /\ row'[n] = "running"
      /\ \A m \in 1..Len(row) : row'[m] = row[m]
  BY <1>1 DEF TypeOK, TurnStatus
<1>4. running' \in Entry
  BY <1>1 DEF begin, Entry
<1> HIDE DEF n
<1>5. TypeOK'
  BY <1>1, <1>2, <1>3, <1>4, RootAssumption DEF TypeOK, Moves, TurnNo, n
<1>6. CanonicalUnique' /\ EarlierFinished'
  BY <1>1 DEF CanonicalUnique, EarlierFinished
<1>7. KnownTurns'
  BY <1>1, <1>2, <1>3, CallFields, CanonicalFields, RootAssumption DEF KnownTurns, Moves, n, TurnNo
<1>8. \A q \in Procs : proc[q] # Idle => proc[q].turn \in 1..Len(row)
  BY <1>1, CallFields, RootAssumption DEF KnownTurns, TurnNo
<1>9. StatusAsked'
  BY <1>2 DEF StatusAsked, Moves
<1>10. \A i \in DOMAIN canonical : canonical[i].turn # n
  BY <1>1, CanonicalFields DEF KnownTurns, n, TurnNo
<1>11. OpeningAlone'
  <2>1. /\ \A r \in Procs : r # p => proc'[r] = proc[r]
        /\ proc'[p] # Idle /\ proc'[p].pc = "bind" /\ proc'[p].turn = n
    BY <1>2 DEF Moves
  <2>2. \A r \in Procs : proc[r] # Idle => proc[r].turn # n
    BY <1>1, <1>8 DEF n
  <2>3. ASSUME NEW q \in Procs, proc'[q].pc \in {"bind", "start"}
        PROVE  is_active(row'[proc'[q].turn])
    <3>1. CASE q = p
      BY <1>3, <2>1, <3>1 DEF is_active
    <3>2. CASE q # p
      <4>1. proc'[q] = proc[q] /\ proc[q] # Idle /\ proc[q].turn \in 1..Len(row)
        BY <1>8, <2>1, <2>3, <3>2, IdleFields
      <4>2. row'[proc[q].turn] = row[proc[q].turn]
        BY <1>3, <4>1
      <4> QED
        BY <2>3, <4>1, <4>2 DEF OpeningAlone
    <3> QED
      BY <3>1, <3>2
  <2>4. ASSUME NEW q \in Procs, proc'[q].pc \in {"bind", "start"},
               NEW i \in DOMAIN canonical, canonical[i].turn = proc'[q].turn
        PROVE  proc'[q].pc = "start" /\ canonical[i].status = "queued"
    BY <1>10, <2>1, <2>4 DEF OpeningAlone
  <2>5. ASSUME NEW q \in Procs, proc'[q].pc \in {"bind", "start"},
               NEW r \in Procs, r # q, proc'[r] # Idle, proc'[r].turn = proc'[q].turn
        PROVE  \/ proc'[r].pc = "compare"
               \/ proc'[r].pc = "update" /\ proc'[r].status = "running"
    <3>1. proc'[q] # Idle /\ q # p /\ r # p
      BY <2>1, <2>2, <2>5, IdleFields
    <3> QED
      BY <2>1, <2>5, <3>1 DEF OpeningAlone
  <2> HIDE DEF DriverInv
  <2>6. \A q \in Procs : proc'[q].pc \in {"bind", "start"} =>
          /\ is_active(row'[proc'[q].turn])
          /\ \A i \in DOMAIN canonical : canonical[i].turn = proc'[q].turn =>
               proc'[q].pc = "start" /\ canonical[i].status = "queued"
          /\ \A r \in Procs :
               (r # q /\ proc'[r] # Idle /\ proc'[r].turn = proc'[q].turn) =>
                  \/ proc'[r].pc = "compare"
                  \/ proc'[r].pc = "update" /\ proc'[r].status = "running"
    BY <2>3, <2>4, <2>5, Zenon
  <2>7. canonical' = canonical
    BY <1>1
  <2> QED
    BY <2>6, <2>7, Zenon DEF OpeningAlone
<1>12. OneHolder'
  BY <1>1, <1>2, <1>8, IdleFields DEF OneHolder, Holder, Moves, n
<1>13. HeldIsNotWaiting'
  BY <1>1, <1>2, <1>8, <1>10, IdleFields DEF HeldIsNotWaiting, Holder, Moves, n, needs_attention
<1> QED
  BY <1>5, <1>6, <1>7, <1>9, <1>11, <1>12, <1>13

(* A call that is past opening leaves no Turn it shares with an opening one. *)
LEMMA NotOpening ==
  ASSUME DriverInv, NEW p \in Procs, proc[p] # Idle, proc[p].pc # "compare",
         proc[p].pc # "update", NEW q \in Procs, q # p, proc[q].pc \in {"bind", "start"}
  PROVE  proc[q].turn # proc[p].turn
BY DEF DriverInv, OpeningAlone

LEMMA RefuseBindingStep ==
  ASSUME DriverInv, NEW p \in Procs, RefuseBinding(p)
  PROVE  DriverInv'
<1> USE DEF DriverInv
<1>1. /\ proc[p].pc = "bind" /\ proc[p] # Idle /\ canonical' = canonical /\ row' = row
      /\ running' = running /\ crashes' = crashes
      /\ proc' = [proc EXCEPT ![p].pc = "effective", ![p].status = "failed"]
  BY IdleFields DEF RefuseBinding, At
<1>2. Moves(p, "effective", proc[p].turn, "failed")
  BY <1>1, StatusMoves DEF Step, TurnStatus
<1>3. TypeOK'
  BY <1>1, <1>2 DEF Moves, TypeOK
<1>4. Holder(p)' => Holder(p)
  BY <1>1 DEF Holder
<1> QED
  BY <1>1, <1>2, <1>3, <1>4, NotOpening, QuietStep
  DEF Moves, KnownTurns, OpeningAlone, Settling, is_active

LEMMA DriveStep ==
  ASSUME DriverInv, NEW p \in Procs, NEW outcome \in Outcomes, Drive(p, outcome)
  PROVE  DriverInv'
<1> DEFINE s == product_status(outcome)
<1> USE DEF DriverInv
<1>1. /\ proc[p].pc = "drive" /\ proc[p] # Idle /\ canonical' = canonical /\ row' = row
      /\ running' = running /\ crashes' = crashes
      /\ proc' = [proc EXCEPT ![p].pc = "effective", ![p].status = s]
  BY IdleFields DEF Drive, At
<1>2. s \in Settling /\ s \in TurnStatus
  BY StatusMaps, RootAssumption
<1> HIDE DEF s
<1>3. Moves(p, "effective", proc[p].turn, s)
  BY <1>1, <1>2, StatusMoves DEF Step
<1>4. TypeOK'
  BY <1>1, <1>3 DEF Moves, TypeOK
<1>5. Holder(p)' => Holder(p)
  BY <1>1 DEF Holder
<1> QED
  BY <1>1, <1>2, <1>3, <1>4, <1>5, NotOpening, QuietStep
  DEF Moves, KnownTurns, OpeningAlone, is_active

LEMMA EffectiveStep ==
  ASSUME DriverInv, NEW p \in Procs, effective_finish_status(p)
  PROVE  DriverInv'
<1> DEFINE s == IF Registered(p) /\ running.cancelled THEN "cancelled" ELSE proc[p].status
<1> USE DEF DriverInv
<1>1. /\ proc[p].pc = "effective" /\ proc[p] # Idle /\ canonical' = canonical /\ row' = row
      /\ running' = running /\ crashes' = crashes
  BY IdleFields DEF effective_finish_status, At
<1>2. proc' = [proc EXCEPT ![p].pc = "record", ![p].status = s]
  <2>1. [proc[p] EXCEPT !.pc = "record"].status = proc[p].status
    BY <1>1, CallFields DEF Call
  <2> QED
    BY <1>1, <2>1 DEF effective_finish_status, TypeOK
<1>3. s \in Settling /\ s \in TurnStatus /\ s \in {"cancelled", proc[p].status}
  BY <1>1, StatusMaps DEF StatusAsked, Settling
<1> HIDE DEF s
<1>4. Moves(p, "record", proc[p].turn, s)
  BY <1>1, <1>2, <1>3, StatusMoves DEF Step
<1>5. TypeOK'
  BY <1>1, <1>4 DEF Moves, TypeOK
<1>6. Holder(p)' => Holder(p)
  BY <1>1, <1>3, <1>4 DEF Holder, Moves, ProductWaiting
<1> QED
  BY <1>1, <1>3, <1>4, <1>5, <1>6, NotOpening, QuietStep
  DEF Moves, KnownTurns, OpeningAlone, is_active

LEMMA ReadStep ==
  ASSUME DriverInv, NEW p \in Procs, ReadProjection(p)
  PROVE  DriverInv'
<1> DEFINE s == IF running.turn = Len(row) /\ running.cancelled THEN "cancelling"
                ELSE row[Len(row)]
<1> USE DEF DriverInv
<1>1. /\ proc[p].pc = "idle" /\ canonical' = canonical /\ row' = row
      /\ running' = running /\ crashes' = crashes
      /\ proc' = [proc EXCEPT ![p] = [pc |-> "compare", turn |-> Len(row), status |-> s,
                                      cancelled |-> FALSE]]
  BY DEF ReadProjection, At
<1>2. Len(row) \in TurnNo /\ row[Len(row)] \in TurnStatus
  <2>1. row # <<>> /\ row \in Seq(TurnStatus)
    BY DEF ReadProjection, TypeOK
  <2> QED
    BY <2>1, RootAssumption DEF TypeOK, TurnNo
<1>3. s \in TurnStatus
  BY <1>2 DEF TurnStatus
<1> HIDE DEF s
<1>4. Moves(p, "compare", Len(row), s)
  BY <1>1, <1>2, <1>3, CallBegins DEF Step
<1>5. TypeOK'
  BY <1>1, <1>4 DEF Moves, TypeOK
<1>6. ~ Holder(p)'
  BY <1>4 DEF Holder, Moves
<1> QED
  BY <1>1, <1>2, <1>4, <1>5, <1>6, QuietStep DEF Moves, OpeningAlone, is_active, TurnNo

LEMMA CompareStep ==
  ASSUME DriverInv, NEW p \in Procs, CompareWithCanonical(p)
  PROVE  DriverInv'
<1> DEFINE n == proc[p].turn
           s == product_status(CanonicalStatus(n))
<1> USE DEF DriverInv
<1>1. /\ proc[p].pc = "compare" /\ proc[p] # Idle /\ canonical' = canonical /\ row' = row
      /\ running' = running /\ crashes' = crashes
  BY IdleFields DEF CompareWithCanonical, At
<1>2. CASE Done(p)
  <2>1. Stops(p)
    BY <1>2, DoneStops
  <2>2. TypeOK'
    BY <1>1, <2>1 DEF Stops, TypeOK
  <2> QED
    BY <1>1, <2>1, <2>2, QuietStep DEF Stops, OpeningAlone, is_active
<1>3. CASE Found(n) # {} /\ proc' = [proc EXCEPT ![p].pc = "update", ![p].status = s]
  <2>1. PICK i \in Found(n) : TRUE
    BY <1>3
  <2>2. i \in DOMAIN canonical /\ canonical[i].turn = n
    BY <2>1 DEF Found
  <2>3. s = product_status(canonical[i].status)
    BY <2>1, StatusFound
  <2>4. s \in TurnStatus
    BY <2>2, <2>3, CanonicalFields, StatusMaps
  <2>5. \A q \in Procs :
          (q # p /\ proc[q].pc \in {"bind", "start"} /\ proc[q].turn = n) => s = "running"
    BY <2>2, <2>3, StatusMaps DEF OpeningAlone
  <2> HIDE DEF s
  <2>6. Moves(p, "update", n, s)
    BY <1>1, <1>3, <2>4, StatusMoves DEF Step
  <2>7. TypeOK'
    BY <1>1, <2>6 DEF Moves, TypeOK
  <2>8. ~ Holder(p)'
    BY <2>6 DEF Holder, Moves
  <2> QED
    BY <1>1, <2>5, <2>6, <2>7, <2>8, QuietStep DEF Moves, KnownTurns, OpeningAlone, is_active
<1> QED
  BY <1>2, <1>3 DEF CompareWithCanonical

LEMMA CancelWaitingStep ==
  ASSUME DriverInv, NEW p \in Procs, CancelWaiting(p)
  PROVE  DriverInv'
<1> USE DEF DriverInv
<1>1. /\ proc[p].pc = "idle" /\ canonical' = canonical /\ row' = row
      /\ running' = running /\ crashes' = crashes
      /\ row[Len(row)] \in ProductWaiting /\ row # <<>>
      /\ proc' = [proc EXCEPT ![p] = [pc |-> "effective", turn |-> Len(row),
                                      status |-> "cancelled", cancelled |-> FALSE]]
  BY DEF CancelWaiting, At
<1>2. Len(row) \in TurnNo
  <2>1. row \in Seq(TurnStatus)
    BY DEF TypeOK
  <2> QED
    BY <1>1, <2>1, RootAssumption DEF TypeOK, TurnNo
<1>3. Moves(p, "effective", Len(row), "cancelled")
  BY <1>1, <1>2, CallBegins DEF Step, TurnStatus
<1>4. TypeOK'
  BY <1>1, <1>3 DEF Moves, TypeOK
<1>5. ~ Holder(p)'
  BY <1>3 DEF Holder, Moves, ProductWaiting
<1>6. \A q \in Procs : proc[q].pc \in {"bind", "start"} => proc[q].turn # Len(row)
  BY <1>1 DEF OpeningAlone, is_active, ProductWaiting
<1> QED
  BY <1>1, <1>2, <1>3, <1>4, <1>5, <1>6, QuietStep
  DEF Moves, OpeningAlone, is_active, TurnNo, Settling

(* A row is overwritten with a status of the product.                        *)
LEMMA RowWritten ==
  ASSUME TypeOK, NEW n \in TurnNo, NEW s \in TurnStatus, row' = [row EXCEPT ![n] = s]
  PROVE  /\ row' \in Seq(TurnStatus)
         /\ Len(row') = Len(row)
         /\ \A m \in 1..Len(row) : row'[m] = IF m = n THEN s ELSE row[m]
<1>1. row \in Seq(TurnStatus) /\ DOMAIN row = 1..Len(row) /\ Len(row) \in Nat
  BY DEF TypeOK
<1>2. row \in [1..Len(row) -> TurnStatus]
  BY <1>1
<1>3. row' \in [1..Len(row) -> TurnStatus]
  BY <1>2
<1>4. row' \in Seq(TurnStatus) /\ Len(row') = Len(row)
  BY <1>1, <1>3
<1> QED
  BY <1>1, <1>4

LEMMA KnownRow ==
  ASSUME DriverInv, NEW q \in Procs, proc[q] # Idle
  PROVE  proc[q].turn \in 1..Len(row)
BY CallFields, RootAssumption DEF DriverInv, KnownTurns, TurnNo

LEMMA FinishStep ==
  ASSUME DriverInv, NEW p \in Procs, FinishProjection(p)
  PROVE  DriverInv'
<1> USE DEF DriverInv
<1>1. /\ proc[p].pc = "project" /\ proc[p] # Idle /\ canonical' = canonical
      /\ crashes' = crashes /\ proc[p].status \in TurnStatus /\ proc[p].turn \in TurnNo
  BY IdleFields, CallFields DEF FinishProjection, At
<1>2. CASE Registered(p) /\ Done(p) /\ running' = NoEntry
           /\ row' = [row EXCEPT ![proc[p].turn] =
                        IF running.cancelled THEN "cancelled" ELSE proc[p].status]
  <2>1. Stops(p)
    BY <1>2, DoneStops
  <2>2. /\ row' \in Seq(TurnStatus) /\ Len(row') = Len(row)
        /\ \A m \in 1..Len(row) : m # proc[p].turn => row'[m] = row[m]
    <3> DEFINE s == IF running.cancelled THEN "cancelled" ELSE proc[p].status
    <3>1. s \in TurnStatus /\ row' = [row EXCEPT ![proc[p].turn] = s]
      BY <1>1, <1>2 DEF TurnStatus
    <3> HIDE DEF s
    <3> QED
      BY <1>1, <3>1, RowWritten
  <2>3. TypeOK'
    BY <1>1, <1>2, <2>1, <2>2 DEF Stops, TypeOK
  <2> QED
    BY <1>1, <2>1, <2>2, <2>3, NotOpening, KnownRow, IdleFields, QuietStep
    DEF Stops, OpeningAlone, is_active
<1>3. CASE Goto(p, "update") /\ UNCHANGED <<row, running>>
  <2>1. Moves(p, "update", proc[p].turn, proc[p].status)
    BY <1>1, <1>3, GotoMoves DEF Step
  <2>2. TypeOK'
    BY <1>1, <1>3, <2>1 DEF Moves, TypeOK
  <2>3. ~ Holder(p)'
    BY <2>1 DEF Holder, Moves
  <2> QED
    BY <1>1, <1>3, <2>1, <2>2, <2>3, NotOpening, QuietStep
    DEF Moves, KnownTurns, OpeningAlone, is_active
<1> QED
  BY <1>2, <1>3 DEF FinishProjection

LEMMA UpdateStep ==
  ASSUME DriverInv, NEW p \in Procs, UpdateRow(p)
  PROVE  DriverInv'
<1> DEFINE n == proc[p].turn
           s == proc[p].status
<1> USE DEF DriverInv
<1>1. /\ proc[p].pc = "update" /\ proc[p] # Idle /\ canonical' = canonical
      /\ running' = running /\ crashes' = crashes /\ s \in TurnStatus /\ n \in TurnNo
      /\ row' \in {row, [row EXCEPT ![n] = s]}
      /\ \/ Done(p)
         \/ Goto(p, "remove") /\ s \notin {"running", "cancelling"}
  BY IdleFields, CallFields DEF UpdateRow, At, is_active
<1>2. /\ row' \in Seq(TurnStatus) /\ Len(row') = Len(row)
      /\ \A m \in 1..Len(row) : m # n => row'[m] = row[m]
      /\ \A m \in 1..Len(row) : row'[m] \in {row[m], s}
  <2>1. CASE row' = row
    BY <2>1 DEF TypeOK
  <2>2. CASE row' = [row EXCEPT ![n] = s]
    <3>1. s \in TurnStatus /\ n \in TurnNo
      BY <1>1
    <3> HIDE DEF s, n
    <3>2. /\ row' \in Seq(TurnStatus) /\ Len(row') = Len(row)
          /\ \A m \in 1..Len(row) : row'[m] = IF m = n THEN s ELSE row[m]
      <4>1. TypeOK
        OBVIOUS
      <4> HIDE DEF DriverInv
      <4> QED
        BY <2>2, <3>1, <4>1, RowWritten
    <3> QED
      BY <3>2
  <2> QED
    BY <1>1, <2>1, <2>2
<1>3. \A q \in Procs :
        (q # p /\ proc[q].pc \in {"bind", "start"} /\ proc[q].turn = n) => s = "running"
  BY <1>1 DEF OpeningAlone
<1>4. \A q \in Procs : q # p /\ proc[q].pc \in {"bind", "start"} =>
                         row'[proc[q].turn] \in {"running", "cancelling"}
  <2> SUFFICES ASSUME NEW q \in Procs, q # p, proc[q].pc \in {"bind", "start"}
               PROVE  row'[proc[q].turn] \in {"running", "cancelling"}
    OBVIOUS
  <2>1. row[proc[q].turn] \in {"running", "cancelling"}
    BY DEF OpeningAlone, is_active
  <2>2. proc[q].turn \in 1..Len(row)
    BY IdleFields, KnownRow
  <2> QED
    BY <1>2, <1>3, <2>1, <2>2
<1>5. CASE Done(p)
  <2>1. Stops(p)
    BY <1>5, DoneStops
  <2>2. TypeOK'
    BY <1>1, <1>2, <2>1 DEF Stops, TypeOK
  <2> QED
    BY <1>1, <1>2, <1>4, <2>1, <2>2, QuietStep DEF Stops
<1>6. CASE Goto(p, "remove") /\ s \notin {"running", "cancelling"}
  <2>1. Moves(p, "remove", n, s)
    BY <1>1, <1>6, GotoMoves DEF Step
  <2>2. TypeOK'
    BY <1>1, <1>2, <2>1 DEF Moves, TypeOK
  <2>3. ~ Holder(p)'
    BY <2>1 DEF Holder, Moves
  <2> QED
    BY <1>1, <1>2, <1>3, <1>4, <1>6, <2>1, <2>2, <2>3, QuietStep DEF Moves, KnownTurns
<1> QED
  BY <1>1, <1>5, <1>6

LEMMA RemoveStep ==
  ASSUME DriverInv, NEW p \in Procs, RemoveEntry(p)
  PROVE  DriverInv'
<1> USE DEF DriverInv
<1>1. /\ canonical' = canonical /\ row' = row /\ crashes' = crashes
      /\ running' \in {running, NoEntry}
  BY DEF RemoveEntry
<1>2. Stops(p)
  BY DoneStops DEF RemoveEntry
<1>3. TypeOK'
  BY <1>1, <1>2 DEF Stops, TypeOK
<1> QED
  BY <1>1, <1>2, <1>3, QuietStep DEF Stops, OpeningAlone, is_active

LEMMA ResumeRowStep ==
  ASSUME DriverInv, NEW p \in Procs, resume_turn_invocation(p)
  PROVE  DriverInv'
<1> DEFINE n == proc[p].turn
<1> USE DEF DriverInv
<1>1. /\ proc[p].pc = "resuming" /\ proc[p] # Idle /\ canonical' = canonical
      /\ crashes' = crashes /\ row' = [row EXCEPT ![n] = "running"] /\ Goto(p, "drive")
      /\ running' = [owner |-> p, turn |-> n, cancelled |-> FALSE]
      /\ n \in TurnNo
  BY IdleFields, CallFields DEF resume_turn_invocation, At
<1>2. Moves(p, "drive", n, proc[p].status)
  BY <1>1, GotoMoves DEF Step
<1>3. /\ row' \in Seq(TurnStatus) /\ Len(row') = Len(row)
      /\ \A m \in 1..Len(row) : m # n => row'[m] = row[m]
  BY <1>1, RowWritten DEF TurnStatus
<1>4. running' \in Entry
  BY <1>1 DEF Entry
<1>5. TypeOK'
  BY <1>1, <1>2, <1>3, <1>4 DEF Moves, TypeOK
<1>6. Holder(p)
  BY <1>1 DEF Holder
<1> QED
  BY <1>1, <1>2, <1>3, <1>5, <1>6, NotOpening, KnownRow, IdleFields, QuietStep
  DEF Moves, OpeningAlone, is_active

(* A call writes the status of its canonical Turn.  A wait is written only   *)
(* by a holder, which then no longer is one.                                 *)
LEMMA WriteStep ==
  ASSUME DriverInv, NEW p \in Procs, proc[p] # Idle, proc[p].pc # "compare",
         proc[p].pc # "update", NEW next \in AgentTurnStatus,
         SetCanonical(proc[p].turn, next), UNCHANGED <<row, running, crashes>>,
         \A i \in DOMAIN canonical :
           canonical[i].turn = proc[p].turn /\ is_terminal(canonical[i].status) =>
             is_terminal(next),
         proc' \in [Procs -> Call \cup {Idle}],
         \A q \in Procs : q # p => proc'[q] = proc[q],
         \/ proc'[p] = Idle
         \/ /\ proc'[p] # Idle
            /\ proc'[p].turn = proc[p].turn
            /\ proc'[p].pc \in {"project", "drive"},
         Holder(p)' => Holder(p) /\ ~ needs_attention(next),
         needs_attention(next) => Holder(p)
  PROVE  DriverInv'
<1> USE DEF DriverInv
<1>1. /\ canonical' \in Seq(Canonical)
      /\ Len(canonical') = Len(canonical)
      /\ DOMAIN canonical' = DOMAIN canonical
      /\ \A i \in DOMAIN canonical :
           /\ canonical'[i].turn = canonical[i].turn
           /\ canonical'[i].status = IF canonical[i].turn = proc[p].turn THEN next
                                     ELSE canonical[i].status
  BY SetCanonicalFacts
<1>2. TypeOK'
  BY <1>1 DEF TypeOK
<1>3. CanonicalUnique' /\ EarlierFinished'
  BY <1>1 DEF CanonicalUnique, EarlierFinished, is_terminal
<1>4. KnownTurns' /\ StatusAsked'
  BY <1>1, IdleFields DEF KnownTurns, StatusAsked
<1>5. OpeningAlone'
  BY <1>1, NotOpening, IdleFields DEF OpeningAlone, is_active
<1>6. OneHolder'
  BY IdleFields DEF OneHolder, Holder
<1>7. HeldIsNotWaiting'
  BY <1>1, IdleFields DEF HeldIsNotWaiting, OneHolder, Holder, needs_attention
<1> QED
  BY <1>2, <1>3, <1>4, <1>5, <1>6, <1>7

LEMMA StartStep ==
  ASSUME DriverInv, NEW p \in Procs, Start(p)
  PROVE  DriverInv'
<1> USE DEF DriverInv
<1>1. /\ proc[p].pc = "start" /\ proc[p] # Idle
      /\ SetCanonical(proc[p].turn, "running") /\ Goto(p, "drive")
      /\ UNCHANGED <<row, running, crashes>>
  BY IdleFields DEF Start, At
<1>2. Moves(p, "drive", proc[p].turn, proc[p].status)
  BY <1>1, GotoMoves DEF Step
<1>3. \A i \in DOMAIN canonical :
        canonical[i].turn = proc[p].turn => ~ is_terminal(canonical[i].status)
  BY <1>1 DEF OpeningAlone, is_terminal, TerminalStatuses
<1>4. Holder(p) /\ ~ needs_attention("running") /\ "running" \in AgentTurnStatus
  BY <1>1 DEF Holder, needs_attention, WaitingStatuses, AgentTurnStatus
<1> QED
  BY <1>1, <1>2, <1>3, <1>4, WriteStep DEF Moves

(* A transition that the collaboration repository accepts keeps a finished   *)
(* Turn finished.                                                            *)
LEMMA AcceptedKeepsFinished ==
  ASSUME NEW s, NEW next, transition_ok(s, next), is_terminal(s)
  PROVE  is_terminal(next)
BY DEF transition_ok, can_transition_to, is_terminal, TerminalStatuses, WaitingStatuses

LEMMA RollbackStep ==
  ASSUME DriverInv, NEW p \in Procs, rollback_authority(p)
  PROVE  DriverInv'
<1> DEFINE n == proc[p].turn
           next == agent_status(proc[p].status)
<1> USE DEF DriverInv
<1>1. /\ proc[p].pc = "resuming" /\ proc[p] # Idle
      /\ Done(p) /\ UNCHANGED <<row, running, crashes>>
      /\ \/ transition_ok(CanonicalStatus(n), next) /\ SetCanonical(n, next)
         \/ canonical' = canonical
  BY IdleFields DEF rollback_authority, At
<1>2. Stops(p)
  BY <1>1, DoneStops
<1>3. next \in AgentTurnStatus
  BY <1>1, StatusMaps DEF StatusAsked, Settling
<1>4. Holder(p) /\ ~ Holder(p)'
  BY <1>1, <1>2, IdleFields DEF Holder, Stops
<1>5. CASE transition_ok(CanonicalStatus(n), next) /\ SetCanonical(n, next)
  <2>1. \A i \in DOMAIN canonical :
          canonical[i].turn = n /\ is_terminal(canonical[i].status) => is_terminal(next)
    BY <1>5, StatusFound, AcceptedKeepsFinished DEF Found
  <2> HIDE DEF next
  <2> QED
    BY <1>1, <1>2, <1>3, <1>4, <1>5, <2>1, WriteStep DEF Stops
<1>6. CASE canonical' = canonical
  <2>1. TypeOK'
    BY <1>1, <1>2, <1>6 DEF Stops, TypeOK
  <2> QED
    BY <1>1, <1>2, <1>6, <2>1, QuietStep DEF Stops, OpeningAlone, is_active
<1> QED
  BY <1>1, <1>5, <1>6

LEMMA RecordStep ==
  ASSUME DriverInv, NEW p \in Procs, RecordCanonical(p)
  PROVE  DriverInv'
<1> DEFINE n == proc[p].turn
           next == agent_status(proc[p].status)
<1> USE DEF DriverInv
<1>1. /\ proc[p].pc = "record" /\ proc[p] # Idle
      /\ UNCHANGED <<row, running, crashes>>
  BY IdleFields DEF RecordCanonical, At
<1>2. next \in AgentTurnStatus /\ (needs_attention(next) => Holder(p))
  BY <1>1, StatusMaps DEF StatusAsked, Holder
<1> HIDE DEF next
<1>3. CASE Goto(p, "project") /\ UNCHANGED canonical
  <2>1. Moves(p, "project", n, proc[p].status)
    BY <1>1, <1>3, GotoMoves DEF Step
  <2>2. TypeOK'
    BY <1>1, <1>3, <2>1 DEF Moves, TypeOK
  <2>3. ~ Holder(p)'
    BY <2>1 DEF Holder, Moves
  <2> QED
    BY <1>1, <1>3, <2>1, <2>2, <2>3, NotOpening, QuietStep
    DEF Moves, KnownTurns, OpeningAlone, is_active
<1>4. CASE transition_ok(CanonicalStatus(n), next) /\ SetCanonical(n, next)
           /\ Goto(p, "project")
  <2>1. Moves(p, "project", n, proc[p].status)
    BY <1>1, <1>4, GotoMoves DEF Step
  <2>2. \A i \in DOMAIN canonical :
          canonical[i].turn = n /\ is_terminal(canonical[i].status) => is_terminal(next)
    BY <1>4, StatusFound, AcceptedKeepsFinished DEF Found
  <2>3. ~ Holder(p)'
    BY <2>1 DEF Holder, Moves
  <2> QED
    BY <1>1, <1>2, <1>4, <2>1, <2>2, <2>3, WriteStep DEF Moves
<1>5. CASE Done(p) /\ UNCHANGED canonical
  <2>1. Stops(p)
    BY <1>5, DoneStops
  <2>2. TypeOK'
    BY <1>1, <1>5, <2>1 DEF Stops, TypeOK
  <2> QED
    BY <1>1, <1>5, <2>1, <2>2, QuietStep DEF Stops, OpeningAlone, is_active
<1> QED
  BY <1>3, <1>4, <1>5 DEF RecordCanonical, next

LEMMA BindStep ==
  ASSUME DriverInv, NEW p \in Procs, Bind(p)
  PROVE  DriverInv'
<1> DEFINE n == proc[p].turn
           t == [turn |-> n, status |-> "queued", invocation_id |-> 1]
           k == Len(canonical)
<1> USE DEF DriverInv
<1>1. /\ proc[p].pc = "bind" /\ proc[p] # Idle /\ n \in TurnNo
      /\ canonical' = Append(canonical, t) /\ Goto(p, "start")
      /\ UNCHANGED <<row, running, crashes>>
      /\ \A i \in DOMAIN canonical : i = k => is_terminal(canonical[i].status)
  BY IdleFields, CallFields DEF Bind, At
<1>2. Moves(p, "start", n, proc[p].status)
  BY <1>1, GotoMoves DEF Step
<1>3. t \in Canonical /\ t.turn = n /\ t.status = "queued"
  BY <1>1 DEF Canonical, AgentTurnStatus
<1> HIDE DEF t
<1>4. /\ canonical' \in Seq(Canonical) /\ k \in Nat
      /\ Len(canonical') = k + 1 /\ DOMAIN canonical' = 1..(k + 1)
      /\ DOMAIN canonical = 1..k
      /\ canonical'[k + 1] = t
      /\ \A i \in 1..k : canonical'[i] = canonical[i]
  BY <1>1, <1>3 DEF TypeOK
<1> HIDE DEF k
<1>5. TypeOK'
  BY <1>1, <1>2, <1>4 DEF Moves, TypeOK
<1>6. \A i \in DOMAIN canonical : canonical[i].turn # n
  BY <1>1 DEF OpeningAlone
<1>7. CanonicalUnique'
  BY <1>3, <1>4, <1>6 DEF CanonicalUnique
<1>8. EarlierFinished'
  BY <1>1, <1>4 DEF EarlierFinished, k, is_terminal
<1>9. KnownTurns' /\ StatusAsked'
  BY <1>1, <1>2, <1>3, <1>4 DEF KnownTurns, StatusAsked, Moves
<1>10. \A q \in Procs : q # p /\ proc[q].pc \in {"bind", "start"} => proc[q].turn # n
  BY <1>1, NotOpening
<1>11. OpeningAlone'
  BY <1>1, <1>2, <1>3, <1>4, <1>6, <1>10 DEF OpeningAlone, Moves, is_active
<1>12. OneHolder'
  BY <1>1, <1>2 DEF OneHolder, Holder, Moves
<1>13. HeldIsNotWaiting'
  BY <1>1, <1>2, <1>3, <1>4, <1>6
  DEF HeldIsNotWaiting, Holder, Moves, needs_attention, WaitingStatuses
<1> QED
  BY <1>5, <1>7, <1>8, <1>9, <1>11, <1>12, <1>13

LEMMA ResumeStep ==
  ASSUME DriverInv, NEW p \in Procs, NEW n \in TurnNo, resume_authority(p, n)
  PROVE  DriverInv'
<1> DEFINE s == product_status(CanonicalStatus(n))
<1> USE DEF DriverInv
<1>1. PICK k \in Found(n) : TRUE
  BY DEF resume_authority
<1>2. /\ k \in DOMAIN canonical /\ canonical[k].turn = n
      /\ CanonicalStatus(n) = canonical[k].status
      /\ Found(n) = {k}
  BY <1>1, StatusFound DEF Found
<1>3. canonical[k].status \in WaitingStatuses
  BY <1>2 DEF resume_authority, needs_attention
<1>4. s \in ProductWaiting /\ s \in TurnStatus
  BY <1>2, <1>3, StatusMaps DEF TurnStatus
<1>5. /\ proc[p].pc = "idle" /\ UNCHANGED <<row, running, crashes>>
      /\ proc' = [proc EXCEPT ![p] = [pc |-> "resuming", turn |-> n, status |-> s,
                                      cancelled |-> FALSE]]
      /\ canonical' = [i \in DOMAIN canonical |->
                         IF i = k THEN [canonical[k] EXCEPT !.status = "running",
                                          !.invocation_id = canonical[k].invocation_id + 1]
                         ELSE canonical[i]]
  BY <1>2 DEF resume_authority, At
<1> HIDE DEF s
<1>6. Moves(p, "resuming", n, s)
  BY <1>4, <1>5, CallBegins DEF Step
<1>7. /\ canonical' \in Seq(Canonical) /\ Len(canonical') = Len(canonical)
      /\ DOMAIN canonical' = DOMAIN canonical
      /\ canonical'[k].turn = n /\ canonical'[k].status = "running"
      /\ \A i \in DOMAIN canonical : i # k => canonical'[i] = canonical[i]
  <2> DEFINE t == [canonical[k] EXCEPT !.status = "running",
                                       !.invocation_id = canonical[k].invocation_id + 1]
  <2>1. t \in Canonical /\ t.turn = n /\ t.status = "running"
    <3>1. /\ canonical[k] \in Canonical
          /\ canonical[k].invocation_id + 1 \in Nat
          /\ "running" \in AgentTurnStatus
      BY <1>2, CanonicalFields DEF AgentTurnStatus
    <3> QED
      BY <1>2, <3>1 DEF Canonical
  <2>2. canonical' = [i \in DOMAIN canonical |-> IF i = k THEN t ELSE canonical[i]]
    BY <1>5
  <2> HIDE DEF t
  <2>3. canonical \in [1..Len(canonical) -> Canonical] /\ Len(canonical) \in Nat
    BY DEF TypeOK
  <2>4. canonical' \in [1..Len(canonical) -> Canonical]
    BY <2>1, <2>2, <2>3
  <2>5. canonical' \in Seq(Canonical) /\ Len(canonical') = Len(canonical)
    BY <2>3, <2>4
  <2> QED
    BY <1>2, <2>1, <2>2, <2>5
<1>8. TypeOK'
  BY <1>5, <1>6, <1>7 DEF Moves, TypeOK
<1>9. \A i \in DOMAIN canonical : canonical'[i].turn = canonical[i].turn
  BY <1>2, <1>7
<1>10. CanonicalUnique'
  BY <1>7, <1>9 DEF CanonicalUnique
<1>11. ~ is_terminal(canonical[k].status)
  BY <1>3 DEF is_terminal, TerminalStatuses, WaitingStatuses
<1>12. EarlierFinished'
  BY <1>2, <1>7, <1>11 DEF EarlierFinished
<1>13. KnownTurns'
  BY <1>2, <1>5, <1>6, <1>7, <1>9 DEF KnownTurns, Moves
<1>14. StatusAsked'
  BY <1>4, <1>6 DEF StatusAsked, Moves
<1>15. \A q \in Procs : Holder(q) => proc[q].turn # n
  BY <1>2, <1>3 DEF HeldIsNotWaiting, needs_attention
<1>16. \A q \in Procs : proc[q].pc \in {"bind", "start"} => Holder(q)
  BY DEF Holder
<1>17. OpeningAlone'
  BY <1>2, <1>5, <1>6, <1>7, <1>9, <1>15, <1>16 DEF OpeningAlone, Moves, is_active
<1>18. OneHolder'
  BY <1>6, <1>15 DEF OneHolder, Holder, Moves
<1>19. HeldIsNotWaiting'
  <2> SUFFICES ASSUME NEW q \in Procs, Holder(q)', NEW i \in DOMAIN canonical',
                      canonical'[i].turn = proc'[q].turn
               PROVE  ~ needs_attention(canonical'[i].status)
    BY DEF HeldIsNotWaiting
  <2>1. CASE i = k
    BY <1>7, <2>1 DEF needs_attention, WaitingStatuses
  <2>2. CASE i # k /\ q # p
    BY <1>6, <1>7, <2>2 DEF HeldIsNotWaiting, Holder, Moves
  <2>3. CASE i # k /\ q = p
    BY <1>2, <1>6, <1>7, <2>3 DEF CanonicalUnique, Moves
  <2> QED
    BY <2>1, <2>2, <2>3
<1> QED
  BY <1>8, <1>10, <1>12, <1>13, <1>14, <1>17, <1>18, <1>19

LEMMA CancelStep ==
  ASSUME DriverInv, cancel
  PROVE  DriverInv'
<1> DEFINE n == running.turn
<1> USE DEF DriverInv
<1>1. /\ n \in TurnNo /\ running \in Entry
      /\ row' = [row EXCEPT ![n] = "cancelling"]
      /\ running' = [running EXCEPT !.cancelled = TRUE]
      /\ UNCHANGED <<canonical, crashes>>
  BY TokenOfEntry DEF cancel, TypeOK
<1>2. /\ row' \in Seq(TurnStatus) /\ Len(row') = Len(row)
      /\ \A m \in 1..Len(row) : row'[m] \in {row[m], "cancelling"}
  <2> HIDE DEF n
  <2>1. TypeOK /\ "cancelling" \in TurnStatus
    BY DEF TurnStatus
  <2> HIDE DEF DriverInv
  <2>2. /\ row' \in Seq(TurnStatus) /\ Len(row') = Len(row)
        /\ \A m \in 1..Len(row) : row'[m] = IF m = n THEN "cancelling" ELSE row[m]
    BY <1>1, <2>1, RowWritten
  <2> QED
    BY <2>2
<1>3. running' \in Entry
  BY <1>1 DEF Entry
<1>4. ASSUME NEW q \in Procs
      PROVE  /\ proc'[q] \in Call \cup {Idle}
             /\ proc'[q] = Idle <=> proc[q] = Idle
             /\ proc'[q].pc = proc[q].pc
             /\ proc[q] # Idle => proc'[q].turn = proc[q].turn /\ proc'[q].status = proc[q].status
  <2> DEFINE c == [proc[q] EXCEPT !.cancelled = TRUE]
  <2>1. ASSUME proc[q] # Idle
        PROVE  c \in Call /\ c.pc = proc[q].pc /\ c.turn = proc[q].turn
               /\ c.status = proc[q].status
    BY <2>1, CallFields DEF Call
  <2>2. proc'[q] = proc[q] \/ (proc[q] # Idle /\ proc'[q] = c)
    BY DEF cancel
  <2>3. proc[q] \in Call \cup {Idle}
    BY DEF TypeOK
  <2> HIDE DEF c
  <2>4. CASE proc'[q] = proc[q]
    BY <2>3, <2>4
  <2>5. CASE proc[q] # Idle /\ proc'[q] = c
    <3>1. proc[q].pc \in Step
      BY <2>5, CallFields
    <3> QED
      BY <2>1, <2>5, <3>1, IdleFields
  <2> QED
    BY <2>2, <2>4, <2>5
<1>5. proc' \in [Procs -> Call \cup {Idle}]
  <2>1. DOMAIN proc' = Procs /\ proc' = [q \in Procs |-> proc'[q]]
    BY DEF cancel
  <2> QED
    BY <1>4, <2>1
<1>6. TypeOK'
  BY <1>1, <1>2, <1>3, <1>5 DEF TypeOK
<1>7. CanonicalUnique' /\ EarlierFinished'
  BY <1>1 DEF CanonicalUnique, EarlierFinished
<1>8. KnownTurns' /\ StatusAsked'
  BY <1>1, <1>2, <1>4, IdleFields DEF KnownTurns, StatusAsked
<1>9. \A q \in Procs : proc[q] # Idle => proc[q].turn \in 1..Len(row)
  BY KnownRow
<1>10. OpeningAlone'
  BY <1>1, <1>2, <1>4, <1>9, IdleFields DEF OpeningAlone, is_active
<1>11. OneHolder'
  BY <1>4, IdleFields DEF OneHolder, Holder
<1>12. HeldIsNotWaiting'
  BY <1>1, <1>4, IdleFields DEF HeldIsNotWaiting, Holder, needs_attention
<1> QED
  BY <1>6, <1>7, <1>8, <1>10, <1>11, <1>12

LEMMA RestartStep ==
  ASSUME DriverInv, Restart
  PROVE  DriverInv'
<1> USE DEF DriverInv
<1>1. \A p \in Procs : proc'[p] = Idle
  BY DEF Restart
<1>2. /\ canonical' \in Seq(Canonical) /\ Len(canonical') = Len(canonical)
      /\ DOMAIN canonical' = DOMAIN canonical
      /\ \A i \in DOMAIN canonical :
           /\ canonical'[i].turn = canonical[i].turn
           /\ canonical'[i].status \in {canonical[i].status, "interrupted"}
  <2>1. canonical \in [1..Len(canonical) -> Canonical] /\ Len(canonical) \in Nat
    BY DEF TypeOK
  <2>2. ASSUME NEW i \in DOMAIN canonical
        PROVE  /\ canonical'[i] \in Canonical
               /\ canonical'[i].turn = canonical[i].turn
               /\ canonical'[i].status \in {canonical[i].status, "interrupted"}
    <3> DEFINE t == [canonical[i] EXCEPT !.status = "interrupted"]
    <3>1. canonical[i] \in Canonical
      BY CanonicalFields
    <3>2. t \in Canonical /\ t.turn = canonical[i].turn /\ t.status = "interrupted"
      BY <3>1 DEF Canonical, AgentTurnStatus, TerminalStatuses
    <3>3. canonical'[i] \in {canonical[i], t}
      BY DEF Restart
    <3> HIDE DEF t
    <3> QED
      BY <3>1, <3>2, <3>3
  <2>3. DOMAIN canonical' = DOMAIN canonical /\ canonical' = [i \in DOMAIN canonical |-> canonical'[i]]
    BY DEF Restart
  <2>4. canonical' \in [1..Len(canonical) -> Canonical]
    BY <2>1, <2>2, <2>3
  <2> QED
    BY <2>1, <2>2, <2>3, <2>4
<1>3. row' \in Seq(TurnStatus) /\ Len(row') = Len(row)
  <2>1. row \in [1..Len(row) -> TurnStatus] /\ Len(row) \in Nat
    BY DEF TypeOK
  <2>2. row' \in [1..Len(row) -> TurnStatus]
    BY <2>1 DEF Restart, TurnStatus
  <2> QED
    BY <2>1, <2>2
<1>4. TypeOK'
  BY <1>2, <1>3, RootAssumption DEF Restart, TypeOK
<1>5. CanonicalUnique'
  BY <1>2 DEF CanonicalUnique
<1>6. EarlierFinished'
  BY <1>2 DEF EarlierFinished, is_terminal, TerminalStatuses
<1>7. KnownTurns'
  BY <1>1, <1>2, <1>3 DEF KnownTurns
<1>8. StatusAsked' /\ OpeningAlone' /\ OneHolder' /\ HeldIsNotWaiting'
  BY <1>1, IdleFields DEF StatusAsked, OpeningAlone, OneHolder, HeldIsNotWaiting, Holder
<1> QED
  BY <1>4, <1>5, <1>6, <1>7, <1>8

LEMMA DriverInvStep ==
  ASSUME DriverInv, [Next]_vars
  PROVE  DriverInv'
<1>1. CASE UNCHANGED vars
  BY <1>1 DEF vars, DriverInv, TypeOK, CanonicalUnique, KnownTurns, EarlierFinished,
              StatusAsked, OpeningAlone, OneHolder, HeldIsNotWaiting, Holder, is_terminal,
              is_active, needs_attention
<1>2. ASSUME NEW p \in Procs, Continue(p) PROVE DriverInv'
  BY <1>2, BindStep, RefuseBindingStep, StartStep, ResumeRowStep, RollbackStep, DriveStep,
     EffectiveStep, RecordStep, FinishStep, UpdateStep, RemoveStep, CompareStep
  DEF Continue
<1> QED
  BY <1>1, <1>2, BeginStep, ResumeStep, ReadStep, CancelStep, CancelWaitingStep, RestartStep
  DEF Next

LEMMA DriverInvInit ==
  ASSUME Init
  PROVE  DriverInv
BY RootAssumption, IdleFields
DEF Init, DriverInv, TypeOK, CanonicalUnique, KnownTurns, EarlierFinished, StatusAsked,
    OpeningAlone, OneHolder, HeldIsNotWaiting, Holder

LEMMA DriverInvariant == Spec => []DriverInv
BY DriverInvInit, DriverInvStep, PTL DEF Spec

(* No Turn of the root thread is ever driven by two runs, however resumes,   *)
(* cancels, status reads, repairs and restarts interleave (turns.rs).        *)
THEOREM RootHasOneDriver == Spec => []OneDriverPerTurn
<1>1. DriverInv => OneDriverPerTurn
  BY DEF DriverInv, OneDriverPerTurn, OneHolder, Holder, At
<1> QED
  BY <1>1, DriverInvariant, PTL

-----------------------------------------------------------------------------
(* The refinement of TurnHistory                                             *)

RowShown(t) == [status |-> t.status, invocation_id |-> t.invocation_id]

LEMMA SameStatuses ==
  /\ History!AgentTurnStatus = AgentTurnStatus
  /\ \A s : History!is_terminal(s) <=> is_terminal(s)
  /\ \A s : History!needs_attention(s) <=> needs_attention(s)
  /\ \A s, next : History!can_transition_to(s, next) <=> can_transition_to(s, next)
BY DEF History!AgentTurnStatus, AgentTurnStatus, History!WaitingStatuses, WaitingStatuses,
       History!TerminalStatuses, TerminalStatuses, History!is_terminal, is_terminal,
       History!needs_attention, needs_attention, History!can_transition_to, can_transition_to

LEMMA RootRows ==
  /\ TurnRows["root"] = [i \in DOMAIN canonical |-> RowShown(canonical[i])]
  /\ DOMAIN TurnRows = {"root"}
  /\ \A i \in DOMAIN canonical :
       /\ TurnRows["root"][i].status = canonical[i].status
       /\ TurnRows["root"][i].invocation_id = canonical[i].invocation_id
BY DEF TurnRows, RowShown

LEMMA NoneMoved ==
  ASSUME DOMAIN canonical' = DOMAIN canonical,
         \A i \in DOMAIN canonical :
           /\ canonical'[i].status = canonical[i].status
           /\ canonical'[i].invocation_id = canonical[i].invocation_id
  PROVE  TurnRows' = TurnRows
BY DEF TurnRows

(* One Turn moves along a transition, or out of a wait into its next         *)
(* invocation.                                                               *)
LEMMA OneMoved ==
  ASSUME NEW k \in DOMAIN canonical, DOMAIN canonical' = DOMAIN canonical,
         \A i \in DOMAIN canonical : i # k =>
           /\ canonical'[i].status = canonical[i].status
           /\ canonical'[i].invocation_id = canonical[i].invocation_id,
         canonical'[k].status \in AgentTurnStatus,
         can_transition_to(canonical[k].status, canonical'[k].status),
         \/ canonical'[k].invocation_id = canonical[k].invocation_id
         \/ /\ canonical'[k].invocation_id = canonical[k].invocation_id + 1
            /\ needs_attention(canonical[k].status)
            /\ canonical'[k].status = "running"
  PROVE  History!Next
<1> DEFINE R == TurnRows["root"]
           next == canonical'[k].status
           inv == canonical'[k].invocation_id
<1>1. /\ DOMAIN R = DOMAIN canonical
      /\ R[k].status = canonical[k].status /\ R[k].invocation_id = canonical[k].invocation_id
  BY RootRows
<1>2. TurnRows'["root"] = [i \in DOMAIN canonical |-> RowShown(canonical'[i])]
  BY DEF TurnRows, RowShown
<1>3. \A i \in DOMAIN canonical : i # k => RowShown(canonical'[i]) = RowShown(canonical[i])
  BY DEF RowShown
<1>4. \A i \in DOMAIN canonical :
        RowShown(canonical'[i]) = IF i = k THEN [status |-> next, invocation_id |-> inv]
                                  ELSE R[i]
  BY <1>3, RootRows DEF RowShown
<1>5. TurnRows'["root"] = [R EXCEPT ![k] = [status |-> next, invocation_id |-> inv]]
  <2>1. [R EXCEPT ![k] = [status |-> next, invocation_id |-> inv]]
          = [i \in DOMAIN canonical |-> IF i = k THEN [status |-> next, invocation_id |-> inv]
                                        ELSE R[i]]
    BY <1>1
  <2>2. [i \in DOMAIN canonical |-> RowShown(canonical'[i])]
          = [i \in DOMAIN canonical |-> IF i = k THEN [status |-> next, invocation_id |-> inv]
                                        ELSE R[i]]
    BY <1>4, Zenon
  <2> QED
    BY <1>2, <2>1, <2>2, Zenon
<1>6. History!Moved("root")
  <2>1. /\ next \in History!AgentTurnStatus
        /\ History!can_transition_to(R[k].status, next)
        /\ inv \in {R[k].invocation_id, R[k].invocation_id + 1}
        /\ inv # R[k].invocation_id =>
             History!needs_attention(R[k].status) /\ next = "running"
    BY <1>1, SameStatuses
  <2> HIDE DEF next, inv
  <2> SUFFICES \E n \in DOMAIN R, nx \in History!AgentTurnStatus :
                 /\ History!can_transition_to(R[n].status, nx)
                 /\ \E i \in {R[n].invocation_id, R[n].invocation_id + 1} :
                      /\ i # R[n].invocation_id =>
                           History!needs_attention(R[n].status) /\ nx = "running"
                      /\ TurnRows'["root"] =
                           [R EXCEPT ![n] = [status |-> nx, invocation_id |-> i]]
    BY DEF History!Moved
  <2> USE <1>1, <2>1
  <2> WITNESS k \in DOMAIN R, next \in History!AgentTurnStatus
  <2> QED
    BY <1>5, <2>1
<1>7. DOMAIN TurnRows' = {"root"}
  BY DEF TurnRows
<1> QED
  BY <1>6, <1>7 DEF History!Next

LEMMA SetCanonicalShows ==
  ASSUME DriverInv, NEW n, NEW next \in AgentTurnStatus, SetCanonical(n, next),
         \A i \in Found(n) : transition_ok(canonical[i].status, next)
  PROVE  [History!Next]_TurnRows
<1> USE DEF DriverInv
<1>1. /\ DOMAIN canonical' = DOMAIN canonical
      /\ \A i \in DOMAIN canonical :
           /\ canonical'[i].invocation_id = canonical[i].invocation_id
           /\ canonical'[i].status = IF canonical[i].turn = n THEN next ELSE canonical[i].status
  BY SetCanonicalFacts
<1>2. CASE \A i \in Found(n) : canonical[i].status = next
  BY <1>1, <1>2, NoneMoved DEF Found
<1>3. ASSUME NEW k \in Found(n), canonical[k].status # next PROVE History!Next
  <2>1. can_transition_to(canonical[k].status, next)
    BY <1>3 DEF transition_ok
  <2>2. k \in DOMAIN canonical /\ canonical[k].turn = n
    BY DEF Found
  <2>3. \A i \in DOMAIN canonical : i # k => canonical[i].turn # n
    BY <2>2 DEF CanonicalUnique
  <2> QED
    BY <1>1, <2>1, <2>2, <2>3, OneMoved
<1> QED
  BY <1>2, <1>3

LEMMA BindShows ==
  ASSUME DriverInv, NEW p \in Procs, Bind(p)
  PROVE  History!Next
<1> DEFINE t == [turn |-> proc[p].turn, status |-> "queued", invocation_id |-> 1]
           k == Len(canonical)
           S == [status : AgentTurnStatus, invocation_id : Nat]
           R == TurnRows["root"]
           new == Append(R, History!Created)
<1> USE DEF DriverInv
<1>1. /\ canonical' = Append(canonical, t) /\ proc[p].turn \in TurnNo
      /\ \A i \in DOMAIN canonical : i = k => is_terminal(canonical[i].status)
  BY IdleFields, CallFields DEF Bind, At
<1>2. t \in Canonical /\ RowShown(t) = History!Created
  BY <1>1 DEF Canonical, AgentTurnStatus, RowShown, History!Created
<1> HIDE DEF t
<1>3. /\ k \in Nat /\ DOMAIN canonical = 1..k /\ DOMAIN canonical' = 1..(k + 1)
      /\ canonical'[k + 1] = t /\ \A i \in 1..k : canonical'[i] = canonical[i]
  BY <1>1, <1>2 DEF TypeOK
<1> HIDE DEF k
<1>4. R \in Seq(S) /\ Len(R) = k
  <2>1. \A i \in 1..k : RowShown(canonical[i]) \in S
    BY <1>3, CanonicalFields DEF RowShown
  <2>2. R = [i \in 1..k |-> RowShown(canonical[i])]
    BY <1>3, RootRows
  <2> QED
    BY <1>3, <2>1, <2>2
<1>5. History!Created \in S
  BY DEF History!Created, AgentTurnStatus
<1>6. TurnRows'["root"] = [i \in 1..(k + 1) |-> RowShown(canonical'[i])]
  BY <1>3 DEF TurnRows, RowShown
<1>7. new = [i \in 1..(k + 1) |-> new[i]]
  <2>1. new \in Seq(S) /\ Len(new) = k + 1
    BY <1>3, <1>4, <1>5
  <2> QED
    BY <1>3, <2>1
<1>8. \A i \in 1..(k + 1) : RowShown(canonical'[i]) = new[i]
  <2>1. \A i \in 1..k : new[i] = R[i] /\ R[i] = RowShown(canonical[i])
    BY <1>3, <1>4, <1>5, RootRows
  <2>2. new[k + 1] = History!Created
    BY <1>3, <1>4, <1>5
  <2>3. \A i \in 1..(k + 1) : i \in 1..k \/ i = k + 1
    BY <1>3
  <2> HIDE DEF new
  <2>4. \A i \in 1..k : RowShown(canonical'[i]) = new[i]
    BY <1>3, <2>1
  <2>5. RowShown(canonical'[k + 1]) = new[k + 1]
    BY <1>2, <1>3, <2>2
  <2> QED
    BY <2>3, <2>4, <2>5, Zenon
<1>9. TurnRows'["root"] = new
  <2> HIDE DEF new
  <2>1. [i \in 1..(k + 1) |-> RowShown(canonical'[i])] = [i \in 1..(k + 1) |-> new[i]]
    BY <1>8, Zenon
  <2> QED
    BY <1>6, <1>7, <2>1, Zenon
<1>10. \A i \in DOMAIN R : History!is_terminal(R[i].status)
  <2>1. \A i \in DOMAIN canonical : is_terminal(canonical[i].status)
    BY <1>1 DEF EarlierFinished, k
  <2> QED
    BY <2>1, RootRows, SameStatuses
<1>11. History!Added("root")
  BY <1>9, <1>10 DEF History!Added
<1>12. DOMAIN TurnRows' = {"root"}
  BY DEF TurnRows
<1> QED
  BY <1>11, <1>12 DEF History!Next

LEMMA ResumeShows ==
  ASSUME DriverInv, NEW p \in Procs, NEW n \in TurnNo, resume_authority(p, n)
  PROVE  History!Next
<1> USE DEF DriverInv
<1>1. PICK k \in Found(n) : TRUE
  BY DEF resume_authority
<1>2. /\ k \in DOMAIN canonical /\ CanonicalStatus(n) = canonical[k].status /\ Found(n) = {k}
  BY <1>1, StatusFound DEF Found
<1>3. needs_attention(canonical[k].status)
  BY <1>2 DEF resume_authority
<1>4. canonical' = [i \in DOMAIN canonical |->
                      IF i = k THEN [canonical[k] EXCEPT !.status = "running",
                                       !.invocation_id = canonical[k].invocation_id + 1]
                      ELSE canonical[i]]
  BY <1>2 DEF resume_authority
<1>5. canonical[k] \in Canonical
  BY <1>2, CanonicalFields
<1>6. /\ canonical'[k].status = "running"
      /\ canonical'[k].invocation_id = canonical[k].invocation_id + 1
  BY <1>2, <1>4, <1>5 DEF Canonical
<1>7. /\ DOMAIN canonical' = DOMAIN canonical
      /\ \A i \in DOMAIN canonical : i # k => canonical'[i] = canonical[i]
  BY <1>4
<1>8. can_transition_to(canonical[k].status, "running") /\ "running" \in AgentTurnStatus
  BY <1>3 DEF needs_attention, can_transition_to, AgentTurnStatus
<1> QED
  BY <1>2, <1>3, <1>6, <1>7, <1>8, OneMoved

LEMMA RestartShows ==
  ASSUME DriverInv, Restart
  PROVE  [History!Next]_TurnRows
<1> DEFINE k == Len(canonical)
<1> USE DEF DriverInv
<1>1. DOMAIN canonical' = DOMAIN canonical
  BY DEF Restart
<1>2. \A i \in DOMAIN canonical :
        canonical[i].status \notin {"queued", "running"} => canonical'[i] = canonical[i]
  BY DEF Restart
<1>3. CASE \A i \in DOMAIN canonical : canonical[i].status \notin {"queued", "running"}
  BY <1>1, <1>2, <1>3, NoneMoved
<1>4. ASSUME NEW j \in DOMAIN canonical, canonical[j].status \in {"queued", "running"}
      PROVE  History!Next
  <2>1. \A i \in DOMAIN canonical : i # k => canonical'[i] = canonical[i]
    BY <1>2 DEF EarlierFinished, is_terminal, TerminalStatuses
  <2>2. j = k
    BY <1>4 DEF EarlierFinished, is_terminal, TerminalStatuses
  <2>3. canonical[j] \in Canonical
    BY CanonicalFields
  <2>4. canonical'[j] = [canonical[j] EXCEPT !.status = "interrupted"]
    BY <1>4 DEF Restart
  <2>5. /\ canonical'[j].status = "interrupted"
        /\ canonical'[j].invocation_id = canonical[j].invocation_id
    BY <2>3, <2>4 DEF Canonical
  <2>6. can_transition_to(canonical[j].status, "interrupted") /\ "interrupted" \in AgentTurnStatus
    BY <1>4 DEF can_transition_to, AgentTurnStatus, TerminalStatuses
  <2> QED
    BY <1>1, <2>1, <2>2, <2>5, <2>6, OneMoved
<1> QED
  BY <1>3, <1>4

LEMMA RootRefinementStep ==
  ASSUME DriverInv, [Next]_vars
  PROVE  [History!Next]_TurnRows
<1> USE DEF DriverInv
<1>1. ASSUME canonical' = canonical PROVE TurnRows' = TurnRows
  BY <1>1 DEF TurnRows
<1>2. ASSUME NEW p \in Procs, Start(p) PROVE [History!Next]_TurnRows
  <2>1. proc[p].pc = "start" /\ SetCanonical(proc[p].turn, "running")
    BY <1>2 DEF Start, At
  <2>2. \A i \in Found(proc[p].turn) : transition_ok(canonical[i].status, "running")
    BY <2>1 DEF OpeningAlone, Found, transition_ok, can_transition_to
  <2> QED
    BY <2>1, <2>2, SetCanonicalShows DEF AgentTurnStatus
<1>3. ASSUME NEW p \in Procs, rollback_authority(p) PROVE [History!Next]_TurnRows
  <2> DEFINE n == proc[p].turn
             next == agent_status(proc[p].status)
  <2>1. /\ proc[p].pc = "resuming"
        /\ \/ transition_ok(CanonicalStatus(n), next) /\ SetCanonical(n, next)
           \/ canonical' = canonical
    BY <1>3 DEF rollback_authority, At
  <2>2. next \in AgentTurnStatus
    BY <2>1, StatusMaps DEF StatusAsked, Settling
  <2> HIDE DEF next
  <2>3. CASE transition_ok(CanonicalStatus(n), next) /\ SetCanonical(n, next)
    BY <2>2, <2>3, StatusFound, SetCanonicalShows
  <2> QED
    BY <1>1, <2>1, <2>3
<1>4. ASSUME NEW p \in Procs, RecordCanonical(p) PROVE [History!Next]_TurnRows
  <2> DEFINE n == proc[p].turn
             next == agent_status(proc[p].status)
  <2>1. /\ proc[p].pc = "record"
        /\ \/ transition_ok(CanonicalStatus(n), next) /\ SetCanonical(n, next)
           \/ canonical' = canonical
    BY <1>4 DEF RecordCanonical, At
  <2>2. next \in AgentTurnStatus
    BY <2>1, StatusMaps DEF StatusAsked
  <2> HIDE DEF next
  <2>3. CASE transition_ok(CanonicalStatus(n), next) /\ SetCanonical(n, next)
    BY <2>2, <2>3, StatusFound, SetCanonicalShows
  <2> QED
    BY <1>1, <2>1, <2>3
<1>5. ASSUME NEW p \in Procs,
             \/ begin(p) \/ RefuseBinding(p) \/ resume_turn_invocation(p)
             \/ (\E outcome \in Outcomes : Drive(p, outcome))
             \/ effective_finish_status(p) \/ FinishProjection(p) \/ UpdateRow(p)
             \/ RemoveEntry(p) \/ CompareWithCanonical(p) \/ ReadProjection(p)
             \/ CancelWaiting(p)
      PROVE  canonical' = canonical
  BY <1>5 DEF begin, RefuseBinding, resume_turn_invocation, Drive, effective_finish_status,
              FinishProjection, UpdateRow, RemoveEntry, CompareWithCanonical, ReadProjection,
              CancelWaiting
<1>6. ASSUME cancel \/ UNCHANGED vars PROVE canonical' = canonical
  BY <1>6 DEF cancel, vars
<1> QED
  BY <1>1, <1>2, <1>3, <1>4, <1>5, <1>6, BindShows, ResumeShows, RestartShows
  DEF Next, Continue

(* The canonical Turns of the root thread move as TurnHistory says: no Turn  *)
(* is dropped or reopened, none is added behind an unfinished one, and an    *)
(* invocation number rises only on the way out of a wait.                    *)
THEOREM RootImplementsTurnHistory == Spec => ImplementsTurnHistory
<1>1. Init => History!Init
  BY DEF Init, History!Init, TurnRows
<1> QED
  BY <1>1, RootRefinementStep, DriverInvariant, PTL DEF Spec, ImplementsTurnHistory, History!Spec

=============================================================================
