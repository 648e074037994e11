------------------- MODULE CollaborationRepositoryProofs -------------------
(* Theorems about CollaborationRepository, for every set of Agents, every    *)
(* policy and every bound.                                                   *)
EXTENDS CollaborationRepository, FiniteSetTheorems, SequenceTheorems, TLAPS

-----------------------------------------------------------------------------
(* Facts about the rows                                                      *)

(* Writing one Turn of one thread keeps the type of the table.               *)
LEMMA SetTurnType ==
  ASSUME NEW tab \in [Agents -> Seq(Turn)], NEW a \in Agents,
         NEW n \in DOMAIN tab[a], NEW t \in Turn
  PROVE  /\ [tab EXCEPT ![a] = [tab[a] EXCEPT ![n] = t]] \in [Agents -> Seq(Turn)]
         /\ Len([tab[a] EXCEPT ![n] = t]) = Len(tab[a])
<1>1. tab[a] \in Seq(Turn)
  OBVIOUS
<1>2. [tab[a] EXCEPT ![n] = t] \in Seq(Turn)
  BY <1>1
<1>3. Len([tab[a] EXCEPT ![n] = t]) = Len(tab[a])
  BY <1>1
<1> QED
  BY <1>2, <1>3

(* Appending a Turn keeps the type of the table.                             *)
LEMMA AddTurnType ==
  ASSUME NEW tab \in [Agents -> Seq(Turn)], NEW a \in Agents
  PROVE  [tab EXCEPT ![a] = Append(tab[a], NewTurn)] \in [Agents -> Seq(Turn)]
<1>1. NewTurn \in Turn
  BY DEF NewTurn, Turn, AgentTurnStatus
<1> QED
  BY <1>1

(* A message asked for between two Agents keeps the type of the mailbox.     *)
LEMMA EnqueuedType ==
  ASSUME mail \in Seq(Message), NEW from \in Agents, NEW to \in Agents,
         NEW kind \in MessageKind, NEW cause \in TurnId \cup CallIds
  PROVE  Enqueued(from, to, kind, cause) \in Seq(Message)
<1> DEFINE m == [from |-> from, to |-> to, kind |-> kind, cause |-> cause,
                 state |-> "pending"]
<1>1. m \in Message
  BY DEF Message
<1>2. Append(mail, m) \in Seq(Message)
  BY <1>1
<1> QED
  BY <1>2 DEF Enqueued

(* Marking messages keeps the type of the mailbox.                           *)
LEMMA MarkedType ==
  ASSUME mail \in Seq(Message), NEW S, NEW st \in {"delivered", "acknowledged"},
         NEW new, new = [i \in DOMAIN mail |->
                            IF i \in S THEN [mail[i] EXCEPT !.state = st] ELSE mail[i]]
  PROVE  /\ new \in Seq(Message)
         /\ Len(new) = Len(mail)
<1>1. \A i \in DOMAIN mail : mail[i] \in Message
  OBVIOUS
<1>2. \A i \in DOMAIN mail : [mail[i] EXCEPT !.state = st] \in Message
  BY <1>1 DEF Message
<1>3. DOMAIN mail = 1..Len(mail) /\ Len(mail) \in Nat
  OBVIOUS
<1> QED
  BY <1>1, <1>2, <1>3

-----------------------------------------------------------------------------
(* Type correctness                                                          *)

(* A Turn row written by a transition is a Turn row.                         *)
LEMMA TurnFields ==
  ASSUME NEW t \in Turn, NEW s \in AgentTurnStatus
  PROVE  /\ [t EXCEPT !.status = s] \in Turn
         /\ [t EXCEPT !.status = s, !.outcome = TRUE] \in Turn
         /\ [t EXCEPT !.status = s, !.invocation_id = t.invocation_id + 1] \in Turn
<1> DEFINE u == [t EXCEPT !.status = s]
<1>1. u \in Turn
  BY DEF Turn
<1>2. [u EXCEPT !.outcome = TRUE] \in Turn
  BY <1>1 DEF Turn
<1>3. t.invocation_id + 1 \in Nat
  BY DEF Turn
<1>4. [u EXCEPT !.invocation_id = t.invocation_id + 1] \in Turn
  BY <1>1, <1>3 DEF Turn
<1> QED
  BY <1>1, <1>2, <1>4

LEMMA TypeInit == Init => TypeOK
<1> SUFFICES ASSUME Init PROVE TypeOK
  OBVIOUS
<1>1. NoPolicy \in Policy
  BY DEF NoPolicy, Policy
<1> QED
  BY <1>1 DEF Init, TypeOK

LEMMA TypeStep == TypeOK /\ [Next]_vars => TypeOK'
<1> SUFFICES ASSUME TypeOK, [Next]_vars PROVE TypeOK'
  OBVIOUS
<1> USE DEF TypeOK
<1>0. "running" \in AgentTurnStatus /\ RecordedStatuses \subseteq AgentTurnStatus
  BY BoundAssumption DEF AgentTurnStatus
<1>1. ASSUME NEW pol \in SpawnPolicies, create_session(pol) PROVE TypeOK'
  <2>1. pol \in Policy
    BY PolicyAssumption DEF Policy
  <2>2. <<NewTurn>> \in Seq(Turn)
    BY DEF NewTurn, Turn, AgentTurnStatus
  <2> QED
    BY <1>1, <2>1, <2>2, RootAssumption DEF create_session
<1>2. ASSUME NEW p \in Agents, NEW c \in Agents, NEW name \in TaskNames,
             NEW pol \in SpawnPolicies, spawn_agent(p, c, name, pol)
      PROVE  TypeOK'
  <2>1. pol \in Policy
    BY PolicyAssumption DEF Policy
  <2>2. <<NewTurn>> \in Seq(Turn)
    BY DEF NewTurn, Turn, AgentTurnStatus
  <2>3. Append(path[p], name) \in Seq(TaskNames)
    OBVIOUS
  <2> QED
    BY <1>2, <2>1, <2>2, <2>3 DEF spawn_agent
<1>3. ASSUME NEW a \in Agents, AddTurn(a) PROVE TypeOK'
  BY <1>3, AddTurnType DEF AddTurn
<1>4. ASSUME NEW a \in Agents, NEW n \in 1..MaxTurns, transition_turn(a, n) PROVE TypeOK'
  <2> DEFINE t == [turns[a][n] EXCEPT !.status = "running"]
  <2>1. n \in DOMAIN turns[a] /\ turns' = [turns EXCEPT ![a] = [turns[a] EXCEPT ![n] = t]]
    BY <1>4 DEF transition_turn
  <2>2. turns[a][n] \in Turn
    BY <2>1
  <2>3. t \in Turn
    BY <2>2, <1>0, TurnFields
  <2>4. turns' \in [Agents -> Seq(Turn)]
    BY <2>1, <2>3, SetTurnType
  <2> QED
    BY <1>4, <2>4 DEF transition_turn
<1>5. ASSUME NEW a \in Agents, NEW n \in 1..MaxTurns, resume_turn(a, n) PROVE TypeOK'
  <2> DEFINE t == [turns[a][n] EXCEPT !.status = "running",
                                      !.invocation_id = turns[a][n].invocation_id + 1]
  <2>1. n \in DOMAIN turns[a] /\ turns' = [turns EXCEPT ![a] = [turns[a] EXCEPT ![n] = t]]
    BY <1>5 DEF resume_turn
  <2>2. turns[a][n] \in Turn
    BY <2>1
  <2>3. t \in Turn
    BY <2>2, <1>0, TurnFields
  <2>4. turns' \in [Agents -> Seq(Turn)]
    BY <2>1, <2>3, SetTurnType
  <2> QED
    BY <1>5, <2>4 DEF resume_turn
<1>6. ASSUME NEW a \in Agents, NEW n \in 1..MaxTurns, NEW next \in RecordedStatuses,
             record_turn_state(a, n, next)
      PROVE  TypeOK'
  <2> DEFINE t == [turns[a][n] EXCEPT !.status = next, !.outcome = TRUE]
  <2>1. n \in DOMAIN turns[a] /\ turns' = [turns EXCEPT ![a] = [turns[a] EXCEPT ![n] = t]]
    BY <1>6 DEF record_turn_state
  <2>2. turns[a][n] \in Turn
    BY <2>1
  <2>3. t \in Turn
    BY <2>2, <1>0, TurnFields
  <2>4. turns' \in [Agents -> Seq(Turn)]
    BY <2>1, <2>3, SetTurnType
  <2>5. <<a, n>> \in TurnId \cup CallIds
    BY DEF TurnId
  <2>6. EnvelopeKind(next) \in MessageKind
    BY DEF EnvelopeKind, MessageKind
  <2>7. mail' \in Seq(Message)
    BY <1>6, <2>5, <2>6, EnqueuedType DEF record_turn_state
  <2> QED
    BY <1>6, <2>4, <2>7 DEF record_turn_state
<1>7. ASSUME NEW from \in Agents, NEW to \in Agents, NEW call \in CallIds,
             enqueue(from, to, call)
      PROVE  TypeOK'
  <2>1. "message" \in MessageKind
    BY DEF MessageKind
  <2> QED
    BY <1>7, <2>1, EnqueuedType DEF enqueue
<1>8. ASSUME NEW target \in Agents, snapshot(target) PROVE TypeOK'
  BY <1>8, MarkedType DEF snapshot
<1>9. ASSUME NEW target \in Agents, NEW ids \in SUBSET DOMAIN mail, acknowledge(target, ids)
      PROVE  TypeOK'
  BY <1>9, MarkedType DEF acknowledge
<1>10. CASE UNCHANGED vars
  BY <1>10 DEF vars
<1> QED
  BY <1>1, <1>2, <1>3, <1>4, <1>5, <1>6, <1>7, <1>8, <1>9, <1>10, RootAssumption
  DEF Next, create_followup_turn, create_root_followup_turn

(* Every row the repository writes has its type.                             *)
THEOREM TypeCorrect == Spec => []TypeOK
BY TypeInit, TypeStep, PTL DEF Spec

-----------------------------------------------------------------------------
(* Turns and completions.  OneActiveTurn and CompletionDurable are not       *)
(* inductive by themselves: a spawn would break CompletionDurable if the     *)
(* mailbox already held a completion of the new thread's first Turn, and a   *)
(* follow-up if it held one of the next Turn.  So every completion must name *)
(* a finished Turn that exists, and a thread that does not exist has none.   *)

NoTurnsOutside == \A a \in Agents \ threads : turns[a] = <<>>

CompletionsGrounded ==
  \A i \in DOMAIN mail : mail[i].kind = "completion" =>
    \E c \in threads : \E n \in DOMAIN turns[c] :
      /\ mail[i].cause = <<c, n>>
      /\ is_terminal(turns[c][n].status)

CompletionsAnnounced ==
  \A c \in threads : parent[c] # NoAgent =>
    \A n \in DOMAIN turns[c] :
      is_terminal(turns[c][n].status) => Existing(parent[c], "completion", <<c, n>>)

TurnInv == TypeOK /\ NoTurnsOutside /\ OneActiveTurn /\ CompletionsGrounded /\ CompletionsAnnounced

(* A finished Turn moves nowhere.                                            *)
LEMMA TerminalStays ==
  ASSUME NEW s, NEW next, transition_ok(s, next)
  PROVE  /\ is_terminal(s) => next = s
         /\ is_terminal(s) => is_terminal(next)
BY DEF transition_ok, can_transition_to, is_terminal, WaitingStatuses, TerminalStatuses

(* What transition_turn, resume_turn and record_turn_state have in common.   *)
Moves(a, n, next) ==
  /\ n \in DOMAIN turns[a]
  /\ transition_ok(turns[a][n].status, next)
  /\ threads' = threads
  /\ parent' = parent
  /\ \A c \in Agents : Len(turns'[c]) = Len(turns[c]) /\ DOMAIN turns'[c] = DOMAIN turns[c]
  /\ \A c \in Agents : \A m \in DOMAIN turns[c] :
       turns'[c][m].status = IF c = a /\ m = n THEN next ELSE turns[c][m].status

LEMMA WriteMoves ==
  ASSUME TypeOK, NEW a \in Agents, NEW n \in DOMAIN turns[a], NEW next, NEW t,
         t.status = next, transition_ok(turns[a][n].status, next),
         threads' = threads, parent' = parent,
         turns' = [turns EXCEPT ![a] = [turns[a] EXCEPT ![n] = t]]
  PROVE  Moves(a, n, next)
<1>1. \A c \in Agents : turns[c] \in Seq(Turn)
  BY DEF TypeOK
<1>2. \A c \in Agents : turns'[c] = IF c = a THEN [turns[a] EXCEPT ![n] = t] ELSE turns[c]
  BY DEF TypeOK
<1>3. \A c \in Agents : Len(turns'[c]) = Len(turns[c]) /\ DOMAIN turns'[c] = DOMAIN turns[c]
  BY <1>1, <1>2
<1>4. \A c \in Agents : \A m \in DOMAIN turns[c] :
        turns'[c][m] = IF c = a /\ m = n THEN t ELSE turns[c][m]
  BY <1>1, <1>2
<1> QED
  BY <1>3, <1>4 DEF Moves

LEMMA TransitionMoves ==
  ASSUME TypeOK, NEW a \in Agents, NEW n, transition_turn(a, n)
  PROVE  Moves(a, n, "running")
<1> DEFINE t == [turns[a][n] EXCEPT !.status = "running"]
<1>1. n \in DOMAIN turns[a] /\ turns' = [turns EXCEPT ![a] = [turns[a] EXCEPT ![n] = t]]
  BY DEF transition_turn
<1>2. turns[a][n] \in Turn
  BY <1>1 DEF TypeOK
<1>3. t.status = "running"
  BY <1>2 DEF Turn
<1> QED
  BY <1>1, <1>3, WriteMoves DEF transition_turn

LEMMA ResumeMoves ==
  ASSUME TypeOK, NEW a \in Agents, NEW n, resume_turn(a, n)
  PROVE  Moves(a, n, "running")
<1> DEFINE t == [turns[a][n] EXCEPT !.status = "running",
                                    !.invocation_id = turns[a][n].invocation_id + 1]
<1>1. n \in DOMAIN turns[a] /\ turns' = [turns EXCEPT ![a] = [turns[a] EXCEPT ![n] = t]]
  BY DEF resume_turn
<1>2. turns[a][n] \in Turn
  BY <1>1 DEF TypeOK
<1>3. t.status = "running"
  BY <1>2 DEF Turn
<1>4. transition_ok(turns[a][n].status, "running")
  BY DEF resume_turn, needs_attention, transition_ok, can_transition_to
<1> QED
  BY <1>1, <1>3, <1>4, WriteMoves DEF resume_turn

LEMMA RecordMoves ==
  ASSUME TypeOK, NEW a \in Agents, NEW n, NEW next, record_turn_state(a, n, next)
  PROVE  Moves(a, n, next)
<1> DEFINE t == [turns[a][n] EXCEPT !.status = next, !.outcome = TRUE]
<1>1. n \in DOMAIN turns[a] /\ turns' = [turns EXCEPT ![a] = [turns[a] EXCEPT ![n] = t]]
  BY DEF record_turn_state
<1>2. turns[a][n] \in Turn
  BY <1>1 DEF TypeOK
<1>3. t.status = next
  BY <1>2 DEF Turn
<1> QED
  BY <1>1, <1>3, WriteMoves DEF record_turn_state

(* Moving a Turn disturbs neither the order of Turns nor what was announced. *)
LEMMA MovesKeep ==
  ASSUME TypeOK, NoTurnsOutside, OneActiveTurn, CompletionsGrounded,
         NEW a \in Agents, NEW n, NEW next, Moves(a, n, next)
  PROVE  /\ NoTurnsOutside'
         /\ OneActiveTurn'
         /\ \A c \in threads : \A m \in DOMAIN turns[c] :
              is_terminal(turns[c][m].status) => is_terminal(turns'[c][m].status)
<1>1. threads \subseteq Agents
  BY DEF TypeOK
<1>2. \A c \in threads : \A m \in DOMAIN turns[c] :
        is_terminal(turns[c][m].status) => is_terminal(turns'[c][m].status)
  BY <1>1, TerminalStays DEF Moves
<1>3. NoTurnsOutside'
  <2> SUFFICES ASSUME NEW c \in Agents \ threads' PROVE turns'[c] = <<>>
    BY DEF NoTurnsOutside
  <2>1. turns[c] = <<>> /\ DOMAIN turns'[c] = DOMAIN turns[c] /\ Len(turns'[c]) = 0
    BY DEF NoTurnsOutside, Moves
  <2>2. a \in threads
    BY DEF NoTurnsOutside, Moves
  <2> QED
    BY <2>1, <2>2
<1>4. OneActiveTurn'
  BY <1>1, <1>2 DEF OneActiveTurn, Moves
<1> QED
  BY <1>2, <1>3, <1>4

(* Asking for a message keeps the old ones, and afterwards it is there.      *)
LEMMA EnqueuedFacts ==
  ASSUME mail \in Seq(Message), NEW from, NEW to, NEW kind, NEW cause,
         mail' = Enqueued(from, to, kind, cause)
  PROVE  /\ \A i \in DOMAIN mail : i \in DOMAIN mail' /\ mail'[i] = mail[i]
         /\ \A i \in DOMAIN mail' :
              \/ i \in DOMAIN mail
              \/ /\ mail'[i].to = to
                 /\ mail'[i].kind = kind
                 /\ mail'[i].cause = cause
                 /\ mail'[i].state = "pending"
                 /\ ~ Existing(to, kind, cause)
                 /\ i = Len(mail) + 1
         /\ \E i \in DOMAIN mail' :
              mail'[i].to = to /\ mail'[i].kind = kind /\ mail'[i].cause = cause
<1> DEFINE m == [from |-> from, to |-> to, kind |-> kind, cause |-> cause,
                 state |-> "pending"]
<1>1. CASE Existing(to, kind, cause)
  BY <1>1 DEF Enqueued, Existing
<1>2. CASE ~ Existing(to, kind, cause)
  <2>1. mail' = Append(mail, m)
    BY <1>2 DEF Enqueued
  <2>2. Len(mail) \in Nat /\ DOMAIN mail = 1..Len(mail) /\ DOMAIN mail' = 1..(Len(mail) + 1)
    BY <2>1
  <2>3. mail'[Len(mail) + 1] = m
    BY <2>1
  <2>4. \A i \in DOMAIN mail : i \in DOMAIN mail' /\ mail'[i] = mail[i]
    BY <2>1, <2>2
  <2>5. Len(mail) + 1 \in DOMAIN mail'
    BY <2>2
  <2>6. \A i \in DOMAIN mail' : i \in DOMAIN mail \/ i = Len(mail) + 1
    BY <2>2
  <2>7. m.to = to /\ m.kind = kind /\ m.cause = cause /\ m.state = "pending"
    OBVIOUS
  <2>8. \E i \in DOMAIN mail' :
          mail'[i].to = to /\ mail'[i].kind = kind /\ mail'[i].cause = cause
    BY <2>3, <2>5, <2>7
  <2> QED
    BY <1>2, <2>3, <2>4, <2>6, <2>7, <2>8
<1> QED
  BY <1>1, <1>2

(* Marking messages changes their state and nothing else.                    *)
LEMMA MarkedFacts ==
  ASSUME mail \in Seq(Message), NEW S, NEW st,
         mail' = [i \in DOMAIN mail |->
                    IF i \in S THEN [mail[i] EXCEPT !.state = st] ELSE mail[i]]
  PROVE  /\ DOMAIN mail' = DOMAIN mail
         /\ \A i \in DOMAIN mail :
              /\ mail'[i].to = mail[i].to
              /\ mail'[i].kind = mail[i].kind
              /\ mail'[i].cause = mail[i].cause
              /\ mail'[i].state = IF i \in S THEN st ELSE mail[i].state
<1>1. \A i \in DOMAIN mail : mail[i] \in Message
  OBVIOUS
<1>2. \A i \in DOMAIN mail :
        /\ [mail[i] EXCEPT !.state = st].to = mail[i].to
        /\ [mail[i] EXCEPT !.state = st].kind = mail[i].kind
        /\ [mail[i] EXCEPT !.state = st].cause = mail[i].cause
        /\ [mail[i] EXCEPT !.state = st].state = st
  BY <1>1 DEF Message
<1> QED
  BY <1>2

(* A step that leaves threads and Turns alone and writes no completion.      *)
LEMMA MailOnlyKeeps ==
  ASSUME TurnInv, UNCHANGED <<threads, parent, turns>>,
         \A i \in DOMAIN mail : /\ i \in DOMAIN mail'
                                /\ mail'[i].to = mail[i].to
                                /\ mail'[i].kind = mail[i].kind
                                /\ mail'[i].cause = mail[i].cause,
         \A i \in DOMAIN mail' : i \in DOMAIN mail \/ mail'[i].kind # "completion"
  PROVE  NoTurnsOutside' /\ OneActiveTurn' /\ CompletionsGrounded' /\ CompletionsAnnounced'
<1>1. NoTurnsOutside' /\ OneActiveTurn'
  BY DEF TurnInv, NoTurnsOutside, OneActiveTurn
<1>2. CompletionsGrounded'
  BY DEF TurnInv, CompletionsGrounded
<1>3. CompletionsAnnounced'
  <2>1. \A to, kind, cause : Existing(to, kind, cause) => Existing(to, kind, cause)'
    BY DEF Existing
  <2> QED
    BY <2>1 DEF TurnInv, CompletionsAnnounced
<1> QED
  BY <1>1, <1>2, <1>3

(* A new thread, the root or a child, starts with one queued Turn.           *)
LEMMA NewThreadKeeps ==
  ASSUME TurnInv, NEW c \in Agents, c \notin threads, NEW p,
         threads' = threads \cup {c},
         parent' = [parent EXCEPT ![c] = p],
         turns' = [turns EXCEPT ![c] = <<NewTurn>>],
         mail' = mail
  PROVE  NoTurnsOutside' /\ OneActiveTurn' /\ CompletionsGrounded' /\ CompletionsAnnounced'
<1> USE DEF TurnInv
<1>1. \A a \in Agents : /\ turns'[a] = IF a = c THEN <<NewTurn>> ELSE turns[a]
                       /\ parent'[a] = IF a = c THEN p ELSE parent[a]
  BY DEF TypeOK
<1>2. threads \subseteq Agents
  BY DEF TypeOK
<1>3. DOMAIN <<NewTurn>> = {1} /\ Len(<<NewTurn>>) = 1 /\ ~ is_terminal(<<NewTurn>>[1].status)
  BY DEF NewTurn, is_terminal, TerminalStatuses
<1>4. NoTurnsOutside'
  BY <1>1 DEF NoTurnsOutside
<1>5. OneActiveTurn'
  <2> SUFFICES ASSUME NEW a \in threads', NEW n \in DOMAIN turns'[a], n < Len(turns'[a])
               PROVE  is_terminal(turns'[a][n].status)
    BY DEF OneActiveTurn
  <2>1. CASE a = c
    <3>1. turns'[a] = <<NewTurn>>
      BY <2>1, <1>1
    <3>2. n \in DOMAIN <<NewTurn>> /\ n < Len(<<NewTurn>>)
      BY <3>1, Zenon
    <3>3. n \in {1} /\ n < 1
      BY <3>2, <1>3, Zenon
    <3> QED
      BY <3>3
  <2>2. CASE a # c
    <3>1. a \in threads /\ turns'[a] = turns[a]
      BY <2>2, <1>1, <1>2
    <3> QED
      BY <3>1 DEF OneActiveTurn
  <2> QED
    BY <2>1, <2>2
<1>6. CompletionsGrounded'
  BY <1>1, <1>2 DEF CompletionsGrounded
<1>7. CompletionsAnnounced'
  <2> SUFFICES ASSUME NEW a \in threads', parent'[a] # NoAgent, NEW n \in DOMAIN turns'[a],
                      is_terminal(turns'[a][n].status)
               PROVE  Existing(parent[a], "completion", <<a, n>>) /\ parent'[a] = parent[a]
    <3>1. \A to, cause : Existing(to, "completion", cause) => Existing(to, "completion", cause)'
      BY <1>1 DEF Existing
    <3> QED
      BY <3>1 DEF CompletionsAnnounced
  <2>1. a # c
    BY <1>1, <1>2, <1>3
  <2>2. a \in threads /\ parent'[a] = parent[a] /\ turns'[a] = turns[a]
    BY <2>1, <1>1, <1>2
  <2> QED
    BY <2>2 DEF CompletionsAnnounced
<1> QED
  BY <1>4, <1>5, <1>6, <1>7

(* A follow-up Turn comes behind a finished one.                             *)
LEMMA AddTurnKeeps ==
  ASSUME TurnInv, NEW a \in threads, AddTurn(a)
  PROVE  NoTurnsOutside' /\ OneActiveTurn' /\ CompletionsGrounded' /\ CompletionsAnnounced'
<1> USE DEF TurnInv
<1>1. a \in Agents /\ threads \subseteq Agents /\ turns[a] \in Seq(Turn)
  BY DEF TypeOK
<1>2. UNCHANGED <<threads, parent, mail>>
  BY DEF AddTurn
<1>3. \A c \in Agents : turns'[c] = IF c = a THEN Append(turns[a], NewTurn) ELSE turns[c]
  BY <1>1 DEF AddTurn, TypeOK
<1>4. NewTurn \in Turn
  BY DEF NewTurn, Turn, AgentTurnStatus
<1>5. turns'[a] = Append(turns[a], NewTurn)
  BY <1>1, <1>3
<1>6. /\ Len(turns'[a]) = Len(turns[a]) + 1
      /\ DOMAIN turns[a] = 1..Len(turns[a])
      /\ DOMAIN turns'[a] = 1..(Len(turns[a]) + 1)
      /\ Len(turns[a]) \in Nat
  BY <1>4, <1>1, <1>5
<1>7. \A n \in DOMAIN turns[a] : turns'[a][n] = turns[a][n]
  BY <1>4, <1>1, <1>5
<1>8. ~ is_terminal(turns'[a][Len(turns[a]) + 1].status)
  <2>1. turns'[a][Len(turns[a]) + 1] = NewTurn
    BY <1>4, <1>1, <1>5
  <2> QED
    BY <2>1 DEF NewTurn, is_terminal, TerminalStatuses
<1>9. \A n \in DOMAIN turns[a] : is_terminal(turns[a][n].status)
  BY <1>1, <1>6 DEF OneActiveTurn, AddTurn, latest_turn
<1>10. NoTurnsOutside'
  BY <1>1, <1>2, <1>3 DEF NoTurnsOutside
<1>11. OneActiveTurn'
  <2> SUFFICES ASSUME NEW c \in threads, NEW n \in DOMAIN turns'[c], n < Len(turns'[c])
               PROVE  is_terminal(turns'[c][n].status)
    BY <1>2 DEF OneActiveTurn
  <2>1. CASE c = a
    BY <2>1, <1>6, <1>7, <1>9
  <2>2. CASE c # a
    BY <2>2, <1>1, <1>3 DEF OneActiveTurn
  <2> QED
    BY <2>1, <2>2
<1>12. CompletionsGrounded'
  <2> SUFFICES ASSUME NEW i \in DOMAIN mail, mail[i].kind = "completion"
               PROVE  \E c \in threads : \E n \in DOMAIN turns'[c] :
                        mail[i].cause = <<c, n>> /\ is_terminal(turns'[c][n].status)
    BY <1>2 DEF CompletionsGrounded
  <2>1. PICK c \in threads : \E n \in DOMAIN turns[c] :
          mail[i].cause = <<c, n>> /\ is_terminal(turns[c][n].status)
    BY DEF CompletionsGrounded
  <2>2. PICK n \in DOMAIN turns[c] :
          mail[i].cause = <<c, n>> /\ is_terminal(turns[c][n].status)
    BY <2>1
  <2>3. n \in DOMAIN turns'[c] /\ turns'[c][n] = turns[c][n]
    BY <1>1, <1>3, <1>6, <1>7
  <2> QED
    BY <2>2, <2>3
<1>13. CompletionsAnnounced'
  <2> SUFFICES ASSUME NEW c \in threads, parent[c] # NoAgent, NEW n \in DOMAIN turns'[c],
                      is_terminal(turns'[c][n].status)
               PROVE  Existing(parent[c], "completion", <<c, n>>)
    BY <1>2 DEF CompletionsAnnounced, Existing
  <2>1. n \in DOMAIN turns[c] /\ turns'[c][n] = turns[c][n]
    BY <1>1, <1>3, <1>6, <1>7, <1>8
  <2> QED
    BY <2>1 DEF CompletionsAnnounced
<1> QED
  BY <1>10, <1>11, <1>12, <1>13

(* A move that writes no message keeps the links; it must not finish a Turn. *)
LEMMA QuietMoveKeeps ==
  ASSUME TurnInv, NEW a \in Agents, NEW n, Moves(a, n, "running"), mail' = mail
  PROVE  NoTurnsOutside' /\ OneActiveTurn' /\ CompletionsGrounded' /\ CompletionsAnnounced'
<1> USE DEF TurnInv
<1>1. threads \subseteq Agents /\ threads' = threads /\ parent' = parent
  BY DEF TypeOK, Moves
<1>2. /\ NoTurnsOutside' /\ OneActiveTurn'
      /\ \A c \in threads : \A m \in DOMAIN turns[c] :
           is_terminal(turns[c][m].status) => is_terminal(turns'[c][m].status)
  BY MovesKeep
<1>3. \A c \in threads : DOMAIN turns'[c] = DOMAIN turns[c]
  BY <1>1 DEF Moves
<1>4. CompletionsGrounded'
  BY <1>1, <1>2, <1>3 DEF CompletionsGrounded
<1>5. \A c \in threads : \A m \in DOMAIN turns[c] :
        is_terminal(turns'[c][m].status) => is_terminal(turns[c][m].status)
  BY <1>1 DEF Moves, is_terminal, TerminalStatuses
<1>6. CompletionsAnnounced'
  BY <1>1, <1>3, <1>5 DEF CompletionsAnnounced, Existing
<1> QED
  BY <1>2, <1>4, <1>6

(* record_turn_state announces what it finishes.                             *)
LEMMA RecordKeeps ==
  ASSUME TurnInv, NEW a \in Agents, NEW n, NEW next, record_turn_state(a, n, next)
  PROVE  NoTurnsOutside' /\ OneActiveTurn' /\ CompletionsGrounded' /\ CompletionsAnnounced'
<1> USE DEF TurnInv
<1>1. Moves(a, n, next)
  BY RecordMoves
<1>2. threads \subseteq Agents /\ threads' = threads /\ parent' = parent
      /\ mail \in Seq(Message)
  BY <1>1 DEF TypeOK, Moves
<1>3. /\ NoTurnsOutside' /\ OneActiveTurn'
      /\ \A c \in threads : \A m \in DOMAIN turns[c] :
           is_terminal(turns[c][m].status) => is_terminal(turns'[c][m].status)
  BY <1>1, MovesKeep
<1>4. \A c \in threads : DOMAIN turns'[c] = DOMAIN turns[c]
  BY <1>1, <1>2 DEF Moves
<1>5. a \in threads /\ n \in DOMAIN turns[a] /\ turns'[a][n].status = next
  BY <1>1 DEF Moves, NoTurnsOutside
<1>6. mail' = IF parent[a] = NoAgent
               THEN mail
               ELSE Enqueued(a, parent[a], EnvelopeKind(next), <<a, n>>)
  BY DEF record_turn_state
<1>7. \A i \in DOMAIN mail : i \in DOMAIN mail' /\ mail'[i] = mail[i]
  BY <1>2, <1>6, EnqueuedFacts
<1>8. \A i \in DOMAIN mail' : \/ i \in DOMAIN mail
                              \/ /\ mail'[i].kind = EnvelopeKind(next)
                                 /\ mail'[i].cause = <<a, n>>
  BY <1>2, <1>6, EnqueuedFacts
<1>9. parent[a] # NoAgent =>
        \E i \in DOMAIN mail' : /\ mail'[i].to = parent[a]
                                /\ mail'[i].kind = EnvelopeKind(next)
                                /\ mail'[i].cause = <<a, n>>
  BY <1>2, <1>6, EnqueuedFacts
<1>10. CompletionsGrounded'
  <2> SUFFICES ASSUME NEW i \in DOMAIN mail', mail'[i].kind = "completion"
               PROVE  \E c \in threads : \E m \in DOMAIN turns'[c] :
                        mail'[i].cause = <<c, m>> /\ is_terminal(turns'[c][m].status)
    BY <1>2 DEF CompletionsGrounded
  <2>1. CASE i \in DOMAIN mail
    BY <2>1, <1>3, <1>4, <1>7 DEF CompletionsGrounded
  <2>2. CASE i \notin DOMAIN mail
    <3>1. is_terminal(next) /\ mail'[i].cause = <<a, n>>
      BY <2>2, <1>8 DEF EnvelopeKind
    <3> QED
      BY <3>1, <1>4, <1>5
  <2> QED
    BY <2>1, <2>2
<1>11. CompletionsAnnounced'
  <2> SUFFICES ASSUME NEW c \in threads, parent[c] # NoAgent, NEW m \in DOMAIN turns[c],
                      is_terminal(turns'[c][m].status)
               PROVE  \E i \in DOMAIN mail' : /\ mail'[i].to = parent[c]
                                              /\ mail'[i].kind = "completion"
                                              /\ mail'[i].cause = <<c, m>>
    BY <1>2, <1>4 DEF CompletionsAnnounced, Existing
  <2>1. CASE c = a /\ m = n
    <3>1. EnvelopeKind(next) = "completion"
      BY <2>1, <1>5 DEF EnvelopeKind
    <3> QED
      BY <2>1, <3>1, <1>9
  <2>2. CASE ~ (c = a /\ m = n)
    <3>1. is_terminal(turns[c][m].status)
      BY <2>2, <1>1, <1>2 DEF Moves
    <3>2. Existing(parent[c], "completion", <<c, m>>)
      BY <3>1 DEF CompletionsAnnounced
    <3> QED
      BY <3>2, <1>7 DEF Existing
  <2> QED
    BY <2>1, <2>2
<1> QED
  BY <1>3, <1>10, <1>11

LEMMA TurnStep == TurnInv /\ [Next]_vars => TurnInv'
<1> SUFFICES ASSUME TurnInv, [Next]_vars
             PROVE  NoTurnsOutside' /\ OneActiveTurn' /\ CompletionsGrounded' /\ CompletionsAnnounced'
  BY TypeStep DEF TurnInv
<1> DEFINE Kept == NoTurnsOutside' /\ OneActiveTurn' /\ CompletionsGrounded' /\ CompletionsAnnounced'
<1>0. TypeOK /\ mail \in Seq(Message)
  BY DEF TurnInv, TypeOK
<1>1. ASSUME NEW pol \in SpawnPolicies, create_session(pol) PROVE Kept
  <2>1. /\ Root \in Agents /\ Root \notin threads
        /\ threads' = threads \cup {Root}
        /\ turns' = [turns EXCEPT ![Root] = <<NewTurn>>]
        /\ mail' = mail
    BY <1>1, RootAssumption DEF create_session
  <2>2. parent' = [parent EXCEPT ![Root] = parent[Root]]
    BY <1>0, <1>1, <2>1 DEF create_session, TypeOK
  <2> QED
    BY <2>1, <2>2, NewThreadKeeps
<1>2. ASSUME NEW p \in Agents, NEW c \in Agents, NEW name \in TaskNames,
             NEW pol \in SpawnPolicies, spawn_agent(p, c, name, pol)
      PROVE  Kept
  <2>1. /\ c \notin threads
        /\ threads' = threads \cup {c}
        /\ parent' = [parent EXCEPT ![c] = p]
        /\ turns' = [turns EXCEPT ![c] = <<NewTurn>>]
        /\ mail' = mail
    BY <1>2 DEF spawn_agent
  <2> QED
    BY <2>1, NewThreadKeeps
<1>3. ASSUME NEW a \in threads, AddTurn(a) PROVE Kept
  BY <1>3, AddTurnKeeps
<1>4. ASSUME NEW a \in Agents, NEW n \in 1..MaxTurns, transition_turn(a, n) PROVE Kept
  <2>1. mail' = mail
    BY <1>4 DEF transition_turn
  <2>2. Moves(a, n, "running")
    BY <1>0, <1>4, TransitionMoves
  <2> QED
    BY <2>1, <2>2, QuietMoveKeeps
<1>5. ASSUME NEW a \in Agents, NEW n \in 1..MaxTurns, resume_turn(a, n) PROVE Kept
  <2>1. mail' = mail
    BY <1>5 DEF resume_turn
  <2>2. Moves(a, n, "running")
    BY <1>0, <1>5, ResumeMoves
  <2> QED
    BY <2>1, <2>2, QuietMoveKeeps
<1>6. ASSUME NEW a \in Agents, NEW n \in 1..MaxTurns, NEW next \in RecordedStatuses,
             record_turn_state(a, n, next)
      PROVE  Kept
  BY <1>6, RecordKeeps
<1>7. ASSUME NEW from \in Agents, NEW to \in Agents, NEW call \in CallIds,
             enqueue(from, to, call)
      PROVE  Kept
  <2>1. mail' = Enqueued(from, to, "message", call) /\ UNCHANGED <<threads, parent, turns>>
    BY <1>7 DEF enqueue
  <2>2. /\ \A i \in DOMAIN mail : i \in DOMAIN mail' /\ mail'[i] = mail[i]
        /\ \A i \in DOMAIN mail' : i \in DOMAIN mail \/ mail'[i].kind = "message"
    BY <1>0, <2>1, EnqueuedFacts
  <2> QED
    BY <2>1, <2>2, MailOnlyKeeps
<1>8. ASSUME NEW target \in Agents, snapshot(target) PROVE Kept
  <2>1. UNCHANGED <<threads, parent, turns>>
    BY <1>8 DEF snapshot
  <2>2. /\ DOMAIN mail' = DOMAIN mail
        /\ \A i \in DOMAIN mail : /\ mail'[i].to = mail[i].to
                                  /\ mail'[i].kind = mail[i].kind
                                  /\ mail'[i].cause = mail[i].cause
    BY <1>0, <1>8, MarkedFacts DEF snapshot
  <2> QED
    BY <2>1, <2>2, MailOnlyKeeps
<1>9. ASSUME NEW target \in Agents, NEW ids \in SUBSET DOMAIN mail, acknowledge(target, ids)
      PROVE  Kept
  <2>1. UNCHANGED <<threads, parent, turns>>
    BY <1>9 DEF acknowledge
  <2>2. /\ DOMAIN mail' = DOMAIN mail
        /\ \A i \in DOMAIN mail : /\ mail'[i].to = mail[i].to
                                  /\ mail'[i].kind = mail[i].kind
                                  /\ mail'[i].cause = mail[i].cause
    BY <1>0, <1>9, MarkedFacts DEF acknowledge
  <2> QED
    BY <2>1, <2>2, MailOnlyKeeps
<1>10. ASSUME UNCHANGED vars PROVE Kept
  BY <1>10, MailOnlyKeeps DEF vars
<1> QED
  BY <1>1, <1>2, <1>3, <1>4, <1>5, <1>6, <1>7, <1>8, <1>9, <1>10
  DEF Next, create_followup_turn, create_root_followup_turn

LEMMA TurnInit == Init => TurnInv
BY TypeInit DEF Init, TurnInv, NoTurnsOutside, OneActiveTurn, CompletionsGrounded,
               CompletionsAnnounced

(* The strengthened invariant holds throughout.                              *)
THEOREM TurnInvariant == Spec => []TurnInv
BY TurnInit, TurnStep, PTL DEF Spec

(* A thread never has an unfinished Turn behind a newer one.                 *)
THEOREM OneActiveTurnHolds == Spec => []OneActiveTurn
<1>1. TurnInv => OneActiveTurn
  BY DEF TurnInv
<1> QED
  BY <1>1, TurnInvariant, PTL

(* A descendant's Turn is finished exactly when its completion is in the     *)
(* mailbox of its parent.                                                    *)
THEOREM CompletionDurableHolds == Spec => []CompletionDurable
<1>1. TurnInv => CompletionDurable
  <2> SUFFICES ASSUME TurnInv, NEW c \in threads, parent[c] # NoAgent, NEW n \in DOMAIN turns[c],
                      Existing(parent[c], "completion", <<c, n>>)
               PROVE  is_terminal(turns[c][n].status)
    BY DEF CompletionDurable, TurnInv, CompletionsAnnounced
  <2>1. PICK i \in DOMAIN mail : mail[i].kind = "completion" /\ mail[i].cause = <<c, n>>
    BY DEF Existing
  <2>2. \E d \in threads : \E m \in DOMAIN turns[d] :
          mail[i].cause = <<d, m>> /\ is_terminal(turns[d][m].status)
    BY <2>1 DEF TurnInv, CompletionsGrounded
  <2> QED
    BY <2>1, <2>2
<1> QED
  BY <1>1, TurnInvariant, PTL

-----------------------------------------------------------------------------
(* The tree of threads.  AuthorityNarrows speaks of all ancestors, although  *)
(* spawn_agent looks at the parent only.  It is carried down a path by the   *)
(* transitivity of attenuation; for a new thread to have no descendants yet, *)
(* every prefix of a used path must be the path of a thread, and for it to   *)
(* have no children, every parent must be a thread.                          *)

PrefixesUsed ==
  \A a \in threads : \A k \in 0..Len(path[a]) :
    \E b \in threads : path[b] = SubSeq(path[a], 1, k)

ParentsExist ==
  /\ \A a \in threads : parent[a] \in threads \cup {NoAgent}
  /\ \A a \in Agents \ threads : parent[a] = NoAgent /\ path[a] = <<>>

TreeInv ==
  TypeOK /\ IsFiniteSet(threads) /\ PrefixesUsed /\ ParentsExist /\ SpawnsWithinAuthority

(* A policy that narrows a narrower one narrows the wider one too.           *)
LEMMA AttenuationTransitive ==
  ASSUME NEW p \in Policy, NEW q \in Policy, NEW r \in Policy,
         is_attenuation_of(p, q), is_attenuation_of(q, r)
  PROVE  is_attenuation_of(p, r)
BY DEF is_attenuation_of, Policy

(* The prefixes of a path with one more name.                                *)
LEMMA PrefixOfAppend ==
  ASSUME NEW s \in Seq(TaskNames), NEW name \in TaskNames
  PROVE  /\ Append(s, name) \in Seq(TaskNames)
         /\ Len(Append(s, name)) = Len(s) + 1
         /\ SubSeq(Append(s, name), 1, Len(s) + 1) = Append(s, name)
         /\ \A k \in 0..Len(s) : SubSeq(Append(s, name), 1, k) = SubSeq(s, 1, k)
<1>1. Len(s) \in Nat /\ Append(s, name) \in Seq(TaskNames) /\ Len(Append(s, name)) = Len(s) + 1
  OBVIOUS
<1>2. \A i \in 1..Len(s) : Append(s, name)[i] = s[i]
  OBVIOUS
<1>3. SubSeq(Append(s, name), 1, Len(s) + 1) = Append(s, name)
  BY <1>1, SubSeqFull
<1>4. ASSUME NEW k \in 0..Len(s) PROVE SubSeq(Append(s, name), 1, k) = SubSeq(s, 1, k)
  <2>1. /\ SubSeq(s, 1, k) \in Seq(TaskNames) /\ Len(SubSeq(s, 1, k)) = k
        /\ \A i \in 1..k : SubSeq(s, 1, k)[i] = s[i]
    BY <1>1
  <2>2. /\ SubSeq(Append(s, name), 1, k) \in Seq(TaskNames)
        /\ Len(SubSeq(Append(s, name), 1, k)) = k
        /\ \A i \in 1..k : SubSeq(Append(s, name), 1, k)[i] = Append(s, name)[i]
    BY <1>1
  <2>3. \A i \in 1..k : SubSeq(Append(s, name), 1, k)[i] = SubSeq(s, 1, k)[i]
    BY <1>1, <1>2, <2>1, <2>2
  <2> QED
    BY <2>1, <2>2, <2>3, SeqEqual
<1> QED
  BY <1>1, <1>3, <1>4

(* A step that adds no thread leaves the tree alone.                         *)
LEMMA TreeUnchanged ==
  ASSUME TreeInv, TypeOK', UNCHANGED <<threads, parent, path, policy>>
  PROVE  TreeInv'
<1>1. PrefixesUsed' /\ ParentsExist'
  BY DEF TreeInv, PrefixesUsed, ParentsExist
<1>2. AuthorityNarrows'
  BY DEF TreeInv, SpawnsWithinAuthority, AuthorityNarrows, is_descendant_of, depth
<1> QED
  BY <1>1, <1>2 DEF TreeInv, SpawnsWithinAuthority, TreeWithinLimits, Children

(* The session starts with the root alone.                                   *)
LEMMA RootKeepsTree ==
  ASSUME TreeInv, TypeOK', NEW pol \in SpawnPolicies, create_session(pol)
  PROVE  TreeInv'
<1>1. /\ threads = {} /\ threads' = {Root} /\ Root \in Agents
      /\ parent' = parent /\ path' = path
  BY RootAssumption DEF create_session
<1>2. path[Root] = <<>> /\ parent[Root] = NoAgent /\ \A a \in Agents : parent[a] = NoAgent
  BY <1>1 DEF TreeInv, ParentsExist
<1>3. IsFiniteSet({Root}) /\ Cardinality({Root}) = 1
  BY FS_Singleton
<1>4. ParentsExist'
  BY <1>1, <1>2 DEF TreeInv, ParentsExist
<1>5. PrefixesUsed'
  <2>1. \A k \in 0..Len(<<>>) : SubSeq(<<>>, 1, k) = <<>>
    <3>1. \A k \in 0..Len(<<>>) : k = 0
      OBVIOUS
    <3>2. SubSeq(<<>>, 1, 0) = <<>>
      BY SubSeqEmpty
    <3> QED
      BY <3>1, <3>2
  <2> QED
    BY <1>1, <1>2, <2>1 DEF PrefixesUsed
<1>6. AuthorityNarrows'
  <2>1. ~ is_descendant_of(Root, Root)'
    BY <1>1, <1>2 DEF is_descendant_of
  <2> QED
    BY <1>1, <2>1 DEF AuthorityNarrows
<1>7. TreeWithinLimits'
  <2>1. {c \in threads' : parent'[c] = Root} = {}
    BY <1>1, <1>2, RootAssumption
  <2>2. Cardinality({c \in threads' : parent'[c] = Root}) = 0
    BY <2>1, FS_EmptySet
  <2>3. policy'[Root].max_direct_children \in Nat
    BY <1>1 DEF TypeOK, Policy
  <2>4. \A a \in threads' : Cardinality({c \in threads' : parent'[c] = a})
                              <= policy'[a].max_direct_children
    BY <1>1, <2>2, <2>3
  <2> QED
    BY <1>1, <1>3, <2>4, PolicyAssumption DEF TreeWithinLimits, Children
<1> QED
  BY <1>1, <1>3, <1>4, <1>5, <1>6, <1>7 DEF TreeInv, SpawnsWithinAuthority

(* A spawn adds one leaf below its parent.                                   *)
LEMMA SpawnKeepsTree ==
  ASSUME TreeInv, TypeOK', NEW p \in Agents, NEW c \in Agents, NEW name \in TaskNames,
         NEW pol \in SpawnPolicies, spawn_agent(p, c, name, pol)
  PROVE  TreeInv'
<1> DEFINE q == Append(path[p], name)
<1>1. /\ p \in threads /\ c \notin threads /\ p # c /\ threads \subseteq Agents
      /\ threads' = threads \cup {c}
      /\ \A a \in threads : path[a] # q
  BY DEF spawn_agent, TreeInv, TypeOK
<1>2. /\ path \in [Agents -> Seq(TaskNames)] /\ policy \in [Agents -> Policy]
      /\ parent \in [Agents -> Agents \cup {NoAgent}] /\ pol \in Policy
  BY PolicyAssumption DEF TreeInv, TypeOK, Policy
<1>3. /\ \A a \in Agents \ {c} : /\ path'[a] = path[a]
                                 /\ policy'[a] = policy[a]
                                 /\ parent'[a] = parent[a]
      /\ path'[c] = q /\ policy'[c] = pol /\ parent'[c] = p
  BY <1>2 DEF spawn_agent
<1>4. path[p] \in Seq(TaskNames) /\ Len(path[p]) \in Nat
  BY <1>2
<1>5. /\ q \in Seq(TaskNames) /\ Len(q) = Len(path[p]) + 1
      /\ SubSeq(q, 1, Len(path[p]) + 1) = q
      /\ \A k \in 0..Len(path[p]) : SubSeq(q, 1, k) = SubSeq(path[p], 1, k)
  BY <1>4, PrefixOfAppend
<1>6. /\ is_attenuation_of(pol, policy[p])
      /\ Len(path[p]) + 1 <= policy[p].max_depth
      /\ Cardinality(threads) < MaxAgents
      /\ Cardinality(Children(p)) < policy[p].max_direct_children
  BY DEF spawn_agent, depth
<1> HIDE DEF q
<1>7. ParentsExist'
  BY <1>1, <1>3 DEF TreeInv, ParentsExist
<1>8. PrefixesUsed'
  <2> SUFFICES ASSUME NEW a \in threads', NEW k \in 0..Len(path'[a])
               PROVE  \E b \in threads' : path'[b] = SubSeq(path'[a], 1, k)
    BY DEF PrefixesUsed
  <2>1. ASSUME NEW d \in threads, NEW j \in 0..Len(path[d])
        PROVE  \E b \in threads' : path'[b] = SubSeq(path[d], 1, j)
    <3>1. PICK b \in threads : path[b] = SubSeq(path[d], 1, j)
      BY DEF TreeInv, PrefixesUsed
    <3> QED
      BY <1>1, <1>3, <3>1
  <2>2. CASE a # c
    <3>1. a \in threads /\ path'[a] = path[a]
      BY <1>1, <1>3, <2>2
    <3> QED
      BY <2>1, <3>1
  <2>3. CASE a = c /\ k = Len(path[p]) + 1
    BY <1>1, <1>3, <1>5, <2>3
  <2>4. CASE a = c /\ k # Len(path[p]) + 1
    <3>1. k \in 0..Len(path[p]) /\ SubSeq(path'[a], 1, k) = SubSeq(path[p], 1, k)
      BY <1>3, <1>4, <1>5, <2>4
    <3> QED
      BY <1>1, <2>1, <3>1
  <2> QED
    BY <2>2, <2>3, <2>4
<1>9. AuthorityNarrows'
  <2> SUFFICES ASSUME NEW a \in threads', NEW b \in threads',
                      Len(path'[b]) < Len(path'[a]),
                      SubSeq(path'[a], 1, Len(path'[b])) = path'[b]
               PROVE  /\ is_attenuation_of(policy'[a], policy'[b])
                      /\ Len(path'[a]) <= policy'[b].max_depth
    BY DEF AuthorityNarrows, is_descendant_of, depth
  <2>1. CASE a # c /\ b # c
    <3>1. a \in threads /\ b \in threads
      BY <1>1, <2>1
    <3>2. path'[a] = path[a] /\ path'[b] = path[b] /\ policy'[a] = policy[a] /\ policy'[b] = policy[b]
      BY <1>1, <1>3, <2>1
    <3> QED
      BY <3>1, <3>2 DEF TreeInv, SpawnsWithinAuthority, AuthorityNarrows, is_descendant_of, depth
  <2>2. CASE a # c /\ b = c
    <3>1. a \in threads /\ path'[a] = path[a] /\ path'[b] = q
      BY <1>1, <1>3, <2>2
    <3>2. Len(q) \in 0..Len(path[a]) /\ SubSeq(path[a], 1, Len(q)) = q
      <4>1. Len(path[a]) \in Nat
        BY <1>1, <1>2, <3>1
      <4>2. Len(q) \in Nat
        BY <1>4, <1>5
      <4>3. Len(q) < Len(path[a])
        BY <3>1
      <4>4. SubSeq(path[a], 1, Len(q)) = q
        BY <3>1
      <4> QED
        BY <4>1, <4>2, <4>3, <4>4
    <3>3. \E d \in threads : path[d] = q
      BY <3>1, <3>2 DEF TreeInv, PrefixesUsed
    <3> QED
      BY <1>1, <3>3
  <2>3. CASE a = c
    <3>1. b # c
      <4>1. Len(path'[c]) \in Nat
        BY <1>3, <1>4, <1>5
      <4> QED
        BY <2>3, <4>1
    <3>2. b \in threads /\ path'[b] = path[b] /\ policy'[b] = policy[b]
      BY <1>1, <1>3, <3>1
    <3>3. path'[a] = q /\ policy'[a] = pol
      BY <1>3, <2>3
    <3>4. Len(path[b]) \in 0..Len(path[p]) /\ Len(path[b]) \in Nat
      <4>1. Len(path[b]) \in Nat
        BY <1>1, <1>2, <3>2
      <4> QED
        BY <1>4, <1>5, <3>2, <3>3, <4>1
    <3>5. SubSeq(path[p], 1, Len(path[b])) = path[b]
      BY <1>5, <3>2, <3>3, <3>4
    <3>6. policy[b] \in Policy /\ policy[p] \in Policy
      BY <1>1, <1>2, <3>2
    <3>7. CASE Len(path[b]) = Len(path[p])
      <4>1. path[b] = path[p]
        BY <1>4, <3>5, <3>7, SubSeqFull
      <4>2. b = p
        BY <1>1, <3>2, <4>1 DEF TreeInv, SpawnsWithinAuthority, TreeWithinLimits
      <4> QED
        BY <1>5, <1>6, <3>2, <3>3, <4>2
    <3>8. CASE Len(path[b]) # Len(path[p])
      <4>1. Len(path[b]) < Len(path[p])
        BY <1>4, <3>4, <3>8
      <4>2. is_attenuation_of(policy[p], policy[b])
        BY <1>1, <3>2, <3>5, <4>1
        DEF TreeInv, SpawnsWithinAuthority, AuthorityNarrows, is_descendant_of
      <4>3. is_attenuation_of(pol, policy[b])
        BY <1>2, <1>6, <3>6, <4>2, AttenuationTransitive
      <4>4. Len(path[p]) + 1 <= policy[b].max_depth
        BY <1>4, <1>6, <3>6, <4>2 DEF is_attenuation_of, Policy
      <4> QED
        BY <1>5, <3>2, <3>3, <4>3, <4>4
    <3> QED
      BY <3>7, <3>8
  <2> QED
    BY <2>1, <2>2, <2>3
<1>10. IsFiniteSet(threads') /\ Cardinality(threads') <= MaxAgents
  <2>1. IsFiniteSet(threads) /\ Cardinality(threads) \in Nat
    BY FS_CardinalityType DEF TreeInv
  <2>2. IsFiniteSet(threads \cup {c}) /\ Cardinality(threads \cup {c}) = Cardinality(threads) + 1
    BY <1>1, <2>1, FS_AddElement
  <2> QED
    BY <1>1, <1>6, <2>1, <2>2, PolicyAssumption
<1>11. \A a, b \in threads' : path'[a] = path'[b] => a = b
  <2>1. \A a, b \in threads : path[a] = path[b] => a = b
    BY DEF TreeInv, SpawnsWithinAuthority, TreeWithinLimits
  <2>2. \A a \in threads : path'[a] = path[a]
    BY <1>1, <1>3
  <2> QED
    BY <1>1, <1>3, <2>1, <2>2
<1>12. ASSUME NEW a \in threads'
       PROVE  Cardinality({d \in threads' : parent'[d] = a}) <= policy'[a].max_direct_children
  <2> DEFINE old == {d \in threads : parent[d] = a}
             new == {d \in threads' : parent'[d] = a}
  <2>1. \A d \in threads : parent'[d] = parent[d]
    BY <1>1, <1>3
  <2>2. IsFiniteSet(old) /\ Cardinality(old) \in Nat
    <3>1. old \subseteq threads
      OBVIOUS
    <3> HIDE DEF old
    <3> QED
      BY <3>1, FS_Subset, FS_CardinalityType DEF TreeInv
  <2>3. CASE a = p
    <3>1. new = old \cup {c} /\ c \notin old
      BY <1>1, <1>3, <2>1, <2>3
    <3>2. Cardinality(old) < policy[p].max_direct_children
      BY <1>6, <2>3 DEF Children
    <3>3. policy'[a] = policy[p] /\ policy[p].max_direct_children \in Nat
      BY <1>1, <1>2, <1>3, <2>3 DEF Policy
    <3> HIDE DEF old, new
    <3>4. Cardinality(new) = Cardinality(old) + 1
      BY <2>2, <3>1, FS_AddElement
    <3>5. Cardinality(new) <= policy'[a].max_direct_children
      BY <2>2, <3>2, <3>3, <3>4
    <3> QED
      BY <3>5 DEF new
  <2>4. CASE a # p /\ a # c
    <3>1. new = old /\ a \in threads /\ policy'[a] = policy[a]
      BY <1>1, <1>3, <2>1, <2>4
    <3>2. Cardinality(old) <= policy[a].max_direct_children
      BY <3>1 DEF TreeInv, SpawnsWithinAuthority, TreeWithinLimits, Children
    <3> HIDE DEF old, new
    <3>3. Cardinality(new) <= policy'[a].max_direct_children
      BY <3>1, <3>2
    <3> QED
      BY <3>3 DEF new
  <2>5. CASE a = c
    <3>1. \A d \in threads : parent[d] # c
      BY <1>1, RootAssumption DEF TreeInv, ParentsExist
    <3>2. new = {}
      BY <1>1, <1>3, <2>1, <2>5, <3>1
    <3>3. policy'[a] = pol /\ pol.max_direct_children \in Nat
      BY <1>2, <1>3, <2>5 DEF Policy
    <3> HIDE DEF old, new
    <3>4. Cardinality(new) = 0
      BY <3>2, FS_EmptySet
    <3>5. Cardinality(new) <= policy'[a].max_direct_children
      BY <3>3, <3>4
    <3> QED
      BY <3>5 DEF new
  <2> QED
    BY <2>3, <2>4, <2>5
<1>13. TreeWithinLimits'
  BY <1>10, <1>11, <1>12 DEF TreeWithinLimits, Children
<1> QED
  BY <1>7, <1>8, <1>9, <1>10, <1>13 DEF TreeInv, SpawnsWithinAuthority

LEMMA TreeStep ==
  ASSUME TreeInv, TypeOK', [Next]_vars
  PROVE  TreeInv'
<1>1. ASSUME NEW a, AddTurn(a) PROVE TreeInv'
  BY <1>1, TreeUnchanged DEF AddTurn
<1>2. ASSUME NEW a, NEW n, transition_turn(a, n) \/ resume_turn(a, n) PROVE TreeInv'
  BY <1>2, TreeUnchanged DEF transition_turn, resume_turn
<1>3. ASSUME NEW a, NEW n, NEW next, record_turn_state(a, n, next) PROVE TreeInv'
  BY <1>3, TreeUnchanged DEF record_turn_state
<1>4. ASSUME NEW from, NEW to, NEW call, enqueue(from, to, call) PROVE TreeInv'
  BY <1>4, TreeUnchanged DEF enqueue
<1>5. ASSUME NEW target, snapshot(target) PROVE TreeInv'
  BY <1>5, TreeUnchanged DEF snapshot
<1>6. ASSUME NEW target, NEW ids, acknowledge(target, ids) PROVE TreeInv'
  BY <1>6, TreeUnchanged DEF acknowledge
<1>7. CASE UNCHANGED vars
  BY <1>7, TreeUnchanged DEF vars
<1> QED
  BY <1>1, <1>2, <1>3, <1>4, <1>5, <1>6, <1>7, RootKeepsTree, SpawnKeepsTree
  DEF Next, create_followup_turn, create_root_followup_turn

(* However deep the tree of Agents grows, no Agent has more authority than   *)
(* any of its ancestors, no two share a path, and neither the session nor a  *)
(* thread exceeds its limit: spawn_agent's checks against the parent alone   *)
(* are enough.                                                               *)
THEOREM SpawnsWithinAuthorityHolds == Spec => []SpawnsWithinAuthority
<1>1. Init => TreeInv
  <2> SUFFICES ASSUME Init PROVE TreeInv
    OBVIOUS
  <2>1. threads = {} /\ IsFiniteSet({}) /\ Cardinality({}) = 0
    BY FS_EmptySet DEF Init
  <2>2. ParentsExist
    BY DEF Init, ParentsExist
  <2> QED
    BY <2>1, <2>2, TypeInit, PolicyAssumption
    DEF TreeInv, PrefixesUsed, SpawnsWithinAuthority, AuthorityNarrows, TreeWithinLimits
<1>2. TreeInv => SpawnsWithinAuthority
  BY DEF TreeInv
<1> QED
  BY <1>1, <1>2, TreeStep, TypeCorrect, PTL DEF Spec

-----------------------------------------------------------------------------
(* The repository implements TurnHistory: whatever its callers do, an        *)
(* observer of the Turn rows sees only the steps TurnHistory allows.         *)


(* The part of a Turn that TurnHistory shows.                                *)
Shown(t) == [status |-> t.status, invocation_id |-> t.invocation_id]

(* Both modules speak of the same statuses.                                  *)
LEMMA SameStatuses ==
  /\ History!AgentTurnStatus = AgentTurnStatus
  /\ \A s : History!is_terminal(s) <=> is_terminal(s)
  /\ \A s : History!needs_attention(s) <=> needs_attention(s)
  /\ \A s, next : History!can_transition_to(s, next) <=> can_transition_to(s, next)
BY DEF History!AgentTurnStatus, AgentTurnStatus, History!WaitingStatuses, WaitingStatuses,
       History!TerminalStatuses, TerminalStatuses, History!is_terminal, is_terminal,
       History!needs_attention, needs_attention, History!can_transition_to, can_transition_to

LEMMA RowsOf ==
  ASSUME TypeOK, NEW a \in Agents
  PROVE  /\ TurnRows[a] = [n \in DOMAIN turns[a] |-> Shown(turns[a][n])]
         /\ DOMAIN TurnRows[a] = DOMAIN turns[a]
         /\ \A n \in DOMAIN turns[a] :
              /\ TurnRows[a][n] = Shown(turns[a][n])
              /\ TurnRows[a][n].status = turns[a][n].status
              /\ TurnRows[a][n].invocation_id = turns[a][n].invocation_id
BY DEF TurnRows, Shown, TypeOK

(* The step leaves the rows of every other thread alone.                     *)
LEMMA OthersUnchanged ==
  ASSUME NEW S, NEW a \in Agents, TypeOK, turns' = [turns EXCEPT ![a] = S],
         NEW c \in Agents, c # a
  PROVE  History!Unchanged(c)
<1>1. turns'[c] = turns[c]
  BY DEF TypeOK
<1> QED
  BY <1>1 DEF History!Unchanged, TurnRows

(* A new Turn behind finished ones.                                          *)
LEMMA AppendShows ==
  ASSUME TypeOK, NEW a \in Agents,
         \A n \in DOMAIN turns[a] : is_terminal(turns[a][n].status),
         turns' = [turns EXCEPT ![a] = Append(turns[a], NewTurn)]
  PROVE  History!Next
<1>1. turns[a] \in Seq(Turn) /\ Len(turns[a]) \in Nat /\ DOMAIN turns[a] = 1..Len(turns[a])
  BY DEF TypeOK
<1>2. NewTurn \in Turn
  BY DEF NewTurn, Turn, AgentTurnStatus
<1>3. turns'[a] = Append(turns[a], NewTurn)
  BY DEF TypeOK
<1>4. DOMAIN turns'[a] = 1..(Len(turns[a]) + 1)
  BY <1>1, <1>2, <1>3
<1>5. /\ \A n \in DOMAIN turns[a] : turns'[a][n] = turns[a][n]
      /\ turns'[a][Len(turns[a]) + 1] = NewTurn
  BY <1>1, <1>2, <1>3
<1>6. TurnRows'[a] = [n \in 1..(Len(turns[a]) + 1) |-> Shown(turns'[a][n])]
  BY <1>4 DEF TurnRows, Shown
<1>7. Shown(NewTurn) = History!Created
  BY DEF Shown, NewTurn, History!Created
<1> DEFINE R == [status : AgentTurnStatus, invocation_id : Nat]
<1>8. TurnRows[a] \in Seq(R) /\ Len(TurnRows[a]) = Len(turns[a])
  <2>0. \A n \in DOMAIN turns[a] : turns[a][n] \in Turn
    BY <1>1
  <2>1. \A n \in DOMAIN turns[a] : Shown(turns[a][n]) \in R
    BY <2>0 DEF Shown, Turn
  <2>2. TurnRows[a] = [n \in 1..Len(turns[a]) |-> Shown(turns[a][n])]
    BY <1>1, RowsOf
  <2> HIDE DEF R
  <2>3. ASSUME NEW k \in Nat, NEW f, \A n \in 1..k : f[n] \in R, f = [n \in 1..k |-> f[n]]
        PROVE  f \in Seq(R) /\ Len(f) = k
    <3>1. f \in [1..k -> R] /\ DOMAIN f = 1..k
      BY <2>3
    <3> QED
      BY <3>1
  <2>4. \A n \in 1..Len(turns[a]) : TurnRows[a][n] \in R
    BY <1>1, <2>1, <2>2
  <2>5. TurnRows[a] = [n \in 1..Len(turns[a]) |-> TurnRows[a][n]]
    BY <2>2
  <2> QED
    BY <1>1, <2>3, <2>4, <2>5
<1>9. History!Created \in R
  BY DEF History!Created, AgentTurnStatus
<1>10. TurnRows'[a] = Append(TurnRows[a], History!Created)
  <2> DEFINE new == Append(TurnRows[a], History!Created)
  <2>1. /\ new \in Seq(R) /\ Len(new) = Len(turns[a]) + 1
        /\ new[Len(turns[a]) + 1] = History!Created
        /\ \A n \in 1..Len(turns[a]) : new[n] = TurnRows[a][n]
    BY <1>1, <1>8, <1>9
  <2>2. new = [n \in 1..(Len(turns[a]) + 1) |-> new[n]]
    BY <1>1, <2>1
  <2> HIDE DEF new
  <2>3. \A n \in 1..Len(turns[a]) : Shown(turns'[a][n]) = new[n]
    <3>1. \A n \in 1..Len(turns[a]) : TurnRows[a][n] = Shown(turns[a][n])
      BY <1>1, RowsOf
    <3>2. \A n \in 1..Len(turns[a]) : turns'[a][n] = turns[a][n]
      BY <1>1, <1>5
    <3> QED
      BY <2>1, <3>1, <3>2
  <2>4. Shown(turns'[a][Len(turns[a]) + 1]) = new[Len(turns[a]) + 1]
    BY <1>5, <1>7, <2>1
  <2>5. \A n \in 1..(Len(turns[a]) + 1) : n \in 1..Len(turns[a]) \/ n = Len(turns[a]) + 1
    BY <1>1
  <2>6. \A n \in 1..(Len(turns[a]) + 1) : Shown(turns'[a][n]) = new[n]
    BY <2>3, <2>4, <2>5, Zenon
  <2>7. [n \in 1..(Len(turns[a]) + 1) |-> Shown(turns'[a][n])]
          = [n \in 1..(Len(turns[a]) + 1) |-> new[n]]
    BY <2>6, Zenon
  <2>8. TurnRows'[a] = new
    BY <1>6, <2>2, <2>7, Zenon
  <2> QED
    BY <2>8 DEF new
<1>11. History!Added(a)
  <2>1. \A n \in DOMAIN TurnRows[a] : is_terminal(TurnRows[a][n].status)
    BY RowsOf
  <2> QED
    BY <1>10, <2>1, SameStatuses, Zenon DEF History!Added
<1>12. DOMAIN TurnRows' = Agents
  BY DEF TurnRows
<1> QED
  BY <1>11, <1>12, OthersUnchanged DEF History!Next

(* A write of one Turn, along a transition or out of a wait.                 *)
LEMMA WriteShows ==
  ASSUME TypeOK, NEW a \in Agents, NEW n \in DOMAIN turns[a], NEW t \in Turn,
         can_transition_to(turns[a][n].status, t.status),
         \/ t.invocation_id = turns[a][n].invocation_id
         \/ /\ t.invocation_id = turns[a][n].invocation_id + 1
            /\ needs_attention(turns[a][n].status)
            /\ t.status = "running",
         turns' = [turns EXCEPT ![a] = [turns[a] EXCEPT ![n] = t]]
  PROVE  History!Next
<1>1. turns'[a] = [turns[a] EXCEPT ![n] = t]
  BY DEF TypeOK
<1>2. /\ DOMAIN turns'[a] = DOMAIN turns[a]
      /\ \A m \in DOMAIN turns[a] : turns'[a][m] = IF m = n THEN t ELSE turns[a][m]
  BY <1>1
<1>3. TurnRows'[a] = [m \in DOMAIN turns[a] |-> Shown(turns'[a][m])]
  BY <1>2 DEF TurnRows, Shown
<1>4. TurnRows'[a] = [TurnRows[a] EXCEPT ![n] = Shown(t)]
  <2> DEFINE D == DOMAIN turns[a]
             new == [m \in D |-> IF m = n THEN Shown(t) ELSE TurnRows[a][m]]
  <2>1. /\ DOMAIN TurnRows[a] = D
        /\ \A m \in D : TurnRows[a][m] = Shown(turns[a][m])
        /\ TurnRows[a] = [m \in D |-> Shown(turns[a][m])]
    BY RowsOf, Zenon
  <2>2. [TurnRows[a] EXCEPT ![n] = Shown(t)] = new
    BY <2>1
  <2>3. \A m \in D : Shown(turns'[a][m]) = IF m = n THEN Shown(t) ELSE TurnRows[a][m]
    BY <1>2, <2>1
  <2>4. [m \in D |-> Shown(turns'[a][m])] = new
    BY <2>3, Zenon
  <2> QED
    BY <1>3, <2>2, <2>4, Zenon
<1>5. t.status \in AgentTurnStatus
  BY DEF Turn
<1>6. History!Moved(a)
  <2>1. /\ n \in DOMAIN TurnRows[a]
        /\ TurnRows[a][n].status = turns[a][n].status
        /\ TurnRows[a][n].invocation_id = turns[a][n].invocation_id
    BY RowsOf
  <2> DEFINE inv == t.invocation_id
  <2>2. /\ can_transition_to(TurnRows[a][n].status, t.status)
        /\ inv \in {TurnRows[a][n].invocation_id, TurnRows[a][n].invocation_id + 1}
        /\ inv # TurnRows[a][n].invocation_id =>
             needs_attention(TurnRows[a][n].status) /\ t.status = "running"
    BY <2>1
  <2>3. TurnRows'[a] = [TurnRows[a] EXCEPT ![n] = [status |-> t.status, invocation_id |-> inv]]
    BY <1>4 DEF Shown
  <2> HIDE DEF inv
  <2>4. /\ t.status \in History!AgentTurnStatus
        /\ History!can_transition_to(TurnRows[a][n].status, t.status)
        /\ inv # TurnRows[a][n].invocation_id =>
             History!needs_attention(TurnRows[a][n].status) /\ t.status = "running"
    BY <1>5, <2>2, SameStatuses
  <2> SUFFICES \E m \in DOMAIN TurnRows[a], next \in History!AgentTurnStatus :
                 /\ History!can_transition_to(TurnRows[a][m].status, next)
                 /\ \E i \in {TurnRows[a][m].invocation_id, TurnRows[a][m].invocation_id + 1} :
                      /\ i # TurnRows[a][m].invocation_id =>
                           History!needs_attention(TurnRows[a][m].status) /\ next = "running"
                      /\ TurnRows'[a] =
                           [TurnRows[a] EXCEPT ![m] = [status |-> next, invocation_id |-> i]]
    BY DEF History!Moved
  <2> USE <2>1, <2>4
  <2> WITNESS n \in DOMAIN TurnRows[a], t.status \in History!AgentTurnStatus
  <2> QED
    BY <2>2, <2>3, <2>4
<1>7. DOMAIN TurnRows' = Agents
  BY DEF TurnRows
<1> QED
  BY <1>6, <1>7, OthersUnchanged DEF History!Next

(* A write that changes only what TurnHistory does not show.                 *)
LEMMA WriteHidden ==
  ASSUME TypeOK, NEW a \in Agents, NEW n \in DOMAIN turns[a], NEW t,
         t.status = turns[a][n].status, t.invocation_id = turns[a][n].invocation_id,
         turns' = [turns EXCEPT ![a] = [turns[a] EXCEPT ![n] = t]]
  PROVE  TurnRows' = TurnRows
<1>1. \A c \in Agents : DOMAIN turns'[c] = DOMAIN turns[c]
  BY DEF TypeOK
<1>2. \A c \in Agents : \A m \in DOMAIN turns[c] :
        turns'[c][m] = IF c = a /\ m = n THEN t ELSE turns[c][m]
  BY DEF TypeOK
<1> QED
  BY <1>1, <1>2 DEF TurnRows

LEMMA RefinementStep ==
  ASSUME TurnInv, [Next]_vars
  PROVE  [History!Next]_TurnRows
<1> USE DEF TurnInv
<1>0. threads \subseteq Agents /\ \A c \in Agents : turns[c] \in Seq(Turn)
  BY DEF TypeOK
<1>1. ASSUME NEW c \in Agents, c \notin threads, turns' = [turns EXCEPT ![c] = <<NewTurn>>]
      PROVE  History!Next
  <2>1. turns[c] = <<>>
    BY <1>1 DEF NoTurnsOutside
  <2>2. <<NewTurn>> = Append(turns[c], NewTurn) /\ DOMAIN turns[c] = {}
    BY <2>1
  <2> QED
    BY <1>1, <2>2, AppendShows
<1>2. ASSUME NEW a \in threads, AddTurn(a) PROVE History!Next
  <2>1. \A n \in DOMAIN turns[a] : is_terminal(turns[a][n].status)
    <3>1. DOMAIN turns[a] = 1..Len(turns[a]) /\ Len(turns[a]) \in Nat
      BY <1>0
    <3> QED
      BY <1>2, <3>1 DEF OneActiveTurn, AddTurn, latest_turn
  <2>2. turns' = [turns EXCEPT ![a] = Append(turns[a], NewTurn)]
    BY <1>2 DEF AddTurn
  <2> QED
    BY <1>0, <2>1, <2>2, AppendShows
<1>3. ASSUME NEW a \in Agents, NEW n, transition_turn(a, n)
      PROVE  [History!Next]_TurnRows
  <2> DEFINE t == [turns[a][n] EXCEPT !.status = "running"]
  <2>1. /\ n \in DOMAIN turns[a]
        /\ turns' = [turns EXCEPT ![a] = [turns[a] EXCEPT ![n] = t]]
        /\ transition_ok(turns[a][n].status, "running")
    BY <1>3 DEF transition_turn
  <2>2. turns[a][n] \in Turn
    BY <1>0, <2>1
  <2>3. t \in Turn /\ t.status = "running" /\ t.invocation_id = turns[a][n].invocation_id
    BY <2>2 DEF Turn, AgentTurnStatus
  <2> HIDE DEF t
  <2>4. CASE turns[a][n].status = "running"
    BY <2>1, <2>3, <2>4, WriteHidden
  <2>5. CASE can_transition_to(turns[a][n].status, "running")
    BY <2>1, <2>3, <2>5, WriteShows
  <2> QED
    BY <2>1, <2>4, <2>5 DEF transition_ok
<1>4. ASSUME NEW a \in Agents, NEW n, resume_turn(a, n) PROVE History!Next
  <2> DEFINE t == [turns[a][n] EXCEPT !.status = "running",
                                      !.invocation_id = turns[a][n].invocation_id + 1]
  <2>1. /\ n \in DOMAIN turns[a]
        /\ turns' = [turns EXCEPT ![a] = [turns[a] EXCEPT ![n] = t]]
        /\ needs_attention(turns[a][n].status)
    BY <1>4 DEF resume_turn
  <2>2. turns[a][n] \in Turn
    BY <1>0, <2>1
  <2>3. t \in Turn
    BY <2>2, TurnFields DEF AgentTurnStatus
  <2>4. t.status = "running" /\ t.invocation_id = turns[a][n].invocation_id + 1
    BY <2>2 DEF Turn
  <2>5. can_transition_to(turns[a][n].status, "running")
    BY <2>1 DEF needs_attention, can_transition_to
  <2> HIDE DEF t
  <2> QED
    BY <2>1, <2>3, <2>4, <2>5, WriteShows
<1>5. ASSUME NEW a \in Agents, NEW n, NEW next \in RecordedStatuses,
             record_turn_state(a, n, next)
      PROVE  [History!Next]_TurnRows
  <2> DEFINE t == [turns[a][n] EXCEPT !.status = next, !.outcome = TRUE]
  <2>1. /\ n \in DOMAIN turns[a]
        /\ turns' = [turns EXCEPT ![a] = [turns[a] EXCEPT ![n] = t]]
        /\ transition_ok(turns[a][n].status, next)
    BY <1>5 DEF record_turn_state
  <2>2. turns[a][n] \in Turn /\ next \in AgentTurnStatus
    BY <1>0, <2>1, BoundAssumption DEF AgentTurnStatus
  <2>3. t \in Turn
    BY <2>2, TurnFields
  <2>4. t.status = next /\ t.invocation_id = turns[a][n].invocation_id
    BY <2>2 DEF Turn
  <2> HIDE DEF t
  <2>5. CASE turns[a][n].status = next
    BY <2>1, <2>4, <2>5, WriteHidden
  <2>6. CASE can_transition_to(turns[a][n].status, next)
    BY <2>1, <2>3, <2>4, <2>6, WriteShows
  <2> QED
    BY <2>1, <2>5, <2>6 DEF transition_ok
<1>6. ASSUME turns' = turns PROVE TurnRows' = TurnRows
  BY <1>6 DEF TurnRows
<1>7. ASSUME NEW pol, create_session(pol) PROVE History!Next
  BY <1>1, <1>7, RootAssumption DEF create_session
<1>8. ASSUME NEW p, NEW c \in Agents, NEW name, NEW pol, spawn_agent(p, c, name, pol)
      PROVE  History!Next
  BY <1>1, <1>8 DEF spawn_agent
<1>9. ASSUME NEW from, NEW to, NEW call, enqueue(from, to, call) PROVE turns' = turns
  BY <1>9 DEF enqueue
<1>10. ASSUME NEW target, NEW ids, snapshot(target) \/ acknowledge(target, ids)
       PROVE  turns' = turns
  BY <1>10 DEF snapshot, acknowledge
<1>11. ASSUME UNCHANGED vars PROVE turns' = turns
  BY <1>11 DEF vars
<1> QED
  BY <1>2, <1>3, <1>4, <1>5, <1>6, <1>7, <1>8, <1>9, <1>10, <1>11
  DEF Next, create_followup_turn, create_root_followup_turn

(* The repository implements TurnHistory: no Turn is dropped or reopened,    *)
(* none is added behind an unfinished one, and an invocation number rises    *)
(* only on the way out of a wait.                                            *)
THEOREM RepositoryImplementsTurnHistory == Spec => ImplementsTurnHistory
<1>1. Init => History!Init
  BY DEF Init, History!Init, TurnRows
<1> QED
  BY <1>1, RefinementStep, TurnInvariant, PTL DEF Spec, ImplementsTurnHistory, History!Spec

-----------------------------------------------------------------------------
(* The mailbox: messages are written once, delivered in order, and never     *)
(* rewritten.                                                                *)

(* The three things a step may do to the mailbox besides leaving it alone.   *)
Asks == \E from, to, kind, cause : mail' = Enqueued(from, to, kind, cause)

MarkedAs(S, st) ==
  mail' = [i \in DOMAIN mail |->
             IF i \in S THEN [mail[i] EXCEPT !.state = st] ELSE mail[i]]

Delivers == \E target : MarkedAs(SnapshotBatch(target), "delivered")

Acknowledges == \E ids : MarkedAs(ids, "acknowledged")

(* No operation of the repository touches the mailbox in another way.        *)
LEMMA MailSteps ==
  ASSUME [Next]_vars
  PROVE  mail' = mail \/ Asks \/ Delivers \/ Acknowledges
<1>1. ASSUME NEW pol, create_session(pol) PROVE mail' = mail
  BY <1>1 DEF create_session
<1>2. ASSUME NEW p, NEW c, NEW name, NEW pol, spawn_agent(p, c, name, pol) PROVE mail' = mail
  BY <1>2 DEF spawn_agent
<1>3. ASSUME NEW a, AddTurn(a) PROVE mail' = mail
  BY <1>3 DEF AddTurn
<1>4. ASSUME NEW a, NEW n, transition_turn(a, n) \/ resume_turn(a, n) PROVE mail' = mail
  BY <1>4 DEF transition_turn, resume_turn
<1>5. ASSUME NEW a, NEW n, NEW next, record_turn_state(a, n, next) PROVE mail' = mail \/ Asks
  <2>1. \/ mail' = mail
        \/ mail' = Enqueued(a, parent[a], EnvelopeKind(next), <<a, n>>)
    BY <1>5 DEF record_turn_state
  <2> QED
    BY <2>1 DEF Asks
<1>6. ASSUME NEW from, NEW to, NEW call, enqueue(from, to, call) PROVE Asks
  BY <1>6 DEF enqueue, Asks
<1>7. ASSUME NEW target, snapshot(target) PROVE Delivers
  BY <1>7 DEF snapshot, Delivers, MarkedAs
<1>8. ASSUME NEW target, NEW ids, acknowledge(target, ids) PROVE Acknowledges
  BY <1>8 DEF acknowledge, Acknowledges, MarkedAs
<1>9. CASE UNCHANGED vars
  BY <1>9 DEF vars
<1> QED
  BY <1>1, <1>2, <1>3, <1>4, <1>5, <1>6, <1>7, <1>8, <1>9
  DEF Next, create_followup_turn, create_root_followup_turn

-----------------------------------------------------------------------------
(* One message per target, kind and cause                                    *)

LEMMA NoDuplicateStep ==
  ASSUME TypeOK, NoDuplicateMessage, [Next]_vars
  PROVE  NoDuplicateMessage'
<1>0. mail \in Seq(Message)
  BY DEF TypeOK
<1>1. CASE mail' = mail
  BY <1>1 DEF NoDuplicateMessage
<1>2. CASE Asks
  <2> PICK from, to, kind, cause : mail' = Enqueued(from, to, kind, cause)
    BY <1>2 DEF Asks
  <2>1. /\ \A i \in DOMAIN mail : i \in DOMAIN mail' /\ mail'[i] = mail[i]
        /\ \A i \in DOMAIN mail' :
             \/ i \in DOMAIN mail
             \/ /\ mail'[i].to = to
                /\ mail'[i].kind = kind
                /\ mail'[i].cause = cause
                /\ mail'[i].state = "pending"
                /\ ~ Existing(to, kind, cause)
                /\ i = Len(mail) + 1
    BY <1>0, EnqueuedFacts
  <2> QED
    BY <2>1 DEF NoDuplicateMessage, Existing
<1>3. ASSUME NEW S, NEW st, MarkedAs(S, st) PROVE NoDuplicateMessage'
  BY <1>0, <1>3, MarkedFacts DEF NoDuplicateMessage, MarkedAs
<1> QED
  BY <1>1, <1>2, <1>3, MailSteps DEF Delivers, Acknowledges

(* However often a tool call or a state report is repeated, the mailbox      *)
(* holds one message per target, kind and cause.                             *)
THEOREM NoDuplicateMessageHolds == Spec => []NoDuplicateMessage
<1>1. Init => NoDuplicateMessage
  BY DEF Init, NoDuplicateMessage
<1> QED
  BY <1>1, NoDuplicateStep, TypeCorrect, PTL DEF Spec

-----------------------------------------------------------------------------
(* Bounded reads keep the order                                              *)

(* What is older than a message of the batch and not acknowledged is in the  *)
(* batch: fewer messages precede it.                                         *)
LEMMA BatchIsPrefix ==
  ASSUME mail \in Seq(Message), NEW target, NEW j \in SnapshotBatch(target),
         NEW i \in Unacknowledged(target), i < j
  PROVE  i \in SnapshotBatch(target)
<1> DEFINE Upto(k) == {m \in Unacknowledged(target) : m <= k}
<1>1. DOMAIN mail = 1..Len(mail) /\ Len(mail) \in Nat
  OBVIOUS
<1>2. j \in Unacknowledged(target) /\ Cardinality(Upto(j)) <= MailLimit
  BY DEF SnapshotBatch
<1>3. i \in Nat /\ j \in Nat /\ Unacknowledged(target) \subseteq 1..Len(mail)
  BY <1>1, <1>2 DEF Unacknowledged
<1>4. IsFiniteSet(Upto(j)) /\ Upto(j) \subseteq 1..Len(mail)
  <2>1. IsFiniteSet(1..Len(mail))
    BY <1>1, FS_Interval
  <2>2. Upto(j) \subseteq 1..Len(mail)
    BY <1>3
  <2> QED
    BY <2>1, <2>2, FS_Subset, Zenon
<1>5. Upto(i) \subseteq Upto(j)
  BY <1>3
<1>6. Cardinality(Upto(i)) <= Cardinality(Upto(j)) /\ IsFiniteSet(Upto(i))
  BY <1>4, <1>5, FS_Subset
<1>7. Cardinality(Upto(i)) \in Nat /\ Cardinality(Upto(j)) \in Nat
  BY <1>4, <1>6, FS_CardinalityType
<1>8. Cardinality(Upto(i)) <= MailLimit
  <2> HIDE DEF Upto
  <2> QED
    BY <1>2, <1>6, <1>7, BoundAssumption
<1> QED
  BY <1>8 DEF SnapshotBatch

LEMMA DeliveredInOrderStep ==
  ASSUME TypeOK, DeliveredInOrder, [Next]_vars
  PROVE  DeliveredInOrder'
<1>0. mail \in Seq(Message) /\ DOMAIN mail = 1..Len(mail) /\ Len(mail) \in Nat
  BY DEF TypeOK
<1>1. CASE mail' = mail
  BY <1>1 DEF DeliveredInOrder
<1>2. CASE Asks
  <2> PICK from, to, kind, cause : mail' = Enqueued(from, to, kind, cause)
    BY <1>2 DEF Asks
  <2>1. /\ \A i \in DOMAIN mail : i \in DOMAIN mail' /\ mail'[i] = mail[i]
        /\ \A i \in DOMAIN mail' :
             \/ i \in DOMAIN mail
             \/ mail'[i].state = "pending" /\ i = Len(mail) + 1
    BY <1>0, EnqueuedFacts
  <2> QED
    BY <1>0, <2>1 DEF DeliveredInOrder
<1>3. CASE Delivers
  <2> PICK target : MarkedAs(SnapshotBatch(target), "delivered")
    BY <1>3 DEF Delivers
  <2> DEFINE B == SnapshotBatch(target)
  <2>1. /\ DOMAIN mail' = DOMAIN mail
        /\ \A i \in DOMAIN mail :
             /\ mail'[i].to = mail[i].to
             /\ mail'[i].state = IF i \in B THEN "delivered" ELSE mail[i].state
    BY <1>0, MarkedFacts DEF MarkedAs
  <2> SUFFICES ASSUME NEW i \in DOMAIN mail, NEW j \in DOMAIN mail, i < j,
                      mail[i].to = mail[j].to, mail'[j].state = "delivered",
                      mail'[i].state = "pending"
               PROVE  FALSE
    BY <2>1 DEF DeliveredInOrder
  <2>2. i \notin B /\ mail[i].state = "pending"
    BY <2>1
  <2>3. CASE j \in B
    <3>1. mail[j].to = target
      BY <2>3 DEF SnapshotBatch, Unacknowledged
    <3>2. i \in Unacknowledged(target)
      BY <2>2, <3>1 DEF Unacknowledged
    <3> QED
      BY <1>0, <2>2, <2>3, <3>2, BatchIsPrefix
  <2>4. CASE j \notin B
    BY <2>1, <2>2, <2>4 DEF DeliveredInOrder
  <2> QED
    BY <2>3, <2>4
<1>4. CASE Acknowledges
  <2> PICK ids : MarkedAs(ids, "acknowledged")
    BY <1>4 DEF Acknowledges
  <2>1. /\ DOMAIN mail' = DOMAIN mail
        /\ \A i \in DOMAIN mail :
             /\ mail'[i].to = mail[i].to
             /\ mail'[i].state = IF i \in ids THEN "acknowledged" ELSE mail[i].state
    BY <1>0, MarkedFacts DEF MarkedAs
  <2> QED
    BY <2>1 DEF DeliveredInOrder
<1> QED
  BY <1>1, <1>2, <1>3, <1>4, MailSteps

(* A bounded read never delivers a message while an older one for the same   *)
(* Agent is still pending.                                                   *)
THEOREM DeliveredInOrderHolds == Spec => []DeliveredInOrder
<1>1. Init => DeliveredInOrder
  BY DEF Init, DeliveredInOrder
<1> QED
  BY <1>1, DeliveredInOrderStep, TypeCorrect, PTL DEF Spec

-----------------------------------------------------------------------------
(* Nothing is rewritten                                                      *)

LEMMA MailStableStep ==
  ASSUME TypeOK, TypeOK', [Next]_vars
  PROVE  [MailHistoryStable]_vars
<1>0. mail \in Seq(Message) /\ mail' \in Seq(Message)
  BY DEF TypeOK
<1>1. CASE mail' = mail
  BY <1>0, <1>1 DEF MailHistoryStable
<1>2. CASE Asks
  <2> PICK from, to, kind, cause : mail' = Enqueued(from, to, kind, cause)
    BY <1>2 DEF Asks
  <2>1. \A i \in DOMAIN mail : i \in DOMAIN mail' /\ mail'[i] = mail[i]
    BY <1>0, EnqueuedFacts
  <2>2. Len(mail) <= Len(mail')
    BY <1>0, <2>1
  <2> QED
    BY <2>1, <2>2 DEF MailHistoryStable
<1>3. CASE Delivers
  <2> PICK target : MarkedAs(SnapshotBatch(target), "delivered")
    BY <1>3 DEF Delivers
  <2>1. /\ DOMAIN mail' = DOMAIN mail
        /\ \A i \in DOMAIN mail :
             /\ mail'[i].to = mail[i].to
             /\ mail'[i].cause = mail[i].cause
             /\ mail'[i].state =
                  IF i \in SnapshotBatch(target) THEN "delivered" ELSE mail[i].state
    BY <1>0, MarkedFacts DEF MarkedAs
  <2>2. \A i \in SnapshotBatch(target) : mail[i].state # "acknowledged"
    BY DEF SnapshotBatch, Unacknowledged
  <2>3. Len(mail) = Len(mail')
    BY <1>0, <2>1
  <2> QED
    BY <1>0, <2>1, <2>2, <2>3 DEF MailHistoryStable
<1>4. CASE Acknowledges
  <2> PICK ids : MarkedAs(ids, "acknowledged")
    BY <1>4 DEF Acknowledges
  <2>1. /\ DOMAIN mail' = DOMAIN mail
        /\ \A i \in DOMAIN mail :
             /\ mail'[i].to = mail[i].to
             /\ mail'[i].cause = mail[i].cause
             /\ mail'[i].state = IF i \in ids THEN "acknowledged" ELSE mail[i].state
    BY <1>0, MarkedFacts DEF MarkedAs
  <2>2. Len(mail) = Len(mail')
    BY <1>0, <2>1
  <2> QED
    BY <1>0, <2>1, <2>2 DEF MailHistoryStable
<1> QED
  BY <1>1, <1>2, <1>3, <1>4, MailSteps

(* No step rewrites a message or takes an acknowledgement back.              *)
THEOREM MailNeverRewrittenHolds == Spec => MailNeverRewritten
BY MailStableStep, TypeCorrect, PTL DEF Spec, MailNeverRewritten

=============================================================================
