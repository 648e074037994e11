--------------------------- MODULE AgentTurnProofs ---------------------------
(* Theorems about what a Turn does: AgentTurnLoop, for every set of calls    *)
(* and tools, every number of rounds, of parallel calls and of crashes; and  *)
(* TurnChanges, for every set of tool calls, undo requests and files, every  *)
(* content of them and every number of batches, edits and failed writes.     *)
EXTENDS AgentTurnLoop, TurnChanges, FiniteSetTheorems, SequenceTheorems, WellFoundedInduction, TLAPS

-----------------------------------------------------------------------------
(* The inductive invariant, part by part                                     *)

(* Where the loop is, and how often it has been round.                       *)
PositionPart ==
  /\ pc \in Running \cup {"waiting", "ended"}
  /\ outcome \in {"none", "completed", "stopped", "cancelled", "failed", "interrupted"}
  /\ outcome # "none" <=> pc = "ended"
  /\ wait \in {"none", "approval", "input", "action"}
  /\ wait # "none" <=> pc = "waiting"
  /\ rounds \in 0..MAX_ROLLOUT_MODEL_ROUNDS
  /\ guards \in 0..MAX_FINALIZATION_GUARD_ACTIVATIONS
  /\ pc = "sampling" => rounds < MAX_ROLLOUT_MODEL_ROUNDS
  /\ crashes \in 0..MaxCrashes

(* What the inbox holds and the ledger notes has been sent.                  *)
MailPart ==
  /\ inbox \in Seq(Messages \cup Steers \cup {"cancel"})
  /\ ToSet(inbox) \subseteq sent \cup {"cancel"}
  /\ sent \subseteq Messages \cup Steers
  /\ noted \subseteq sent
  /\ shown \subseteq Messages \cup Steers
  /\ acked \subseteq sent \cap Messages
  /\ AcknowledgedWasShown

(* A running task is running in the journal, and the journal remembers every *)
(* effect that must not be repeated.                                         *)
EffectPart ==
  /\ task \in [Calls -> TaskStatus]
  /\ journal \in [Calls -> EffectStatus]
  /\ effects \in Seq(Calls)
  /\ granted \subseteq Calls
  /\ \A c \in Calls : task[c] = "running" => journal[c] = "running"
  /\ \A i \in DOMAIN effects :
       ~Tool[effects[i]].idempotent => journal[effects[i]] \in {"succeeded", "indeterminate"}
  /\ EffectOnce
  /\ NoUnapprovedEffect

Asking == {"round", "sampling", "parse", "final"}

(* The rows of the ledger have their types.                                  *)
LedgerTypes ==
  /\ response \in Seq(Calls) /\ calls \in Seq(Calls) /\ results \in Seq(Calls)
  /\ pending \in Seq(Calls) /\ asked \in Seq(Calls)
  /\ stored \subseteq ToSet(pending)
  /\ approved \in 0..Len(pending)

(* When calls are pending, and which of them are waited for or granted.      *)
PendingPart ==
  /\ pc \in Asking => pending = <<>>
  /\ pc = "call" => pending # <<>> /\ pending[1] \notin stored
  /\ wait \in {"approval", "action"} => pending # <<>>
  /\ pc = "waiting" => stored = {}
  /\ asked # <<>> /\ pc # "ended" => wait = "approval" /\ IsPrefix(asked, pending)
  /\ \A i \in 1..approved : pending[i] \in granted

(* The calls of the answer that is arriving are new.                         *)
ResponsePart ==
  /\ pc \notin {"sampling", "parse", "ended"} => response = <<>>
  /\ IsInjective(response) /\ IsInjective(calls)
  /\ ToSet(response) \cap ToSet(calls) = {}

(* Only calls the Turn knows have been touched, and those of an answer that  *)
(* is parsed have settled.                                                   *)
TaskPart ==
  /\ pc # "ended" => \A c \in Calls : c \in ToSet(calls) \cup ToSet(response) \/ task[c] = "idle"
  /\ pc = "sampling" /\ ~streams => \A c \in ToSet(response) : task[c] = "idle"
  /\ pc = "parse" => \A c \in ToSet(response) : ~Busy(c)

(* Every call of the ledger has a result or is pending, and never both; while *)
(* an answer is parsed its streamed results are there before its calls.       *)
StreamedNow == IF pc = "parse" THEN {c \in ToSet(response) : Streamed(c)} ELSE {}

AccountPart ==
  pc # "ended" =>
    /\ IsInjective(results) /\ IsInjective(pending)
    /\ ToSet(results) \cap ToSet(pending) = {}
    /\ ToSet(results) \cup ToSet(pending) = ToSet(calls) \cup StreamedNow

FlagsPart == streams \in BOOLEAN /\ retried \in BOOLEAN /\ cancelled \in BOOLEAN

LoopInv ==
  /\ PositionPart /\ FlagsPart /\ MailPart /\ EffectPart
  /\ LedgerTypes /\ PendingPart /\ ResponsePart /\ TaskPart /\ AccountPart

-----------------------------------------------------------------------------
(* Sequences of calls                                                        *)

LEMMA EmptyFacts == ToSet(<<>>) = {} /\ IsInjective(<<>>)
BY DEF ToSet, IsInjective


LEMMA ToSetFacts ==
  ASSUME NEW S, NEW s \in Seq(S)
  PROVE  /\ DOMAIN s = 1..Len(s) /\ Len(s) \in Nat
         /\ ToSet(s) \subseteq S
         /\ \A i \in 1..Len(s) : s[i] \in ToSet(s) /\ s[i] \in S
         /\ \A c \in ToSet(s) : \E i \in 1..Len(s) : s[i] = c
         /\ s # <<>> <=> Len(s) > 0
BY DEF ToSet

LEMMA AppendFacts ==
  ASSUME NEW S, NEW s \in Seq(S), NEW c \in S
  PROVE  /\ Append(s, c) \in Seq(S)
         /\ ToSet(Append(s, c)) = ToSet(s) \cup {c}
         /\ IsInjective(s) /\ c \notin ToSet(s) => IsInjective(Append(s, c))
<1> DEFINE t == Append(s, c)
<1>1. /\ t \in Seq(S) /\ Len(t) = Len(s) + 1 /\ Len(s) \in Nat
      /\ DOMAIN s = 1..Len(s) /\ DOMAIN t = 1..(Len(s) + 1)
  OBVIOUS
<1>2. (\A i \in 1..Len(s) : t[i] = s[i]) /\ t[Len(s) + 1] = c
  OBVIOUS
<1> HIDE DEF t
<1>3. ToSet(t) \subseteq ToSet(s) \cup {c}
  BY <1>1, <1>2 DEF ToSet
<1>4. ToSet(s) \subseteq ToSet(t)
  BY <1>1, <1>2 DEF ToSet
<1>5. c \in ToSet(t)
  BY <1>1, <1>2 DEF ToSet
<1>6. IsInjective(s) /\ c \notin ToSet(s) => IsInjective(t)
  BY <1>1, <1>2 DEF ToSet, IsInjective
<1>7. ToSet(t) = ToSet(s) \cup {c}
  BY <1>3, <1>4, <1>5
<1> QED
  BY <1>1, <1>6, <1>7 DEF t

LEMMA ConcatFacts ==
  ASSUME NEW S, NEW s \in Seq(S), NEW t \in Seq(S)
  PROVE  /\ s \o t \in Seq(S)
         /\ ToSet(s \o t) = ToSet(s) \cup ToSet(t)
         /\ IsInjective(s) /\ IsInjective(t) /\ ToSet(s) \cap ToSet(t) = {}
              => IsInjective(s \o t)
<1> DEFINE u == s \o t
<1>1. /\ u \in Seq(S) /\ Len(u) = Len(s) + Len(t) /\ Len(s) \in Nat /\ Len(t) \in Nat
      /\ DOMAIN s = 1..Len(s) /\ DOMAIN t = 1..Len(t) /\ DOMAIN u = 1..(Len(s) + Len(t))
  OBVIOUS
<1>2. /\ \A i \in 1..Len(s) : u[i] = s[i]
      /\ \A i \in 1..Len(t) : u[Len(s) + i] = t[i]
      /\ \A i \in 1..(Len(s) + Len(t)) : i \notin 1..Len(s) => u[i] = t[i - Len(s)]
  OBVIOUS
<1> HIDE DEF u
<1>3. \A i \in 1..(Len(s) + Len(t)) : i \notin 1..Len(s) => i - Len(s) \in 1..Len(t)
  BY <1>1
<1>4. ToSet(u) \subseteq ToSet(s) \cup ToSet(t)
  BY <1>1, <1>2, <1>3 DEF ToSet
<1>5. ToSet(s) \subseteq ToSet(u)
  BY <1>1, <1>2 DEF ToSet
<1>6. ToSet(t) \subseteq ToSet(u)
  <2> SUFFICES ASSUME NEW i \in 1..Len(t) PROVE t[i] \in ToSet(u)
    BY <1>1 DEF ToSet
  <2>1. Len(s) + i \in DOMAIN u /\ u[Len(s) + i] = t[i]
    BY <1>1, <1>2
  <2> QED
    BY <2>1 DEF ToSet
<1>7. ASSUME IsInjective(s), IsInjective(t), ToSet(s) \cap ToSet(t) = {} PROVE IsInjective(u)
  <2> SUFFICES ASSUME NEW i \in 1..(Len(s) + Len(t)), NEW j \in 1..(Len(s) + Len(t)), u[i] = u[j]
               PROVE  i = j
    BY <1>1 DEF IsInjective
  <2>1. \A k \in 1..Len(s) : u[k] \in ToSet(s)
    BY <1>1, <1>2 DEF ToSet
  <2>2. \A k \in 1..(Len(s) + Len(t)) : k \notin 1..Len(s) => u[k] \in ToSet(t)
    BY <1>1, <1>2, <1>3 DEF ToSet
  <2>3. (i \in 1..Len(s)) <=> (j \in 1..Len(s))
    BY <1>7, <2>1, <2>2
  <2>4. CASE i \in 1..Len(s)
    BY <1>1, <1>2, <1>7, <2>3, <2>4 DEF IsInjective
  <2>5. CASE i \notin 1..Len(s)
    <3>1. t[i - Len(s)] = t[j - Len(s)] /\ i - Len(s) \in 1..Len(t) /\ j - Len(s) \in 1..Len(t)
      BY <1>2, <1>3, <2>3, <2>5
    <3>2. i - Len(s) = j - Len(s)
      BY <1>1, <1>7, <3>1 DEF IsInjective
    <3> QED
      BY <1>1, <3>2
  <2> QED
    BY <2>4, <2>5
<1>8. ToSet(u) = ToSet(s) \cup ToSet(t)
  BY <1>4, <1>5, <1>6
<1> QED
  BY <1>1, <1>7, <1>8 DEF u

LEMMA LengthOfRest ==
  ASSUME NEW n \in Nat, NEW m \in Nat, n <= m
  PROVE  (IF n + 1 <= m THEN m - (n + 1) + 1 ELSE 0) = m - n
OBVIOUS

(* A sequence is its first n elements and the rest.                          *)
LEMMA SplitFacts ==
  ASSUME NEW S, NEW s \in Seq(S), NEW n \in 0..Len(s)
  PROVE  /\ SubSeq(s, 1, n) \in Seq(S) /\ SubSeq(s, n + 1, Len(s)) \in Seq(S)
         /\ Len(SubSeq(s, 1, n)) = n /\ Len(SubSeq(s, n + 1, Len(s))) = Len(s) - n
         /\ \A i \in 1..n : SubSeq(s, 1, n)[i] = s[i]
         /\ \A i \in 1..(Len(s) - n) : SubSeq(s, n + 1, Len(s))[i] = s[n + i]
         /\ ToSet(SubSeq(s, 1, n)) = {s[i] : i \in 1..n}
         /\ ToSet(s) = ToSet(SubSeq(s, 1, n)) \cup ToSet(SubSeq(s, n + 1, Len(s)))
         /\ IsInjective(s) => /\ IsInjective(SubSeq(s, 1, n))
                              /\ IsInjective(SubSeq(s, n + 1, Len(s)))
                              /\ ToSet(SubSeq(s, 1, n)) \cap ToSet(SubSeq(s, n + 1, Len(s))) = {}
<1> DEFINE a == SubSeq(s, 1, n)
           b == SubSeq(s, n + 1, Len(s))
<1>1. Len(s) \in Nat /\ n \in Nat /\ n <= Len(s) /\ DOMAIN s = 1..Len(s)
  OBVIOUS
<1>2. /\ a \in Seq(S) /\ Len(a) = n /\ DOMAIN a = 1..n
      /\ \A i \in 1..n : a[i] = s[i]
  BY <1>1
<1>3. /\ b \in Seq(S) /\ Len(b) = Len(s) - n /\ DOMAIN b = 1..(Len(s) - n)
      /\ \A i \in 1..(Len(s) - n) : b[i] = s[n + i]
  <2>1. n + 1 \in Int /\ Len(s) \in Int /\ \A i \in (n + 1)..Len(s) : s[i] \in S
    BY <1>1
  <2>2. /\ b \in Seq(S)
        /\ Len(b) = IF n + 1 <= Len(s) THEN Len(s) - (n + 1) + 1 ELSE 0
        /\ \A i \in 1..(Len(s) - (n + 1) + 1) : b[i] = s[n + 1 + i - 1]
    BY <2>1, SubSeqProperties
  <2> HIDE DEF b
  <2>3. Len(b) = Len(s) - n
    BY <1>1, <2>2, LengthOfRest
  <2>4. \A i \in 1..(Len(s) - n) : b[i] = s[n + i]
    <3> SUFFICES ASSUME NEW i \in 1..(Len(s) - n) PROVE b[i] = s[n + i]
      OBVIOUS
    <3>1. i \in 1..(Len(s) - (n + 1) + 1) /\ n + 1 + i - 1 = n + i
      BY <1>1
    <3> QED
      BY <2>2, <3>1
  <2> QED
    BY <2>2, <2>3, <2>4
<1> HIDE DEF a, b
<1>4. ToSet(a) = {s[i] : i \in 1..n}
  BY <1>2 DEF ToSet
<1>5. ToSet(b) = {s[i] : i \in (n + 1)..Len(s)}
  <2>1. \A i \in (n + 1)..Len(s) : i - n \in 1..(Len(s) - n) /\ n + (i - n) = i
    BY <1>1
  <2>2. \A i \in 1..(Len(s) - n) : n + i \in (n + 1)..Len(s)
    BY <1>1
  <2>3. ToSet(b) \subseteq {s[i] : i \in (n + 1)..Len(s)}
    BY <1>3, <2>2 DEF ToSet
  <2>4. ASSUME NEW i \in (n + 1)..Len(s) PROVE s[i] \in ToSet(b)
    <3>1. i - n \in DOMAIN b /\ b[i - n] = s[i]
      BY <1>3, <2>1
    <3> QED
      BY <3>1 DEF ToSet
  <2> QED
    BY <2>3, <2>4
<1>6. \A i \in 1..Len(s) : (i \in 1..n) \/ (i \in (n + 1)..Len(s))
  BY <1>1
<1>7. (\A i \in 1..n : i \in 1..Len(s)) /\ (\A i \in (n + 1)..Len(s) : i \in 1..Len(s))
  BY <1>1
<1>8. ToSet(s) = ToSet(a) \cup ToSet(b)
  BY <1>1, <1>4, <1>5, <1>6, <1>7 DEF ToSet
<1>9. ASSUME IsInjective(s) PROVE IsInjective(a) /\ IsInjective(b) /\ ToSet(a) \cap ToSet(b) = {}
  <2>1. IsInjective(a)
    BY <1>1, <1>2, <1>7, <1>9 DEF IsInjective
  <2>2. IsInjective(b)
    <3> SUFFICES ASSUME NEW i \in 1..(Len(s) - n), NEW j \in 1..(Len(s) - n), b[i] = b[j]
                 PROVE  i = j
      BY <1>3 DEF IsInjective
    <3>1. s[n + i] = s[n + j] /\ n + i \in 1..Len(s) /\ n + j \in 1..Len(s)
      BY <1>1, <1>3
    <3>2. n + i = n + j
      BY <1>1, <1>9, <3>1 DEF IsInjective
    <3> QED
      BY <1>1, <3>2
  <2>3. ToSet(a) \cap ToSet(b) = {}
    <3>1. \A i \in 1..n, j \in (n + 1)..Len(s) : i # j
      BY <1>1
    <3> QED
      BY <1>1, <1>4, <1>5, <1>7, <1>9, <3>1 DEF IsInjective
  <2> QED
    BY <2>1, <2>2, <2>3
<1> QED
  BY <1>2, <1>3, <1>4, <1>8, <1>9 DEF a, b

(* Picked keeps what it is told to keep, and the order makes no difference   *)
(* to which elements these are: counting the kept indices up to i numbers    *)
(* them 1 to n without gaps.                                                 *)
LEMMA PickedFacts ==
  ASSUME NEW S, NEW s \in Seq(S), NEW kept \in SUBSET DOMAIN s
  PROVE  /\ Picked(s, kept) \in Seq(S)
         /\ ToSet(Picked(s, kept)) = {s[i] : i \in kept}
         /\ IsInjective(s) => IsInjective(Picked(s, kept))
<1> DEFINE upto(i) == {j \in kept : j <= i}
           N == Cardinality(kept)
           rank == [i \in kept |-> Cardinality(upto(i))]
           nth(n) == CHOOSE i \in kept : Cardinality(upto(i)) = n
<1>1. DOMAIN s = 1..Len(s) /\ Len(s) \in Nat /\ IsFiniteSet(1..Len(s))
  BY FS_Interval
<1>2. kept \subseteq 1..Len(s) /\ IsFiniteSet(kept)
  BY <1>1, FS_Subset
<1>3. N \in Nat
  BY <1>2, FS_CardinalityType
<1>4. ASSUME NEW i \in kept
      PROVE  IsFiniteSet(upto(i)) /\ Cardinality(upto(i)) \in 1..N
  <2>1. upto(i) \in SUBSET kept /\ i \in upto(i)
    BY <1>2
  <2> HIDE DEF upto
  <2>2. IsFiniteSet(upto(i)) /\ Cardinality(upto(i)) <= N
    BY <1>2, <2>1, FS_Subset
  <2>3. Cardinality(upto(i)) \in Nat /\ Cardinality(upto(i)) # 0
    BY <2>1, <2>2, FS_CardinalityType, FS_EmptySet
  <2> QED
    BY <1>3, <2>2, <2>3
<1>5. ASSUME NEW i \in kept, NEW j \in kept, i < j
      PROVE  Cardinality(upto(i)) # Cardinality(upto(j))
  <2>1. upto(i) \in SUBSET upto(j) /\ j \in upto(j) /\ j \notin upto(i)
    BY <1>2, <1>5
  <2>2. IsFiniteSet(upto(j))
    BY <1>4
  <2> HIDE DEF upto
  <2> QED
    BY <2>1, <2>2, FS_Subset
<1>6. rank \in Injection(kept, 1..N)
  <2>1. rank \in [kept -> 1..N]
    BY <1>4
  <2>2. \A i, j \in kept : rank[i] = rank[j] => i = j
    <3> SUFFICES ASSUME NEW i \in kept, NEW j \in kept, i # j PROVE rank[i] # rank[j]
      OBVIOUS
    <3>1. i < j \/ j < i
      BY <1>2
    <3>2. Cardinality(upto(i)) # Cardinality(upto(j))
      BY <1>5, <3>1
    <3> HIDE DEF upto
    <3> QED
      BY <3>2
  <2>3. DOMAIN rank = kept
    OBVIOUS
  <2> HIDE DEF rank
  <2> QED
    BY <2>1, <2>2, <2>3 DEF Injection, IsInjective
<1>7. rank \in Surjection(kept, 1..N)
  <2>1. IsFiniteSet(1..N) /\ Cardinality(1..N) = N
    BY <1>3, FS_Interval
  <2> HIDE DEF rank, N
  <2>2. Cardinality(kept) = N
    BY DEF N
  <2> QED
    BY <1>6, <2>1, <2>2, FS_Injection
<1>8. ASSUME NEW n \in 1..N PROVE nth(n) \in kept /\ Cardinality(upto(nth(n))) = n
  <2>1. \E i \in kept : rank[i] = n
    <3> HIDE DEF rank, N
    <3> QED
      BY <1>7 DEF Surjection
  <2>2. \E i \in kept : Cardinality(upto(i)) = n
    BY <2>1
  <2> HIDE DEF upto
  <2> QED
    BY <2>2
<1>9. ASSUME NEW i \in kept PROVE nth(Cardinality(upto(i))) = i
  <2> DEFINE k == nth(Cardinality(upto(i)))
  <2>1. k \in kept /\ Cardinality(upto(k)) = Cardinality(upto(i))
    BY <1>4, <1>8
  <2> HIDE DEF k
  <2>2. ~(k < i) /\ ~(i < k)
    BY <1>5, <2>1
  <2>3. k = i
    BY <1>2, <2>1, <2>2
  <2> QED
    BY <2>3 DEF k
<1> DEFINE p == [n \in 1..N |-> s[nth(n)]]
<1>10. Picked(s, kept) = p
  BY DEF Picked
<1> HIDE DEF nth, upto, N, rank
<1>11. p \in [1..N -> S]
  BY <1>1, <1>2, <1>8
<1>12. p \in Seq(S) /\ DOMAIN p = 1..N
  BY <1>3, <1>11
<1>13. ToSet(p) = {s[i] : i \in kept}
  <2>1. ToSet(p) \subseteq {s[i] : i \in kept}
    BY <1>8, <1>12 DEF ToSet
  <2>2. ASSUME NEW i \in kept PROVE s[i] \in ToSet(p)
    <3>1. Cardinality(upto(i)) \in 1..N /\ p[Cardinality(upto(i))] = s[i]
      BY <1>4, <1>9
    <3> HIDE DEF p
    <3> QED
      BY <1>12, <3>1 DEF ToSet
  <2> QED
    BY <2>1, <2>2
<1>14. ASSUME IsInjective(s) PROVE IsInjective(p)
  <2> SUFFICES ASSUME NEW m \in 1..N, NEW n \in 1..N, p[m] = p[n] PROVE m = n
    BY <1>12 DEF IsInjective
  <2>1. s[nth(m)] = s[nth(n)]
    OBVIOUS
  <2>2. nth(m) = nth(n)
    BY <1>1, <1>2, <1>8, <1>14, <2>1 DEF IsInjective
  <2> QED
    BY <1>8, <2>2
<1> QED
  BY <1>10, <1>12, <1>13, <1>14


-----------------------------------------------------------------------------
(* Where the loop is                                                         *)

LEMMA Locations ==
  /\ Running = {"round", "sampling", "parse", "final", "pending", "batch", "call"}
  /\ "waiting" \notin Running /\ "ended" \notin Running
BY DEF Running

(* The loop moves on inside the Turn, leaves it, or suspends it.             *)
LEMMA GoKeeps ==
  ASSUME PositionPart, NEW l \in Running, pc \in Running, Go(l),
         rounds' \in 0..MAX_ROLLOUT_MODEL_ROUNDS,
         guards' \in 0..MAX_FINALIZATION_GUARD_ACTIVATIONS,
         l = "sampling" => rounds' < MAX_ROLLOUT_MODEL_ROUNDS,
         crashes' = crashes
  PROVE  PositionPart'
BY Locations DEF PositionPart, Go

LEMMA EndKeeps ==
  ASSUME PositionPart, End("completed") \/ End("stopped") \/ End("cancelled") \/ End("failed")
                       \/ End("interrupted"),
         UNCHANGED <<rounds, guards>>, crashes' \in 0..MaxCrashes
  PROVE  PositionPart'
BY Locations DEF PositionPart, End

LEMMA SuspendKeeps ==
  ASSUME PositionPart, pc \in Running, NEW kind \in {"approval", "input", "action"}, Suspend(kind),
         UNCHANGED <<rounds, guards, crashes>>
  PROVE  PositionPart'
BY Locations DEF PositionPart, Suspend

LEMMA StayKeeps ==
  ASSUME PositionPart, UNCHANGED <<position, counters>>, crashes' = crashes
  PROVE  PositionPart'
BY DEF PositionPart, position, counters

LEMMA ResumeKeeps ==
  ASSUME PositionPart, pc = "waiting", pc' = "pending", wait' = "none", outcome' = outcome,
         UNCHANGED <<rounds, guards, crashes>>
  PROVE  PositionPart'
BY Locations DEF PositionPart

LEMMA PositionStep ==
  ASSUME PositionPart, [Next]_vars
  PROVE  PositionPart'
<1> USE Locations
<1>0. /\ rounds \in 0..MAX_ROLLOUT_MODEL_ROUNDS /\ rounds \in Nat
      /\ guards \in 0..MAX_FINALIZATION_GUARD_ACTIVATIONS /\ guards \in Nat
      /\ crashes \in 0..MaxCrashes /\ crashes \in Nat
  BY LoopAssumption DEF PositionPart
<1>1. CASE StartRound
  <2>1. pc = "round" /\ UNCHANGED <<rounds, guards, crashes>>
    BY <1>1 DEF StartRound, counters
  <2>2. End("stopped") \/ End("cancelled") \/ (RoundsLeft /\ Go("sampling"))
    BY <1>1 DEF StartRound
  <2>3. CASE RoundsLeft /\ Go("sampling")
    BY <1>0, <2>1, <2>3, GoKeeps DEF RoundsLeft
  <2> QED
    BY <1>0, <2>1, <2>2, <2>3, EndKeeps
<1>2. CASE JoinFails
  BY <1>0, <1>2, EndKeeps DEF JoinFails, counters
<1>3. CASE Broken
  BY <1>0, <1>3, EndKeeps DEF Broken, counters
<1>4. CASE Overflowed
  <2>1. pc = "sampling" /\ UNCHANGED <<rounds, guards, crashes>>
    BY <1>4 DEF Overflowed, counters
  <2>2. End("cancelled") \/ End("failed") \/ Go("sampling")
    BY <1>4 DEF Overflowed
  <2>3. CASE Go("sampling")
    BY <1>0, <2>1, <2>3, GoKeeps DEF PositionPart
  <2> QED
    BY <1>0, <2>1, <2>2, <2>3, EndKeeps
<1>5. CASE Answered
  <2>1. pc = "sampling" /\ UNCHANGED <<guards, crashes>>
    BY <1>5 DEF Answered
  <2>2. \/ End("cancelled") /\ rounds' = rounds
        \/ Go("parse") /\ rounds' = rounds + 1
    BY <1>5 DEF Answered
  <2>3. CASE Go("parse") /\ rounds' = rounds + 1
    <3>1. rounds' \in 0..MAX_ROLLOUT_MODEL_ROUNDS
      BY <1>0, <2>1, <2>3, LoopAssumption DEF PositionPart
    <3> QED
      BY <1>0, <2>1, <2>3, <3>1, GoKeeps
  <2> QED
    BY <1>0, <2>1, <2>2, <2>3, EndKeeps
<1>6. CASE PostParse
  <2>1. pc = "parse" /\ UNCHANGED <<rounds, guards, crashes>>
    BY <1>6 DEF PostParse, counters
  <2>2. End("cancelled") \/ End("failed") \/ Go("round") \/ Go("final") \/ Go("pending")
    BY <1>6 DEF PostParse
  <2>3. ASSUME NEW l \in {"round", "final", "pending"}, Go(l) PROVE PositionPart'
    BY <1>0, <2>1, <2>3, GoKeeps
  <2> QED
    BY <1>0, <2>1, <2>2, <2>3, EndKeeps
<1>7. CASE Finalize
  <2>1. pc = "final" /\ UNCHANGED <<rounds, crashes>>
    BY <1>7 DEF Finalize
  <2>2. \/ (End("completed") \/ End("failed")) /\ guards' = guards
        \/ Go("round") /\ guards < MAX_FINALIZATION_GUARD_ACTIVATIONS /\ guards' = guards + 1
    BY <1>7 DEF Finalize
  <2>3. CASE Go("round") /\ guards < MAX_FINALIZATION_GUARD_ACTIVATIONS /\ guards' = guards + 1
    <3>1. guards' \in 0..MAX_FINALIZATION_GUARD_ACTIVATIONS
      BY <1>0, <2>3, LoopAssumption
    <3> QED
      BY <1>0, <2>1, <2>3, <3>1, GoKeeps
  <2> QED
    BY <1>0, <2>1, <2>2, <2>3, EndKeeps
<1>8. CASE AllDone
  BY <1>0, <1>8, GoKeeps DEF AllDone, counters
<1>9. CASE TakeOutcome
  <2>1. UNCHANGED <<rounds, guards, crashes>>
    BY <1>9 DEF TakeOutcome, counters
  <2>2. UNCHANGED position \/ End("failed")
    BY <1>9 DEF TakeOutcome
  <2> QED
    BY <1>0, <2>1, <2>2, EndKeeps, StayKeeps DEF counters
<1>10. ASSUME pc \in Running, NEW batch, NEW ids, Review(batch, ids), UNCHANGED <<rounds, guards, crashes>>
       PROVE  PositionPart'
  <2>1. Suspend("approval") \/ Go("pending") \/ End("failed")
    BY <1>10 DEF Review
  <2> QED
    BY <1>0, <1>10, <2>1, GoKeeps, EndKeeps, SuspendKeeps
<1>11. CASE ApprovalBatch
  BY <1>10, <1>11 DEF ApprovalBatch, counters
<1>12. CASE StartBatch
  BY <1>0, <1>12, GoKeeps DEF StartBatch, counters
<1>13. CASE BatchDone
  BY <1>0, <1>13, GoKeeps DEF BatchDone, counters
<1>14. CASE StartCall
  BY <1>0, <1>14, GoKeeps DEF StartCall, counters
<1>15. CASE CallDone
  <2>1. pc = "call" /\ UNCHANGED <<rounds, guards, crashes>>
    BY <1>15 DEF CallDone, counters
  <2>2. \/ Suspend("input") \/ Suspend("action") \/ Go("pending") \/ End("failed")
        \/ Review(<<Head(pending)>>, <<>>)
    BY <1>15 DEF CallDone
  <2> QED
    BY <1>0, <1>10, <2>1, <2>2, GoKeeps, EndKeeps, SuspendKeeps
<1>16. CASE \E c \in Calls : ReceiveCall(c) \/ Execute(c)
  BY <1>16, StayKeeps DEF ReceiveCall, Execute, BeginExecution, FinishExecution
<1>17. CASE Outside
  <2>1. CASE \E s \in Steers : Steer(s)
    BY <2>1, StayKeeps DEF Steer
  <2>2. CASE \E m \in Messages : SendMessage(m)
    BY <2>2, StayKeeps DEF SendMessage
  <2>3. CASE Cancel
    BY <1>0, <2>3, StayKeeps, EndKeeps DEF Cancel, counters
  <2>4. CASE \E yes \in BOOLEAN : ResumeApproval(yes)
    BY <2>4, ResumeKeeps DEF ResumeApproval, counters
  <2>5. CASE ResumeInput
    BY <2>5, ResumeKeeps DEF ResumeInput, counters
  <2>6. CASE ResumeAction
    BY <2>6, ResumeKeeps DEF ResumeAction, counters
  <2>7. CASE Restart
    <3>1. crashes' \in 0..MaxCrashes /\ UNCHANGED <<rounds, guards>>
      BY <1>0, <2>7, LoopAssumption DEF Restart, counters
    <3>2. UNCHANGED position \/ End("interrupted")
      BY <2>7 DEF Restart
    <3>3. CASE UNCHANGED position
      BY <3>1, <3>3 DEF PositionPart, position
    <3> QED
      BY <3>1, <3>2, <3>3, EndKeeps
  <2> QED
    BY <1>17, <2>1, <2>2, <2>3, <2>4, <2>5, <2>6, <2>7 DEF Outside
<1>18. CASE UNCHANGED vars
  BY <1>18, StayKeeps DEF vars
<1> QED
  BY <1>1, <1>2, <1>3, <1>4, <1>5, <1>6, <1>7, <1>8, <1>9, <1>11, <1>12, <1>13, <1>14, <1>15,
     <1>16, <1>17, <1>18 DEF Next, LoopStep

LEMMA FlagsStep ==
  ASSUME FlagsPart, [Next]_vars
  PROVE  FlagsPart'
<1>1. streams' \in BOOLEAN /\ retried' \in BOOLEAN
  <2> USE DEF FlagsPart, round
  <2>1. CASE StartRound
    BY <2>1 DEF StartRound
  <2>2. CASE JoinFails \/ Broken \/ Answered \/ Finalize \/ AllDone \/ TakeOutcome
    BY <2>2 DEF JoinFails, Broken, Answered, Finalize, AllDone, TakeOutcome
  <2>3. CASE Overflowed
    BY <2>3 DEF Overflowed
  <2>4. CASE PostParse
    BY <2>4 DEF PostParse
  <2>5. CASE ApprovalBatch \/ StartBatch \/ BatchDone \/ StartCall \/ CallDone
    BY <2>5 DEF ApprovalBatch, StartBatch, BatchDone, StartCall, CallDone
  <2>6. CASE \E c \in Calls : ReceiveCall(c) \/ Execute(c)
    BY <2>6 DEF ReceiveCall, Execute, BeginExecution, FinishExecution
  <2>7. CASE Outside
    BY <2>7 DEF Outside, Steer, SendMessage, Cancel, ResumeApproval, ResumeInput, ResumeAction, Restart
  <2>8. CASE UNCHANGED vars
    BY <2>8 DEF vars
  <2> QED
    BY <2>1, <2>2, <2>3, <2>4, <2>5, <2>6, <2>7, <2>8 DEF Next, LoopStep
<1>2. cancelled' \in BOOLEAN
  <2> USE DEF FlagsPart
  <2>1. CASE LoopStep
    BY <2>1 DEF LoopStep, StartRound, JoinFails, Broken, Overflowed, Answered, PostParse, Finalize,
       AllDone, TakeOutcome, ApprovalBatch, StartBatch, BatchDone, StartCall, CallDone
  <2>2. CASE \E c \in Calls : ReceiveCall(c) \/ Execute(c)
    BY <2>2 DEF ReceiveCall, Execute, BeginExecution, FinishExecution
  <2>3. CASE Outside
    BY <2>3 DEF Outside, Steer, SendMessage, Cancel, ResumeApproval, ResumeInput, ResumeAction, Restart
  <2>4. CASE UNCHANGED vars
    BY <2>4 DEF vars
  <2> QED
    BY <2>1, <2>2, <2>3, <2>4 DEF Next
<1> QED
  BY <1>1, <1>2 DEF FlagsPart


-----------------------------------------------------------------------------
(* Messages and steering                                                     *)

LEMMA MailUnchanged ==
  ASSUME MailPart, UNCHANGED mail
  PROVE  MailPart'
BY DEF MailPart, mail, AcknowledgedWasShown

LEMMA MailStep ==
  ASSUME MailPart, [Next]_vars
  PROVE  MailPart'
<1> DEFINE Items == Messages \cup Steers \cup {"cancel"}
<1>0. /\ inbox \in Seq(Items) /\ ToSet(inbox) \subseteq sent \cup {"cancel"}
      /\ <<>> \in Seq(Items) /\ ToSet(<<>>) = {}
  BY EmptyFacts DEF MailPart
<1>a. \A x \in Items : Append(inbox, x) \in Seq(Items) /\ ToSet(Append(inbox, x)) = ToSet(inbox) \cup {x}
  <2> HIDE DEF Items
  <2> QED
    BY <1>0, AppendFacts
<1>1. ASSUME NEW x \in Messages \cup Steers, sent' = sent \cup {x},
             inbox' = inbox \/ inbox' = Append(inbox, x), UNCHANGED <<noted, shown, acked>>
      PROVE  MailPart'
  <2>1. inbox' \in Seq(Items) /\ ToSet(inbox') \subseteq ToSet(inbox) \cup {x}
    BY <1>0, <1>1, <1>a
  <2> QED
    BY <1>0, <1>1, <2>1 DEF MailPart, AcknowledgedWasShown
<1>2. CASE \E s \in Steers : Steer(s)
  <2> PICK s \in Steers : Steer(s)
    BY <1>2
  <2> QED
    BY <1>1 DEF Steer
<1>3. CASE \E m \in Messages : SendMessage(m)
  <2> PICK m \in Messages : SendMessage(m)
    BY <1>3
  <2>1. inbox' = inbox \/ inbox' = Append(inbox, m)
    BY DEF SendMessage
  <2> QED
    BY <1>1, <2>1 DEF SendMessage
<1>4. CASE Cancel
  <2>1. UNCHANGED <<noted, sent, shown, acked>>
    BY <1>4 DEF Cancel
  <2>2. inbox' = <<>> \/ inbox' = Append(inbox, "cancel")
    BY <1>4 DEF Cancel
  <2>3. inbox' \in Seq(Items) /\ ToSet(inbox') \subseteq ToSet(inbox) \cup {"cancel"}
    BY <1>0, <1>a, <2>2
  <2> QED
    BY <1>0, <2>1, <2>3 DEF MailPart, AcknowledgedWasShown
<1>5. CASE StartRound
  <2>1. UNCHANGED <<sent, shown, acked>>
    BY <1>5 DEF StartRound
  <2>2. inbox' \in {inbox, <<>>}
    BY <1>5 DEF StartRound
  <2>3. noted' = noted \/ ("cancel" \notin ToSet(inbox) /\ noted' = noted \cup ToSet(inbox))
    BY <1>5 DEF StartRound
  <2>4. noted' \subseteq sent
    BY <1>0, <2>3 DEF MailPart
  <2> QED
    BY <1>0, <2>1, <2>2, <2>4 DEF MailPart, AcknowledgedWasShown
<1>6. CASE Answered
  <2>1. UNCHANGED <<inbox, sent>>
    BY <1>6 DEF Answered
  <2>2. \/ UNCHANGED <<noted, shown, acked>>
        \/ /\ shown' = shown \cup noted /\ acked' = acked \cup (noted \cap Messages)
           /\ noted' = {}
    BY <1>6 DEF Answered
  <2> QED
    BY <2>1, <2>2 DEF MailPart, AcknowledgedWasShown
<1>7. CASE PostParse
  <2> DEFINE kept == {i \in DOMAIN inbox : inbox[i] \in Messages}
  <2>1. UNCHANGED <<sent, shown, acked>> /\ inbox' = Picked(inbox, kept)
    BY <1>7 DEF PostParse
  <2>2. noted' = noted \/ noted' = noted \cup (ToSet(inbox) \cap Steers)
    BY <1>7 DEF PostParse
  <2>3. inbox' \in Seq(Items) /\ ToSet(inbox') = {inbox[i] : i \in kept}
    <3>1. kept \in SUBSET DOMAIN inbox
      OBVIOUS
    <3> HIDE DEF kept, Items
    <3> QED
      BY <1>0, <2>1, <3>1, PickedFacts
  <2>4. ToSet(inbox') \subseteq ToSet(inbox)
    BY <2>3 DEF ToSet
  <2>5. noted' \subseteq sent
    BY <1>0, <2>2, LoopAssumption DEF MailPart
  <2> QED
    BY <1>0, <2>1, <2>3, <2>4, <2>5 DEF MailPart, AcknowledgedWasShown
<1>8. CASE Finalize
  <2>1. UNCHANGED <<inbox, sent, shown, acked>>
    BY <1>8 DEF Finalize
  <2>2. noted' = noted \/ noted' = noted \cup ((sent \cap Messages) \ acked)
    BY <1>8 DEF Finalize
  <2> QED
    BY <2>1, <2>2 DEF MailPart, AcknowledgedWasShown
<1>9. CASE Restart
  <2>1. UNCHANGED <<sent, shown, acked>> /\ inbox' = <<>>
    BY <1>9 DEF Restart
  <2>2. noted' = noted \/ noted' = {}
    BY <1>9 DEF Restart
  <2> QED
    BY <1>0, <2>1, <2>2 DEF MailPart, AcknowledgedWasShown
<1>10. CASE JoinFails \/ Broken \/ Overflowed \/ AllDone \/ TakeOutcome \/ ApprovalBatch
            \/ StartBatch \/ BatchDone \/ StartCall \/ CallDone
  BY <1>10, MailUnchanged DEF JoinFails, Broken, Overflowed, AllDone, TakeOutcome, ApprovalBatch,
     StartBatch, BatchDone, StartCall, CallDone
<1>11. CASE \E c \in Calls : ReceiveCall(c) \/ Execute(c)
  BY <1>11, MailUnchanged DEF ReceiveCall, Execute, BeginExecution, FinishExecution
<1>12. CASE (\E yes \in BOOLEAN : ResumeApproval(yes)) \/ ResumeInput \/ ResumeAction
  BY <1>12, MailUnchanged DEF ResumeApproval, ResumeInput, ResumeAction
<1>13. CASE UNCHANGED vars
  BY <1>13, MailUnchanged DEF vars
<1> QED
  BY <1>2, <1>3, <1>4, <1>5, <1>6, <1>7, <1>8, <1>9, <1>10, <1>11, <1>12, <1>13
  DEF Next, LoopStep, Outside


-----------------------------------------------------------------------------
(* Batches are taken from the front of pending                               *)

LEMMA FrontOne ==
  ASSUME NEW s \in Seq(Calls), s # <<>>
  PROVE  /\ 1 \in 0..Len(s) /\ Head(s) = s[1] /\ s[1] \in Calls
         /\ <<Head(s)>> = SubSeq(s, 1, 1)
<1>1. Len(s) \in Nat /\ Len(s) # 0
  OBVIOUS
<1>2. Head(s) = s[1] /\ s[1] \in Calls
  BY <1>1
<1>3. SubSeq(s, 1, 1) \in Seq(Calls) /\ Len(SubSeq(s, 1, 1)) = 1 /\ SubSeq(s, 1, 1)[1] = s[1]
  BY <1>1, SplitFacts
<1>4. <<s[1]>> \in Seq(Calls) /\ Len(<<s[1]>>) = 1 /\ <<s[1]>>[1] = s[1]
  BY <1>2
<1>5. <<s[1]>> = SubSeq(s, 1, 1)
  BY <1>3, <1>4, SeqEqual
<1> QED
  BY <1>1, <1>2, <1>5

LEMMA IntervalSize ==
  ASSUME NEW n \in Nat
  PROVE  IsFiniteSet(1..n) /\ Cardinality(1..n) = n
BY FS_Interval

LEMMA CandidatesFront ==
  ASSUME NEW s \in Seq(Calls)
  PROVE  \E n \in 0..Len(s) : approval_candidates(s) = SubSeq(s, 1, n)
<1> DEFINE asking == {n \in DOMAIN s : /\ n <= MAX_PARALLEL_TOOL_CALLS
                                       /\ \A i \in 1..n : ~Allowed(s[i])}
<1>1. asking \in SUBSET (1..Len(s)) /\ Len(s) \in Nat
  OBVIOUS
<1>2. IsFiniteSet(1..Len(s)) /\ Cardinality(1..Len(s)) = Len(s)
  BY <1>1, IntervalSize
<1>3. approval_candidates(s) = SubSeq(s, 1, Cardinality(asking))
  BY DEF approval_candidates
<1> HIDE DEF asking
<1>4. Cardinality(asking) \in Nat /\ Cardinality(asking) <= Len(s)
  BY <1>1, <1>2, FS_Subset, FS_CardinalityType
<1> QED
  BY <1>1, <1>3, <1>4

LEMMA AskedFront ==
  ASSUME NEW s \in Seq(Calls), NEW t \in Seq(Calls), IsPrefix(t, s)
  PROVE  Len(t) \in 0..Len(s) /\ t = SubSeq(s, 1, Len(t))
<1>1. Len(t) \in Nat /\ Len(s) \in Nat /\ Len(t) <= Len(s)
  BY DEF IsPrefix
<1>2. SubSeq(t, 1, Len(t)) = t
  BY SubSeqFull
<1> QED
  BY <1>1, <1>2 DEF IsPrefix

(* What ResumeApproval decides about: the calls that were asked for, or the  *)
(* one call in front.                                                        *)
Decided == IF asked = <<>> THEN <<Head(pending)>> ELSE asked

LEMMA DecidedFront ==
  ASSUME LedgerTypes, PendingPart, pc = "waiting", wait = "approval"
  PROVE  \E n \in 1..Len(pending) : Decided = SubSeq(pending, 1, n)
<1>1. pending # <<>> /\ pending \in Seq(Calls) /\ asked \in Seq(Calls)
  BY DEF LedgerTypes, PendingPart
<1>2. CASE asked = <<>>
  <2>1. 1 \in 1..Len(pending) /\ Decided = SubSeq(pending, 1, 1)
    BY <1>1, <1>2, FrontOne DEF Decided
  <2> QED
    BY <2>1
<1>3. CASE asked # <<>>
  <2>1. IsPrefix(asked, pending)
    BY <1>3 DEF PendingPart
  <2>2. Len(asked) \in 0..Len(pending) /\ asked = SubSeq(pending, 1, Len(asked))
    BY <1>1, <2>1, AskedFront
  <2>3. Len(asked) \in Nat /\ Len(asked) # 0
    BY <1>1, <1>3
  <2>4. Len(asked) \in 1..Len(pending)
    BY <2>2, <2>3
  <2> QED
    BY <1>3, <2>2, <2>4 DEF Decided
<1> QED
  BY <1>2, <1>3

LEMMA FrontSubset ==
  ASSUME NEW s \in Seq(Calls), NEW n \in 0..Len(s)
  PROVE  ToSet(SubSeq(s, 1, n)) \subseteq ToSet(s) /\ ToSet(s) \subseteq Calls
BY SplitFacts, ToSetFacts

-----------------------------------------------------------------------------
(* Effects                                                                   *)

(* A step that starts no execution and ends none.                            *)
LEMMA QuietTasks ==
  ASSUME EffectPart, UNCHANGED <<journal, effects>>,
         task' \in [Calls -> TaskStatus],
         \A c \in Calls : task'[c] = "running" => task[c] = "running",
         granted \subseteq granted', granted' \subseteq Calls
  PROVE  EffectPart'
BY DEF EffectPart, EffectOnce, NoUnapprovedEffect

LEMMA ToolsUnchanged ==
  ASSUME EffectPart, UNCHANGED tools
  PROVE  EffectPart'
BY QuietTasks DEF EffectPart, tools

LEMMA TaskStatuses ==
  /\ "idle" \in TaskStatus /\ "queued" \in TaskStatus /\ "running" \in TaskStatus
  /\ "result" \in TaskStatus /\ "blocked" \in TaskStatus /\ "approval" \in TaskStatus
  /\ "error" \in TaskStatus
  /\ "running" \in EffectStatus /\ "succeeded" \in EffectStatus /\ "failed" \in EffectStatus
  /\ "indeterminate" \in EffectStatus
BY DEF TaskStatus, EffectStatus

(* Calls are put back to idle, or queued.                                    *)
LEMMA ResetTasks ==
  ASSUME EffectPart, UNCHANGED <<journal, effects>>, NEW cs, NEW st \in {"idle", "queued"},
         task' = [c \in Calls |-> IF c \in cs THEN st ELSE task[c]],
         granted \subseteq granted', granted' \subseteq Calls
  PROVE  EffectPart'
<1>1. task' \in [Calls -> TaskStatus]
  BY TaskStatuses DEF EffectPart
<1>2. \A c \in Calls : task'[c] = "running" => task[c] = "running"
  OBVIOUS
<1> QED
  BY <1>1, <1>2, QuietTasks

LEMMA ReviewEffects ==
  ASSUME LoopInv, NEW n \in 0..Len(pending), NEW ids, Review(SubSeq(pending, 1, n), ids),
         UNCHANGED <<journal, effects>>
  PROVE  EffectPart'
<1> DEFINE batch == SubSeq(pending, 1, n)
<1>1. EffectPart /\ pending \in Seq(Calls) /\ granted \subseteq Calls
  BY DEF LoopInv, LedgerTypes, EffectPart
<1>2. ToSet(batch) \subseteq Calls
  BY <1>1, FrontSubset
<1> HIDE DEF batch
<1>3. Review(batch, ids)
  BY DEF batch
<1>4. \/ Forget(pending) /\ granted' = granted
      \/ /\ task' = [c \in Calls |-> IF c \in ToSet(batch) THEN "idle" ELSE task[c]]
         /\ granted' = granted \cup ToSet(batch)
      \/ UNCHANGED <<granted, task>>
  BY <1>3 DEF Review
<1>5. CASE UNCHANGED <<granted, task>>
  BY <1>1, <1>5, ToolsUnchanged DEF tools
<1> QED
  BY <1>1, <1>2, <1>4, <1>5, ResetTasks DEF Forget

(* finish_effect: the journal and the task of one call, and perhaps its      *)
(* effect.                                                                   *)
LEMMA SettleKeeps ==
  ASSUME EffectPart, NEW c \in Calls, NEW st \in EffectStatus, NEW t \in TaskStatus, t # "running",
         Settle(c, st, t), journal[c] = "running", effects' = effects, granted' = granted
  PROVE  EffectPart'
<1>1. /\ \A d \in Calls : journal'[d] = IF d = c THEN st ELSE journal[d]
      /\ \A d \in Calls : task'[d] = IF d = c THEN t ELSE task[d]
      /\ journal' \in [Calls -> EffectStatus] /\ task' \in [Calls -> TaskStatus]
  BY DEF EffectPart, Settle
<1>2. \A i \in DOMAIN effects : effects[i] \in Calls
  BY DEF EffectPart
<1>3. \A i \in DOMAIN effects : ~Tool[effects[i]].idempotent => effects[i] # c
  BY <1>2 DEF EffectPart
<1>4. \A i \in DOMAIN effects' : ~Tool[effects'[i]].idempotent
         => journal'[effects'[i]] \in {"succeeded", "indeterminate"}
  BY <1>1, <1>2, <1>3 DEF EffectPart
<1>5. \A d \in Calls : task'[d] = "running" => journal'[d] = "running"
  BY <1>1 DEF EffectPart
<1> QED
  BY <1>1, <1>4, <1>5 DEF EffectPart, EffectOnce, NoUnapprovedEffect

LEMMA EffectKeeps ==
  ASSUME EffectPart, NEW c \in Calls, NEW st \in EffectStatus, NEW t \in TaskStatus, t # "running",
         ~Tool[c].idempotent => st \in {"succeeded", "indeterminate"},
         Tool[c].decision # "allow" => c \in granted,
         Settle(c, st, t), journal[c] = "running", effects' = Append(effects, c), granted' = granted
  PROVE  EffectPart'
<1>1. /\ \A d \in Calls : journal'[d] = IF d = c THEN st ELSE journal[d]
      /\ \A d \in Calls : task'[d] = IF d = c THEN t ELSE task[d]
      /\ journal' \in [Calls -> EffectStatus] /\ task' \in [Calls -> TaskStatus]
  BY DEF EffectPart, Settle
<1>2. effects \in Seq(Calls)
  BY DEF EffectPart
<1>3. /\ effects' \in Seq(Calls) /\ ToSet(effects') = ToSet(effects) \cup {c}
      /\ DOMAIN effects' = 1..(Len(effects) + 1) /\ DOMAIN effects = 1..Len(effects)
      /\ Len(effects) \in Nat /\ effects'[Len(effects) + 1] = c
      /\ \A i \in DOMAIN effects : effects'[i] = effects[i] /\ effects[i] \in Calls
  BY <1>2, AppendFacts
<1>4. \A i \in DOMAIN effects : ~Tool[effects[i]].idempotent => effects[i] # c
  BY <1>3 DEF EffectPart
<1>5. \A i \in DOMAIN effects' : i \in DOMAIN effects \/ i = Len(effects) + 1
  BY <1>3
<1>6. \A i \in DOMAIN effects' : ~Tool[effects'[i]].idempotent
         => journal'[effects'[i]] \in {"succeeded", "indeterminate"}
  BY <1>1, <1>3, <1>4, <1>5 DEF EffectPart
<1>7. EffectOnce'
  BY <1>3, <1>4, <1>5 DEF EffectPart, EffectOnce
<1>8. NoUnapprovedEffect'
  BY <1>3 DEF EffectPart, NoUnapprovedEffect
<1>9. \A d \in Calls : task'[d] = "running" => journal'[d] = "running"
  BY <1>1 DEF EffectPart
<1>10. granted' \subseteq Calls
  BY DEF EffectPart
<1> QED
  BY <1>1, <1>3, <1>6, <1>7, <1>8, <1>9, <1>10 DEF EffectPart

LEMMA ExecuteEffects ==
  ASSUME LoopInv, NEW c \in Calls, Execute(c)
  PROVE  EffectPart'
<1>0. /\ EffectPart /\ pending \in Seq(Calls) /\ approved \in 0..Len(pending)
      /\ task \in [Calls -> TaskStatus] /\ journal \in [Calls -> EffectStatus]
  BY DEF LoopInv, LedgerTypes, EffectPart
<1>1. CASE BeginExecution(c)
  <2>1. UNCHANGED <<effects, granted>>
    BY <1>1 DEF BeginExecution
  <2>2. CASE UNCHANGED journal /\ (task' = [task EXCEPT ![c] = "result"] \/ task' = [task EXCEPT ![c] = "blocked"])
    <3>1. task' \in [Calls -> TaskStatus]
      BY <1>0, <2>2, TaskStatuses
    <3>2. \A d \in Calls : task'[d] = "running" => task[d] = "running"
      BY <1>0, <2>2
    <3> QED
      BY <1>0, <2>1, <2>2, <3>1, <3>2, QuietTasks DEF EffectPart
  <2>3. CASE /\ ~(journal[c] = "succeeded") /\ ~(requires_reconciliation(c) \/ journal[c] = "running")
             /\ journal' = [journal EXCEPT ![c] = "running"]
             /\ task' = [task EXCEPT ![c] = "running"]
    <3>1. /\ \A d \in Calls : journal'[d] = IF d = c THEN "running" ELSE journal[d]
          /\ \A d \in Calls : task'[d] = IF d = c THEN "running" ELSE task[d]
          /\ journal' \in [Calls -> EffectStatus] /\ task' \in [Calls -> TaskStatus]
      BY <1>0, <2>3, TaskStatuses
    <3>2. \A i \in DOMAIN effects : effects[i] \in Calls
      BY <1>0 DEF EffectPart
    <3>3. ~Tool[c].idempotent => journal[c] \notin {"succeeded", "indeterminate"}
      BY <2>3 DEF requires_reconciliation
    <3>4. \A i \in DOMAIN effects : ~Tool[effects[i]].idempotent => effects[i] # c
      BY <1>0, <3>3 DEF EffectPart
    <3>5. \A i \in DOMAIN effects' : ~Tool[effects'[i]].idempotent
             => journal'[effects'[i]] \in {"succeeded", "indeterminate"}
      BY <1>0, <2>1, <3>1, <3>2, <3>4 DEF EffectPart
    <3>6. \A d \in Calls : task'[d] = "running" => journal'[d] = "running"
      BY <1>0, <3>1 DEF EffectPart
    <3> QED
      BY <1>0, <2>1, <3>1, <3>5, <3>6 DEF EffectPart, EffectOnce, NoUnapprovedEffect
  <2> QED
    BY <1>1, <2>2, <2>3 DEF BeginExecution
<1>2. CASE FinishExecution(c)
  <2>1. granted' = granted /\ journal[c] = "running"
    BY <1>0, <1>2 DEF FinishExecution, EffectPart
  <2>2. Uncertain(c) \in EffectStatus /\ (~Tool[c].idempotent => Uncertain(c) = "indeterminate")
    BY TaskStatuses DEF Uncertain
  <2>3. ~NeedsApproval(c) => (Tool[c].decision # "allow" => c \in granted)
    <3>1. ToSet(SubSeq(pending, 1, approved)) = {pending[i] : i \in 1..approved}
      BY <1>0, SplitFacts
    <3>2. \A i \in 1..approved : pending[i] \in granted
      BY DEF LoopInv, PendingPart
    <3> QED
      BY <3>1, <3>2 DEF NeedsApproval, WithGrant
  <2>4. \/ Settle(c, "failed", "approval") /\ effects' = effects
        \/ Settle(c, "failed", "result") /\ effects' = effects
        \/ Settle(c, Uncertain(c), "error") /\ effects' = effects
        \/ ~NeedsApproval(c) /\ Settle(c, "succeeded", "result") /\ effects' = Append(effects, c)
        \/ ~NeedsApproval(c) /\ Settle(c, Uncertain(c), "result") /\ effects' = Append(effects, c)
        \/ ~NeedsApproval(c) /\ Settle(c, Uncertain(c), "error") /\ effects' = Append(effects, c)
    BY <1>2 DEF FinishExecution
  <2>5. ASSUME NEW st \in {"failed", Uncertain(c)}, NEW t \in {"approval", "result", "error"},
               Settle(c, st, t), effects' = effects
        PROVE  EffectPart'
    BY <1>0, <2>1, <2>2, <2>5, TaskStatuses, SettleKeeps
  <2>6. ASSUME NEW st \in {"succeeded", Uncertain(c)}, NEW t \in {"result", "error"},
               ~NeedsApproval(c), Settle(c, st, t), effects' = Append(effects, c)
        PROVE  EffectPart'
    BY <1>0, <2>1, <2>2, <2>3, <2>6, TaskStatuses, EffectKeeps
  <2> QED
    BY <2>4, <2>5, <2>6
<1> QED
  BY <1>1, <1>2 DEF Execute

LEMMA EffectStep ==
  ASSUME LoopInv, [Next]_vars
  PROVE  EffectPart'
<1>0. /\ EffectPart /\ pending \in Seq(Calls) /\ granted \subseteq Calls
      /\ task \in [Calls -> TaskStatus] /\ LedgerTypes /\ PendingPart
  BY DEF LoopInv, LedgerTypes, EffectPart
<1>1. CASE StartRound \/ JoinFails \/ Broken \/ Overflowed \/ Answered \/ Finalize \/ AllDone \/ BatchDone
  BY <1>0, <1>1, ToolsUnchanged
  DEF StartRound, JoinFails, Broken, Overflowed, Answered, Finalize, AllDone, BatchDone
<1>2. CASE PostParse
  <2>1. UNCHANGED <<journal, effects, granted>>
    BY <1>2 DEF PostParse
  <2>2. task' = task \/ task' = [c \in Calls |-> IF task[c] = "approval" THEN "idle" ELSE task[c]]
    BY <1>2 DEF PostParse
  <2>3. task' \in [Calls -> TaskStatus]
    BY <1>0, <2>2, TaskStatuses
  <2>4. \A c \in Calls : task'[c] = "running" => task[c] = "running"
    BY <1>0, <2>2
  <2> QED
    BY <1>0, <2>1, <2>3, <2>4, QuietTasks
<1>3. CASE TakeOutcome
  <2>1. UNCHANGED <<journal, effects, granted>>
    BY <1>3 DEF TakeOutcome
  <2>2. task' = task \/ task' = [task EXCEPT ![Head(pending)] = "idle"]
    BY <1>3 DEF TakeOutcome
  <2>3. task' \in [Calls -> TaskStatus]
    BY <1>0, <2>2, TaskStatuses
  <2>4. \A c \in Calls : task'[c] = "running" => task[c] = "running"
    BY <1>0, <2>2
  <2> QED
    BY <1>0, <2>1, <2>3, <2>4, QuietTasks
<1>4. CASE ApprovalBatch
  <2>1. \E n \in 0..Len(pending) : approval_candidates(pending) = SubSeq(pending, 1, n)
    BY <1>0, CandidatesFront
  <2> QED
    BY <1>4, <2>1, ReviewEffects DEF ApprovalBatch
<1>5. CASE StartBatch
  <2>1. UNCHANGED <<journal, effects, granted>> /\ \E cs : Launch(cs)
    BY <1>5 DEF StartBatch
  <2> QED
    BY <1>0, <2>1, ResetTasks DEF Launch
<1>6. CASE StartCall
  <2>1. UNCHANGED <<journal, effects, granted>> /\ Launch({Head(pending)})
    BY <1>6 DEF StartCall
  <2> QED
    BY <1>0, <2>1, ResetTasks DEF Launch
<1>7. CASE CallDone
  <2>1. UNCHANGED <<journal, effects>> /\ pc = "call"
    BY <1>7 DEF CallDone
  <2>2. \/ Review(<<Head(pending)>>, <<>>)
        \/ granted' = granted /\ (task' = task \/ Forget(pending) \/ Forget(Tail(pending)))
    BY <1>7 DEF CallDone
  <2>3. CASE Review(<<Head(pending)>>, <<>>)
    <3>1. pending # <<>>
      BY <1>0, <2>1 DEF PendingPart
    <3>2. 1 \in 0..Len(pending) /\ <<Head(pending)>> = SubSeq(pending, 1, 1)
      BY <1>0, <3>1, FrontOne
    <3>3. Review(SubSeq(pending, 1, 1), <<>>)
      BY <2>3, <3>2
    <3> QED
      BY <2>1, <3>2, <3>3, ReviewEffects
  <2>4. CASE granted' = granted /\ task' = task
    BY <1>0, <2>1, <2>4, ToolsUnchanged DEF tools
  <2>5. CASE granted' = granted /\ (Forget(pending) \/ Forget(Tail(pending)))
    BY <1>0, <2>1, <2>5, ResetTasks DEF Forget
  <2> QED
    BY <2>2, <2>3, <2>4, <2>5
<1>8. CASE \E c \in Calls : ReceiveCall(c) \/ Execute(c)
  <2>1. ASSUME NEW c \in Calls, ReceiveCall(c) PROVE EffectPart'
    <3>1. UNCHANGED <<journal, effects, granted>>
      BY <2>1 DEF ReceiveCall
    <3>2. task' = task \/ task' = [task EXCEPT ![c] = "queued"]
      BY <2>1 DEF ReceiveCall
    <3>3. task' \in [Calls -> TaskStatus]
      BY <1>0, <3>2, TaskStatuses
    <3>4. \A d \in Calls : task'[d] = "running" => task[d] = "running"
      BY <1>0, <3>2
    <3> QED
      BY <1>0, <3>1, <3>3, <3>4, QuietTasks
  <2> QED
    BY <1>8, <2>1, ExecuteEffects
<1>9. CASE (\E s \in Steers : Steer(s)) \/ (\E m \in Messages : SendMessage(m)) \/ Cancel
           \/ ResumeInput \/ ResumeAction \/ UNCHANGED vars
  BY <1>0, <1>9, ToolsUnchanged DEF Steer, SendMessage, Cancel, ResumeInput, ResumeAction, vars
<1>10. CASE \E yes \in BOOLEAN : ResumeApproval(yes)
  <2>1. pc = "waiting" /\ wait = "approval" /\ UNCHANGED <<task, journal, effects>>
    BY <1>10 DEF ResumeApproval
  <2>2. granted' = granted \/ granted' = granted \cup ToSet(Decided)
    BY <1>10 DEF ResumeApproval, Decided
  <2>3. ToSet(Decided) \subseteq Calls
    <3>1. PICK n \in 1..Len(pending) : Decided = SubSeq(pending, 1, n)
      BY <1>0, <2>1, DecidedFront
    <3>2. n \in 0..Len(pending)
      BY <1>0
    <3> QED
      BY <1>0, <3>1, <3>2, FrontSubset
  <2> QED
    BY <1>0, <2>1, <2>2, <2>3, QuietTasks
<1>11. CASE Restart
  <2>1. /\ UNCHANGED <<effects, granted>> /\ task' = [c \in Calls |-> "idle"]
        /\ journal' = [c \in Calls |-> IF journal[c] = "running" THEN "indeterminate" ELSE journal[c]]
    BY <1>11 DEF Restart
  <2>2. task' \in [Calls -> TaskStatus] /\ \A c \in Calls : task'[c] = "idle"
    BY <2>1, TaskStatuses
  <2>3. journal' \in [Calls -> EffectStatus]
    BY <1>0, <2>1, TaskStatuses DEF EffectPart
  <2>4. \A i \in DOMAIN effects' : ~Tool[effects'[i]].idempotent
         => journal'[effects'[i]] \in {"succeeded", "indeterminate"}
    <3>1. \A i \in DOMAIN effects : effects[i] \in Calls
      BY <1>0 DEF EffectPart
    <3> QED
      BY <1>0, <2>1, <3>1 DEF EffectPart
  <2> QED
    BY <1>0, <2>1, <2>2, <2>3, <2>4 DEF EffectPart, EffectOnce, NoUnapprovedEffect
<1> QED
  BY <1>1, <1>2, <1>3, <1>4, <1>5, <1>6, <1>7, <1>8, <1>9, <1>10, <1>11 DEF Next, LoopStep, Outside


-----------------------------------------------------------------------------
(* The ledger                                                                *)

LedgerPart == LedgerTypes /\ PendingPart /\ ResponsePart /\ TaskPart /\ AccountPart

(* The Turn ends: what is left of the ledger keeps its types.                *)
LEMMA EndLedger ==
  ASSUME LoopInv, pc' = "ended", wait' = "none", results' \in Seq(Calls),
         response' = response \/ response' = <<>>,
         UNCHANGED <<calls, pending, approved, asked>>, stored' \subseteq stored,
         granted \subseteq granted'
  PROVE  LedgerPart'
<1>1. LedgerTypes'
  <2>1. response' \in Seq(Calls)
    <3>1. <<>> \in Seq(Calls) /\ response \in Seq(Calls)
      BY DEF LoopInv, LedgerTypes
    <3> QED
      BY <3>1
  <2> QED
    BY <2>1 DEF LoopInv, LedgerTypes
<1>2. PendingPart'
  BY DEF LoopInv, PendingPart, Asking
<1>3. ResponsePart'
  BY EmptyFacts DEF LoopInv, ResponsePart
<1>4. TaskPart' /\ AccountPart'
  BY DEF TaskPart, AccountPart
<1> QED
  BY <1>1, <1>2, <1>3, <1>4 DEF LedgerPart

(* Nothing of the Turn moves.                                                *)
LEMMA StayLedger ==
  ASSUME LoopInv, UNCHANGED <<pc, wait, ledger, response, streams, task, granted>>
  PROVE  LedgerPart'
BY DEF LoopInv, LedgerPart, LedgerTypes, PendingPart, ResponsePart, TaskPart, AccountPart,
       StreamedNow, Streamed, Busy, ledger

LEMMA ExecuteLedger ==
  ASSUME LoopInv, NEW c \in Calls, Execute(c)
  PROVE  LedgerPart'
<1>1. /\ UNCHANGED <<pc, wait, response, streams, calls, results, pending, stored, approved, asked, granted>>
      /\ Busy(c)
  BY DEF Execute, BeginExecution, FinishExecution, position, round, ledger, Busy
<1>2. \A d \in Calls : d # c => task'[d] = task[d]
  BY DEF Execute, BeginExecution, FinishExecution, Settle, LoopInv, EffectPart
<1>3. LedgerTypes' /\ PendingPart' /\ ResponsePart'
  BY <1>1 DEF LoopInv, LedgerTypes, PendingPart, ResponsePart
<1>4. ToSet(response) \subseteq Calls
  BY ToSetFacts DEF LoopInv, LedgerTypes
<1>5. /\ pc # "ended" => c \in ToSet(calls) \cup ToSet(response)
      /\ pc = "sampling" /\ ~streams => c \notin ToSet(response)
      /\ pc = "parse" => c \notin ToSet(response)
  BY <1>1 DEF LoopInv, TaskPart, Busy
<1>6. TaskPart'
  BY <1>1, <1>2, <1>4, <1>5 DEF LoopInv, TaskPart, Busy
<1>7. StreamedNow' = StreamedNow
  BY <1>1, <1>2, <1>4, <1>5 DEF StreamedNow, Streamed
<1>8. AccountPart'
  BY <1>1, <1>7 DEF LoopInv, AccountPart
<1> QED
  BY <1>3, <1>6, <1>8 DEF LedgerPart

LEMMA ReceiveLedger ==
  ASSUME LoopInv, NEW c \in Calls, ReceiveCall(c)
  PROVE  LedgerPart'
<1>1. /\ UNCHANGED <<pc, wait, streams, calls, results, pending, stored, approved, asked, granted>>
      /\ pc = "sampling" /\ response' = Append(response, c)
      /\ c \notin ToSet(response) /\ c \notin ToSet(calls)
      /\ \A d \in Calls : d # c => task'[d] = task[d]
      /\ ~streams => task' = task
  BY DEF ReceiveCall, position, ledger, LoopInv, EffectPart
<1>2. /\ response' \in Seq(Calls) /\ ToSet(response') = ToSet(response) \cup {c}
      /\ IsInjective(response')
  BY <1>1, AppendFacts DEF LoopInv, LedgerTypes, ResponsePart
<1>3. ToSet(response) \subseteq Calls
  BY ToSetFacts DEF LoopInv, LedgerTypes
<1>4. LedgerTypes'
  BY <1>1, <1>2 DEF LoopInv, LedgerTypes
<1>5. PendingPart'
  BY <1>1 DEF LoopInv, PendingPart
<1>6. ResponsePart'
  BY <1>1, <1>2 DEF LoopInv, ResponsePart
<1>7. TaskPart'
  BY <1>1, <1>2, <1>3 DEF LoopInv, TaskPart
<1>8. AccountPart'
  BY <1>1 DEF LoopInv, AccountPart, StreamedNow
<1> QED
  BY <1>4, <1>5, <1>6, <1>7, <1>8 DEF LedgerPart

LEMMA StartRoundLedger ==
  ASSUME LoopInv, StartRound
  PROVE  LedgerPart'
<1>1. pc = "round" /\ UNCHANGED <<calls, results, pending, stored, approved, asked, task, granted>>
  BY DEF StartRound, ledger, tools
<1>2. \/ pc' = "ended" /\ wait' = "none" /\ response' = response
      \/ pc' = "sampling" /\ wait' = wait /\ response' = <<>>
  BY DEF StartRound, End, Go, round
<1>3. CASE pc' = "ended" /\ wait' = "none" /\ response' = response
  BY <1>1, <1>3, EndLedger DEF LoopInv, LedgerTypes
<1>4. CASE pc' = "sampling" /\ wait' = wait /\ response' = <<>>
  <2>1. pending = <<>> /\ response = <<>>
    BY <1>1 DEF LoopInv, PendingPart, ResponsePart, Asking
  <2>2. LedgerTypes'
    BY <1>1, <1>4 DEF LoopInv, LedgerTypes
  <2>3. PendingPart'
    BY <1>1, <1>4, <2>1 DEF LoopInv, PendingPart, Asking
  <2>4. ResponsePart'
    BY <1>1, <1>4, EmptyFacts DEF LoopInv, ResponsePart
  <2>5. TaskPart'
    BY <1>1, <1>4, <2>1, EmptyFacts DEF LoopInv, TaskPart
  <2>6. AccountPart'
    BY <1>1, <1>4 DEF LoopInv, AccountPart, StreamedNow
  <2> QED
    BY <2>2, <2>3, <2>4, <2>5, <2>6 DEF LedgerPart
<1> QED
  BY <1>2, <1>3, <1>4

(* commit_streaming_tool_execution adds the results of the calls that ran.   *)
LEMMA CommitFacts ==
  ASSUME LoopInv, pc = "sampling", CommitStreamed
  PROVE  /\ results' \in Seq(Calls) /\ IsInjective(results')
         /\ ToSet(results') = ToSet(calls) \cup {c \in ToSet(response) : Streamed(c)}
<1> DEFINE kept == {i \in DOMAIN response : Streamed(response[i])}
           new == Picked(response, kept)
<1>1. results \in Seq(Calls) /\ response \in Seq(Calls) /\ kept \in SUBSET DOMAIN response
  BY DEF LoopInv, LedgerTypes
<1>2. results' = results \o new
  BY DEF CommitStreamed
<1>3. pending = <<>> /\ IsInjective(response) /\ ToSet(response) \cap ToSet(calls) = {}
  BY DEF LoopInv, PendingPart, ResponsePart, Asking
<1>4. IsInjective(results) /\ ToSet(results) = ToSet(calls)
  BY <1>3, EmptyFacts DEF LoopInv, AccountPart, StreamedNow
<1>5. {response[i] : i \in kept} = {c \in ToSet(response) : Streamed(c)}
  BY DEF ToSet
<1>6. new \in Seq(Calls) /\ ToSet(new) = {response[i] : i \in kept} /\ IsInjective(new)
  <2> HIDE DEF kept
  <2> QED
    BY <1>1, <1>3, PickedFacts
<1> HIDE DEF new
<1>7. ToSet(results) \cap ToSet(new) = {}
  BY <1>3, <1>4, <1>5, <1>6
<1> QED
  BY <1>1, <1>2, <1>4, <1>5, <1>6, <1>7, ConcatFacts

LEMMA BrokenLedger ==
  ASSUME LoopInv, Broken \/ JoinFails
  PROVE  LedgerPart'
<1>1. CASE Broken
  <2>1. pc = "sampling" /\ CommitStreamed
        /\ UNCHANGED <<response, calls, pending, stored, approved, asked, granted>>
        /\ pc' = "ended" /\ wait' = "none"
    BY <1>1 DEF Broken, End, round, tools
  <2>2. results' \in Seq(Calls)
    BY <2>1, CommitFacts
  <2> QED
    BY <2>1, <2>2, EndLedger
<1>2. CASE JoinFails
  <2>1. /\ UNCHANGED <<response, calls, results, pending, stored, approved, asked, granted>>
        /\ pc' = "ended" /\ wait' = "none"
    BY <1>2 DEF JoinFails, End, round, tools, ledger
  <2> QED
    BY <2>1, EndLedger DEF LoopInv, LedgerTypes
<1> QED
  BY <1>1, <1>2

LEMMA OverflowLedger ==
  ASSUME LoopInv, Overflowed
  PROVE  LedgerPart'
<1>1. /\ pc = "sampling" /\ CommitStreamed
      /\ UNCHANGED <<calls, pending, stored, approved, asked, task, granted>>
  BY DEF Overflowed, tools
<1>2. /\ results' \in Seq(Calls) /\ IsInjective(results')
      /\ ToSet(results') = ToSet(calls) \cup {c \in ToSet(response) : Streamed(c)}
  BY <1>1, CommitFacts
<1>3. \/ pc' = "ended" /\ wait' = "none" /\ response' = response
      \/ pc' = "sampling" /\ wait' = wait /\ response' = <<>> /\ MayRetry
  BY DEF Overflowed, End, Go, round
<1>4. CASE pc' = "ended" /\ wait' = "none" /\ response' = response
  BY <1>1, <1>2, <1>4, EndLedger
<1>5. CASE pc' = "sampling" /\ wait' = wait /\ response' = <<>> /\ MayRetry
  <2>1. \A c \in ToSet(response) : task[c] = "idle"
    <3>1. CASE response = <<>>
      BY <3>1, EmptyFacts
    <3>2. CASE response # <<>>
      BY <1>1, <1>5, <3>2 DEF MayRetry, LoopInv, TaskPart
    <3> QED
      BY <3>1, <3>2
  <2>2. {c \in ToSet(response) : Streamed(c)} = {}
    BY <2>1 DEF Streamed
  <2>3. pending = <<>>
    BY <1>1 DEF LoopInv, PendingPart, Asking
  <2>4. LedgerTypes'
    BY <1>1, <1>2, <1>5 DEF LoopInv, LedgerTypes
  <2>5. PendingPart'
    BY <1>1, <1>5 DEF LoopInv, PendingPart, Asking
  <2>6. ResponsePart'
    BY <1>1, <1>5, EmptyFacts DEF LoopInv, ResponsePart
  <2>7. TaskPart'
    BY <1>1, <1>5, <2>1, EmptyFacts DEF LoopInv, TaskPart
  <2>8. AccountPart'
    BY <1>1, <1>2, <1>5, <2>2, <2>3, EmptyFacts DEF AccountPart, StreamedNow
  <2> QED
    BY <2>4, <2>5, <2>6, <2>7, <2>8 DEF LedgerPart
<1> QED
  BY <1>3, <1>4, <1>5

LEMMA AnsweredLedger ==
  ASSUME LoopInv, Answered
  PROVE  LedgerPart'
<1>1. /\ pc = "sampling" /\ CommitStreamed /\ Joined
      /\ UNCHANGED <<response, calls, pending, stored, approved, asked, task, granted>>
  BY DEF Answered, tools, round
<1>2. /\ results' \in Seq(Calls) /\ IsInjective(results')
      /\ ToSet(results') = ToSet(calls) \cup {c \in ToSet(response) : Streamed(c)}
  BY <1>1, CommitFacts
<1>3. \/ pc' = "ended" /\ wait' = "none"
      \/ pc' = "parse" /\ wait' = wait
  BY DEF Answered, End, Go
<1>4. CASE pc' = "ended" /\ wait' = "none"
  BY <1>1, <1>2, <1>4, EndLedger
<1>5. CASE pc' = "parse" /\ wait' = wait
  <2>1. pending = <<>>
    BY <1>1 DEF LoopInv, PendingPart, Asking
  <2>2. \A c \in ToSet(response) : ~Busy(c)
    BY <1>1 DEF Joined, Settled
  <2>3. LedgerTypes'
    BY <1>1, <1>2 DEF LoopInv, LedgerTypes
  <2>4. PendingPart'
    BY <1>1, <1>5 DEF LoopInv, PendingPart, Asking
  <2>5. ResponsePart'
    BY <1>1, <1>5 DEF LoopInv, ResponsePart
  <2>6. TaskPart'
    BY <1>1, <1>5, <2>2 DEF LoopInv, TaskPart, Busy
  <2>7. StreamedNow' = {c \in ToSet(response) : Streamed(c)}
    BY <1>1, <1>5 DEF StreamedNow, Streamed
  <2>8. AccountPart'
    BY <1>1, <1>2, <1>5, <2>1, <2>7, EmptyFacts DEF AccountPart
  <2> QED
    BY <2>3, <2>4, <2>5, <2>6, <2>8 DEF LedgerPart
<1> QED
  BY <1>3, <1>4, <1>5


(* PostParse turns an answer into pending calls: what ran while it arrived   *)
(* has its result, the rest waits.                                           *)
LEMMA PostParseLedger ==
  ASSUME LoopInv, PostParse
  PROVE  LedgerPart'
<1> DEFINE kept == {i \in DOMAIN response : Unanswered(response[i])}
<1>1. /\ pc = "parse" /\ response' = <<>>
      /\ UNCHANGED <<results, stored, approved, asked, granted>>
  BY DEF PostParse
<1>2. \/ pc' = "ended" /\ wait' = "none" /\ UNCHANGED <<calls, pending, task>>
      \/ /\ pc' \in {"round", "final"} /\ wait' = wait /\ UNCHANGED <<calls, pending, task>>
         /\ response = <<>>
      \/ /\ pc' = "pending" /\ wait' = wait
         /\ calls' = calls \o response /\ pending' = Picked(response, kept)
         /\ task' = [c \in Calls |-> IF task[c] = "approval" THEN "idle" ELSE task[c]]
  BY DEF PostParse, End, Go
<1>3. pending = <<>>
  BY <1>1 DEF LoopInv, PendingPart, Asking
<1>4. CASE pc' = "ended" /\ wait' = "none" /\ UNCHANGED <<calls, pending, task>>
  BY <1>1, <1>4, EndLedger DEF LoopInv, LedgerTypes
<1>5. CASE /\ pc' \in {"round", "final"} /\ wait' = wait /\ UNCHANGED <<calls, pending, task>>
           /\ response = <<>>
  <2>1. LedgerTypes'
    BY <1>1, <1>5 DEF LoopInv, LedgerTypes
  <2>2. PendingPart'
    BY <1>1, <1>3, <1>5 DEF LoopInv, PendingPart, Asking
  <2>3. ResponsePart'
    BY <1>1, <1>5 DEF LoopInv, ResponsePart
  <2>4. TaskPart'
    BY <1>1, <1>5 DEF LoopInv, TaskPart
  <2>5. StreamedNow = {} /\ StreamedNow' = {}
    BY <1>1, <1>5, EmptyFacts DEF StreamedNow
  <2>6. AccountPart'
    BY <1>1, <1>5, <2>5 DEF LoopInv, AccountPart
  <2> QED
    BY <2>1, <2>2, <2>3, <2>4, <2>6 DEF LedgerPart
<1>6. CASE /\ pc' = "pending" /\ wait' = wait
           /\ calls' = calls \o response /\ pending' = Picked(response, kept)
           /\ task' = [c \in Calls |-> IF task[c] = "approval" THEN "idle" ELSE task[c]]
  <2>1. /\ response \in Seq(Calls) /\ calls \in Seq(Calls) /\ kept \in SUBSET DOMAIN response
        /\ IsInjective(response) /\ IsInjective(calls)
        /\ ToSet(calls) \cap ToSet(response) = {}
    BY DEF LoopInv, LedgerTypes, ResponsePart
  <2>2. {response[i] : i \in kept} = {c \in ToSet(response) : ~Streamed(c)}
    BY DEF ToSet, Unanswered
  <2>3. /\ pending' \in Seq(Calls) /\ ToSet(pending') = {response[i] : i \in kept}
        /\ IsInjective(pending')
    <3> HIDE DEF kept
    <3> QED
      BY <1>6, <2>1, PickedFacts
  <2>4. /\ calls' \in Seq(Calls) /\ ToSet(calls') = ToSet(calls) \cup ToSet(response)
        /\ IsInjective(calls')
    BY <1>6, <2>1, ConcatFacts
  <2>5. stored = {} /\ approved = 0 /\ asked = <<>>
    <3>1. stored = {} /\ approved = 0
      BY <1>3, EmptyFacts DEF LoopInv, LedgerTypes
    <3>2. asked = <<>>
      BY <1>1 DEF LoopInv, PendingPart, PositionPart
    <3> QED
      BY <3>1, <3>2
  <2>6. LedgerTypes'
    <3>1. response' \in Seq(Calls) /\ approved' \in 0..Len(pending')
      BY <1>1, <2>3, <2>5
    <3> QED
      BY <1>1, <2>3, <2>4, <2>5, <3>1 DEF LoopInv, LedgerTypes
  <2>7. PendingPart'
    <3>1. wait' = "none"
      BY <1>1, <1>6 DEF LoopInv, PositionPart
    <3> QED
      BY <1>1, <1>6, <2>5, <3>1 DEF PendingPart, Asking
  <2>8. ResponsePart'
    BY <1>1, <1>6, <2>4, EmptyFacts DEF ResponsePart
  <2>9. TaskPart'
    BY <1>1, <1>6, <2>4 DEF LoopInv, TaskPart
  <2>10. AccountPart'
    <3>1. StreamedNow = {c \in ToSet(response) : Streamed(c)} /\ StreamedNow' = {}
      BY <1>1, <1>6 DEF StreamedNow
    <3>2. IsInjective(results) /\ ToSet(results) = ToSet(calls) \cup {c \in ToSet(response) : Streamed(c)}
      BY <1>1, <1>3, <3>1, EmptyFacts DEF LoopInv, AccountPart
    <3>3. /\ ToSet(results') \cap ToSet(pending') = {}
          /\ ToSet(results') \cup ToSet(pending') = ToSet(calls')
      BY <1>1, <2>1, <2>2, <2>3, <2>4, <3>2
    <3> QED
      BY <1>1, <1>6, <2>3, <3>1, <3>2, <3>3 DEF AccountPart
  <2> QED
    BY <2>6, <2>7, <2>8, <2>9, <2>10 DEF LedgerPart
<1> QED
  BY <1>2, <1>4, <1>5, <1>6

(* Steps between points where the ledger is complete.                        *)
LEMMA MoveLedger ==
  ASSUME LoopInv, AllDone \/ Finalize \/ BatchDone
  PROVE  LedgerPart'
<1>1. /\ UNCHANGED <<calls, results, pending, stored, approved, asked, response, streams, task, granted>>
      /\ \/ pc' = "ended" /\ wait' = "none"
         \/ wait' = wait /\ pc = "pending" /\ pc' = "round" /\ pending = <<>>
         \/ wait' = wait /\ pc = "final" /\ pc' = "round"
         \/ wait' = wait /\ pc = "batch" /\ pc' = "pending"
  BY DEF AllDone, Finalize, BatchDone, Go, End, ledger, round, tools
<1>2. CASE pc' = "ended" /\ wait' = "none"
  BY <1>1, <1>2, EndLedger DEF LoopInv, LedgerTypes
<1>3. CASE pc' # "ended"
  <2>1. LedgerTypes'
    BY <1>1 DEF LoopInv, LedgerTypes
  <2>2. PendingPart'
    BY <1>1, <1>3 DEF LoopInv, PendingPart, Asking
  <2>3. ResponsePart'
    BY <1>1, <1>3 DEF LoopInv, ResponsePart
  <2>4. TaskPart'
    BY <1>1, <1>3 DEF LoopInv, TaskPart, Busy
  <2>5. AccountPart'
    BY <1>1, <1>3 DEF LoopInv, AccountPart, StreamedNow
  <2> QED
    BY <2>1, <2>2, <2>3, <2>4, <2>5 DEF LedgerPart
<1> QED
  BY <1>1, <1>2, <1>3

(* The calls in front get their results.                                     *)
LEMMA AnswerFront ==
  ASSUME LoopInv, pc \in {"pending", "call", "waiting"}, NEW n \in 0..Len(pending),
         results' = results \o SubSeq(pending, 1, n), Drop(n), calls' = calls,
         granted' = granted
  PROVE  /\ results' \in Seq(Calls) /\ pending' \in Seq(Calls) /\ approved' \in 0..Len(pending')
         /\ IsInjective(results') /\ IsInjective(pending')
         /\ ToSet(results') \cap ToSet(pending') = {}
         /\ ToSet(results') \cup ToSet(pending') = ToSet(calls')
         /\ ToSet(pending') = ToSet(pending) \ {pending[i] : i \in 1..n}
         /\ \A i \in 1..approved' : pending'[i] \in granted'
<1> DEFINE front == SubSeq(pending, 1, n)
           rest == SubSeq(pending, n + 1, Len(pending))
<1>1. /\ pending \in Seq(Calls) /\ results \in Seq(Calls) /\ approved \in 0..Len(pending)
      /\ Len(pending) \in Nat
      /\ IsInjective(results) /\ IsInjective(pending)
      /\ ToSet(results) \cap ToSet(pending) = {}
      /\ ToSet(results) \cup ToSet(pending) = ToSet(calls)
  BY DEF LoopInv, LedgerTypes, AccountPart, StreamedNow
<1>2. /\ front \in Seq(Calls) /\ rest \in Seq(Calls) /\ Len(rest) = Len(pending) - n
      /\ ToSet(front) = {pending[i] : i \in 1..n}
      /\ ToSet(pending) = ToSet(front) \cup ToSet(rest)
      /\ IsInjective(front) /\ IsInjective(rest) /\ ToSet(front) \cap ToSet(rest) = {}
      /\ \A i \in 1..(Len(pending) - n) : rest[i] = pending[n + i]
  BY <1>1, SplitFacts
<1>3. results' = results \o front /\ pending' = rest
      /\ approved' = IF approved > n THEN approved - n ELSE 0
  BY DEF Drop
<1> HIDE DEF front, rest
<1>4. /\ results' \in Seq(Calls) /\ ToSet(results') = ToSet(results) \cup ToSet(front)
      /\ IsInjective(results')
  <2>1. ToSet(results) \cap ToSet(front) = {}
    BY <1>1, <1>2
  <2>2. results \in Seq(Calls) /\ front \in Seq(Calls) /\ IsInjective(results) /\ IsInjective(front)
    BY <1>1, <1>2
  <2>3. /\ results \o front \in Seq(Calls)
        /\ ToSet(results \o front) = ToSet(results) \cup ToSet(front)
        /\ IsInjective(results \o front)
    BY <2>1, <2>2, ConcatFacts
  <2> QED
    BY <1>3, <2>3
<1>5. /\ ToSet(results') \cap ToSet(pending') = {}
      /\ ToSet(results') \cup ToSet(pending') = ToSet(calls')
      /\ ToSet(pending') = ToSet(pending) \ {pending[i] : i \in 1..n}
  BY <1>1, <1>2, <1>3, <1>4
<1>6. approved' \in 0..Len(pending')
  BY <1>1, <1>2, <1>3
<1>7. ASSUME NEW i \in 1..approved' PROVE pending'[i] \in granted'
  <2>1. approved > n /\ n + i \in 1..approved /\ i \in 1..(Len(pending) - n)
    BY <1>1, <1>3
  <2>2. pending'[i] = pending[n + i]
    BY <1>2, <1>3, <2>1
  <2> QED
    BY <2>1, <2>2 DEF LoopInv, PendingPart
<1> QED
  BY <1>2, <1>3, <1>4, <1>5, <1>6, <1>7


Working == {"pending", "batch", "call", "waiting"}

(* While calls are worked on, only those of the ledger have tasks.           *)
KnownTasks(ts) == \A c \in Calls : c \in ToSet(calls) \/ ts[c] = "idle"

LEMMA WorkingFacts ==
  ASSUME LoopInv, pc \in Working
  PROVE  /\ response = <<>> /\ KnownTasks(task)
         /\ pending \in Seq(Calls) /\ ToSet(pending) \subseteq ToSet(calls)
         /\ IsInjective(results) /\ IsInjective(pending)
         /\ ToSet(results) \cap ToSet(pending) = {}
         /\ ToSet(results) \cup ToSet(pending) = ToSet(calls)
         /\ pc # "waiting" => asked = <<>> /\ wait = "none"
<1>1. response = <<>>
  BY DEF LoopInv, ResponsePart, Working
<1>2. KnownTasks(task)
  BY <1>1, EmptyFacts DEF LoopInv, TaskPart, Working, KnownTasks
<1>3. /\ IsInjective(results) /\ IsInjective(pending)
      /\ ToSet(results) \cap ToSet(pending) = {}
      /\ ToSet(results) \cup ToSet(pending) = ToSet(calls)
  BY DEF LoopInv, AccountPart, StreamedNow, Working
<1>4. pc # "waiting" => asked = <<>> /\ wait = "none"
  BY DEF LoopInv, PendingPart, PositionPart, Working
<1> QED
  BY <1>1, <1>2, <1>3, <1>4 DEF LoopInv, LedgerTypes

(* A working step after which every call of the ledger still has its result  *)
(* or is pending.                                                            *)
LEMMA WorkLedger ==
  ASSUME LoopInv, pc \in Working, pc' \in Working, calls' = calls, response' = <<>>,
         LedgerTypes', PendingPart', KnownTasks(task'),
         IsInjective(results'), IsInjective(pending'), ToSet(results') \cap ToSet(pending') = {},
         ToSet(results') \cup ToSet(pending') = ToSet(calls')
  PROVE  LedgerPart'
<1>1. ResponsePart'
  BY EmptyFacts DEF LoopInv, ResponsePart
<1>2. TaskPart'
  BY DEF Working, TaskPart, KnownTasks
<1>3. AccountPart'
  BY DEF Working, AccountPart, StreamedNow
<1> QED
  BY <1>1, <1>2, <1>3 DEF LedgerPart

(* The calls in front get their results, and the Turn goes on or asks.       *)
LEMMA AnswerLedger ==
  ASSUME LoopInv, pc \in {"pending", "call", "waiting"}, NEW n \in 0..Len(pending),
         results' = results \o SubSeq(pending, 1, n), Drop(n),
         UNCHANGED <<calls, granted, response>>, asked' = <<>>,
         stored' \subseteq ToSet(pending) \ {pending[i] : i \in 1..n},
         \/ pc' = "pending" /\ wait' = "none"
         \/ pc' = "waiting" /\ wait' = "input" /\ stored' = {},
         KnownTasks(task')
  PROVE  LedgerPart'
<1>1. /\ results' \in Seq(Calls) /\ pending' \in Seq(Calls) /\ approved' \in 0..Len(pending')
      /\ IsInjective(results') /\ IsInjective(pending')
      /\ ToSet(results') \cap ToSet(pending') = {}
      /\ ToSet(results') \cup ToSet(pending') = ToSet(calls')
      /\ ToSet(pending') = ToSet(pending) \ {pending[i] : i \in 1..n}
      /\ \A i \in 1..approved' : pending'[i] \in granted'
  BY AnswerFront
<1>2. pc \in Working /\ pc' \in Working /\ response' = <<>>
  BY WorkingFacts DEF Working
<1>3. LedgerTypes'
  <2>1. asked' \in Seq(Calls) /\ response' \in Seq(Calls) /\ calls' \in Seq(Calls)
    BY <1>2 DEF LoopInv, LedgerTypes
  <2> QED
    BY <1>1, <2>1 DEF LedgerTypes
<1>4. PendingPart'
  BY <1>1 DEF PendingPart, Asking
<1> QED
  BY <1>1, <1>2, <1>3, <1>4, WorkLedger

(* Calls stay where they are, with other grants, questions or tasks.         *)
LEMMA KeepLedger ==
  ASSUME LoopInv, pc \in Working, pc' \in Working, response' = <<>>,
         UNCHANGED <<calls, results, pending>>,
         asked' \in Seq(Calls), stored' \subseteq ToSet(pending), approved' \in 0..Len(pending),
         PendingPart', KnownTasks(task')
  PROVE  LedgerPart'
<1>1. LedgerTypes'
  <2>1. response' \in Seq(Calls)
    OBVIOUS
  <2> QED
    BY <2>1 DEF LoopInv, LedgerTypes
<1> QED
  BY <1>1, WorkingFacts, WorkLedger

LEMMA TakeOutcomeLedger ==
  ASSUME LoopInv, TakeOutcome
  PROVE  LedgerPart'
<1> DEFINE h == Head(pending)
<1>1. /\ pc = "pending" /\ pending # <<>> /\ stored' = stored \ {h}
      /\ UNCHANGED <<response, calls, asked, granted>>
  BY DEF TakeOutcome, round
<1>2. pc \in Working /\ asked = <<>> /\ wait = "none" /\ response = <<>> /\ pending \in Seq(Calls)
      /\ KnownTasks(task) /\ stored \subseteq ToSet(pending)
  BY <1>1, WorkingFacts DEF Working, LoopInv, LedgerTypes
<1>3. h = pending[1] /\ <<h>> = SubSeq(pending, 1, 1) /\ 1 \in 0..Len(pending)
  BY <1>1, <1>2, FrontOne
<1> HIDE DEF h
<1>4. \/ results' = Append(results, h) /\ Drop(1) /\ UNCHANGED <<pc, wait, task>>
      \/ task' = [task EXCEPT ![h] = "idle"] /\ UNCHANGED <<pc, wait, results, pending, approved>>
      \/ pc' = "ended" /\ wait' = "none" /\ UNCHANGED <<results, pending, approved, task>>
  BY DEF TakeOutcome, End, position, h
<1>5. CASE results' = Append(results, h) /\ Drop(1) /\ UNCHANGED <<pc, wait, task>>
  <2>1. results' = results \o SubSeq(pending, 1, 1)
    <3>1. results \in Seq(Calls) /\ h \in Calls
      BY <1>1, <1>2, <1>3, FrontOne DEF LoopInv, LedgerTypes
    <3>2. Append(results, h) = results \o <<h>>
      BY <3>1
    <3> QED
      BY <1>3, <1>5, <3>2
  <2>2. \A i \in 1..1 : i = 1
    OBVIOUS
  <2>3. stored' \subseteq ToSet(pending) \ {pending[i] : i \in 1..1}
    BY <1>1, <1>2, <1>3, <2>2
  <2> QED
    BY <1>1, <1>2, <1>3, <1>5, <2>1, <2>3, AnswerLedger
<1>6. CASE task' = [task EXCEPT ![h] = "idle"] /\ UNCHANGED <<pc, wait, results, pending, approved>>
  <2>1. PendingPart'
    BY <1>1, <1>6 DEF LoopInv, PendingPart, Asking
  <2>2. KnownTasks(task')
    BY <1>2, <1>6 DEF KnownTasks, LoopInv, EffectPart
  <2>3. asked' \in Seq(Calls) /\ approved' \in 0..Len(pending)
    BY <1>1, <1>6 DEF LoopInv, LedgerTypes
  <2> QED
    BY <1>1, <1>2, <1>6, <2>1, <2>2, <2>3, KeepLedger
<1>7. CASE pc' = "ended" /\ wait' = "none" /\ UNCHANGED <<results, pending, approved, task>>
  BY <1>1, <1>7, EndLedger DEF LoopInv, LedgerTypes
<1> QED
  BY <1>4, <1>5, <1>6, <1>7

LEMMA IdleKnown ==
  ASSUME KnownTasks(task), NEW cs, task' = [c \in Calls |-> IF c \in cs THEN "idle" ELSE task[c]]
  PROVE  KnownTasks(task')
BY DEF KnownTasks

(* What Review does to the calls of a batch in front of pending.             *)
LEMMA ReviewLedger ==
  ASSUME LoopInv, NEW n \in 1..Len(pending), NEW ids,
         \/ pc = "pending" /\ stored = {}
         \/ pc = "call" /\ n = 1,
         Review(SubSeq(pending, 1, n), ids), ids = SubSeq(pending, 1, n) \/ ids = <<>>,
         UNCHANGED <<calls, response>>
  PROVE  LedgerPart'
<1> DEFINE batch == SubSeq(pending, 1, n)
<1>1. /\ pc \in Working /\ asked = <<>> /\ wait = "none" /\ response = <<>> /\ pending \in Seq(Calls)
      /\ KnownTasks(task) /\ stored \subseteq ToSet(pending) /\ approved \in 0..Len(pending)
      /\ ToSet(pending) \subseteq Calls
  BY WorkingFacts, ToSetFacts DEF Working, LoopInv, LedgerTypes
<1>2. n \in 0..Len(pending) /\ pending # <<>> /\ Len(pending) \in Nat /\ n \in Nat
  BY <1>1
<1>3. /\ batch \in Seq(Calls) /\ Len(batch) = n /\ ToSet(batch) = {pending[i] : i \in 1..n}
  BY <1>1, <1>2, SplitFacts
<1>4. IsPrefix(batch, pending)
  <2>1. SubSeq(batch, 1, Len(batch)) = batch
    BY <1>3, SubSeqFull
  <2> QED
    BY <1>2, <1>3, <2>1 DEF IsPrefix
<1>5. /\ Review(batch, ids)
      /\ \/ ids = batch
         \/ ids = <<>>
  OBVIOUS
<1>6. stored \subseteq ToSet(pending) \ {pending[i] : i \in 1..n}
  <2>1. CASE stored = {}
    BY <2>1
  <2>2. CASE pc = "call" /\ n = 1
    <3>1. \A i \in 1..n : i = 1
      BY <2>2
    <3>2. pending[1] \notin stored
      BY <2>2 DEF LoopInv, PendingPart
    <3> QED
      BY <1>1, <3>1, <3>2
  <2> QED
    BY <2>1, <2>2
<1> HIDE DEF batch
<1>7. \/ /\ Suspend("approval") /\ asked' = ids /\ Forget(pending)
         /\ UNCHANGED <<results, pending, approved, granted>>
      \/ /\ Go("pending") /\ approved' = n /\ granted' = granted \cup ToSet(batch)
         /\ task' = [c \in Calls |-> IF c \in ToSet(batch) THEN "idle" ELSE task[c]]
         /\ UNCHANGED <<results, pending, stored, asked>>
      \/ /\ Go("pending") /\ results' = results \o batch /\ Drop(n)
         /\ UNCHANGED <<stored, asked, granted, task>>
      \/ End("failed") /\ UNCHANGED <<results, pending, stored, approved, asked, granted, task>>
  BY <1>3, <1>5 DEF Review
<1>8. CASE /\ Suspend("approval") /\ asked' = ids /\ Forget(pending)
           /\ UNCHANGED <<results, pending, approved, granted>>
  <2>1. KnownTasks(task')
    BY <1>1, <1>8, IdleKnown DEF Forget
  <2>2. pc' = "waiting" /\ wait' = "approval" /\ stored' = {}
    BY <1>8 DEF Suspend, Forget
  <2>3. asked' \in Seq(Calls) /\ (asked' # <<>> => IsPrefix(asked', pending))
    <3>1. <<>> \in Seq(Calls)
      OBVIOUS
    <3> QED
      BY <1>3, <1>4, <1>5, <1>8, <3>1
  <2>4. PendingPart'
    BY <1>2, <1>8, <2>2, <2>3 DEF LoopInv, PendingPart, Asking
  <2>5. pc' \in Working /\ response' = <<>> /\ stored' \subseteq ToSet(pending) /\ approved' \in 0..Len(pending)
    BY <1>1, <1>8, <2>2 DEF Working
  <2> QED
    BY <1>1, <1>8, <2>1, <2>3, <2>4, <2>5, KeepLedger
<1>9. CASE /\ Go("pending") /\ approved' = n /\ granted' = granted \cup ToSet(batch)
           /\ task' = [c \in Calls |-> IF c \in ToSet(batch) THEN "idle" ELSE task[c]]
           /\ UNCHANGED <<results, pending, stored, asked>>
  <2>1. KnownTasks(task')
    BY <1>1, <1>9, IdleKnown
  <2>2. pc' = "pending" /\ wait' = "none"
    BY <1>1, <1>9 DEF Go
  <2>3. \A i \in 1..n : pending[i] \in granted'
    BY <1>3, <1>9
  <2>4. PendingPart'
    BY <1>1, <1>9, <2>2, <2>3 DEF PendingPart, Asking
  <2>5. /\ pc' \in Working /\ response' = <<>> /\ stored' \subseteq ToSet(pending)
        /\ approved' \in 0..Len(pending) /\ asked' \in Seq(Calls)
    BY <1>1, <1>2, <1>9, <2>2 DEF Working
  <2> QED
    BY <1>1, <1>9, <2>1, <2>4, <2>5, KeepLedger
<1>10. CASE /\ Go("pending") /\ results' = results \o batch /\ Drop(n)
            /\ UNCHANGED <<stored, asked, granted, task>>
  <2>1. pc' = "pending" /\ wait' = "none" /\ pc \in {"pending", "call", "waiting"}
    BY <1>1, <1>10 DEF Go
  <2>2. results' = results \o SubSeq(pending, 1, n)
    BY <1>10 DEF batch
  <2> QED
    BY <1>1, <1>2, <1>6, <1>10, <2>1, <2>2, AnswerLedger
<1>11. CASE End("failed") /\ UNCHANGED <<results, pending, stored, approved, asked, granted, task>>
  <2>1. pc' = "ended" /\ wait' = "none" /\ results' \in Seq(Calls)
    BY <1>11 DEF End, LoopInv, LedgerTypes
  <2> QED
    BY <1>11, <2>1, EndLedger
<1> QED
  BY <1>7, <1>8, <1>9, <1>10, <1>11

LEMMA ApprovalBatchLedger ==
  ASSUME LoopInv, ApprovalBatch
  PROVE  LedgerPart'
<1> DEFINE batch == approval_candidates(pending)
<1>1. /\ pc = "pending" /\ stored = {} /\ batch # <<>> /\ Review(batch, batch)
      /\ UNCHANGED <<calls, response>>
  BY DEF ApprovalBatch, round
<1>2. pending \in Seq(Calls) /\ Len(pending) \in Nat
  BY DEF LoopInv, LedgerTypes
<1>3. PICK n \in 0..Len(pending) : batch = SubSeq(pending, 1, n)
  BY <1>2, CandidatesFront
<1>4. Len(SubSeq(pending, 1, n)) = n
  BY <1>2, SplitFacts
<1> HIDE DEF batch
<1>5. n # 0
  <2>1. SUFFICES ASSUME n = 0 PROVE FALSE
    OBVIOUS
  <2>2. batch \in Seq(Calls)
    BY <1>2, <1>3, SplitFacts
  <2> QED
    BY <1>1, <1>3, <1>4, <2>1, <2>2, ToSetFacts
<1>6. n \in 1..Len(pending)
  BY <1>2, <1>5
<1>7. Review(SubSeq(pending, 1, n), batch)
  BY <1>1, <1>3
<1> QED
  BY <1>1, <1>3, <1>6, <1>7, ReviewLedger

(* Calls are launched: nothing but their tasks changes.                      *)
LEMMA LaunchLedger ==
  ASSUME LoopInv, pc = "pending", pc' \in {"batch", "call"}, wait' = wait,
         UNCHANGED <<calls, results, pending, approved, asked, granted, response>>,
         NEW cs, cs \subseteq ToSet(pending), Launch(cs),
         stored' \subseteq ToSet(pending),
         pc' = "call" => pending # <<>> /\ pending[1] \notin stored'
  PROVE  LedgerPart'
<1>1. /\ pc \in Working /\ asked = <<>> /\ wait = "none" /\ response = <<>>
      /\ KnownTasks(task) /\ approved \in 0..Len(pending) /\ asked \in Seq(Calls)
      /\ ToSet(pending) \subseteq ToSet(calls)
  BY WorkingFacts DEF Working, LoopInv, LedgerTypes
<1>2. KnownTasks(task')
  BY <1>1 DEF KnownTasks, Launch
<1>3. PendingPart'
  BY <1>1 DEF LoopInv, PendingPart, Asking
<1> QED
  BY <1>1, <1>2, <1>3, KeepLedger DEF Working

LEMMA StartLedger ==
  ASSUME LoopInv, StartBatch \/ StartCall
  PROVE  LedgerPart'
<1>1. /\ pc = "pending" /\ wait' = wait
      /\ UNCHANGED <<calls, results, pending, approved, asked, granted, response>>
  BY DEF StartBatch, StartCall, Go, round, ledger
<1>2. pending \in Seq(Calls) /\ DOMAIN pending = 1..Len(pending)
  BY DEF LoopInv, LedgerTypes
<1>3. CASE StartBatch
  <2>1. PICK K \in NextBatch : /\ Launch({pending[i] : i \in K})
                               /\ stored' = {pending[i] : i \in K}
    BY <1>3 DEF StartBatch
  <2>2. {pending[i] : i \in K} \subseteq ToSet(pending)
    BY <1>2, ToSetFacts DEF NextBatch
  <2>3. pc' = "batch"
    BY <1>3 DEF StartBatch, Go
  <2> QED
    BY <1>1, <2>1, <2>2, <2>3, LaunchLedger
<1>4. CASE StartCall
  <2>1. /\ pending # <<>> /\ Head(pending) \notin stored /\ Launch({Head(pending)})
        /\ stored' = stored /\ pc' = "call"
    BY <1>4 DEF StartCall, Go, ledger
  <2>2. Head(pending) = pending[1] /\ 1 \in 0..Len(pending)
    BY <1>2, <2>1, FrontOne
  <2>3. {Head(pending)} \subseteq ToSet(pending)
    BY <1>2, <2>2, ToSetFacts
  <2>4. stored \subseteq ToSet(pending)
    BY DEF LoopInv, LedgerTypes
  <2> QED
    BY <1>1, <2>1, <2>2, <2>3, <2>4, LaunchLedger
<1> QED
  BY <1>3, <1>4

(* The one call in front gets its result.                                    *)
LEMMA OneAnswer ==
  ASSUME LoopInv, pc \in {"call", "waiting"}, pending # <<>>,
         results' = Append(results, Head(pending)), Drop(1),
         UNCHANGED <<calls, granted, response>>, asked' = <<>>, KnownTasks(task'),
         \/ stored' = {}
         \/ pc = "call" /\ stored' = stored,
         \/ pc' = "pending" /\ wait' = "none"
         \/ pc' = "waiting" /\ wait' = "input" /\ stored' = {}
  PROVE  LedgerPart'
<1>1. pending \in Seq(Calls) /\ results \in Seq(Calls) /\ stored \subseteq ToSet(pending)
  BY DEF LoopInv, LedgerTypes
<1>2. /\ Head(pending) = pending[1] /\ pending[1] \in Calls /\ 1 \in 0..Len(pending)
      /\ <<Head(pending)>> = SubSeq(pending, 1, 1)
  BY <1>1, FrontOne
<1>3. Append(results, Head(pending)) = results \o <<Head(pending)>>
  BY <1>1, <1>2
<1>4. results' = results \o SubSeq(pending, 1, 1)
  BY <1>2, <1>3
<1>5. \A i \in 1..1 : i = 1
  OBVIOUS
<1>6. stored' \subseteq ToSet(pending) \ {pending[i] : i \in 1..1}
  <2>1. CASE stored' = {}
    BY <2>1
  <2>2. CASE pc = "call" /\ stored' = stored
    BY <1>1, <1>5, <2>2 DEF LoopInv, PendingPart
  <2> QED
    BY <2>1, <2>2
<1> QED
  BY <1>2, <1>4, <1>6, AnswerLedger

LEMMA CallDoneLedger ==
  ASSUME LoopInv, CallDone
  PROVE  LedgerPart'
<1> DEFINE h == Head(pending)
<1>1. pc = "call" /\ UNCHANGED <<calls, response>>
  BY DEF CallDone, round
<1>2. /\ pc \in Working /\ asked = <<>> /\ wait = "none" /\ response = <<>> /\ pending \in Seq(Calls)
      /\ KnownTasks(task) /\ stored \subseteq ToSet(pending) /\ approved \in 0..Len(pending)
      /\ pending # <<>>
  BY <1>1, WorkingFacts DEF Working, LoopInv, LedgerTypes, PendingPart
<1>3. <<h>> = SubSeq(pending, 1, 1) /\ 1 \in 1..Len(pending)
  BY <1>2, FrontOne
<1> HIDE DEF h
<1>4. \/ /\ results' = Append(results, h) /\ Drop(1) /\ UNCHANGED <<asked, granted>>
         /\ \/ Suspend("input") /\ Forget(Tail(pending))
            \/ Go("pending") /\ UNCHANGED <<stored, task>>
      \/ /\ Suspend("action") /\ Forget(pending)
         /\ UNCHANGED <<results, pending, approved, asked, granted>>
      \/ Review(<<h>>, <<>>)
      \/ End("failed") /\ UNCHANGED <<results, pending, stored, approved, asked, granted, task>>
  BY DEF CallDone, h
<1>5. CASE /\ results' = Append(results, h) /\ Drop(1) /\ UNCHANGED <<asked, granted>>
           /\ Suspend("input") /\ Forget(Tail(pending))
  <2>1. KnownTasks(task')
    BY <1>2, <1>5, IdleKnown DEF Forget
  <2>2. pc' = "waiting" /\ wait' = "input" /\ stored' = {}
    BY <1>5 DEF Suspend, Forget
  <2> QED
    BY <1>1, <1>2, <1>5, <2>1, <2>2, OneAnswer DEF h
<1>6. CASE /\ results' = Append(results, h) /\ Drop(1) /\ UNCHANGED <<asked, granted>>
           /\ Go("pending") /\ UNCHANGED <<stored, task>>
  <2>1. pc' = "pending" /\ wait' = "none"
    BY <1>2, <1>6 DEF Go
  <2> QED
    BY <1>1, <1>2, <1>6, <2>1, OneAnswer DEF h
<1>7. CASE /\ Suspend("action") /\ Forget(pending)
           /\ UNCHANGED <<results, pending, approved, asked, granted>>
  <2>1. KnownTasks(task')
    BY <1>2, <1>7, IdleKnown DEF Forget
  <2>2. pc' = "waiting" /\ wait' = "action" /\ stored' = {}
    BY <1>7 DEF Suspend, Forget
  <2>3. PendingPart'
    BY <1>2, <1>7, <2>2 DEF LoopInv, PendingPart, Asking
  <2>4. /\ pc' \in Working /\ response' = <<>> /\ stored' \subseteq ToSet(pending)
        /\ approved' \in 0..Len(pending) /\ asked' \in Seq(Calls)
    BY <1>1, <1>2, <1>7, <2>2 DEF Working
  <2> QED
    BY <1>1, <1>2, <1>7, <2>1, <2>3, <2>4, KeepLedger
<1>8. CASE Review(<<h>>, <<>>)
  <2>1. Review(SubSeq(pending, 1, 1), <<>>)
    BY <1>3, <1>8
  <2> QED
    BY <1>1, <1>3, <2>1, ReviewLedger
<1>9. CASE End("failed") /\ UNCHANGED <<results, pending, stored, approved, asked, granted, task>>
  <2>1. pc' = "ended" /\ wait' = "none" /\ results' \in Seq(Calls)
    BY <1>9 DEF End, LoopInv, LedgerTypes
  <2> QED
    BY <1>1, <1>9, <2>1, EndLedger
<1> QED
  BY <1>4, <1>5, <1>6, <1>7, <1>8, <1>9

LEMMA ResumeApprovalLedger ==
  ASSUME LoopInv, NEW yes \in BOOLEAN, ResumeApproval(yes)
  PROVE  LedgerPart'
<1> DEFINE batch == Decided
<1>1. /\ pc = "waiting" /\ wait = "approval" /\ pc' = "pending" /\ wait' = "none" /\ asked' = <<>>
      /\ UNCHANGED <<calls, stored, task, response>>
  BY DEF ResumeApproval, round
<1>2. \/ approved' = Len(batch) /\ granted' = granted \cup ToSet(batch) /\ UNCHANGED <<results, pending>>
      \/ results' = results \o batch /\ Drop(Len(batch)) /\ granted' = granted
  BY DEF ResumeApproval, Decided
<1>3. /\ pc \in Working /\ response = <<>> /\ pending \in Seq(Calls) /\ KnownTasks(task)
      /\ stored = {} /\ Len(pending) \in Nat
  BY <1>1, WorkingFacts DEF Working, LoopInv, LedgerTypes, PendingPart
<1>4. PICK n \in 1..Len(pending) : batch = SubSeq(pending, 1, n)
  BY <1>1, DecidedFront DEF LoopInv
<1> HIDE DEF batch
<1>5. n \in 0..Len(pending) /\ n \in Nat
  BY <1>3
<1>6. Len(batch) = n /\ ToSet(batch) = {pending[i] : i \in 1..n}
  <2>1. /\ Len(SubSeq(pending, 1, n)) = n
        /\ ToSet(SubSeq(pending, 1, n)) = {pending[i] : i \in 1..n}
    BY <1>3, <1>5, SplitFacts
  <2> QED
    BY <1>4, <2>1
<1>7. CASE approved' = Len(batch) /\ granted' = granted \cup ToSet(batch) /\ UNCHANGED <<results, pending>>
  <2>1. approved' = n /\ \A i \in 1..n : pending[i] \in granted'
    BY <1>6, <1>7
  <2>2. PendingPart'
    BY <1>1, <1>7, <2>1 DEF PendingPart, Asking
  <2>3. /\ pc' \in Working /\ response' = <<>> /\ stored' \subseteq ToSet(pending)
        /\ approved' \in 0..Len(pending) /\ asked' \in Seq(Calls)
    BY <1>1, <1>3, <1>5, <2>1 DEF Working
  <2>4. KnownTasks(task')
    BY <1>1, <1>3
  <2> QED
    BY <1>1, <1>3, <1>7, <2>2, <2>3, <2>4, KeepLedger
<1>8. CASE results' = results \o batch /\ Drop(Len(batch)) /\ granted' = granted
  <2>1. results' = results \o SubSeq(pending, 1, n) /\ Drop(n)
    BY <1>4, <1>6, <1>8
  <2>2. KnownTasks(task')
    BY <1>1, <1>3
  <2>3. stored' \subseteq ToSet(pending) \ {pending[i] : i \in 1..n}
    BY <1>1, <1>3
  <2> QED
    BY <1>1, <1>5, <1>8, <2>1, <2>2, <2>3, AnswerLedger
<1> QED
  BY <1>2, <1>7, <1>8

LEMMA ResumeActionLedger ==
  ASSUME LoopInv, ResumeAction
  PROVE  LedgerPart'
<1>1. /\ pc = "waiting" /\ wait = "action" /\ pc' = "pending" /\ wait' = "none"
      /\ results' = Append(results, Head(pending)) /\ Drop(1)
      /\ UNCHANGED <<calls, stored, asked, task, granted, response>>
  BY DEF ResumeAction, round, tools
<1>2. /\ pc \in Working /\ KnownTasks(task) /\ pending # <<>> /\ stored = {} /\ asked = <<>>
  BY <1>1, WorkingFacts DEF Working, LoopInv, PendingPart
<1>3. KnownTasks(task')
  BY <1>1, <1>2
<1> QED
  BY <1>1, <1>2, <1>3, OneAnswer

LEMMA ResumeInputLedger ==
  ASSUME LoopInv, ResumeInput
  PROVE  LedgerPart'
<1>1. /\ pc = "waiting" /\ wait = "input" /\ pc' = "pending" /\ wait' = "none"
      /\ UNCHANGED <<calls, results, pending, stored, approved, asked, task, granted, response>>
  BY DEF ResumeInput, round, tools, ledger
<1>2. /\ pc \in Working /\ KnownTasks(task) /\ asked = <<>> /\ response = <<>>
      /\ stored \subseteq ToSet(pending) /\ approved \in 0..Len(pending) /\ asked \in Seq(Calls)
  BY <1>1, WorkingFacts DEF Working, LoopInv, PendingPart, LedgerTypes
<1>3. PendingPart'
  BY <1>1, <1>2 DEF LoopInv, PendingPart, Asking
<1>4. KnownTasks(task')
  BY <1>1, <1>2
<1> QED
  BY <1>1, <1>2, <1>3, <1>4, KeepLedger DEF Working

LEMMA RestartLedger ==
  ASSUME LoopInv, Restart
  PROVE  LedgerPart'
<1>1. response' = <<>> /\ granted' = granted /\ task' = [c \in Calls |-> "idle"] /\ pc # "ended"
  BY DEF Restart
<1>2. CASE pc = "waiting"
  <2>1. UNCHANGED <<pc, wait, calls, results, pending, stored, approved, asked>>
    BY <1>2 DEF Restart, position, ledger
  <2>2. /\ pc \in Working /\ stored \subseteq ToSet(pending) /\ approved \in 0..Len(pending)
        /\ asked \in Seq(Calls)
    BY <1>2 DEF Working, LoopInv, LedgerTypes
  <2>3. PendingPart'
    BY <1>1, <2>1 DEF LoopInv, PendingPart
  <2>4. KnownTasks(task')
    BY <1>1 DEF KnownTasks
  <2> QED
    BY <1>1, <2>1, <2>2, <2>3, <2>4, KeepLedger
<1>3. CASE pc # "waiting"
  <2>1. /\ pc' = "ended" /\ wait' = "none"
        /\ calls' = <<>> /\ results' = <<>> /\ pending' = <<>>
        /\ stored' = {} /\ approved' = 0 /\ asked' = <<>>
    BY <1>3 DEF Restart, End
  <2>2. LedgerTypes'
    BY <1>1, <2>1 DEF LedgerTypes
  <2>3. PendingPart'
    BY <2>1 DEF PendingPart, Asking
  <2>4. ResponsePart'
    BY <1>1, <2>1, EmptyFacts DEF ResponsePart
  <2>5. TaskPart' /\ AccountPart'
    BY <2>1 DEF TaskPart, AccountPart
  <2> QED
    BY <2>2, <2>3, <2>4, <2>5 DEF LedgerPart
<1> QED
  BY <1>2, <1>3

LEMMA OutsideLedger ==
  ASSUME LoopInv,
         \/ \E s \in Steers : Steer(s)
         \/ \E m \in Messages : SendMessage(m)
         \/ Cancel
         \/ UNCHANGED vars
  PROVE  LedgerPart'
<1>1. /\ UNCHANGED <<ledger, response, streams, task, granted>>
      /\ \/ UNCHANGED <<pc, wait>>
         \/ pc' = "ended" /\ wait' = "none"
  BY DEF Steer, SendMessage, Cancel, End, vars, position, round, tools
<1>2. CASE UNCHANGED <<pc, wait>>
  BY <1>1, <1>2, StayLedger
<1>3. CASE pc' = "ended" /\ wait' = "none"
  BY <1>1, <1>3, EndLedger DEF ledger, LoopInv, LedgerTypes
<1> QED
  BY <1>1, <1>2, <1>3

LEMMA LedgerStep ==
  ASSUME LoopInv, [Next]_vars
  PROVE  LedgerPart'
<1>1. CASE LoopStep
  BY <1>1, StartRoundLedger, BrokenLedger, OverflowLedger, AnsweredLedger, PostParseLedger,
     MoveLedger, TakeOutcomeLedger, ApprovalBatchLedger, StartLedger, CallDoneLedger
  DEF LoopStep
<1>2. CASE \E c \in Calls : ReceiveCall(c) \/ Execute(c)
  BY <1>2, ReceiveLedger, ExecuteLedger
<1>3. CASE Outside \/ UNCHANGED vars
  BY <1>3, OutsideLedger, ResumeApprovalLedger, ResumeInputLedger, ResumeActionLedger,
     RestartLedger
  DEF Outside
<1> QED
  BY <1>1, <1>2, <1>3 DEF Next

-----------------------------------------------------------------------------
(* The invariant holds, and with it the properties                           *)

LEMMA LoopInvInit == Init => LoopInv
<1> SUFFICES ASSUME Init PROVE LoopInv
  OBVIOUS
<1>1. PositionPart /\ FlagsPart
  <2>1. /\ MAX_ROLLOUT_MODEL_ROUNDS \in Nat /\ MAX_FINALIZATION_GUARD_ACTIVATIONS \in Nat
        /\ MaxCrashes \in Nat
    BY LoopAssumption
  <2>2. pc \in Running \cup {"waiting", "ended"}
    BY DEF Init, Running
  <2>3. FlagsPart
    BY DEF Init, FlagsPart
  <2> QED
    BY <2>1, <2>2, <2>3 DEF Init, PositionPart
<1>2. MailPart
  BY EmptyFacts DEF Init, MailPart, AcknowledgedWasShown
<1>3. EffectPart
  <2>1. task \in [Calls -> TaskStatus] /\ journal \in [Calls -> EffectStatus]
    BY DEF Init, TaskStatus, EffectStatus
  <2>2. \A c \in Calls : task[c] # "running"
    BY DEF Init
  <2>3. effects = <<>> /\ effects \in Seq(Calls) /\ DOMAIN effects = {} /\ granted \subseteq Calls
    BY DEF Init
  <2>4. EffectOnce /\ NoUnapprovedEffect
    BY <2>3, EmptyFacts DEF EffectOnce, NoUnapprovedEffect
  <2> QED
    BY <2>1, <2>2, <2>3, <2>4 DEF EffectPart
<1>4. LedgerTypes
  BY DEF Init, LedgerTypes
<1>5. PendingPart
  BY DEF Init, PendingPart, Asking
<1>6. ResponsePart /\ TaskPart
  BY EmptyFacts DEF Init, ResponsePart, TaskPart
<1>7. AccountPart
  BY EmptyFacts DEF Init, AccountPart, StreamedNow
<1> QED
  BY <1>1, <1>2, <1>3, <1>4, <1>5, <1>6, <1>7 DEF LoopInv

LEMMA LoopInvStep == LoopInv /\ [Next]_vars => LoopInv'
BY PositionStep, FlagsStep, MailStep, EffectStep, LedgerStep DEF LoopInv, LedgerPart

LEMMA LoopInvHolds == Spec => []LoopInv
BY LoopInvInit, LoopInvStep, PTL DEF Spec

LEMMA LoopTypes == LoopInv => TypeOK
<1> SUFFICES ASSUME LoopInv PROVE TypeOK
  OBVIOUS
<1>1. /\ pc \in Running \cup {"waiting", "ended"}
      /\ outcome \in {"none", "completed", "stopped", "cancelled", "failed", "interrupted"}
      /\ (outcome # "none") = (pc = "ended")
      /\ wait \in {"none", "approval", "input", "action"}
      /\ (wait # "none") = (pc = "waiting")
      /\ rounds \in 0..MAX_ROLLOUT_MODEL_ROUNDS
      /\ guards \in 0..MAX_FINALIZATION_GUARD_ACTIVATIONS
      /\ crashes \in 0..MaxCrashes
  BY DEF LoopInv, PositionPart
<1>2. streams \in BOOLEAN /\ retried \in BOOLEAN /\ cancelled \in BOOLEAN
  BY DEF LoopInv, FlagsPart
<1>3. /\ \A s \in {response, calls, results, pending, asked, effects} : s \in Seq(Calls)
      /\ stored \subseteq ToSet(pending) /\ approved \in 0..Len(pending)
      /\ asked # <<>> /\ pc # "ended" => wait = "approval" /\ IsPrefix(asked, pending)
  BY DEF LoopInv, LedgerTypes, PendingPart, EffectPart
<1>4. task \in [Calls -> TaskStatus] /\ journal \in [Calls -> EffectStatus] /\ granted \subseteq Calls
  BY DEF LoopInv, EffectPart
<1>5. /\ inbox \in Seq(Messages \cup Steers \cup {"cancel"})
      /\ \A s \in {noted, sent, shown} : s \subseteq Messages \cup Steers
      /\ acked \subseteq sent \cap Messages
  BY DEF LoopInv, MailPart
<1> QED
  BY <1>1, <1>2, <1>3, <1>4, <1>5 DEF TypeOK

LEMMA LoopAnswers == LoopInv => EachCallAnsweredOnce
<1> SUFFICES ASSUME LoopInv, pc = "sampling"
             PROVE  ToSet(results) = ToSet(calls) /\ IsInjective(results) /\ IsInjective(calls)
  BY DEF EachCallAnsweredOnce
<1>1. pending = <<>> /\ IsInjective(calls)
  BY DEF LoopInv, PendingPart, ResponsePart, Asking
<1> QED
  BY <1>1, EmptyFacts DEF LoopInv, AccountPart, StreamedNow

(* Before every request to the model (complete_provider_round) each call of  *)
(* the ledger is there once and has exactly one result, however it was run;  *)
(* and a message is acknowledged only after a request carried it: for every  *)
(* set of calls, tools and messages, with cancellation, steering, suspension *)
(* and restarts at any point.                                                *)
THEOREM LedgerCompleteHolds == Spec => []LedgerComplete
<1>1. LoopInv => LedgerComplete
  BY LoopTypes, LoopAnswers DEF LedgerComplete, LoopInv, MailPart
<1> QED
  BY <1>1, LoopInvHolds, PTL

(* The effect journal (prepare_effect, start_effect, finish_effect) keeps a  *)
(* tool that is not idempotent from taking effect twice for one call, also   *)
(* when outcomes are forgotten at a suspension or the process restarts.      *)
THEOREM EffectOnceHolds == Spec => []EffectOnce
<1>1. LoopInv => EffectOnce
  BY DEF LoopInv, EffectPart
<1> QED
  BY <1>1, LoopInvHolds, PTL

(* No call whose policy asks (before or during its execution) takes effect   *)
(* before a user or the guardian granted that very call, in any batch.       *)
THEOREM NoUnapprovedEffectHolds == Spec => []NoUnapprovedEffect
<1>1. LoopInv => NoUnapprovedEffect
  BY DEF LoopInv, EffectPart
<1> QED
  BY <1>1, LoopInvHolds, PTL

-----------------------------------------------------------------------------
(* File changes: the inductive invariant, part by part                       *)

SetStatuses == {"none", "unavailable", "capturing", "ready", "empty", "failed"}
Change == [before : Contents, after : Contents]
Mutation == [original : Contents, target : Contents]
Journals == UNION {[S -> Change] : S \in SUBSET Paths}
Batches == UNION {[S -> Mutation] : S \in SUBSET Paths}
Trees == UNION {[S -> Contents] : S \in SUBSET Paths}
SetRec == [status : SetStatuses, files : Journals, reverted : BOOLEAN]
WriterSteps == {"idle", "lock", "validate", "write", "record", "merge", "rollback"}
WriterRec == [at : WriterSteps, done : SUBSET Paths, batch : Batches, view : SetRec]
UndoSteps == {"idle", "workspace", "paths", "plan", "verify", "apply", "restore", "answered"}
UndoRec == [at : UndoSteps, set : SetRec, observed : Trees, plan : Trees, done : SUBSET Paths]

SetOK(s) ==
  /\ s \in SetRec
  /\ \A p \in DOMAIN s.files : s.files[p].before # s.files[p].after
  /\ s.status = "empty" => s.files = <<>>

ShapePart ==
  /\ file \in [Paths -> Contents] /\ settled \in [Paths -> Contents] /\ disturbed \in SUBSET Paths
  /\ turn \in {"new", "running", "paused", "ended"}
  /\ SetOK(change_set) /\ SetOK(finalizing)
  /\ writer \in [Writers -> WriterRec] /\ \A w \in Writers : SetOK(writer[w].view)
  /\ undo \in [Undoers -> UndoRec] /\ \A u \in Undoers : SetOK(undo[u].set)
  /\ path_lock \in [Paths -> {Free} \cup Writers \cup Undoers]
  /\ committed \in [Paths -> Seq(Mutation)]

(* A tool call holds locks on paths of its batch alone, on all of them once  *)
(* it has validated it, and the lock of the journal while it merges.         *)
WriterLocks(w) ==
  LET r == writer[w] IN
  /\ Held(w) \subseteq DOMAIN r.batch /\ r.done \subseteq DOMAIN r.batch
  /\ r.at = "idle" => Held(w) = {}
  /\ r.at \notin {"idle", "lock"} => Held(w) = DOMAIN r.batch
  /\ r.at \in {"lock", "validate"} => r.done = {}
  /\ r.at \in {"record", "merge"} => r.done = DOMAIN r.batch
  /\ r.at = "merge" <=> journal_lock = w

(* An undo holds the locks of the files of its set before it looks at them,  *)
(* and its plan is one for what it has observed.                             *)
UndoLocks(u) ==
  LET r == undo[u] IN
  /\ Held(u) \subseteq DOMAIN r.set.files /\ r.done \subseteq DOMAIN r.set.files
  /\ r.at \in {"idle", "workspace", "answered"} => Held(u) = {}
  /\ r.at \in {"plan", "verify", "apply", "restore"} => Held(u) = DOMAIN r.set.files
  /\ r.at \notin {"apply", "restore"} => r.done = {}
  /\ r.at \in {"verify", "apply", "restore"} =>
       DOMAIN r.plan = DOMAIN r.set.files /\ DOMAIN r.observed = DOMAIN r.set.files
  /\ r.at \in {"verify", "apply"} =>
       \A p \in DOMAIN r.plan : r.plan[p] \in PlanFile(r.observed[p], r.set.files[p])

(* What a file that the user left alone while it was locked may hold: what   *)
(* was settled, except where the holder of the lock has written it and can   *)
(* still put that back.                                                      *)
WriterHolds(w, p) ==
  LET r == writer[w] IN
  /\ p \notin r.done => file[p] = settled[p]
  /\ p \in r.done => file[p] = r.batch[p].target
  /\ p \in r.done \/ r.at \in {"write", "record", "merge"} => settled[p] = r.batch[p].original

UndoHolds(u, p) ==
  LET r == undo[u] IN
  /\ p \notin r.done => file[p] = settled[p]
  /\ p \in r.done /\ r.at = "apply" => file[p] = r.plan[p]
  /\ r.at \in {"verify", "apply", "restore"} => r.observed[p] = settled[p]

PathOK(p) ==
  /\ path_lock[p] = Free => file[p] = settled[p]
  /\ path_lock[p] \in Writers => WriterHolds(path_lock[p], p)
  /\ path_lock[p] \in Undoers => UndoHolds(path_lock[p], p)

(* The journal of a path against the mutations committed on it. A path that  *)
(* is not in the journal was once put back to its first content.             *)
ExactFor(done, files, p) ==
  LET ms == done[p]
      n == Len(ms)
  IN IF p \in DOMAIN files
     THEN /\ n > 0 /\ files[p].after = ms[n].target
          /\ \E i \in 1..n : files[p].before = ms[i].original
          /\ (\A i \in 1..(n - 1) : ms[i].target # ms[1].original) => files[p].before = ms[1].original
     ELSE n > 0 => /\ \E i \in 1..n : ms[i].original = ms[n].target
                   /\ \E i \in 1..n : ms[i].target = ms[1].original
Exact(done, files) == \A p \in Paths : ExactFor(done, files, p)

(* What a tool call has read of the journal under its lock is still exact    *)
(* when it writes, even if the Turn was finalized in between.                *)
ViewOK(w) ==
  writer[w].at = "merge" =>
    /\ writer[w].view.status = "unavailable" <=> change_set.status = "unavailable"
    /\ writer[w].view.status = "capturing" => Exact(committed, writer[w].view.files)
JournalPart ==
  /\ change_set.status = "capturing" => Exact(committed, change_set.files)
  /\ finalizing.status = "capturing" => change_set.status # "unavailable"
  /\ \A w \in Writers : ViewOK(w)

(* Nothing happens before the Turn begins, and it does not run while an undo *)
(* has the workspace.                                                        *)
TurnPart ==
  /\ turn = "new" => /\ \A w \in Writers : writer[w].at = "idle"
                     /\ \A p \in Paths : committed[p] = <<>>
                     /\ finalizing.status = "none"
  /\ workspace_lock \in Undoers => turn # "running"

LockPart == (\A w \in Writers : WriterLocks(w)) /\ (\A u \in Undoers : UndoLocks(u))
FilePart == \A p \in Paths \ disturbed : PathOK(p)

ChangesInv == ShapePart /\ LockPart /\ FilePart /\ JournalPart /\ TurnPart


-----------------------------------------------------------------------------
(* File changes: numbers, records and journals                               *)

LEMMA LeastOfNumbers ==
  ASSUME NEW S \in SUBSET Nat, S # {}
  PROVE  \E n \in S : \A m \in S : n <= m
<1> DEFINE Less == {ss \in Nat \X Nat : ss[1] < ss[2]}
<1>1. IsWellFoundedOn(Less, Nat)
  BY NatLessThanWellFounded, Zenon DEF OpToRel
<1>2. \A m, n \in Nat : m < n => <<m, n>> \in Less
  OBVIOUS
<1> HIDE DEF Less
<1>3. PICK n \in S : \A m \in S : ~(<<m, n>> \in Less)
  BY <1>1, WFMin
<1>4. \A m \in S : ~(m < n)
  BY <1>2, <1>3
<1> QED
  BY <1>4

LEMMA MinOfPaths ==
  ASSUME NEW S \in SUBSET Paths, S # {}
  PROVE  Min(S) \in S
<1>1. S \in SUBSET Nat
  BY ChangesAssumption
<1>2. \E n \in S : \A m \in S : n <= m
  BY <1>1, LeastOfNumbers
<1> QED
  BY <1>2 DEF Min

LEMMA MaxOfPaths ==
  ASSUME NEW S \in SUBSET Paths, S # {}
  PROVE  Max(S) \in S
<1>1. PICK last \in Paths : Paths \subseteq 0..last
  BY ChangesAssumption
<1>2. last \in Nat /\ \A n \in S : n \in Nat /\ n <= last /\ last - n \in Nat
  BY <1>1
<1> DEFINE Mirror == {last - n : n \in S}
<1>3. Mirror \in SUBSET Nat /\ Mirror # {}
  BY <1>2
<1>4. \E k \in Mirror : \A j \in Mirror : k <= j
  <2> HIDE DEF Mirror
  <2> QED
    BY <1>3, LeastOfNumbers
<1>5. PICK n \in S : \A m \in S : last - n <= last - m
  BY <1>4
<1>6. \A m \in S : n >= m
  BY <1>2, <1>5
<1> QED
  BY <1>6 DEF Max

LEMMA BatchFacts ==
  ASSUME NEW b \in Batches
  PROVE  DOMAIN b \in SUBSET Paths /\ \A p \in DOMAIN b : b[p].original \in Contents /\ b[p].target \in Contents
                                                          /\ b[p] \in Mutation
BY DEF Batches, Mutation

LEMMA JournalFacts ==
  ASSUME NEW f \in Journals
  PROVE  DOMAIN f \in SUBSET Paths /\ \A p \in DOMAIN f : f[p].before \in Contents /\ f[p].after \in Contents
                                                          /\ f[p] \in Change
BY DEF Journals, Change

LEMMA TreeFacts ==
  ASSUME NEW t \in Trees
  PROVE  DOMAIN t \in SUBSET Paths /\ \A p \in DOMAIN t : t[p] \in Contents
BY DEF Trees

LEMMA EmptyTree == <<>> \in Batches /\ <<>> \in Journals /\ <<>> \in Trees /\ DOMAIN <<>> = {}
<1>1. <<>> = [p \in {} |-> p] /\ DOMAIN <<>> = {}
  OBVIOUS
<1>2. <<>> \in [{} -> Mutation] /\ <<>> \in [{} -> Change] /\ <<>> \in [{} -> Contents]
  OBVIOUS
<1> QED
  BY <1>1, <1>2 DEF Batches, Journals, Trees

LEMMA SetFields ==
  ASSUME NEW s, SetOK(s)
  PROVE  /\ s.status \in SetStatuses /\ s.files \in Journals /\ s.reverted \in BOOLEAN
         /\ DOMAIN s.files \in SUBSET Paths
<1>1. s.status \in SetStatuses /\ s.files \in Journals /\ s.reverted \in BOOLEAN
  BY DEF SetOK, SetRec
<1> QED
  BY <1>1, JournalFacts

LEMMA NoSetOK == SetOK(NoSet) /\ NoSet.status = "none" /\ NoSet.files = <<>>
BY EmptyTree DEF SetOK, SetRec, NoSet, SetStatuses

LEMMA WriterFields ==
  ASSUME NEW r \in WriterRec
  PROVE  /\ r.at \in WriterSteps /\ r.done \in SUBSET Paths /\ r.batch \in Batches /\ r.view \in SetRec
         /\ DOMAIN r.batch \in SUBSET Paths
<1>1. r.at \in WriterSteps /\ r.done \in SUBSET Paths /\ r.batch \in Batches /\ r.view \in SetRec
  BY DEF WriterRec
<1> QED
  BY <1>1, BatchFacts

LEMMA UndoFields ==
  ASSUME NEW r \in UndoRec
  PROVE  /\ r.at \in UndoSteps /\ r.set \in SetRec /\ r.observed \in Trees /\ r.plan \in Trees
         /\ r.done \in SUBSET Paths
         /\ DOMAIN r.plan \in SUBSET Paths /\ DOMAIN r.observed \in SUBSET Paths
<1>1. r.at \in UndoSteps /\ r.set \in SetRec /\ r.observed \in Trees /\ r.plan \in Trees /\ r.done \in SUBSET Paths
  BY DEF UndoRec
<1> QED
  BY <1>1, TreeFacts

LEMMA IdleFacts ==
  /\ Idle \in WriterRec /\ SetOK(Idle.view)
  /\ Idle.at = "idle" /\ Idle.done = {} /\ DOMAIN Idle.batch = {}
BY NoSetOK, EmptyTree DEF Idle, WriterRec, WriterSteps, SetOK

LEMMA NoUndoFacts ==
  /\ NoUndo \in UndoRec /\ SetOK(NoUndo.set)
  /\ NoUndo.at = "idle" /\ NoUndo.done = {} /\ DOMAIN NoUndo.set.files = {}
BY NoSetOK, EmptyTree DEF NoUndo, UndoRec, UndoSteps, SetOK


-----------------------------------------------------------------------------
(* File changes: what the step of one task leaves to the others              *)

(* Only w's record, locks that are free or w's and files that w has locked   *)
(* change.                                                                   *)
WriterFrame(w) ==
  /\ \A v \in Writers \ {w} : writer'[v] = writer[v]
  /\ undo' = undo /\ disturbed' = disturbed
  /\ \A p \in Paths : \/ path_lock'[p] = path_lock[p]
                      \/ path_lock[p] \in {Free, w} /\ path_lock'[p] \in {Free, w}
  /\ \A p \in Paths : path_lock[p] # w => file'[p] = file[p] /\ settled'[p] = settled[p]
  /\ \/ journal_lock' = journal_lock
     \/ journal_lock \in {Free, w} /\ journal_lock' \in {Free, w}

UndoFrame(u) ==
  /\ \A v \in Undoers \ {u} : undo'[v] = undo[v]
  /\ writer' = writer /\ disturbed' = disturbed /\ journal_lock' = journal_lock
  /\ \A p \in Paths : \/ path_lock'[p] = path_lock[p]
                      \/ path_lock[p] \in {Free, u} /\ path_lock'[p] \in {Free, u}
  /\ \A p \in Paths : path_lock[p] # u => file'[p] = file[p] /\ settled'[p] = settled[p]

(* What the task that moved has to show of its own locks and files.          *)
WriterOwn(w) ==
  /\ WriterLocks(w)'
  /\ \A p \in Paths \ disturbed : path_lock[p] = w \/ path_lock'[p] = w => PathOK(p)'

UndoOwn(u) ==
  /\ UndoLocks(u)'
  /\ \A p \in Paths \ disturbed : path_lock[p] = u \/ path_lock'[p] = u => PathOK(p)'

LEMMA WriterFrameKeeps ==
  ASSUME NEW w \in Writers, LockPart, FilePart, WriterFrame(w), WriterOwn(w)
  PROVE  LockPart' /\ FilePart'
<1>1. ASSUME NEW v \in Writers PROVE WriterLocks(v)'
  <2>1. CASE v = w
    BY <2>1 DEF WriterOwn
  <2>2. CASE v # w
    <3>1. v # Free /\ w # Free
      BY ChangesAssumption
    <3>2. Held(v)' = Held(v) /\ writer'[v] = writer[v] /\ (journal_lock' = v <=> journal_lock = v)
      BY <2>2, <3>1 DEF Held, WriterFrame
    <3>3. WriterLocks(v)
      BY DEF LockPart
    <3> QED
      BY <3>2, <3>3 DEF WriterLocks
  <2> QED
    BY <2>1, <2>2
<1>2. ASSUME NEW u \in Undoers PROVE UndoLocks(u)'
  <2>1. u # Free /\ u # w
    BY ChangesAssumption
  <2>2. Held(u)' = Held(u) /\ undo'[u] = undo[u]
    BY <2>1 DEF Held, WriterFrame
  <2>3. UndoLocks(u)
    BY DEF LockPart
  <2> QED
    BY <2>2, <2>3 DEF UndoLocks
<1>3. ASSUME NEW p \in Paths \ disturbed' PROVE PathOK(p)'
  <2>1. p \in Paths \ disturbed
    BY DEF WriterFrame
  <2>2. CASE path_lock[p] = w \/ path_lock'[p] = w
    BY <2>1, <2>2 DEF WriterOwn
  <2>3. CASE path_lock[p] # w /\ path_lock'[p] # w
    <3>1. path_lock'[p] = path_lock[p] /\ file'[p] = file[p] /\ settled'[p] = settled[p]
      BY <2>1, <2>3 DEF WriterFrame
    <3>2. PathOK(p)
      BY <2>1 DEF FilePart
    <3>3. path_lock[p] \in Writers => writer'[path_lock[p]] = writer[path_lock[p]]
      BY <2>3 DEF WriterFrame
    <3>4. undo' = undo
      BY DEF WriterFrame
    <3>5. path_lock[p] \in Writers => WriterHolds(path_lock[p], p)'
      BY <3>1, <3>2, <3>3 DEF PathOK, WriterHolds
    <3>6. path_lock[p] \in Undoers => UndoHolds(path_lock[p], p)'
      BY <3>1, <3>2, <3>4 DEF PathOK, UndoHolds
    <3> QED
      BY <3>1, <3>2, <3>5, <3>6 DEF PathOK
  <2> QED
    BY <2>2, <2>3
<1> QED
  BY <1>1, <1>2, <1>3 DEF LockPart, FilePart

LEMMA UndoFrameKeeps ==
  ASSUME NEW u \in Undoers, LockPart, FilePart, UndoFrame(u), UndoOwn(u)
  PROVE  LockPart' /\ FilePart'
<1>1. ASSUME NEW v \in Undoers PROVE UndoLocks(v)'
  <2>1. CASE v = u
    BY <2>1 DEF UndoOwn
  <2>2. CASE v # u
    <3>1. v # Free /\ u # Free
      BY ChangesAssumption
    <3>2. Held(v)' = Held(v) /\ undo'[v] = undo[v]
      BY <2>2, <3>1 DEF Held, UndoFrame
    <3>3. UndoLocks(v)
      BY DEF LockPart
    <3> QED
      BY <3>2, <3>3 DEF UndoLocks
  <2> QED
    BY <2>1, <2>2
<1>2. ASSUME NEW w \in Writers PROVE WriterLocks(w)'
  <2>1. w # Free /\ u # w
    BY ChangesAssumption
  <2>2. Held(w)' = Held(w) /\ writer'[w] = writer[w] /\ journal_lock' = journal_lock
    BY <2>1 DEF Held, UndoFrame
  <2>3. WriterLocks(w)
    BY DEF LockPart
  <2> QED
    BY <2>2, <2>3 DEF WriterLocks
<1>3. ASSUME NEW p \in Paths \ disturbed' PROVE PathOK(p)'
  <2>1. p \in Paths \ disturbed
    BY DEF UndoFrame
  <2>2. CASE path_lock[p] = u \/ path_lock'[p] = u
    BY <2>1, <2>2 DEF UndoOwn
  <2>3. CASE path_lock[p] # u /\ path_lock'[p] # u
    <3>1. path_lock'[p] = path_lock[p] /\ file'[p] = file[p] /\ settled'[p] = settled[p]
      BY <2>1, <2>3 DEF UndoFrame
    <3>2. PathOK(p)
      BY <2>1 DEF FilePart
    <3>3. path_lock[p] \in Undoers => undo'[path_lock[p]] = undo[path_lock[p]]
      BY <2>3 DEF UndoFrame
    <3>4. writer' = writer
      BY DEF UndoFrame
    <3>5. path_lock[p] \in Writers => WriterHolds(path_lock[p], p)'
      BY <3>1, <3>2, <3>4 DEF PathOK, WriterHolds
    <3>6. path_lock[p] \in Undoers => UndoHolds(path_lock[p], p)'
      BY <3>1, <3>2, <3>3 DEF PathOK, UndoHolds
    <3> QED
      BY <3>1, <3>2, <3>5, <3>6 DEF PathOK
  <2> QED
    BY <2>2, <2>3
<1> QED
  BY <1>1, <1>2, <1>3 DEF LockPart, FilePart

(* The Turn moves: locks, files and tasks are left alone.                    *)
TasksSame == /\ writer' = writer /\ undo' = undo /\ file' = file
             /\ path_lock' = path_lock /\ journal_lock' = journal_lock
             /\ settled' = settled /\ disturbed' = disturbed

LEMMA TasksSameKeeps ==
  ASSUME LockPart, FilePart, TasksSame
  PROVE  LockPart' /\ FilePart'
<1>1. ASSUME NEW w \in Writers PROVE WriterLocks(w)'
  BY DEF LockPart, WriterLocks, Held, TasksSame
<1>2. ASSUME NEW u \in Undoers PROVE UndoLocks(u)'
  BY DEF LockPart, UndoLocks, Held, TasksSame
<1>3. ASSUME NEW p \in Paths \ disturbed' PROVE PathOK(p)'
  BY DEF FilePart, PathOK, WriterHolds, UndoHolds, TasksSame
<1> QED
  BY <1>1, <1>2, <1>3 DEF LockPart, FilePart

(* Nor does the journal change: nobody starts to merge, nothing is committed. *)
JournalSame ==
  /\ change_set' = change_set /\ finalizing' = finalizing /\ committed' = committed
  /\ \A w \in Writers : writer'[w].at = "merge" =>
       writer[w].at = "merge" /\ writer'[w].view = writer[w].view

LEMMA JournalSameKeeps ==
  ASSUME JournalPart, JournalSame
  PROVE  JournalPart'
<1>1. (change_set.status = "capturing" => Exact(committed, change_set.files))'
  BY DEF JournalPart, JournalSame
<1>2. ASSUME NEW w \in Writers PROVE ViewOK(w)'
  <2>1. SUFFICES ASSUME writer'[w].at = "merge"
                 PROVE  /\ writer'[w].view.status = "unavailable" <=> change_set'.status = "unavailable"
                        /\ writer'[w].view.status = "capturing" => Exact(committed', writer'[w].view.files)
    BY DEF ViewOK
  <2>2. ViewOK(w) /\ writer[w].at = "merge" /\ writer'[w].view = writer[w].view
        /\ change_set' = change_set /\ committed' = committed
    BY <2>1 DEF JournalSame, JournalPart
  <2> QED
    BY <2>2 DEF ViewOK
<1> QED
  BY <1>1, <1>2 DEF JournalPart, JournalSame


-----------------------------------------------------------------------------
(* File changes: the steps of a tool call                                    *)

LEMMA WriterBecomes ==
  ASSUME ShapePart, NEW w \in Writers, NEW r \in WriterRec, SetOK(r.view),
         writer' = [writer EXCEPT ![w] = r]
  PROVE  /\ writer' \in [Writers -> WriterRec] /\ writer'[w] = r
         /\ \A v \in Writers \ {w} : writer'[v] = writer[v]
         /\ \A v \in Writers : SetOK(writer'[v].view)
<1>1. writer \in [Writers -> WriterRec] /\ \A v \in Writers : SetOK(writer[v].view)
  BY DEF ShapePart
<1>2. writer' \in [Writers -> WriterRec] /\ writer'[w] = r /\ \A v \in Writers \ {w} : writer'[v] = writer[v]
  BY <1>1
<1> QED
  BY <1>1, <1>2

LEMMA WriterNow ==
  ASSUME ShapePart, LockPart, NEW w \in Writers
  PROVE  writer[w] \in WriterRec /\ SetOK(writer[w].view) /\ WriterLocks(w) /\ w # Free
BY ChangesAssumption DEF ShapePart, LockPart

LEMMA MovedWriter ==
  ASSUME NEW r \in WriterRec, NEW s \in WriterSteps
  PROVE  LET q == [r EXCEPT !.at = s] IN
         q \in WriterRec /\ q.at = s /\ q.done = r.done /\ q.batch = r.batch /\ q.view = r.view
BY DEF WriterRec

LEMMA WrittenWriter ==
  ASSUME NEW r \in WriterRec, NEW d \in SUBSET Paths
  PROVE  LET q == [r EXCEPT !.done = d] IN
         q \in WriterRec /\ q.at = r.at /\ q.done = d /\ q.batch = r.batch /\ q.view = r.view
BY DEF WriterRec

Merging(r, s) == [r EXCEPT !.at = "merge", !.view = s]

LEMMA ReadWriter ==
  ASSUME NEW r \in WriterRec, NEW s \in SetRec
  PROVE  /\ Merging(r, s) \in WriterRec /\ Merging(r, s).at = "merge" /\ Merging(r, s).done = r.done
         /\ Merging(r, s).batch = r.batch /\ Merging(r, s).view = s
BY DEF WriterRec, WriterSteps, Merging

Prepared(r, b) == [r EXCEPT !.at = "lock", !.batch = b]

LEMMA PreparedWriter ==
  ASSUME NEW r \in WriterRec, NEW b \in Batches
  PROVE  /\ Prepared(r, b) \in WriterRec /\ Prepared(r, b).at = "lock" /\ Prepared(r, b).done = r.done
         /\ Prepared(r, b).batch = b /\ Prepared(r, b).view = r.view
BY DEF WriterRec, WriterSteps, Prepared

(* The task of a lock gives up all it holds.                                 *)
LEMMA ReleasedFacts ==
  ASSUME ShapePart, NEW owner, owner # Free, path_lock' = Released(owner)
  PROVE  /\ path_lock' \in [Paths -> {Free} \cup Writers \cup Undoers]
         /\ \A p \in Paths : path_lock'[p] = IF path_lock[p] = owner THEN Free ELSE path_lock[p]
         /\ Held(owner)' = {}
<1>1. path_lock \in [Paths -> {Free} \cup Writers \cup Undoers]
  BY DEF ShapePart
<1>2. \A p \in Paths : path_lock'[p] = IF path_lock[p] = owner THEN Free ELSE path_lock[p]
  BY DEF Released
<1>3. path_lock' = [p \in Paths |-> IF path_lock[p] = owner THEN Free ELSE path_lock[p]]
  BY DEF Released
<1>4. path_lock' \in [Paths -> {Free} \cup Writers \cup Undoers]
  BY <1>1, <1>3
<1>5. Held(owner)' = {}
  BY <1>2 DEF Held
<1> QED
  BY <1>2, <1>4, <1>5

(* w returns: the files it had locked are settled.                           *)
ReturnsSettled(w) ==
  /\ Return(w) /\ file' = file /\ undo' = undo /\ disturbed' = disturbed
  /\ \/ journal_lock' = journal_lock /\ writer[w].at # "merge"
     \/ journal_lock = w /\ journal_lock' = Free
  /\ settled' \in [Paths -> Contents]
  /\ \A p \in Paths : path_lock[p] # w => settled'[p] = settled[p]
  /\ \A p \in Paths \ disturbed : path_lock[p] = w => file[p] = settled'[p]

LEMMA WriterReturns ==
  ASSUME ShapePart, LockPart, NEW w \in Writers, ReturnsSettled(w)
  PROVE  /\ writer' \in [Writers -> WriterRec] /\ \A v \in Writers : SetOK(writer'[v].view)
         /\ path_lock' \in [Paths -> {Free} \cup Writers \cup Undoers]
         /\ WriterFrame(w) /\ WriterOwn(w) /\ writer'[w].at = "idle"
<1>1. w # Free /\ WriterLocks(w) /\ Free \notin Writers /\ Free \notin Undoers
  BY WriterNow, ChangesAssumption
<1>2. /\ writer' \in [Writers -> WriterRec] /\ writer'[w] = Idle
      /\ \A v \in Writers \ {w} : writer'[v] = writer[v]
      /\ \A v \in Writers : SetOK(writer'[v].view)
  BY WriterBecomes, IdleFacts DEF Return, ReturnsSettled
<1>3. /\ path_lock' \in [Paths -> {Free} \cup Writers \cup Undoers]
      /\ \A p \in Paths : path_lock'[p] = IF path_lock[p] = w THEN Free ELSE path_lock[p]
      /\ Held(w)' = {}
  BY <1>1, ReleasedFacts DEF Return, ReturnsSettled
<1>4. WriterFrame(w)
  BY <1>1, <1>2, <1>3 DEF WriterFrame, ReturnsSettled
<1>5. WriterLocks(w)'
  <2>1. journal_lock' # w
    BY <1>1 DEF WriterLocks, ReturnsSettled
  <2> QED
    BY <1>2, <1>3, <2>1, IdleFacts DEF WriterLocks
<1>6. ASSUME NEW p \in Paths \ disturbed, path_lock[p] = w \/ path_lock'[p] = w
      PROVE  PathOK(p)'
  <2>1. path_lock[p] = w /\ path_lock'[p] = Free
    BY <1>1, <1>3, <1>6
  <2> QED
    BY <1>1, <2>1 DEF PathOK, ReturnsSettled
<1> QED
  BY <1>2, <1>3, <1>4, <1>5, <1>6, IdleFacts DEF WriterOwn


(* What every step of a tool call leaves true of files, locks and tasks.     *)
WriterStepKeeps(w) == ShapePart' /\ WriterFrame(w) /\ WriterOwn(w)

LEMMA PrepareBatchKeeps ==
  ASSUME ShapePart, LockPart, FilePart, NEW w \in Writers, PrepareBatch(w)
  PROVE  WriterStepKeeps(w)
<1>0. writer[w].at = "idle" /\ WriterLocks(w) /\ w # Free
  BY WriterNow DEF PrepareBatch
<1>ps. PICK ps \in SUBSET Paths \ {{}} : \E target \in [ps -> Contents] :
        writer' = [writer EXCEPT ![w] =
            [Idle EXCEPT !.at = "lock", !.batch = [p \in ps |-> [original |-> file[p], target |-> target[p]]]]]
  BY DEF PrepareBatch
<1>1. PICK target \in [ps -> Contents] :
        writer' = [writer EXCEPT ![w] =
            [Idle EXCEPT !.at = "lock", !.batch = [p \in ps |-> [original |-> file[p], target |-> target[p]]]]]
  BY <1>ps
<1> DEFINE b == [p \in ps |-> [original |-> file[p], target |-> target[p]]]
           q == [Idle EXCEPT !.at = "lock", !.batch = b]
<1>2. b \in Batches
  <2>1. \A p \in ps : [original |-> file[p], target |-> target[p]] \in Mutation
    BY DEF Mutation, ShapePart
  <2>2. b \in [ps -> Mutation]
    BY <2>1
  <2> QED
    BY <2>2 DEF Batches
<1>3. writer' = [writer EXCEPT ![w] = q]
  BY <1>1
<1> HIDE DEF b
<1>4. q \in WriterRec /\ q.at = "lock" /\ q.done = {} /\ SetOK(q.view)
  <2>1. q = Prepared(Idle, b)
    BY DEF Prepared
  <2> HIDE DEF q
  <2> QED
    BY <1>2, <2>1, IdleFacts, PreparedWriter
<1> HIDE DEF q
<1>5. /\ writer' \in [Writers -> WriterRec] /\ writer'[w] = q
      /\ \A v \in Writers \ {w} : writer'[v] = writer[v]
      /\ \A v \in Writers : SetOK(writer'[v].view)
  BY <1>3, <1>4, WriterBecomes
<1>6. /\ undo' = undo /\ disturbed' = disturbed /\ path_lock' = path_lock /\ file' = file /\ settled' = settled
      /\ journal_lock' = journal_lock /\ turn' = turn /\ change_set' = change_set /\ finalizing' = finalizing
      /\ committed' = committed
  BY DEF PrepareBatch, locks, history
<1>7. ShapePart'
  BY <1>5, <1>6 DEF ShapePart
<1>8. WriterFrame(w)
  BY <1>5, <1>6 DEF WriterFrame
<1>9. Held(w)' = {} /\ Held(w) = {}
  BY <1>0, <1>6 DEF WriterLocks, Held
<1>10. WriterLocks(w)'
  BY <1>0, <1>4, <1>5, <1>6, <1>9 DEF WriterLocks
<1>11. \A p \in Paths : path_lock[p] # w /\ path_lock'[p] # w
  BY <1>6, <1>9 DEF Held
<1> QED
  BY <1>7, <1>8, <1>10, <1>11 DEF WriterStepKeeps, WriterOwn

(* A step that moves w on to r, on the paths it has locked already.          *)
MovesOn(w, r) ==
  /\ r \in WriterRec /\ SetOK(r.view) /\ writer' = [writer EXCEPT ![w] = r]
  /\ undo' = undo /\ disturbed' = disturbed /\ path_lock' = path_lock /\ settled' = settled
  /\ file' \in [Paths -> Contents] /\ \A p \in Paths : path_lock[p] # w => file'[p] = file[p]
  /\ journal_lock' = journal_lock \/ (journal_lock \in {Free, w} /\ journal_lock' \in {Free, w})
  /\ turn' = turn /\ change_set' = change_set /\ finalizing' = finalizing /\ committed' = committed
  /\ WriterLocks(w)'
  /\ \A p \in Paths \ disturbed : path_lock[p] = w => WriterHolds(w, p)'

LEMMA WriterMoves ==
  ASSUME ShapePart, LockPart, FilePart, NEW w \in Writers, NEW r, MovesOn(w, r)
  PROVE  WriterStepKeeps(w)
<1>0. r \in WriterRec /\ SetOK(r.view) /\ writer' = [writer EXCEPT ![w] = r]
  BY DEF MovesOn
<1>1. /\ writer' \in [Writers -> WriterRec]
      /\ \A v \in Writers \ {w} : writer'[v] = writer[v]
      /\ \A v \in Writers : SetOK(writer'[v].view)
  BY <1>0, WriterBecomes
<1>2. ShapePart'
  BY <1>1 DEF ShapePart, MovesOn
<1>3. WriterFrame(w)
  BY <1>1 DEF WriterFrame, MovesOn
<1>4. ASSUME NEW p \in Paths \ disturbed, path_lock[p] = w \/ path_lock'[p] = w
      PROVE  PathOK(p)'
  BY <1>4, ChangesAssumption DEF PathOK, MovesOn
<1> QED
  BY <1>2, <1>3, <1>4 DEF WriterStepKeeps, WriterOwn, MovesOn

(* The locked files of w, as FilePart has them.                              *)
LEMMA WriterFiles ==
  ASSUME FilePart, NEW w \in Writers, NEW p \in Paths \ disturbed, path_lock[p] = w
  PROVE  WriterHolds(w, p)
BY DEF FilePart, PathOK

LEMMA LockPathKeeps ==
  ASSUME ShapePart, LockPart, FilePart, NEW w \in Writers, LockPath(w)
  PROVE  WriterStepKeeps(w)
<1> DEFINE missing == DOMAIN Batch(w) \ Held(w)
<1>0. /\ writer[w].at = "lock" /\ WriterLocks(w) /\ w # Free /\ writer[w] \in WriterRec /\ SetOK(writer[w].view)
      /\ Free \notin Writers /\ Free \notin Undoers
      /\ Held(w) \subseteq DOMAIN writer[w].batch /\ writer[w].done = {} /\ Batch(w) = writer[w].batch
      /\ DOMAIN writer[w].batch \subseteq Paths
  BY WriterNow, WriterFields, ChangesAssumption DEF LockPath, WriterLocks, Batch
<1>1. /\ undo' = undo /\ disturbed' = disturbed /\ file' = file /\ settled' = settled
      /\ journal_lock' = journal_lock /\ turn' = turn /\ change_set' = change_set /\ finalizing' = finalizing
      /\ committed' = committed /\ file \in [Paths -> Contents]
  BY DEF LockPath, history, ShapePart
<1>2. CASE missing = {}
  <2> DEFINE q == [writer[w] EXCEPT !.at = "validate"]
  <2>1. writer' = [writer EXCEPT ![w] = q] /\ path_lock' = path_lock
    BY <1>2 DEF LockPath, GoTo
  <2>2. q \in WriterRec /\ q.at = "validate" /\ q.done = {} /\ q.batch = writer[w].batch /\ SetOK(q.view)
    BY <1>0, MovedWriter DEF WriterSteps
  <2> HIDE DEF q
  <2>3. writer'[w] = q
    BY <2>1, <2>2, WriterBecomes
  <2>4. Held(w)' = Held(w) /\ Held(w) = DOMAIN writer[w].batch
    BY <1>0, <1>2, <2>1 DEF Held
  <2>5. WriterLocks(w)'
    BY <1>0, <1>1, <2>2, <2>3, <2>4 DEF WriterLocks
  <2>6. \A p \in Paths \ disturbed : path_lock[p] = w => WriterHolds(w, p)'
    BY <1>0, <1>1, <2>2, <2>3, WriterFiles DEF WriterHolds
  <2>on. MovesOn(w, q)
    BY <1>1, <2>1, <2>2, <2>5, <2>6 DEF MovesOn
  <2> QED
    BY <2>on, WriterMoves
<1>3. CASE missing # {}
  <2>1. PICK p \in NextPath(missing) : path_lock[p] = Free /\ path_lock' = [path_lock EXCEPT ![p] = w]
    BY <1>3 DEF LockPath
  <2>2. writer' = writer
    BY <1>3 DEF LockPath
  <2>3. p \in missing
    <3>1. missing \in SUBSET Paths
      BY <1>0
    <3> HIDE DEF missing
    <3> QED
      BY <1>3, <2>1, <3>1, MinOfPaths DEF NextPath
  <2>4. p \in DOMAIN writer[w].batch /\ p \in Paths
    BY <1>0, <2>3
  <2> HIDE DEF missing
  <2>5. /\ path_lock' \in [Paths -> {Free} \cup Writers \cup Undoers]
        /\ path_lock'[p] = w /\ \A o \in Paths \ {p} : path_lock'[o] = path_lock[o]
    BY <2>1, <2>4 DEF ShapePart
  <2>6. ShapePart'
    BY <1>1, <2>2, <2>5 DEF ShapePart
  <2>7. WriterFrame(w)
    BY <1>1, <2>1, <2>2, <2>5 DEF WriterFrame
  <2>8. Held(w)' = Held(w) \cup {p}
    BY <2>4, <2>5 DEF Held
  <2>9. WriterLocks(w)'
    BY <1>0, <1>1, <2>2, <2>4, <2>8 DEF WriterLocks
  <2>10. ASSUME NEW o \in Paths \ disturbed, path_lock[o] = w \/ path_lock'[o] = w
         PROVE  PathOK(o)'
    <3>1. path_lock'[o] = w /\ (path_lock[o] = w \/ path_lock[o] = Free)
      BY <2>1, <2>5, <2>10
    <3>2. file[o] = settled[o]
      BY <1>0, <3>1 DEF FilePart, PathOK, WriterHolds
    <3>3. WriterHolds(w, o)'
      BY <1>0, <1>1, <2>2, <3>2 DEF WriterHolds
    <3> QED
      BY <1>0, <3>1, <3>3, ChangesAssumption DEF PathOK
  <2> QED
    BY <2>6, <2>7, <2>9, <2>10 DEF WriterStepKeeps, WriterOwn
<1> QED
  BY <1>2, <1>3


LEMMA ValidateKeeps ==
  ASSUME ShapePart, LockPart, FilePart, NEW w \in Writers, Validate(w)
  PROVE  WriterStepKeeps(w)
<1>0. /\ writer[w].at = "validate" /\ WriterLocks(w) /\ w # Free /\ writer[w] \in WriterRec /\ SetOK(writer[w].view)
      /\ Held(w) = DOMAIN writer[w].batch /\ writer[w].done = {} /\ Batch(w) = writer[w].batch
  BY WriterNow DEF Validate, WriterLocks, Batch
<1>1. /\ undo' = undo /\ disturbed' = disturbed /\ file' = file /\ settled' = settled
      /\ journal_lock' = journal_lock /\ turn' = turn /\ change_set' = change_set /\ finalizing' = finalizing
      /\ committed' = committed /\ file \in [Paths -> Contents] /\ settled \in [Paths -> Contents]
  BY DEF Validate, history, ShapePart
<1>2. \A p \in Paths \ disturbed : path_lock[p] = w => file[p] = settled[p]
  BY <1>0, WriterFiles DEF WriterHolds
<1>3. CASE Stale(w)
  <2>1. Return(w)
    BY <1>3 DEF Validate
  <2>2. /\ writer' \in [Writers -> WriterRec] /\ \A v \in Writers : SetOK(writer'[v].view)
        /\ path_lock' \in [Paths -> {Free} \cup Writers \cup Undoers]
        /\ WriterFrame(w) /\ WriterOwn(w)
    <3>1. ReturnsSettled(w)
      BY <1>0, <1>1, <1>2, <2>1 DEF ReturnsSettled
    <3> QED
      BY <3>1, WriterReturns
  <2>3. ShapePart'
    BY <1>1, <2>2 DEF ShapePart
  <2> QED
    BY <2>2, <2>3 DEF WriterStepKeeps
<1>4. CASE ~Stale(w)
  <2> DEFINE q == [writer[w] EXCEPT !.at = "write"]
  <2>1. writer' = [writer EXCEPT ![w] = q] /\ path_lock' = path_lock
    BY <1>4 DEF Validate, GoTo
  <2>2. q \in WriterRec /\ q.at = "write" /\ q.done = {} /\ q.batch = writer[w].batch /\ SetOK(q.view)
    BY <1>0, MovedWriter DEF WriterSteps
  <2> HIDE DEF q
  <2>3. writer'[w] = q
    BY <2>1, <2>2, WriterBecomes
  <2>4. Held(w)' = Held(w)
    BY <2>1 DEF Held
  <2>5. WriterLocks(w)'
    BY <1>0, <1>1, <2>2, <2>3, <2>4 DEF WriterLocks
  <2>6. \A p \in Paths : path_lock[p] = w => file[p] = writer[w].batch[p].original
    BY <1>0, <1>4 DEF Stale, Held
  <2>7. \A p \in Paths \ disturbed : path_lock[p] = w => WriterHolds(w, p)'
    BY <1>0, <1>1, <1>2, <2>2, <2>3, <2>6 DEF WriterHolds
  <2>on. MovesOn(w, q)
    BY <1>1, <2>1, <2>2, <2>5, <2>7 DEF MovesOn
  <2> QED
    BY <2>on, WriterMoves
<1> QED
  BY <1>3, <1>4

LEMMA WriteNextKeeps ==
  ASSUME ShapePart, LockPart, FilePart, NEW w \in Writers, WriteNext(w)
  PROVE  WriterStepKeeps(w)
<1> DEFINE rest == DOMAIN Batch(w) \ writer[w].done
<1>0. /\ writer[w].at = "write" /\ WriterLocks(w) /\ w # Free /\ writer[w] \in WriterRec /\ SetOK(writer[w].view)
      /\ Held(w) = DOMAIN writer[w].batch /\ writer[w].done \subseteq DOMAIN writer[w].batch
      /\ Batch(w) = writer[w].batch /\ DOMAIN writer[w].batch \subseteq Paths /\ writer[w].batch \in Batches
      /\ journal_lock # w
  BY WriterNow, WriterFields DEF WriteNext, WriterLocks, Batch
<1>1. /\ undo' = undo /\ disturbed' = disturbed /\ path_lock' = path_lock /\ settled' = settled
      /\ journal_lock' = journal_lock /\ turn' = turn /\ change_set' = change_set /\ finalizing' = finalizing
      /\ committed' = committed /\ file \in [Paths -> Contents]
  BY DEF WriteNext, locks, history, ShapePart
<1>2. Held(w)' = Held(w)
  BY <1>1 DEF Held
<1>3. ASSUME NEW s \in {"record", "rollback"}, GoTo(w, s), file' = file, s = "record" => rest = {}
      PROVE  WriterStepKeeps(w)
  <2> DEFINE q == [writer[w] EXCEPT !.at = s]
  <2>1. writer' = [writer EXCEPT ![w] = q]
    BY <1>3 DEF GoTo
  <2>s. s \in WriterSteps
    BY DEF WriterSteps
  <2>2. q \in WriterRec /\ q.at = s /\ q.done = writer[w].done /\ q.batch = writer[w].batch /\ SetOK(q.view)
    BY <1>0, <2>s, MovedWriter
  <2>d. s = "record" => writer[w].done = DOMAIN writer[w].batch
    BY <1>0, <1>3
  <2> HIDE DEF q, rest
  <2>3. writer'[w] = q
    BY <2>1, <2>2, WriterBecomes
  <2>5. WriterLocks(w)'
    BY <1>0, <1>1, <1>2, <2>2, <2>3, <2>d DEF WriterLocks
  <2>6. \A p \in Paths \ disturbed : path_lock[p] = w => WriterHolds(w, p)'
    BY <1>0, <1>1, <1>3, <2>2, <2>3, WriterFiles DEF WriterHolds
  <2>on. MovesOn(w, q)
    BY <1>1, <1>3, <2>1, <2>2, <2>5, <2>6 DEF MovesOn
  <2> QED
    BY <2>on, WriterMoves
<1> DEFINE m == Min(rest)
<1>4. ASSUME rest # {}, file' = [file EXCEPT ![m] = Batch(w)[m].target],
             writer' = [writer EXCEPT ![w].done = writer[w].done \cup {m}]
      PROVE  WriterStepKeeps(w)
  <2>1. m \in rest
    <3>1. rest \in SUBSET Paths
      BY <1>0
    <3> HIDE DEF rest
    <3> QED
      BY <1>4, <3>1, MinOfPaths
  <2>2. m \in DOMAIN writer[w].batch /\ m \in Paths /\ path_lock[m] = w
    BY <1>0, <2>1 DEF Held
  <2> HIDE DEF m
  <2> DEFINE d == writer[w].done \cup {m}
             q == [writer[w] EXCEPT !.done = d]
  <2>3. d \in SUBSET Paths /\ d \subseteq DOMAIN writer[w].batch
    BY <1>0, <2>2
  <2>4. writer' = [writer EXCEPT ![w] = q]
    BY <1>4
  <2> HIDE DEF d
  <2>5. q \in WriterRec /\ q.at = "write" /\ q.done = d /\ q.batch = writer[w].batch /\ SetOK(q.view)
    BY <1>0, <2>3, WrittenWriter
  <2> HIDE DEF q
  <2>6. writer'[w] = q
    BY <2>4, <2>5, WriterBecomes
  <2>7. /\ file' \in [Paths -> Contents] /\ file'[m] = writer[w].batch[m].target
        /\ \A p \in Paths \ {m} : file'[p] = file[p]
    BY <1>0, <1>1, <1>4, <2>2, BatchFacts
  <2>8. WriterLocks(w)'
    BY <1>0, <1>1, <1>2, <2>3, <2>5, <2>6 DEF WriterLocks
  <2>9. ASSUME NEW p \in Paths \ disturbed, path_lock[p] = w PROVE WriterHolds(w, p)'
    <3>1. WriterHolds(w, p)
      BY <2>9, WriterFiles
    <3> QED
      BY <1>0, <1>1, <2>5, <2>6, <2>7, <3>1 DEF WriterHolds, d
  <2>10. \A p \in Paths : path_lock[p] # w => file'[p] = file[p]
    BY <2>2, <2>7
  <2>on. MovesOn(w, q)
    BY <1>1, <2>4, <2>5, <2>7, <2>8, <2>9, <2>10 DEF MovesOn
  <2> QED
    BY <2>on, WriterMoves
<1> QED
  BY <1>3, <1>4 DEF WriteNext

LEMMA RecordReadKeeps ==
  ASSUME ShapePart, LockPart, FilePart, NEW w \in Writers, RecordRead(w)
  PROVE  WriterStepKeeps(w) /\ writer'[w].view = change_set /\ writer'[w].at = "merge"
<1> DEFINE q == [writer[w] EXCEPT !.at = "merge", !.view = change_set]
<1>0. /\ writer[w].at = "record" /\ WriterLocks(w) /\ w # Free /\ writer[w] \in WriterRec
      /\ Held(w) = DOMAIN writer[w].batch /\ writer[w].done = DOMAIN writer[w].batch
      /\ journal_lock = Free /\ journal_lock' = w
  BY WriterNow DEF RecordRead, WriterLocks, JournalFree
<1>1. /\ undo' = undo /\ disturbed' = disturbed /\ path_lock' = path_lock /\ settled' = settled /\ file' = file
      /\ turn' = turn /\ change_set' = change_set /\ finalizing' = finalizing
      /\ committed' = committed /\ file \in [Paths -> Contents] /\ SetOK(change_set)
  BY DEF RecordRead, locks, history, ShapePart
<1>2. Held(w)' = Held(w)
  BY <1>1 DEF Held
<1>3. writer' = [writer EXCEPT ![w] = q]
  BY DEF RecordRead
<1>4. /\ q \in WriterRec /\ q.at = "merge" /\ q.done = writer[w].done /\ q.batch = writer[w].batch
      /\ SetOK(q.view) /\ q.view = change_set
  <2>1. q = Merging(writer[w], change_set) /\ change_set \in SetRec
    BY <1>1 DEF Merging, SetOK
  <2> HIDE DEF q
  <2> QED
    BY <1>0, <1>1, <2>1, ReadWriter
<1> HIDE DEF q
<1>5. writer'[w] = q
  BY <1>3, <1>4, WriterBecomes
<1>6. WriterLocks(w)'
  BY <1>0, <1>1, <1>2, <1>4, <1>5 DEF WriterLocks
<1>7. \A p \in Paths \ disturbed : path_lock[p] = w => WriterHolds(w, p)'
  BY <1>0, <1>1, <1>4, <1>5, WriterFiles DEF WriterHolds
<1>on. MovesOn(w, q)
  BY <1>0, <1>1, <1>3, <1>4, <1>6, <1>7 DEF MovesOn
<1>8. WriterStepKeeps(w)
  BY <1>on, WriterMoves
<1> QED
  BY <1>4, <1>5, <1>8

LEMMA RecordRefusedKeeps ==
  ASSUME ShapePart, LockPart, FilePart, NEW w \in Writers, RecordRefused(w)
  PROVE  WriterStepKeeps(w)
<1> DEFINE q == [writer[w] EXCEPT !.at = "rollback"]
<1>0. /\ writer[w].at = "merge" /\ WriterLocks(w) /\ w # Free /\ writer[w] \in WriterRec /\ SetOK(writer[w].view)
      /\ Held(w) = DOMAIN writer[w].batch /\ writer[w].done = DOMAIN writer[w].batch
      /\ journal_lock = w /\ journal_lock' = Free
  BY WriterNow DEF RecordRefused, WriterLocks
<1>1. /\ undo' = undo /\ disturbed' = disturbed /\ path_lock' = path_lock /\ settled' = settled /\ file' = file
      /\ turn' = turn /\ change_set' = change_set /\ finalizing' = finalizing
      /\ committed' = committed /\ file \in [Paths -> Contents]
  BY DEF RecordRefused, history, ShapePart
<1>2. Held(w)' = Held(w)
  BY <1>1 DEF Held
<1>3. writer' = [writer EXCEPT ![w] = q]
  BY DEF RecordRefused, GoTo
<1>4. /\ q \in WriterRec /\ q.at = "rollback" /\ q.done = writer[w].done /\ q.batch = writer[w].batch
      /\ SetOK(q.view)
  BY <1>0, MovedWriter DEF WriterSteps
<1> HIDE DEF q
<1>5. writer'[w] = q
  BY <1>3, <1>4, WriterBecomes
<1>6. WriterLocks(w)'
  BY <1>0, <1>1, <1>2, <1>4, <1>5 DEF WriterLocks
<1>7. \A p \in Paths \ disturbed : path_lock[p] = w => WriterHolds(w, p)'
  BY <1>0, <1>1, <1>4, <1>5, WriterFiles DEF WriterHolds
<1>on. MovesOn(w, q)
  BY <1>0, <1>1, <1>3, <1>4, <1>6, <1>7 DEF MovesOn
<1> QED
  BY <1>on, WriterMoves


LEMMA RollbackKeeps ==
  ASSUME ShapePart, LockPart, FilePart, NEW w \in Writers, Rollback(w)
  PROVE  WriterStepKeeps(w)
<1>0. /\ writer[w].at = "rollback" /\ WriterLocks(w) /\ w # Free /\ writer[w] \in WriterRec /\ SetOK(writer[w].view)
      /\ Held(w) = DOMAIN writer[w].batch /\ writer[w].done \subseteq DOMAIN writer[w].batch
      /\ Batch(w) = writer[w].batch /\ DOMAIN writer[w].batch \subseteq Paths /\ writer[w].batch \in Batches
      /\ journal_lock # w
  BY WriterNow, WriterFields DEF Rollback, WriterLocks, Batch
<1>1. /\ undo' = undo /\ disturbed' = disturbed /\ settled' = settled
      /\ journal_lock' = journal_lock /\ turn' = turn /\ change_set' = change_set /\ finalizing' = finalizing
      /\ committed' = committed /\ file \in [Paths -> Contents] /\ settled \in [Paths -> Contents]
  BY DEF Rollback, history, ShapePart
<1>2. CASE writer[w].done = {}
  <2>1. Return(w) /\ file' = file
    BY <1>2 DEF Rollback, RollbackPath
  <2>2. \A p \in Paths \ disturbed : path_lock[p] = w => file[p] = settled[p]
    BY <1>2, WriterFiles DEF WriterHolds
  <2>3. ReturnsSettled(w)
    BY <1>0, <1>1, <2>1, <2>2 DEF ReturnsSettled
  <2>4. /\ writer' \in [Writers -> WriterRec] /\ \A v \in Writers : SetOK(writer'[v].view)
        /\ path_lock' \in [Paths -> {Free} \cup Writers \cup Undoers]
        /\ WriterFrame(w) /\ WriterOwn(w)
    BY <2>3, WriterReturns
  <2>5. ShapePart'
    BY <1>1, <2>1, <2>4 DEF ShapePart
  <2> QED
    BY <2>4, <2>5 DEF WriterStepKeeps
<1>3. CASE writer[w].done # {}
  <2> DEFINE m == Max(writer[w].done)
  <2>1. m \in writer[w].done
    BY <1>0, <1>3, MaxOfPaths
  <2>2. /\ file' = [file EXCEPT ![m] = IF @ = Batch(w)[m].target THEN Batch(w)[m].original ELSE @]
        /\ writer' = [writer EXCEPT ![w].done = writer[w].done \ {m}]
        /\ path_lock' = path_lock
    BY <1>3 DEF Rollback, RollbackPath
  <2> HIDE DEF m
  <2>3. m \in DOMAIN writer[w].batch /\ m \in Paths /\ path_lock[m] = w
    BY <1>0, <2>1 DEF Held
  <2> DEFINE d == writer[w].done \ {m}
             q == [writer[w] EXCEPT !.done = d]
  <2>4. d \in SUBSET Paths /\ d \subseteq DOMAIN writer[w].batch
    BY <1>0
  <2>5. writer' = [writer EXCEPT ![w] = q]
    BY <2>2
  <2> HIDE DEF d
  <2>6. q \in WriterRec /\ q.at = "rollback" /\ q.done = d /\ q.batch = writer[w].batch /\ SetOK(q.view)
    BY <1>0, <2>4, WrittenWriter
  <2> HIDE DEF q
  <2>7. writer'[w] = q
    BY <2>5, <2>6, WriterBecomes
  <2>8. /\ file' \in [Paths -> Contents]
        /\ file[m] = writer[w].batch[m].target => file'[m] = writer[w].batch[m].original
        /\ \A p \in Paths \ {m} : file'[p] = file[p]
    BY <1>0, <1>1, <2>2, <2>3, BatchFacts
  <2>9. Held(w)' = Held(w)
    BY <2>2 DEF Held
  <2>10. WriterLocks(w)'
    BY <1>0, <1>1, <2>4, <2>6, <2>7, <2>9 DEF WriterLocks
  <2>11. ASSUME NEW p \in Paths \ disturbed, path_lock[p] = w PROVE WriterHolds(w, p)'
    <3>1. WriterHolds(w, p)
      BY <2>11, WriterFiles
    <3> QED
      BY <1>0, <1>1, <2>1, <2>6, <2>7, <2>8, <3>1 DEF WriterHolds, d
  <2>12. \A p \in Paths : path_lock[p] # w => file'[p] = file[p]
    BY <2>3, <2>8
  <2>on. MovesOn(w, q)
    BY <1>1, <2>2, <2>5, <2>6, <2>8, <2>10, <2>11, <2>12 DEF MovesOn
  <2> QED
    BY <2>on, WriterMoves
<1> QED
  BY <1>2, <1>3

-----------------------------------------------------------------------------
(* File changes: the journal                                                 *)

LEMMA MergedFacts ==
  ASSUME NEW files \in Journals, NEW b \in Batches, \A p \in DOMAIN files : files[p].before # files[p].after
  PROVE  /\ Merged(files, b) \in Journals
         /\ \A p \in DOMAIN Merged(files, b) : Merged(files, b)[p].before # Merged(files, b)[p].after
         /\ \A p \in Paths \ DOMAIN b : /\ p \in DOMAIN Merged(files, b) <=> p \in DOMAIN files
                                        /\ p \in DOMAIN files => Merged(files, b)[p] = files[p]
         /\ \A p \in DOMAIN b : LET first == IF p \in DOMAIN files THEN files[p].before ELSE b[p].original IN
              /\ p \in DOMAIN Merged(files, b) <=> first # b[p].target
              /\ p \in DOMAIN Merged(files, b) =>
                   Merged(files, b)[p].before = first /\ Merged(files, b)[p].after = b[p].target
<1> DEFINE net == [p \in DOMAIN b |->
               [before |-> IF p \in DOMAIN files THEN files[p].before ELSE b[p].original,
                after |-> b[p].target]]
           kept == (DOMAIN files \ DOMAIN b) \cup {p \in DOMAIN b : net[p].before # net[p].after}
           q == [p \in kept |-> IF p \in DOMAIN b THEN net[p] ELSE files[p]]
<1>1. Merged(files, b) = q
  BY DEF Merged
<1>2. /\ DOMAIN b \in SUBSET Paths
      /\ \A p \in DOMAIN b : b[p].original \in Contents /\ b[p].target \in Contents
  BY BatchFacts
<1>3. /\ DOMAIN files \in SUBSET Paths
      /\ \A p \in DOMAIN files : files[p].before \in Contents /\ files[p].after \in Contents /\ files[p] \in Change
  BY JournalFacts
<1>4. \A p \in DOMAIN b : /\ net[p] \in Change
                          /\ net[p].before = IF p \in DOMAIN files THEN files[p].before ELSE b[p].original
                          /\ net[p].after = b[p].target
  BY <1>2, <1>3 DEF Change
<1> HIDE DEF net
<1>5. kept \in SUBSET Paths /\ \A p \in kept : (IF p \in DOMAIN b THEN net[p] ELSE files[p]) \in Change
  BY <1>2, <1>3, <1>4
<1>6. /\ \A p \in DOMAIN b : p \in kept <=> net[p].before # net[p].after
      /\ \A p \in Paths \ DOMAIN b : p \in kept <=> p \in DOMAIN files
  OBVIOUS
<1> HIDE DEF kept
<1>7. q \in [kept -> Change]
  BY <1>5
<1>8. q \in Journals
  BY <1>5, <1>7 DEF Journals
<1>9. DOMAIN q = kept /\ \A p \in kept : q[p] = IF p \in DOMAIN b THEN net[p] ELSE files[p]
  OBVIOUS
<1> HIDE DEF q
<1>10. \A p \in kept : q[p].before # q[p].after
  BY <1>5, <1>6, <1>9
<1>11. \A p \in Paths \ DOMAIN b : /\ p \in kept <=> p \in DOMAIN files
                                   /\ p \in DOMAIN files => q[p] = files[p]
  BY <1>6, <1>9
<1>12. ASSUME NEW p \in DOMAIN b
       PROVE  LET first == IF p \in DOMAIN files THEN files[p].before ELSE b[p].original IN
              /\ p \in kept <=> first # b[p].target
              /\ p \in kept => q[p].before = first /\ q[p].after = b[p].target
  BY <1>4, <1>6, <1>9
<1> QED
  BY <1>1, <1>8, <1>9, <1>10, <1>11, <1>12

(* A mutation is committed on p: the journal that was exact is exact again.  *)
LEMMA ExactStep ==
  ASSUME NEW done, NEW more, NEW files, NEW merged, NEW p, NEW m \in Mutation,
         done[p] \in Seq(Mutation), more[p] = Append(done[p], m), ExactFor(done, files, p),
         NEW first, first = IF p \in DOMAIN files THEN files[p].before ELSE m.original,
         p \in DOMAIN merged <=> first # m.target,
         p \in DOMAIN merged => merged[p].before = first /\ merged[p].after = m.target
  PROVE  ExactFor(more, merged, p)
<1> DEFINE ms == done[p]
           n == Len(ms)
           ns == more[p]
<1>1. n \in Nat /\ Len(ns) = n + 1 /\ n + 1 > 0
  BY LenProperties
<1>2. ns[n + 1] = m /\ \A i \in 1..n : ns[i] = ms[i]
  BY <1>1, AppendProperties
<1>3. n > 0 => 1 \in 1..n /\ ns[1] = ms[1] /\ n \in 1..n
  BY <1>1, <1>2
<1>4. n = 0 => ns[1] = m /\ n + 1 = 1
  BY <1>2
<1>5. 1..(n + 1) = (1..n) \cup {n + 1} /\ (n + 1) - 1 = n
  BY <1>1
<1>6. n > 0 => 1..n = (1..(n - 1)) \cup {n}
  BY <1>1
<1>7. p \in DOMAIN files =>
        /\ n > 0 /\ files[p].after = ms[n].target
        /\ \E i \in 1..n : files[p].before = ms[i].original
        /\ (\A i \in 1..(n - 1) : ms[i].target # ms[1].original) => files[p].before = ms[1].original
  BY DEF ExactFor
<1>8. p \notin DOMAIN files /\ n > 0 => \E i \in 1..n : ms[i].target = ms[1].original
  BY DEF ExactFor
<1> HIDE DEF ms, n, ns
<1>9. \E i \in 1..(n + 1) : first = ns[i].original
  <2>1. CASE p \in DOMAIN files
    BY <2>1, <1>2, <1>5, <1>7
  <2>2. CASE p \notin DOMAIN files
    BY <2>2, <1>2, <1>5
  <2> QED
    BY <2>1, <2>2
<1>10. (\A i \in 1..n : ns[i].target # ns[1].original) => first = ns[1].original
  <2>1. SUFFICES ASSUME \A i \in 1..n : ns[i].target # ns[1].original
                 PROVE  first = ns[1].original
    OBVIOUS
  <2>2. CASE p \in DOMAIN files
    <3>1. n > 0 /\ \A i \in 1..(n - 1) : ms[i].target # ms[1].original
      BY <2>1, <2>2, <1>2, <1>3, <1>6, <1>7
    <3> QED
      BY <2>2, <3>1, <1>3, <1>7
  <2>3. CASE p \notin DOMAIN files /\ n > 0
    BY <2>1, <2>3, <1>2, <1>3, <1>8
  <2>4. CASE p \notin DOMAIN files /\ n = 0
    BY <2>4, <1>4
  <2> QED
    BY <2>2, <2>3, <2>4, <1>1 DEF n
<1>11. first = m.target => \E i \in 1..(n + 1) : ns[i].target = ns[1].original
  <2>1. CASE \A i \in 1..n : ns[i].target # ns[1].original
    BY <2>1, <1>2, <1>5, <1>10
  <2>2. CASE \E i \in 1..n : ns[i].target = ns[1].original
    BY <2>2, <1>5
  <2> QED
    BY <2>1, <2>2
<1>12. CASE p \in DOMAIN merged
  <2>1. merged[p].before = first /\ merged[p].after = ns[n + 1].target
    BY <1>12, <1>2
  <2> QED
    BY <1>1, <1>5, <1>9, <1>10, <1>12, <2>1 DEF ExactFor, ns
<1>13. CASE p \notin DOMAIN merged
  <2>1. first = ns[n + 1].target
    BY <1>13, <1>2
  <2> QED
    BY <1>1, <1>2, <1>9, <1>11, <1>13, <2>1 DEF ExactFor, ns
<1> QED
  BY <1>12, <1>13


LEMMA RecordedSet ==
  ASSUME NEW s, SetOK(s), s.status = "capturing", NEW b \in Batches
  PROVE  LET q == [s EXCEPT !.files = Merged(s.files, b)] IN
         SetOK(q) /\ q.status = "capturing" /\ q.files = Merged(s.files, b)
<1> DEFINE f == Merged(s.files, b)
           q == [s EXCEPT !.files = f]
<1>1. s \in SetRec /\ s.files \in Journals /\ \A p \in DOMAIN s.files : s.files[p].before # s.files[p].after
  BY SetFields DEF SetOK
<1>2. f \in Journals /\ \A p \in DOMAIN f : f[p].before # f[p].after
  BY <1>1, MergedFacts
<1> HIDE DEF f
<1>3. q \in SetRec /\ q.status = "capturing" /\ q.files = f
  BY <1>1, <1>2 DEF SetRec
<1> HIDE DEF q
<1>4. SetOK(q)
  BY <1>2, <1>3 DEF SetOK
<1> QED
  BY <1>3, <1>4 DEF q, f

LEMMA RecordWriteKeeps ==
  ASSUME ShapePart, LockPart, FilePart, JournalPart, NEW w \in Writers, RecordWrite(w)
  PROVE  WriterStepKeeps(w) /\ JournalPart' /\ turn' = turn
<1> DEFINE b == writer[w].batch
           s == writer[w].view
<1>0. /\ writer[w].at = "merge" /\ WriterLocks(w) /\ w # Free /\ writer[w] \in WriterRec /\ SetOK(s)
      /\ Held(w) = DOMAIN b /\ b \in Batches /\ DOMAIN b \subseteq Paths
      /\ Batch(w) = b /\ journal_lock = w /\ journal_lock' = Free
  BY WriterNow, WriterFields DEF RecordWrite, WriterLocks, Batch
<1>1. /\ undo' = undo /\ disturbed' = disturbed /\ file' = file /\ Return(w)
      /\ turn' = turn /\ finalizing' = finalizing
      /\ committed' = [p \in Paths |-> IF p \in DOMAIN b THEN Append(committed[p], b[p]) ELSE committed[p]]
      /\ settled' = [p \in Paths |-> IF p \in DOMAIN b THEN file[p] ELSE settled[p]]
  BY <1>0 DEF RecordWrite
<1>2. /\ file \in [Paths -> Contents] /\ settled \in [Paths -> Contents]
      /\ committed \in [Paths -> Seq(Mutation)]
  BY DEF ShapePart
<1>3. \/ s.status = "capturing" /\ change_set' = [s EXCEPT !.files = Merged(s.files, b)]
      \/ s.status = "unavailable" /\ change_set' = change_set
  BY <1>0 DEF RecordWrite
<1> HIDE DEF b, s
<1>4. /\ settled' \in [Paths -> Contents]
      /\ \A p \in Paths : path_lock[p] # w => settled'[p] = settled[p]
      /\ \A p \in Paths : path_lock[p] = w => file[p] = settled'[p]
  BY <1>0, <1>1, <1>2 DEF Held
<1>5. ReturnsSettled(w)
  BY <1>0, <1>1, <1>4 DEF ReturnsSettled
<1>6. /\ writer' \in [Writers -> WriterRec] /\ \A v \in Writers : SetOK(writer'[v].view)
      /\ path_lock' \in [Paths -> {Free} \cup Writers \cup Undoers]
      /\ WriterFrame(w) /\ WriterOwn(w) /\ writer'[w].at = "idle"
  BY <1>5, WriterReturns
<1>7. /\ \A p \in DOMAIN b : committed'[p] = Append(committed[p], b[p]) /\ b[p] \in Mutation
      /\ \A p \in Paths \ DOMAIN b : committed'[p] = committed[p]
  BY <1>0, <1>1, BatchFacts
<1>8. committed' \in [Paths -> Seq(Mutation)]
  <2>1. \A p \in Paths : committed[p] \in Seq(Mutation)
    BY <1>2
  <2>2. ASSUME NEW p \in Paths
        PROVE  (IF p \in DOMAIN b THEN Append(committed[p], b[p]) ELSE committed[p]) \in Seq(Mutation)
    BY <1>7, <2>1, AppendProperties
  <2> QED
    BY <1>1, <2>2
<1>9. SetOK(change_set')
  <2>1. SetOK(change_set)
    BY DEF ShapePart
  <2> QED
    BY <1>0, <1>3, <2>1, RecordedSet
<1>10. ShapePart'
  BY <1>1, <1>4, <1>6, <1>8, <1>9, <1>2 DEF ShapePart
<1>11. ViewOK(w)
  BY DEF JournalPart
<1>12. (change_set.status = "capturing" => Exact(committed, change_set.files))'
  <2>1. CASE s.status = "unavailable" /\ change_set' = change_set
    <3>1. change_set.status = "unavailable"
      BY <1>0, <1>11, <2>1 DEF ViewOK, s
    <3> QED
      BY <2>1, <3>1
  <2>2. CASE s.status = "capturing" /\ change_set' = [s EXCEPT !.files = Merged(s.files, b)]
    <3> DEFINE f == Merged(s.files, b)
    <3>1. change_set'.files = f
      BY <1>0, <2>2, RecordedSet
    <3>2. Exact(committed, s.files)
      BY <1>0, <1>11, <2>2 DEF ViewOK, s
    <3>3. s.files \in Journals /\ \A p \in DOMAIN s.files : s.files[p].before # s.files[p].after
      BY <1>0, SetFields DEF SetOK
    <3>4. /\ \A p \in Paths \ DOMAIN b : /\ p \in DOMAIN f <=> p \in DOMAIN s.files
                                         /\ p \in DOMAIN s.files => f[p] = s.files[p]
          /\ \A p \in DOMAIN b : LET first == IF p \in DOMAIN s.files THEN s.files[p].before ELSE b[p].original IN
               /\ p \in DOMAIN f <=> first # b[p].target
               /\ p \in DOMAIN f => f[p].before = first /\ f[p].after = b[p].target
      BY <1>0, <3>3, MergedFacts
    <3> HIDE DEF f
    <3>5. ASSUME NEW p \in Paths PROVE ExactFor(committed', f, p)
      <4>1. ExactFor(committed, s.files, p)
        BY <3>2 DEF Exact
      <4>2. CASE p \notin DOMAIN b
        <5>1. committed'[p] = committed[p] /\ (p \in DOMAIN f <=> p \in DOMAIN s.files)
              /\ (p \in DOMAIN s.files => f[p] = s.files[p])
          BY <1>7, <3>4, <4>2
        <5> QED
          BY <4>1, <5>1 DEF ExactFor
      <4>3. CASE p \in DOMAIN b
        <5> DEFINE first == IF p \in DOMAIN s.files THEN s.files[p].before ELSE b[p].original
        <5>1. /\ p \in DOMAIN f <=> first # b[p].target
              /\ p \in DOMAIN f => f[p].before = first /\ f[p].after = b[p].target
          BY <3>4, <4>3
        <5>2. committed[p] \in Seq(Mutation) /\ committed'[p] = Append(committed[p], b[p]) /\ b[p] \in Mutation
          BY <1>2, <1>7, <4>3
        <5> QED
          BY <4>1, <5>1, <5>2, ExactStep
      <4> QED
        BY <4>2, <4>3
    <3> QED
      BY <3>1, <3>5 DEF Exact
  <2> QED
    BY <1>3, <2>1, <2>2
<1>13. ASSUME NEW v \in Writers PROVE ViewOK(v)'
  <2>1. writer'[v].at # "merge"
    <3>1. CASE v = w
      BY <1>6, <3>1
    <3>2. CASE v # w
      <4>1. WriterLocks(v) /\ writer'[v] = writer[v]
        BY <1>6, <3>2 DEF LockPart, WriterFrame
      <4> QED
        BY <1>0, <3>2, <4>1 DEF WriterLocks
    <3> QED
      BY <3>1, <3>2
  <2> QED
    BY <2>1 DEF ViewOK
<1>14. finalizing'.status = "capturing" => change_set'.status # "unavailable"
  <2>1. change_set.status = "unavailable" <=> s.status = "unavailable"
    BY <1>0, <1>11 DEF ViewOK, s
  <2>2. CASE s.status = "unavailable" /\ change_set' = change_set
    BY <1>1, <2>2 DEF JournalPart
  <2>3. CASE s.status = "capturing" /\ change_set' = [s EXCEPT !.files = Merged(s.files, b)]
    BY <1>0, <2>3, RecordedSet
  <2> QED
    BY <1>3, <2>2, <2>3
<1>15. JournalPart'
  BY <1>12, <1>13, <1>14 DEF JournalPart
<1> QED
  BY <1>1, <1>6, <1>10, <1>15 DEF WriterStepKeeps


-----------------------------------------------------------------------------
(* File changes: the steps of an undo                                        *)

LEMMA PlanFileTyped ==
  ASSUME NEW current \in Contents, NEW c \in Change
  PROVE  PlanFile(current, c) \subseteq Contents
<1>1. c.before \in Contents /\ c.after \in Contents
  BY DEF Change
<1>2. CASE c.before = Absent \/ c.after = Absent
  BY <1>1, <1>2 DEF PlanFile, Contents
<1>3. CASE c.before # Absent /\ c.after # Absent /\ current = Absent
  BY <1>3 DEF PlanFile
<1>4. CASE c.before # Absent /\ c.after # Absent /\ current # Absent
  <2>1. current \in [1..2 -> Hunks] /\ c.before \in [1..2 -> Hunks] /\ c.after \in [1..2 -> Hunks]
    BY <1>1, <1>4 DEF Contents
  <2> DEFINE q == [h \in DOMAIN current |-> IF current[h] = c.after[h] THEN c.before[h] ELSE current[h]]
  <2>2. q \in [1..2 -> Hunks]
    BY <2>1
  <2>3. MergedHunks(current, c) \subseteq {q}
    BY DEF MergedHunks
  <2> HIDE DEF q
  <2>4. PlanFile(current, c) = MergedHunks(current, c)
    BY <1>4 DEF PlanFile
  <2> QED
    BY <2>2, <2>3, <2>4 DEF Contents
<1> QED
  BY <1>2, <1>3, <1>4

LEMMA UndoBecomes ==
  ASSUME ShapePart, NEW u \in Undoers, NEW r \in UndoRec, SetOK(r.set),
         undo' = [undo EXCEPT ![u] = r]
  PROVE  /\ undo' \in [Undoers -> UndoRec] /\ undo'[u] = r
         /\ \A v \in Undoers \ {u} : undo'[v] = undo[v]
         /\ \A v \in Undoers : SetOK(undo'[v].set)
<1>1. undo \in [Undoers -> UndoRec] /\ \A v \in Undoers : SetOK(undo[v].set)
  BY DEF ShapePart
<1>2. undo' \in [Undoers -> UndoRec] /\ undo'[u] = r /\ \A v \in Undoers \ {u} : undo'[v] = undo[v]
  BY <1>1
<1> QED
  BY <1>1, <1>2

LEMMA UndoNow ==
  ASSUME ShapePart, LockPart, NEW u \in Undoers
  PROVE  /\ undo[u] \in UndoRec /\ SetOK(undo[u].set) /\ UndoLocks(u) /\ u # Free
         /\ undo[u].set.files \in Journals /\ DOMAIN undo[u].set.files \subseteq Paths
         /\ Free \notin Writers /\ Free \notin Undoers /\ u \notin Writers
<1>1. undo[u] \in UndoRec /\ SetOK(undo[u].set) /\ UndoLocks(u)
  BY DEF ShapePart, LockPart
<1> QED
  BY <1>1, SetFields, ChangesAssumption

LEMMA MovedUndo ==
  ASSUME NEW r \in UndoRec, NEW s \in UndoSteps
  PROVE  LET q == [r EXCEPT !.at = s] IN
         /\ q \in UndoRec /\ q.at = s /\ q.set = r.set /\ q.observed = r.observed
         /\ q.plan = r.plan /\ q.done = r.done
BY DEF UndoRec

Requested(r, s) == [r EXCEPT !.at = "workspace", !.set = s]

LEMMA RequestedUndo ==
  ASSUME NEW r \in UndoRec, NEW s \in SetRec
  PROVE  /\ Requested(r, s) \in UndoRec /\ Requested(r, s).at = "workspace"
         /\ Requested(r, s).set = s /\ Requested(r, s).done = r.done
BY DEF UndoRec, UndoSteps, Requested

Planned(r, o, t) == [r EXCEPT !.at = "verify", !.observed = o, !.plan = t]

LEMMA PlannedUndo ==
  ASSUME NEW r \in UndoRec, NEW o \in Trees, NEW t \in Trees
  PROVE  /\ Planned(r, o, t) \in UndoRec /\ Planned(r, o, t).at = "verify"
         /\ Planned(r, o, t).set = r.set /\ Planned(r, o, t).observed = o
         /\ Planned(r, o, t).plan = t /\ Planned(r, o, t).done = r.done
BY DEF UndoRec, UndoSteps, Planned

LEMMA AppliedUndo ==
  ASSUME NEW r \in UndoRec, NEW d \in SUBSET Paths
  PROVE  LET q == [r EXCEPT !.done = d] IN
         /\ q \in UndoRec /\ q.at = r.at /\ q.set = r.set /\ q.observed = r.observed
         /\ q.plan = r.plan /\ q.done = d
BY DEF UndoRec

Restoring(r, d) == [r EXCEPT !.at = "restore", !.done = d]

LEMMA FailedUndo ==
  ASSUME NEW r \in UndoRec, NEW d \in SUBSET Paths
  PROVE  /\ Restoring(r, d) \in UndoRec /\ Restoring(r, d).at = "restore"
         /\ Restoring(r, d).set = r.set /\ Restoring(r, d).observed = r.observed
         /\ Restoring(r, d).plan = r.plan /\ Restoring(r, d).done = d
BY DEF UndoRec, UndoSteps, Restoring

LEMMA AnsweredUndo ==
  LET q == [NoUndo EXCEPT !.at = "answered"] IN
  q \in UndoRec /\ SetOK(q.set) /\ q.at = "answered" /\ q.done = {} /\ DOMAIN q.set.files = {}
<1>1. "answered" \in UndoSteps
  BY DEF UndoSteps
<1> QED
  BY <1>1, NoUndoFacts, MovedUndo

(* The locked files of u, as FilePart has them.                              *)
LEMMA UndoFiles ==
  ASSUME FilePart, NEW u \in Undoers, NEW p \in Paths \ disturbed, path_lock[p] = u
  PROVE  UndoHolds(u, p)
BY DEF FilePart, PathOK

UndoStepKeeps(u) == ShapePart' /\ UndoFrame(u) /\ UndoOwn(u)

(* A step that moves u on to r, on the paths it has locked already.          *)
UndoMovesOn(u, r) ==
  /\ r \in UndoRec /\ SetOK(r.set) /\ undo' = [undo EXCEPT ![u] = r]
  /\ writer' = writer /\ disturbed' = disturbed /\ path_lock' = path_lock /\ settled' = settled
  /\ file' \in [Paths -> Contents] /\ \A p \in Paths : path_lock[p] # u => file'[p] = file[p]
  /\ journal_lock' = journal_lock /\ turn' = turn /\ change_set' = change_set
  /\ finalizing' = finalizing /\ committed' = committed
  /\ UndoLocks(u)'
  /\ \A p \in Paths \ disturbed : path_lock[p] = u => UndoHolds(u, p)'

LEMMA UndoMoves ==
  ASSUME ShapePart, LockPart, FilePart, NEW u \in Undoers, NEW r, UndoMovesOn(u, r)
  PROVE  UndoStepKeeps(u)
<1>0. r \in UndoRec /\ SetOK(r.set) /\ undo' = [undo EXCEPT ![u] = r]
  BY DEF UndoMovesOn
<1>1. /\ undo' \in [Undoers -> UndoRec]
      /\ \A v \in Undoers \ {u} : undo'[v] = undo[v]
      /\ \A v \in Undoers : SetOK(undo'[v].set)
  BY <1>0, UndoBecomes
<1>2. ShapePart'
  BY <1>1 DEF ShapePart, UndoMovesOn
<1>3. UndoFrame(u)
  BY <1>1 DEF UndoFrame, UndoMovesOn
<1>4. ASSUME NEW p \in Paths \ disturbed, path_lock[p] = u \/ path_lock'[p] = u
      PROVE  PathOK(p)'
  BY <1>4, ChangesAssumption DEF PathOK, UndoMovesOn
<1> QED
  BY <1>2, <1>3, <1>4 DEF UndoStepKeeps, UndoOwn, UndoMovesOn

(* u ends: the files it had locked are settled.                              *)
EndsSettled(u) ==
  /\ EndUndo(u) /\ file' = file /\ writer' = writer /\ disturbed' = disturbed /\ journal_lock' = journal_lock
  /\ turn' = turn /\ finalizing' = finalizing /\ committed' = committed /\ SetOK(change_set')
  /\ settled' \in [Paths -> Contents]
  /\ \A p \in Paths : path_lock[p] # u => settled'[p] = settled[p]
  /\ \A p \in Paths \ disturbed : path_lock[p] = u => file[p] = settled'[p]

LEMMA UndoEnds ==
  ASSUME ShapePart, LockPart, NEW u \in Undoers, EndsSettled(u)
  PROVE  UndoStepKeeps(u)
<1> DEFINE q == [NoUndo EXCEPT !.at = "answered"]
<1>1. u # Free /\ Free \notin Writers /\ Free \notin Undoers
  BY UndoNow
<1>2. undo' = [undo EXCEPT ![u] = q]
  BY DEF EndsSettled, EndUndo
<1>3. q \in UndoRec /\ SetOK(q.set) /\ q.at = "answered" /\ q.done = {} /\ DOMAIN q.set.files = {}
  BY AnsweredUndo
<1> HIDE DEF q
<1>4. /\ undo' \in [Undoers -> UndoRec] /\ undo'[u] = q
      /\ \A v \in Undoers \ {u} : undo'[v] = undo[v]
      /\ \A v \in Undoers : SetOK(undo'[v].set)
  BY <1>2, <1>3, UndoBecomes
<1>5. /\ path_lock' \in [Paths -> {Free} \cup Writers \cup Undoers]
      /\ \A p \in Paths : path_lock'[p] = IF path_lock[p] = u THEN Free ELSE path_lock[p]
      /\ Held(u)' = {}
  BY <1>1, ReleasedFacts DEF EndsSettled, EndUndo
<1>6. ShapePart'
  BY <1>4, <1>5 DEF ShapePart, EndsSettled
<1>7. UndoFrame(u)
  BY <1>1, <1>4, <1>5 DEF UndoFrame, EndsSettled
<1>8. UndoLocks(u)'
  BY <1>3, <1>4, <1>5 DEF UndoLocks
<1>9. ASSUME NEW p \in Paths \ disturbed, path_lock[p] = u \/ path_lock'[p] = u
      PROVE  PathOK(p)'
  <2>1. path_lock[p] = u /\ path_lock'[p] = Free
    BY <1>1, <1>5, <1>9
  <2> QED
    BY <1>1, <2>1 DEF PathOK, EndsSettled
<1> QED
  BY <1>6, <1>7, <1>8, <1>9 DEF UndoStepKeeps, UndoOwn


LEMMA RequestUndoKeeps ==
  ASSUME ShapePart, LockPart, FilePart, NEW u \in Undoers, RequestUndo(u)
  PROVE  UndoStepKeeps(u)
<1> DEFINE q == [undo[u] EXCEPT !.at = "workspace", !.set = change_set]
<1>0. undo[u].at = "idle" /\ undo[u] \in UndoRec /\ Held(u) = {} /\ undo[u].done = {}
  BY UndoNow DEF RequestUndo, UndoLocks
<1>1. /\ file' = file /\ writer' = writer /\ disturbed' = disturbed /\ path_lock' = path_lock /\ settled' = settled
      /\ journal_lock' = journal_lock /\ turn' = turn /\ change_set' = change_set
      /\ finalizing' = finalizing /\ committed' = committed
      /\ file \in [Paths -> Contents] /\ SetOK(change_set)
  BY DEF RequestUndo, locks, history, ShapePart
<1>2. undo' = [undo EXCEPT ![u] = q]
  BY DEF RequestUndo
<1>3. q \in UndoRec /\ q.at = "workspace" /\ SetOK(q.set) /\ q.done = {}
  <2>1. q = Requested(undo[u], change_set) /\ change_set \in SetRec
    BY <1>1 DEF Requested, SetOK
  <2> HIDE DEF q
  <2> QED
    BY <1>0, <1>1, <2>1, RequestedUndo
<1> HIDE DEF q
<1>4. undo'[u] = q
  BY <1>2, <1>3, UndoBecomes
<1>5. Held(u)' = {}
  BY <1>0, <1>1 DEF Held
<1>6. UndoLocks(u)'
  BY <1>3, <1>4, <1>5 DEF UndoLocks
<1>7. \A p \in Paths : path_lock[p] # u
  BY <1>0 DEF Held
<1>8. UndoMovesOn(u, q)
  BY <1>1, <1>2, <1>3, <1>6, <1>7 DEF UndoMovesOn
<1> QED
  BY <1>8, UndoMoves

LEMMA LockWorkspaceKeeps ==
  ASSUME ShapePart, LockPart, FilePart, NEW u \in Undoers, LockWorkspace(u)
  PROVE  UndoStepKeeps(u)
<1> DEFINE q == [undo[u] EXCEPT !.at = "paths"]
<1>0. /\ undo[u].at = "workspace" /\ undo[u] \in UndoRec /\ SetOK(undo[u].set) /\ Held(u) = {}
      /\ undo[u].done = {}
  BY UndoNow DEF LockWorkspace, UndoLocks
<1>1. /\ file' = file /\ writer' = writer /\ disturbed' = disturbed /\ path_lock' = path_lock /\ settled' = settled
      /\ journal_lock' = journal_lock /\ turn' = turn /\ change_set' = change_set
      /\ finalizing' = finalizing /\ committed' = committed /\ file \in [Paths -> Contents]
  BY DEF LockWorkspace, locks, history, ShapePart
<1>2. undo' = [undo EXCEPT ![u] = q]
  BY DEF LockWorkspace
<1>3. q \in UndoRec /\ q.at = "paths" /\ SetOK(q.set) /\ q.done = {}
  BY <1>0, MovedUndo DEF UndoSteps
<1> HIDE DEF q
<1>4. undo'[u] = q
  BY <1>2, <1>3, UndoBecomes
<1>5. Held(u)' = {}
  BY <1>0, <1>1 DEF Held
<1>6. UndoLocks(u)'
  BY <1>3, <1>4, <1>5 DEF UndoLocks
<1>7. \A p \in Paths : path_lock[p] # u
  BY <1>0 DEF Held
<1>8. UndoMovesOn(u, q)
  BY <1>1, <1>2, <1>3, <1>6, <1>7 DEF UndoMovesOn
<1> QED
  BY <1>8, UndoMoves

LEMMA LockUndoPathKeeps ==
  ASSUME ShapePart, LockPart, FilePart, NEW u \in Undoers, LockUndoPath(u)
  PROVE  UndoStepKeeps(u)
<1> DEFINE missing == DOMAIN undo[u].set.files \ Held(u)
<1>0. /\ undo[u].at = "paths" /\ UndoLocks(u) /\ undo[u] \in UndoRec /\ SetOK(undo[u].set)
      /\ undo[u].done = {} /\ u # Free /\ Free \notin Writers /\ Free \notin Undoers /\ u \notin Writers
      /\ Held(u) \subseteq DOMAIN undo[u].set.files /\ DOMAIN undo[u].set.files \subseteq Paths
  BY UndoNow DEF LockUndoPath, UndoLocks
<1>1. /\ file' = file /\ writer' = writer /\ disturbed' = disturbed /\ settled' = settled
      /\ journal_lock' = journal_lock /\ turn' = turn /\ change_set' = change_set
      /\ finalizing' = finalizing /\ committed' = committed /\ file \in [Paths -> Contents]
  BY DEF LockUndoPath, history, ShapePart
<1>2. CASE missing = {}
  <2> DEFINE q == [undo[u] EXCEPT !.at = "plan"]
  <2>1. undo' = [undo EXCEPT ![u] = q] /\ path_lock' = path_lock
    BY <1>2 DEF LockUndoPath
  <2>2. q \in UndoRec /\ q.at = "plan" /\ SetOK(q.set) /\ q.done = {} /\ q.set = undo[u].set
    BY <1>0, MovedUndo DEF UndoSteps
  <2> HIDE DEF q
  <2>3. undo'[u] = q
    BY <2>1, <2>2, UndoBecomes
  <2>4. Held(u)' = Held(u) /\ Held(u) = DOMAIN undo[u].set.files
    BY <1>0, <1>2, <2>1 DEF Held
  <2>5. UndoLocks(u)'
    BY <2>2, <2>3, <2>4 DEF UndoLocks
  <2>6. \A p \in Paths \ disturbed : path_lock[p] = u => UndoHolds(u, p)'
    BY <1>0, <1>1, <2>2, <2>3, UndoFiles DEF UndoHolds
  <2>7. UndoMovesOn(u, q)
    BY <1>1, <2>1, <2>2, <2>5, <2>6 DEF UndoMovesOn
  <2> QED
    BY <2>7, UndoMoves
<1>3. CASE missing # {}
  <2>1. PICK p \in NextPath(missing) : path_lock[p] = Free /\ path_lock' = [path_lock EXCEPT ![p] = u]
    BY <1>3 DEF LockUndoPath
  <2>2. undo' = undo
    BY <1>3 DEF LockUndoPath
  <2>3. p \in missing
    <3>1. missing \in SUBSET Paths
      BY <1>0
    <3> HIDE DEF missing
    <3> QED
      BY <1>3, <2>1, <3>1, MinOfPaths DEF NextPath
  <2>4. p \in DOMAIN undo[u].set.files /\ p \in Paths
    BY <1>0, <2>3
  <2> HIDE DEF missing
  <2>5. /\ path_lock' \in [Paths -> {Free} \cup Writers \cup Undoers]
        /\ path_lock'[p] = u /\ \A o \in Paths \ {p} : path_lock'[o] = path_lock[o]
    BY <2>1, <2>4 DEF ShapePart
  <2>6. ShapePart'
    BY <1>1, <2>2, <2>5 DEF ShapePart
  <2>7. UndoFrame(u)
    BY <1>1, <2>1, <2>2, <2>5 DEF UndoFrame
  <2>8. Held(u)' = Held(u) \cup {p}
    BY <2>4, <2>5 DEF Held
  <2>9. UndoLocks(u)'
    BY <1>0, <2>2, <2>4, <2>8 DEF UndoLocks
  <2>10. ASSUME NEW o \in Paths \ disturbed, path_lock[o] = u \/ path_lock'[o] = u
         PROVE  PathOK(o)'
    <3>1. path_lock'[o] = u /\ (path_lock[o] = u \/ path_lock[o] = Free)
      BY <2>1, <2>5, <2>10
    <3>2. file[o] = settled[o]
      BY <1>0, <3>1 DEF FilePart, PathOK, UndoHolds
    <3>3. UndoHolds(u, o)'
      BY <1>0, <1>1, <2>2, <3>2 DEF UndoHolds
    <3> QED
      BY <1>0, <3>1, <3>3 DEF PathOK
  <2> QED
    BY <2>6, <2>7, <2>9, <2>10 DEF UndoStepKeeps, UndoOwn
<1> QED
  BY <1>2, <1>3

LEMMA PlanUndoKeeps ==
  ASSUME ShapePart, LockPart, FilePart, NEW u \in Undoers, PlanUndo(u)
  PROVE  UndoStepKeeps(u)
<1> DEFINE s == undo[u].set
           paths == DOMAIN s.files
           refused == s.reverted \/ \E p \in paths : PlanFile(file[p], s.files[p]) = {}
<1>0. /\ undo[u].at = "plan" /\ UndoLocks(u) /\ undo[u] \in UndoRec /\ SetOK(s) /\ undo[u].done = {}
      /\ Held(u) = paths /\ paths \in SUBSET Paths /\ s.files \in Journals
  BY UndoNow DEF PlanUndo, UndoLocks
<1>1. /\ file' = file /\ writer' = writer /\ disturbed' = disturbed /\ settled' = settled
      /\ journal_lock' = journal_lock /\ turn' = turn /\ change_set' = change_set
      /\ finalizing' = finalizing /\ committed' = committed
      /\ file \in [Paths -> Contents] /\ settled \in [Paths -> Contents] /\ SetOK(change_set)
  BY DEF PlanUndo, history, ShapePart
<1>2. \A p \in Paths \ disturbed : path_lock[p] = u => file[p] = settled[p]
  BY <1>0, UndoFiles DEF UndoHolds
<1>3. CASE refused
  <2>1. EndUndo(u)
    BY <1>3 DEF PlanUndo
  <2>2. EndsSettled(u)
    BY <1>1, <1>2, <2>1 DEF EndsSettled
  <2> QED
    BY <2>2, UndoEnds
<1>4. CASE ~refused
  <2> DEFINE o == [p \in paths |-> file[p]]
             t == [p \in paths |-> CHOOSE v \in PlanFile(file[p], s.files[p]) : TRUE]
             q == [undo[u] EXCEPT !.at = "verify", !.observed = o, !.plan = t]
  <2>1. undo' = [undo EXCEPT ![u] = q] /\ path_lock' = path_lock
    BY <1>4 DEF PlanUndo
  <2>2. \A p \in paths : PlanFile(file[p], s.files[p]) # {}
    BY <1>4
  <2> HIDE DEF refused
  <2>3. \A p \in paths : file[p] \in Contents /\ s.files[p] \in Change
    BY <1>0, <1>1, JournalFacts
  <2>4. \A p \in paths : /\ (CHOOSE v \in PlanFile(file[p], s.files[p]) : TRUE) \in PlanFile(file[p], s.files[p])
                         /\ PlanFile(file[p], s.files[p]) \subseteq Contents
    BY <2>2, <2>3, PlanFileTyped
  <2> HIDE DEF s
  <2>5. o \in [paths -> Contents] /\ t \in [paths -> Contents]
    BY <2>3, <2>4
  <2>6. o \in Trees /\ t \in Trees
    BY <1>0, <2>5 DEF Trees
  <2>7. /\ DOMAIN o = paths /\ DOMAIN t = paths
        /\ \A p \in paths : o[p] = file[p] /\ t[p] \in PlanFile(file[p], s.files[p])
    BY <2>4
  <2> HIDE DEF o, t
  <2>8. q \in UndoRec /\ q.at = "verify" /\ q.set = s /\ q.observed = o /\ q.plan = t /\ q.done = {}
    <3>1. undo[u] \in UndoRec /\ undo[u].done = {} /\ s = undo[u].set
      BY <1>0 DEF s
    <3>2. q = Planned(undo[u], o, t)
      BY DEF Planned
    <3> HIDE DEF q
    <3> QED
      BY <2>6, <3>1, <3>2, PlannedUndo
  <2> HIDE DEF q
  <2>9. undo'[u] = q
    BY <1>0, <2>1, <2>8, UndoBecomes
  <2>10. Held(u)' = Held(u)
    BY <2>1 DEF Held
  <2>11. UndoLocks(u)'
    BY <1>0, <2>7, <2>8, <2>9, <2>10 DEF UndoLocks
  <2>12. ASSUME NEW p \in Paths \ disturbed, path_lock[p] = u PROVE UndoHolds(u, p)'
    <3>1. p \in paths /\ file[p] = settled[p]
      BY <1>0, <1>2, <2>12 DEF Held
    <3> QED
      BY <1>1, <2>7, <2>8, <2>9, <3>1 DEF UndoHolds
  <2>13. UndoMovesOn(u, q)
    BY <1>0, <1>1, <2>1, <2>8, <2>11, <2>12 DEF UndoMovesOn
  <2> QED
    BY <2>13, UndoMoves
<1> QED
  BY <1>3, <1>4

LEMMA VerifyUndoKeeps ==
  ASSUME ShapePart, LockPart, FilePart, NEW u \in Undoers, VerifyUndo(u)
  PROVE  UndoStepKeeps(u)
<1>0. /\ undo[u].at = "verify" /\ UndoLocks(u) /\ undo[u] \in UndoRec /\ SetOK(undo[u].set) /\ undo[u].done = {}
  BY UndoNow DEF VerifyUndo, UndoLocks
<1>1. /\ file' = file /\ writer' = writer /\ disturbed' = disturbed /\ settled' = settled
      /\ journal_lock' = journal_lock /\ turn' = turn /\ change_set' = change_set
      /\ finalizing' = finalizing /\ committed' = committed
      /\ file \in [Paths -> Contents] /\ settled \in [Paths -> Contents] /\ SetOK(change_set)
  BY DEF VerifyUndo, history, ShapePart
<1>2. CASE ~Observed(u)
  <2>1. EndUndo(u)
    BY <1>2 DEF VerifyUndo
  <2>2. \A p \in Paths \ disturbed : path_lock[p] = u => file[p] = settled[p]
    BY <1>0, UndoFiles DEF UndoHolds
  <2>3. EndsSettled(u)
    BY <1>1, <2>1, <2>2 DEF EndsSettled
  <2> QED
    BY <2>3, UndoEnds
<1>3. CASE Observed(u)
  <2> DEFINE q == [undo[u] EXCEPT !.at = "apply"]
  <2>1. undo' = [undo EXCEPT ![u] = q] /\ path_lock' = path_lock
    BY <1>3 DEF VerifyUndo
  <2>2. /\ q \in UndoRec /\ q.at = "apply" /\ q.set = undo[u].set /\ q.observed = undo[u].observed
        /\ q.plan = undo[u].plan /\ q.done = {}
    BY <1>0, MovedUndo DEF UndoSteps
  <2> HIDE DEF q
  <2>3. undo'[u] = q
    BY <1>0, <2>1, <2>2, UndoBecomes
  <2>4. Held(u)' = Held(u)
    BY <2>1 DEF Held
  <2>5. UndoLocks(u)'
    BY <1>0, <2>2, <2>3, <2>4 DEF UndoLocks
  <2>6. \A p \in Paths \ disturbed : path_lock[p] = u => UndoHolds(u, p)'
    BY <1>0, <1>1, <2>2, <2>3, UndoFiles DEF UndoHolds
  <2>7. UndoMovesOn(u, q)
    BY <1>0, <1>1, <2>1, <2>2, <2>5, <2>6 DEF UndoMovesOn
  <2> QED
    BY <2>7, UndoMoves
<1> QED
  BY <1>2, <1>3


LEMMA ApplyNextKeeps ==
  ASSUME ShapePart, LockPart, FilePart, NEW u \in Undoers, ApplyNext(u)
  PROVE  UndoStepKeeps(u)
<1> DEFINE r == undo[u]
           rest == DOMAIN r.plan \ r.done
           m == Min(rest)
<1>0. /\ r.at = "apply" /\ UndoLocks(u) /\ r \in UndoRec /\ SetOK(r.set)
      /\ Held(u) = DOMAIN r.set.files /\ DOMAIN r.plan = DOMAIN r.set.files /\ r.done \subseteq DOMAIN r.plan
      /\ DOMAIN r.plan \in SUBSET Paths /\ r.plan \in Trees /\ rest # {}
  BY UndoNow, UndoFields DEF ApplyNext, UndoLocks
<1>1. /\ writer' = writer /\ disturbed' = disturbed /\ settled' = settled /\ path_lock' = path_lock
      /\ journal_lock' = journal_lock /\ turn' = turn /\ change_set' = change_set
      /\ finalizing' = finalizing /\ committed' = committed /\ file \in [Paths -> Contents]
  BY DEF ApplyNext, locks, history, ShapePart
<1>2. m \in rest
  <2>1. rest \in SUBSET Paths /\ rest # {}
    BY <1>0
  <2> HIDE DEF rest
  <2> QED
    BY <2>1, MinOfPaths
<1>3. m \in DOMAIN r.plan /\ m \in Paths /\ path_lock[m] = u /\ r.plan[m] \in Contents /\ Absent \in Contents
  BY <1>0, <1>2, TreeFacts DEF Held, Contents
<1>4. \/ /\ file' = [file EXCEPT ![m] = r.plan[m]]
         /\ undo' = [undo EXCEPT ![u].done = r.done \cup {m}]
      \/ /\ file' \in {file, [file EXCEPT ![m] = Absent]}
         /\ undo' = [undo EXCEPT ![u] = [@ EXCEPT !.at = "restore", !.done = DOMAIN r.plan]]
  BY DEF ApplyNext
<1> HIDE DEF rest, m
<1>5. Held(u)' = Held(u)
  BY <1>1 DEF Held
<1>6. CASE /\ file' = [file EXCEPT ![m] = r.plan[m]]
           /\ undo' = [undo EXCEPT ![u].done = r.done \cup {m}]
  <2> DEFINE d == r.done \cup {m}
             q == [undo[u] EXCEPT !.done = d]
  <2>1. d \in SUBSET Paths /\ d \subseteq DOMAIN r.plan
    BY <1>0, <1>3
  <2>2. undo' = [undo EXCEPT ![u] = q]
    BY <1>6
  <2> HIDE DEF d
  <2>3. /\ q \in UndoRec /\ q.at = "apply" /\ q.set = r.set /\ q.observed = r.observed
        /\ q.plan = r.plan /\ q.done = d
    BY <1>0, <2>1, AppliedUndo
  <2> HIDE DEF q
  <2>4. undo'[u] = q
    BY <1>0, <2>2, <2>3, UndoBecomes
  <2>5. file' \in [Paths -> Contents] /\ file'[m] = r.plan[m] /\ \A p \in Paths \ {m} : file'[p] = file[p]
    BY <1>1, <1>3, <1>6
  <2>6. UndoLocks(u)'
    BY <1>0, <1>5, <2>1, <2>3, <2>4 DEF UndoLocks
  <2>7. ASSUME NEW p \in Paths \ disturbed, path_lock[p] = u PROVE UndoHolds(u, p)'
    <3>1. UndoHolds(u, p)
      BY <2>7, UndoFiles
    <3> QED
      BY <1>0, <1>1, <2>3, <2>4, <2>5, <3>1 DEF UndoHolds, d
  <2>8. \A p \in Paths : path_lock[p] # u => file'[p] = file[p]
    BY <1>3, <2>5
  <2>9. UndoMovesOn(u, q)
    BY <1>0, <1>1, <2>2, <2>3, <2>5, <2>6, <2>7, <2>8 DEF UndoMovesOn
  <2> QED
    BY <2>9, UndoMoves
<1>7. CASE /\ file' \in {file, [file EXCEPT ![m] = Absent]}
           /\ undo' = [undo EXCEPT ![u] = [@ EXCEPT !.at = "restore", !.done = DOMAIN r.plan]]
  <2> DEFINE d == DOMAIN r.plan
             q == [undo[u] EXCEPT !.at = "restore", !.done = d]
  <2>1. undo' = [undo EXCEPT ![u] = q]
    BY <1>7
  <2>2. d \in SUBSET Paths /\ d = DOMAIN r.plan
    BY <1>0
  <2> HIDE DEF d
  <2>3. /\ q \in UndoRec /\ q.at = "restore" /\ q.set = r.set /\ q.observed = r.observed
        /\ q.plan = r.plan /\ q.done = d
    <3>1. q = Restoring(undo[u], d)
      BY DEF Restoring
    <3> HIDE DEF q
    <3> QED
      BY <1>0, <2>2, <3>1, FailedUndo
  <2> HIDE DEF q
  <2>4. undo'[u] = q
    BY <1>0, <2>1, <2>3, UndoBecomes
  <2>5. file' \in [Paths -> Contents] /\ \A p \in Paths \ {m} : file'[p] = file[p]
    BY <1>1, <1>3, <1>7
  <2>6. UndoLocks(u)'
    BY <1>0, <1>5, <2>2, <2>3, <2>4 DEF UndoLocks
  <2>7. ASSUME NEW p \in Paths \ disturbed, path_lock[p] = u PROVE UndoHolds(u, p)'
    <3>1. UndoHolds(u, p)
      BY <2>7, UndoFiles
    <3>2. p \in d
      BY <1>0, <2>2, <2>7 DEF Held
    <3> QED
      BY <1>0, <1>1, <2>3, <2>4, <3>1, <3>2 DEF UndoHolds
  <2>8. \A p \in Paths : path_lock[p] # u => file'[p] = file[p]
    BY <1>3, <2>5
  <2>9. UndoMovesOn(u, q)
    BY <1>0, <1>1, <2>1, <2>3, <2>5, <2>6, <2>7, <2>8 DEF UndoMovesOn
  <2> QED
    BY <2>9, UndoMoves
<1> QED
  BY <1>4, <1>6, <1>7

LEMMA RestoreNextKeeps ==
  ASSUME ShapePart, LockPart, FilePart, NEW u \in Undoers, RestoreNext(u)
  PROVE  UndoStepKeeps(u)
<1> DEFINE r == undo[u]
<1>0. /\ r.at = "restore" /\ UndoLocks(u) /\ r \in UndoRec /\ SetOK(r.set)
      /\ Held(u) = DOMAIN r.set.files /\ DOMAIN r.observed = DOMAIN r.set.files
      /\ r.done \subseteq DOMAIN r.observed
      /\ DOMAIN r.observed \in SUBSET Paths /\ r.observed \in Trees /\ r.done \in SUBSET Paths
  BY UndoNow, UndoFields DEF RestoreNext, UndoLocks
<1>1. /\ writer' = writer /\ disturbed' = disturbed /\ settled' = settled
      /\ journal_lock' = journal_lock /\ turn' = turn /\ change_set' = change_set
      /\ finalizing' = finalizing /\ committed' = committed
      /\ file \in [Paths -> Contents] /\ settled \in [Paths -> Contents] /\ SetOK(change_set)
  BY DEF RestoreNext, history, ShapePart
<1>2. CASE r.done = {}
  <2>1. EndUndo(u) /\ file' = file
    BY <1>2 DEF RestoreNext
  <2>2. \A p \in Paths \ disturbed : path_lock[p] = u => file[p] = settled[p]
    BY <1>2, UndoFiles DEF UndoHolds
  <2>3. EndsSettled(u)
    BY <1>1, <2>1, <2>2 DEF EndsSettled
  <2> QED
    BY <2>3, UndoEnds
<1>3. CASE r.done # {}
  <2> DEFINE m == Max(r.done)
  <2>1. m \in r.done
    BY <1>0, <1>3, MaxOfPaths
  <2>2. /\ file' = [file EXCEPT ![m] = r.observed[m]]
        /\ undo' = [undo EXCEPT ![u].done = r.done \ {m}]
        /\ path_lock' = path_lock
    BY <1>3 DEF RestoreNext
  <2> HIDE DEF m
  <2>3. m \in DOMAIN r.observed /\ m \in Paths /\ path_lock[m] = u /\ r.observed[m] \in Contents
    BY <1>0, <2>1, TreeFacts DEF Held
  <2> DEFINE d == r.done \ {m}
             q == [undo[u] EXCEPT !.done = d]
  <2>4. d \in SUBSET Paths /\ d \subseteq r.done
    BY <1>0
  <2>5. undo' = [undo EXCEPT ![u] = q]
    BY <2>2
  <2> HIDE DEF d
  <2>6. /\ q \in UndoRec /\ q.at = "restore" /\ q.set = r.set /\ q.observed = r.observed
        /\ q.plan = r.plan /\ q.done = d
    BY <1>0, <2>4, AppliedUndo
  <2> HIDE DEF q
  <2>7. undo'[u] = q
    BY <1>0, <2>5, <2>6, UndoBecomes
  <2>8. file' \in [Paths -> Contents] /\ file'[m] = r.observed[m] /\ \A p \in Paths \ {m} : file'[p] = file[p]
    BY <1>1, <2>2, <2>3
  <2>9. Held(u)' = Held(u)
    BY <2>2 DEF Held
  <2>10. UndoLocks(u)'
    BY <1>0, <2>4, <2>6, <2>7, <2>9 DEF UndoLocks
  <2>11. ASSUME NEW p \in Paths \ disturbed, path_lock[p] = u PROVE UndoHolds(u, p)'
    <3>1. UndoHolds(u, p)
      BY <2>11, UndoFiles
    <3> QED
      BY <1>0, <1>1, <2>6, <2>7, <2>8, <3>1 DEF UndoHolds, d
  <2>12. \A p \in Paths : path_lock[p] # u => file'[p] = file[p]
    BY <2>3, <2>8
  <2>13. UndoMovesOn(u, q)
    BY <1>0, <1>1, <2>2, <2>5, <2>6, <2>8, <2>10, <2>11, <2>12 DEF UndoMovesOn
  <2> QED
    BY <2>13, UndoMoves
<1> QED
  BY <1>2, <1>3

LEMMA RevertedSet ==
  ASSUME NEW s, SetOK(s)
  PROVE  LET q == [s EXCEPT !.reverted = TRUE] IN
         SetOK(q) /\ q.status = s.status /\ q.files = s.files
<1> DEFINE q == [s EXCEPT !.reverted = TRUE]
<1>1. q \in SetRec /\ q.status = s.status /\ q.files = s.files
  BY DEF SetOK, SetRec
<1> HIDE DEF q
<1>2. SetOK(q)
  BY <1>1 DEF SetOK
<1> QED
  BY <1>1, <1>2 DEF q

LEMMA MarkRevertedKeeps ==
  ASSUME ShapePart, LockPart, FilePart, NEW u \in Undoers, MarkReverted(u)
  PROVE  UndoStepKeeps(u)
<1> DEFINE r == undo[u]
<1>0. /\ r.at = "apply" /\ r \in UndoRec /\ Held(u) = DOMAIN r.plan
  BY UndoNow DEF MarkReverted, UndoLocks
<1>1. /\ file' = file /\ writer' = writer /\ disturbed' = disturbed
      /\ journal_lock' = journal_lock /\ turn' = turn
      /\ finalizing' = finalizing /\ committed' = committed /\ EndUndo(u)
      /\ settled' = [p \in Paths |-> IF p \in DOMAIN r.plan THEN file[p] ELSE settled[p]]
  BY DEF MarkReverted
<1>2. file \in [Paths -> Contents] /\ settled \in [Paths -> Contents]
  BY DEF ShapePart
<1>3. /\ settled' \in [Paths -> Contents]
      /\ \A p \in Paths : path_lock[p] # u => settled'[p] = settled[p]
      /\ \A p \in Paths : path_lock[p] = u => file[p] = settled'[p]
  BY <1>0, <1>1, <1>2 DEF Held
<1>4. SetOK(change_set')
  BY RevertedSet DEF MarkReverted, ShapePart
<1>5. EndsSettled(u)
  BY <1>1, <1>3, <1>4 DEF EndsSettled
<1> QED
  BY <1>5, UndoEnds


-----------------------------------------------------------------------------
(* File changes: every step keeps the invariant                              *)

LEMMA FinalizedSet ==
  ASSUME NEW s, SetOK(s), NEW t \in SetStatuses, t = "empty" => s.files = <<>>
  PROVE  LET q == [s EXCEPT !.status = t] IN SetOK(q) /\ q.status = t /\ q.files = s.files
<1> DEFINE q == [s EXCEPT !.status = t]
<1>1. q \in SetRec /\ q.status = t /\ q.files = s.files
  BY DEF SetOK, SetRec
<1> HIDE DEF q
<1>2. SetOK(q)
  BY <1>1 DEF SetOK
<1> QED
  BY <1>1, <1>2 DEF q

LEMMA TurnMoves ==
  ASSUME ChangesInv, BeginTurn \/ PauseTurn \/ ResumeTurn \/ FinalizeRead \/ FinalizeWrite
  PROVE  ChangesInv'
<1>0. ShapePart /\ LockPart /\ FilePart /\ JournalPart /\ TurnPart
  BY DEF ChangesInv
<1>1. TasksSame /\ committed' = committed /\ workspace_lock' = workspace_lock
  BY DEF BeginTurn, PauseTurn, ResumeTurn, FinalizeRead, FinalizeWrite, TasksSame, locks, history
<1>2. LockPart' /\ FilePart'
  BY <1>0, <1>1, TasksSameKeeps
<1>3. SUFFICES ShapePart' /\ JournalPart' /\ TurnPart'
  BY <1>2 DEF ChangesInv
<1>4. SetOK(change_set) /\ SetOK(finalizing)
  BY <1>0 DEF ShapePart
<1>5. ASSUME SetOK(change_set'), SetOK(finalizing'), turn' \in {"new", "running", "paused", "ended"}
      PROVE  ShapePart'
  BY <1>0, <1>1, <1>5 DEF ShapePart, TasksSame
<1>6. workspace_lock = Free => workspace_lock \notin Undoers
  BY ChangesAssumption
<1>7. CASE BeginTurn
  <2>1. PICK s \in {"capturing", "unavailable"} : change_set' = [NoSet EXCEPT !.status = s]
    BY <1>7 DEF BeginTurn
  <2>2. turn = "new" /\ turn' = "running" /\ finalizing' = finalizing /\ workspace_lock = Free
    BY <1>7 DEF BeginTurn
  <2>3. s \in SetStatuses /\ s # "empty"
    BY DEF SetStatuses
  <2>4. SetOK(change_set') /\ change_set'.status = s /\ change_set'.files = <<>>
    BY <2>1, <2>3, NoSetOK, FinalizedSet
  <2>5. /\ \A w \in Writers : writer[w].at = "idle"
        /\ \A p \in Paths : committed[p] = <<>>
        /\ finalizing.status = "none"
    BY <1>0, <2>2 DEF TurnPart
  <2>6. Exact(committed', change_set'.files)
    <3>1. \A p \in Paths : ~(Len(committed[p]) > 0)
      BY <2>5
    <3>2. DOMAIN change_set'.files = {}
      BY <2>4, EmptyTree
    <3>3. ASSUME NEW p \in Paths PROVE ExactFor(committed, change_set'.files, p)
      BY <3>1, <3>2 DEF ExactFor
    <3> QED
      BY <1>1, <3>3 DEF Exact
  <2>7. \A w \in Writers : ViewOK(w)'
    BY <1>1, <2>5 DEF ViewOK, TasksSame
  <2>8. JournalPart'
    BY <2>2, <2>5, <2>6, <2>7 DEF JournalPart
  <2>9. TurnPart'
    BY <1>1, <1>6, <2>2 DEF TurnPart
  <2> QED
    BY <1>4, <1>5, <2>2, <2>4, <2>8, <2>9
<1>8. CASE PauseTurn \/ ResumeTurn
  <2>1. /\ change_set' = change_set /\ finalizing' = finalizing /\ turn' \in {"running", "paused"}
        /\ turn' = "running" => workspace_lock = Free
    BY <1>8 DEF PauseTurn, ResumeTurn
  <2>2. JournalPart'
    <3>1. JournalSame
      BY <1>1, <2>1 DEF JournalSame, TasksSame
    <3> QED
      BY <1>0, <3>1, JournalSameKeeps
  <2>3. TurnPart'
    BY <1>1, <1>6, <2>1 DEF TurnPart
  <2> QED
    BY <1>4, <1>5, <2>1, <2>2, <2>3
<1>9. CASE FinalizeRead
  <2>1. /\ finalizing' = change_set /\ change_set' = change_set /\ turn' = turn
        /\ turn \in {"running", "paused"}
    BY <1>9 DEF FinalizeRead
  <2>2. \A w \in Writers : ViewOK(w)'
    BY <1>0, <1>1, <2>1 DEF JournalPart, ViewOK, TasksSame
  <2>3. JournalPart'
    BY <1>0, <1>1, <2>1, <2>2 DEF JournalPart
  <2>4. TurnPart'
    BY <1>0, <1>1, <2>1 DEF TurnPart
  <2> QED
    BY <1>4, <1>5, <2>1, <2>3, <2>4
<1>10. CASE FinalizeWrite
  <2>1. turn' = "ended" /\ finalizing' = finalizing
    BY <1>10 DEF FinalizeWrite
  <2>2. TurnPart'
    BY <2>1 DEF TurnPart
  <2>3. CASE finalizing.status # "capturing"
    <3>1. change_set' = change_set
      BY <1>10, <2>3 DEF FinalizeWrite
    <3>2. JournalPart'
      <4>1. JournalSame
        BY <1>1, <2>1, <3>1 DEF JournalSame, TasksSame
      <4> QED
        BY <1>0, <4>1, JournalSameKeeps
    <3> QED
      BY <1>4, <1>5, <2>1, <2>2, <3>1, <3>2
  <2>4. CASE finalizing.status = "capturing"
    <3>1. PICK s \in {"empty", "ready", "failed"} :
            change_set' = [finalizing EXCEPT !.status = s] /\ (s = "empty" => finalizing.files = <<>>)
      BY <1>10, <2>4 DEF FinalizeWrite
    <3>2. s \in SetStatuses
      BY DEF SetStatuses
    <3>3. SetOK(change_set') /\ change_set'.status = s
      BY <1>4, <3>1, <3>2, FinalizedSet
    <3>4. change_set.status # "unavailable"
      BY <1>0, <2>4 DEF JournalPart
    <3>5. ASSUME NEW w \in Writers PROVE ViewOK(w)'
      BY <1>0, <1>1, <3>3, <3>4 DEF JournalPart, ViewOK, TasksSame
    <3>6. JournalPart'
      BY <3>3, <3>5 DEF JournalPart
    <3> QED
      BY <1>4, <1>5, <2>1, <2>2, <3>3, <3>6
  <2> QED
    BY <2>3, <2>4
<1> QED
  BY <1>7, <1>8, <1>9, <1>10

LEMMA WriterKeeps ==
  ASSUME ChangesInv, NEW w \in Writers, PrepareBatch(w) \/ WriterStep(w)
  PROVE  ChangesInv'
<1>0. ShapePart /\ LockPart /\ FilePart /\ JournalPart /\ TurnPart
  BY DEF ChangesInv
<1>1. WriterStepKeeps(w)
  BY <1>0, PrepareBatchKeeps, LockPathKeeps, ValidateKeeps, WriteNextKeeps, RecordReadKeeps, RecordWriteKeeps,
     RecordRefusedKeeps, RollbackKeeps DEF WriterStep
<1>2. ShapePart' /\ LockPart' /\ FilePart'
  BY <1>0, <1>1, WriterFrameKeeps DEF WriterStepKeeps
<1>3. turn' = turn /\ workspace_lock' = workspace_lock /\ finalizing' = finalizing
  BY DEF WriterStep, PrepareBatch, LockPath, Validate, WriteNext, RecordRead, RecordWrite, RecordRefused, Rollback,
         locks
<1>4. turn # "new"
  <2>1. writer[w].at # "idle" \/ turn = "running"
    BY DEF WriterStep, PrepareBatch, LockPath, Validate, WriteNext, RecordRead, RecordWrite, RecordRefused, Rollback
  <2> QED
    BY <1>0, <2>1 DEF TurnPart
<1>5. TurnPart'
  BY <1>0, <1>3, <1>4 DEF TurnPart
<1>6. JournalPart'
  <2>1. CASE RecordWrite(w)
    BY <1>0, <2>1, RecordWriteKeeps
  <2>2. CASE RecordRead(w)
    <3>1. change_set' = change_set /\ committed' = committed
      BY <2>2 DEF RecordRead, history
    <3>2. writer'[w].view = change_set /\ \A v \in Writers \ {w} : writer'[v] = writer[v]
      BY <1>0, <1>1, <2>2, RecordReadKeeps DEF WriterStepKeeps, WriterFrame
    <3>3. ASSUME NEW v \in Writers PROVE ViewOK(v)'
      <4>1. CASE v = w
        BY <1>0, <3>1, <3>2, <4>1 DEF ViewOK, JournalPart
      <4>2. CASE v # w
        BY <1>0, <3>1, <3>2, <4>2 DEF ViewOK, JournalPart
      <4> QED
        BY <4>1, <4>2
    <3> QED
      BY <1>0, <1>3, <3>1, <3>3 DEF JournalPart
  <2>3. CASE ~RecordWrite(w) /\ ~RecordRead(w)
    <3>1. change_set' = change_set /\ committed' = committed
      BY <2>3 DEF WriterStep, PrepareBatch, LockPath, Validate, WriteNext, RecordRefused, Rollback, history
    <3>2. writer'[w].at # "merge"
      <4>1. \/ writer' = writer /\ writer[w].at = "lock"
            \/ \E s \in {"validate", "write", "record", "rollback"} : GoTo(w, s)
            \/ \E d : writer' = [writer EXCEPT ![w].done = d] /\ writer[w].at \in {"write", "rollback"}
            \/ Return(w)
            \/ PrepareBatch(w)
        BY <2>3 DEF WriterStep, LockPath, Validate, WriteNext, RecordRefused, Rollback
      <4>2. writer[w] \in WriterRec /\ writer \in [Writers -> WriterRec]
        BY <1>0 DEF ShapePart
      <4>3. CASE writer' = writer /\ writer[w].at = "lock"
        BY <4>3
      <4>4. CASE \E s \in {"validate", "write", "record", "rollback"} : GoTo(w, s)
        BY <4>2, <4>4 DEF GoTo, WriterRec
      <4>5. CASE \E d : writer' = [writer EXCEPT ![w].done = d] /\ writer[w].at \in {"write", "rollback"}
        BY <4>2, <4>5 DEF WriterRec
      <4>6. CASE Return(w)
        BY <4>2, <4>6, IdleFacts DEF Return
      <4>7. CASE PrepareBatch(w)
        <5>1. PICK b : writer' = [writer EXCEPT ![w] = [Idle EXCEPT !.at = "lock", !.batch = b]]
          BY <4>7 DEF PrepareBatch
        <5> QED
          BY <4>2, <5>1 DEF Idle
      <4> QED
        BY <4>1, <4>3, <4>4, <4>5, <4>6, <4>7
    <3>3. JournalSame
      BY <1>1, <1>3, <3>1, <3>2 DEF JournalSame, WriterStepKeeps, WriterFrame
    <3> QED
      BY <1>0, <3>3, JournalSameKeeps
  <2> QED
    BY <2>1, <2>2, <2>3
<1> QED
  BY <1>2, <1>5, <1>6 DEF ChangesInv

LEMMA UndoKeeps ==
  ASSUME ChangesInv, NEW u \in Undoers, RequestUndo(u) \/ UndoStep(u)
  PROVE  ChangesInv'
<1>0. ShapePart /\ LockPart /\ FilePart /\ JournalPart /\ TurnPart
  BY DEF ChangesInv
<1>1. UndoStepKeeps(u)
  BY <1>0, RequestUndoKeeps, LockWorkspaceKeeps, LockUndoPathKeeps, PlanUndoKeeps, VerifyUndoKeeps, ApplyNextKeeps,
     RestoreNextKeeps, MarkRevertedKeeps DEF UndoStep
<1>2. ShapePart' /\ LockPart' /\ FilePart'
  BY <1>0, <1>1, UndoFrameKeeps DEF UndoStepKeeps
<1>3. turn' = turn /\ writer' = writer /\ committed' = committed /\ finalizing' = finalizing
  BY DEF UndoStep, RequestUndo, LockWorkspace, LockUndoPath, PlanUndo, VerifyUndo, ApplyNext, RestoreNext,
         MarkReverted, history
<1>4. workspace_lock' \in Undoers => workspace_lock \in Undoers \/ turn # "running"
  BY ChangesAssumption DEF UndoStep, RequestUndo, LockWorkspace, LockUndoPath, PlanUndo, VerifyUndo, ApplyNext,
     RestoreNext, MarkReverted, EndUndo, locks
<1>5. TurnPart'
  BY <1>0, <1>3, <1>4 DEF TurnPart
<1>6. JournalPart'
  <2>1. CASE ~MarkReverted(u)
    <3>1. change_set' = change_set
      BY <2>1 DEF UndoStep, RequestUndo, LockWorkspace, LockUndoPath, PlanUndo, VerifyUndo, ApplyNext, RestoreNext
    <3>2. JournalSame
      BY <1>3, <3>1 DEF JournalSame
    <3> QED
      BY <1>0, <3>2, JournalSameKeeps
  <2>2. CASE MarkReverted(u)
    <3>1. change_set'.status = change_set.status /\ change_set'.files = change_set.files
      BY <1>0, <2>2, RevertedSet DEF MarkReverted, ShapePart
    <3>2. \A w \in Writers : ViewOK(w)'
      BY <1>0, <1>3, <3>1 DEF ViewOK, JournalPart
    <3> QED
      BY <1>0, <1>3, <3>1, <3>2 DEF JournalPart
  <2> QED
    BY <2>1, <2>2
<1> QED
  BY <1>2, <1>5, <1>6 DEF ChangesInv

LEMMA EditKeeps ==
  ASSUME ChangesInv, NEW p \in Paths, Edit(p)
  PROVE  ChangesInv'
<1>0. ShapePart /\ LockPart /\ FilePart /\ JournalPart /\ TurnPart
  BY DEF ChangesInv
<1>1. PICK v \in Versions[p] : file' = [file EXCEPT ![p] = v]
  BY DEF Edit
<1>2. v \in Contents
  BY ChangesAssumption
<1>3. file \in [Paths -> Contents] /\ settled \in [Paths -> Contents] /\ disturbed \in SUBSET Paths
  BY <1>0 DEF ShapePart
<1>4. /\ settled' = [settled EXCEPT ![p] = file'[p]]
      /\ disturbed' = IF path_lock[p] = Free THEN disturbed ELSE disturbed \cup {p}
      /\ turn' = turn /\ change_set' = change_set /\ finalizing' = finalizing /\ writer' = writer
      /\ undo' = undo /\ committed' = committed /\ path_lock' = path_lock /\ journal_lock' = journal_lock
      /\ workspace_lock' = workspace_lock
  BY DEF Edit, locks
<1>5. /\ file' \in [Paths -> Contents] /\ settled' \in [Paths -> Contents] /\ disturbed' \in SUBSET Paths
      /\ file'[p] = settled'[p]
      /\ \A o \in Paths \ {p} : file'[o] = file[o] /\ settled'[o] = settled[o]
  BY <1>1, <1>2, <1>3, <1>4
<1>6. ShapePart'
  BY <1>0, <1>4, <1>5 DEF ShapePart
<1>7. LockPart'
  <2>1. ASSUME NEW w \in Writers PROVE WriterLocks(w)'
    BY <1>0, <1>4 DEF LockPart, WriterLocks, Held
  <2>2. ASSUME NEW u \in Undoers PROVE UndoLocks(u)'
    BY <1>0, <1>4 DEF LockPart, UndoLocks, Held
  <2> QED
    BY <2>1, <2>2 DEF LockPart
<1>8. FilePart'
  <2>1. SUFFICES ASSUME NEW o \in Paths \ disturbed' PROVE PathOK(o)'
    BY DEF FilePart
  <2>2. CASE o = p
    <3>1. path_lock'[o] = Free
      BY <1>4, <2>1, <2>2
    <3> QED
      BY <1>5, <2>2, <3>1, ChangesAssumption DEF PathOK
  <2>3. CASE o # p
    <3>1. o \in Paths \ disturbed /\ file'[o] = file[o] /\ settled'[o] = settled[o]
      BY <1>4, <1>5, <2>1, <2>3
    <3>2. PathOK(o)
      BY <1>0, <3>1 DEF FilePart
    <3> QED
      BY <1>4, <3>1, <3>2 DEF PathOK, WriterHolds, UndoHolds
  <2> QED
    BY <2>2, <2>3
<1>9. JournalPart'
  <2>1. JournalSame
    BY <1>4 DEF JournalSame
  <2> QED
    BY <1>0, <2>1, JournalSameKeeps
<1>10. TurnPart'
  BY <1>0, <1>4 DEF TurnPart
<1> QED
  BY <1>6, <1>7, <1>8, <1>9, <1>10 DEF ChangesInv


LEMMA ChangesInvInit == ChangesInit => ChangesInv
<1> SUFFICES ASSUME ChangesInit PROVE ChangesInv
  OBVIOUS
<1>1. /\ file = InitialFile /\ settled = InitialFile /\ disturbed = {} /\ InitialFile \in [Paths -> Contents]
      /\ turn = "new" /\ change_set = NoSet /\ finalizing = NoSet
      /\ writer = [w \in Writers |-> Idle] /\ undo = [u \in Undoers |-> NoUndo]
      /\ path_lock = [p \in Paths |-> Free] /\ journal_lock = Free /\ workspace_lock = Free
      /\ committed = [p \in Paths |-> <<>>]
  BY ChangesAssumption DEF ChangesInit
<1>2. /\ Idle \in WriterRec /\ NoUndo \in UndoRec /\ SetOK(NoSet) /\ SetOK(Idle.view) /\ SetOK(NoUndo.set)
      /\ NoSet.status = "none"
  BY IdleFacts, NoUndoFacts, NoSetOK
<1>3. /\ \A w \in Writers : writer[w] = Idle
      /\ \A u \in Undoers : undo[u] = NoUndo
      /\ \A p \in Paths : path_lock[p] = Free /\ committed[p] = <<>> /\ file[p] = settled[p]
      /\ writer \in [Writers -> WriterRec] /\ undo \in [Undoers -> UndoRec]
      /\ path_lock \in [Paths -> {Free} \cup Writers \cup Undoers] /\ committed \in [Paths -> Seq(Mutation)]
  BY <1>1, <1>2
<1>4. ShapePart
  BY <1>1, <1>2, <1>3 DEF ShapePart
<1>5. LockPart
  <2>1. \A w \in Writers : Held(w) = {} /\ journal_lock # w
    BY <1>1, <1>3, ChangesAssumption DEF Held
  <2>2. \A u \in Undoers : Held(u) = {}
    BY <1>3, ChangesAssumption DEF Held
  <2>3. ASSUME NEW w \in Writers PROVE WriterLocks(w)
    BY <1>3, <2>1, IdleFacts DEF WriterLocks
  <2>4. ASSUME NEW u \in Undoers PROVE UndoLocks(u)
    BY <1>3, <2>2, NoUndoFacts DEF UndoLocks
  <2> QED
    BY <2>3, <2>4 DEF LockPart
<1>6. FilePart
  BY <1>3, ChangesAssumption DEF FilePart, PathOK
<1>7. JournalPart
  BY <1>1, <1>2, <1>3, IdleFacts DEF JournalPart, ViewOK
<1>8. TurnPart
  BY <1>1, <1>2, <1>3, IdleFacts, ChangesAssumption DEF TurnPart
<1> QED
  BY <1>4, <1>5, <1>6, <1>7, <1>8 DEF ChangesInv

LEMMA ChangesInvStutters ==
  ASSUME ChangesInv, UNCHANGED changeVars
  PROVE  ChangesInv'
<1>0. ShapePart /\ LockPart /\ FilePart /\ JournalPart /\ TurnPart
  BY DEF ChangesInv
<1>1. /\ TasksSame /\ committed' = committed /\ workspace_lock' = workspace_lock /\ turn' = turn
      /\ change_set' = change_set /\ finalizing' = finalizing
  BY DEF changeVars, locks, history, TasksSame
<1>2. LockPart' /\ FilePart'
  BY <1>0, <1>1, TasksSameKeeps
<1>3. JournalSame
  BY <1>1 DEF JournalSame, TasksSame
<1>4. JournalPart'
  BY <1>0, <1>3, JournalSameKeeps
<1>5. ShapePart'
  BY <1>0, <1>1 DEF ShapePart, TasksSame
<1>6. TurnPart'
  BY <1>0, <1>1 DEF TurnPart, TasksSame
<1> QED
  BY <1>2, <1>4, <1>5, <1>6 DEF ChangesInv

LEMMA ChangesInvStep == ChangesInv /\ [ChangesNext]_changeVars => ChangesInv'
<1> SUFFICES ASSUME ChangesInv, [ChangesNext]_changeVars PROVE ChangesInv'
  OBVIOUS
<1>1. CASE BeginTurn \/ PauseTurn \/ ResumeTurn \/ FinalizeRead \/ FinalizeWrite
  BY <1>1, TurnMoves
<1>2. CASE \E w \in Writers : PrepareBatch(w) \/ WriterStep(w)
  BY <1>2, WriterKeeps
<1>3. CASE \E u \in Undoers : RequestUndo(u) \/ UndoStep(u)
  BY <1>3, UndoKeeps
<1>4. CASE \E p \in Paths : Edit(p)
  BY <1>4, EditKeeps
<1>5. CASE UNCHANGED changeVars
  BY <1>5, ChangesInvStutters
<1> QED
  BY <1>1, <1>2, <1>3, <1>4, <1>5 DEF ChangesNext

LEMMA ChangesInvHolds == ChangesSpec => []ChangesInv
BY ChangesInvInit, ChangesInvStep, PTL DEF ChangesSpec

-----------------------------------------------------------------------------
(* File changes: the theorems                                                *)

LEMMA ChangesTypes == ChangesInv => ChangesTypeOK
<1> SUFFICES ASSUME ChangesInv PROVE ChangesTypeOK
  OBVIOUS
<1>0. ShapePart /\ LockPart /\ TurnPart
  BY DEF ChangesInv
<1>1. SetOK(change_set)
  BY <1>0 DEF ShapePart
<1>2. /\ change_set.status \in SetStatuses /\ DOMAIN change_set.files \subseteq Paths
      /\ \A p \in DOMAIN change_set.files : change_set.files[p].before # change_set.files[p].after
      /\ change_set.status = "empty" => change_set.files = <<>>
  BY <1>1, SetFields DEF SetOK
<1>3. ASSUME NEW p \in Paths, path_lock[p] \in Writers PROVE writer[path_lock[p]].at # "idle"
  BY <1>0, <1>3 DEF LockPart, WriterLocks, Held
<1>4. ASSUME NEW p \in Paths, path_lock[p] \in Undoers
      PROVE  undo[path_lock[p]].at \notin {"idle", "answered"}
  BY <1>0, <1>4 DEF LockPart, UndoLocks, Held
<1> QED
  BY <1>0, <1>2, <1>3, <1>4 DEF ChangesTypeOK, ShapePart, TurnPart, SetStatuses

(* The files and the journal agree with the batches that succeeded and with  *)
(* no others, for any number of tool calls, undo requests, files and edits:  *)
(* commit_observed rolls back what it could not finish, the lock of the      *)
(* journal makes record_file_mutations exact, and no lock outlives its task. *)
THEOREM ChangesAreAtomic == ChangesSpec => []BatchesAreAtomic
<1>1. ChangesInv => JournalIsExact
  <2> SUFFICES ASSUME ChangesInv, change_set.status = "capturing", NEW p \in Paths
               PROVE  LET ms == committed[p]
                          n == Len(ms)
                      IN IF p \in DOMAIN change_set.files
                         THEN /\ n > 0 /\ change_set.files[p].after = ms[n].target
                              /\ \E i \in 1..n : change_set.files[p].before = ms[i].original
                              /\ (\A i \in 1..(n - 1) : ms[i].target # ms[1].original) =>
                                   change_set.files[p].before = ms[1].original
                         ELSE n > 0 => \E i \in 1..n : ms[i].original = ms[n].target
    BY DEF JournalIsExact
  <2>1. ExactFor(committed, change_set.files, p)
    BY DEF ChangesInv, JournalPart, Exact
  <2> QED
    BY <2>1 DEF ExactFor
<1>2. ChangesInv => FilesSettle
  BY DEF ChangesInv, FilePart, PathOK, FilesSettle
<1>3. ChangesInv => BatchesAreAtomic
  BY <1>1, <1>2, ChangesTypes DEF BatchesAreAtomic
<1> QED
  BY <1>3, ChangesInvHolds, PTL

(* What a plan that is in force makes of a file nobody edited meanwhile.     *)
LEMMA PlanIsExact ==
  ASSUME NEW current \in Contents, NEW c \in Change, c.before # c.after, NEW v \in PlanFile(current, c)
  PROVE  IF Absent \in {c.before, c.after} THEN v = c.before
         ELSE \A h \in DOMAIN v : v[h] = IF current[h] = c.after[h] THEN c.before[h] ELSE current[h]
<1>1. CASE c.before = Absent
  BY <1>1 DEF PlanFile
<1>2. CASE c.before # Absent /\ c.after = Absent
  BY <1>2 DEF PlanFile
<1>3. CASE c.before # Absent /\ c.after # Absent
  <2>1. v \in MergedHunks(current, c)
    BY <1>3 DEF PlanFile
  <2>2. v = [h \in DOMAIN current |-> IF current[h] = c.after[h] THEN c.before[h] ELSE current[h]]
    BY <2>1 DEF MergedHunks
  <2> QED
    BY <1>3, <2>2
<1> QED
  BY <1>1, <1>2, <1>3

(* An undo takes back what the Turn changed, hunk by hunk, and leaves every  *)
(* later edit alone, whatever else happens to the workspace meanwhile: the   *)
(* plan of build_undo_plan is still one for the files when                   *)
(* verify_observed_entries lets it through, and what apply_actions leaves    *)
(* is what was planned.                                                      *)
THEOREM UndoKeepsEditsHolds == ChangesSpec => UndoKeepsEdits
<1>1. ASSUME ChangesInv, NEW u \in Undoers, MarkReverted(u), NEW p \in DOMAIN undo[u].plan \ disturbed
      PROVE  LET c == undo[u].set.files[p] IN
             IF Absent \in {c.before, c.after} THEN file[p] = c.before
             ELSE \A h \in DOMAIN file[p] :
                    file[p][h] = IF settled[p][h] = c.after[h] THEN c.before[h] ELSE settled[p][h]
  <2> DEFINE c == undo[u].set.files[p]
  <2>0. ShapePart /\ LockPart /\ FilePart
    BY <1>1 DEF ChangesInv
  <2>1. /\ undo[u].at = "apply" /\ undo[u].done = DOMAIN undo[u].plan
        /\ Held(u) = DOMAIN undo[u].set.files /\ DOMAIN undo[u].plan = DOMAIN undo[u].set.files
        /\ undo[u].plan[p] \in PlanFile(undo[u].observed[p], c)
        /\ SetOK(undo[u].set) /\ undo[u].set.files \in Journals
    BY <1>1, <2>0, UndoNow DEF MarkReverted, UndoLocks
  <2>2. p \in Paths \ disturbed /\ path_lock[p] = u
    BY <1>1, <2>1 DEF Held
  <2>3. file[p] = undo[u].plan[p] /\ undo[u].observed[p] = settled[p]
    BY <1>1, <2>0, <2>1, <2>2, UndoFiles DEF UndoHolds
  <2>4. c \in Change /\ c.before # c.after
    BY <1>1, <2>1, JournalFacts DEF SetOK
  <2>5. settled[p] \in Contents /\ file[p] \in PlanFile(settled[p], c)
    BY <2>0, <2>1, <2>2, <2>3 DEF ShapePart
  <2> HIDE DEF c
  <2>6. IF Absent \in {c.before, c.after} THEN file[p] = c.before
        ELSE \A h \in DOMAIN file[p] :
               file[p][h] = IF settled[p][h] = c.after[h] THEN c.before[h] ELSE settled[p][h]
    BY <2>4, <2>5, PlanIsExact
  <2> QED
    BY <2>6 DEF c
<1>2. ASSUME ChangesInv, [ChangesNext]_changeVars, NEW u \in Undoers,
             undo[u].at = "verify", undo'[u].at = "apply"
      PROVE  \A p \in DOMAIN undo[u].plan : undo[u].plan[p] \in PlanFile(file[p], undo[u].set.files[p])
  <2>0. ShapePart /\ LockPart /\ FilePart
    BY <1>2 DEF ChangesInv
  <2>1. UndoLocks(u)
    BY <2>0 DEF LockPart
  <2>2. VerifyUndo(u)
    <3>1. undo'[u] # undo[u]
      BY <1>2
    <3>2. undo' # undo
      BY <3>1
    <3>3. PICK v \in Undoers : RequestUndo(v) \/ UndoStep(v)
      BY <1>2, <3>2 DEF ChangesNext, changeVars, BeginTurn, PauseTurn, ResumeTurn, FinalizeRead, FinalizeWrite,
         PrepareBatch, WriterStep, LockPath, Validate, WriteNext, RecordRead, RecordWrite, RecordRefused, Rollback,
         Edit
    <3>4. UndoFrame(v)
      BY <2>0, <3>3, RequestUndoKeeps, LockWorkspaceKeeps, LockUndoPathKeeps, PlanUndoKeeps, VerifyUndoKeeps,
         ApplyNextKeeps, RestoreNextKeeps, MarkRevertedKeeps DEF UndoStep, UndoStepKeeps
    <3>5. v = u
      BY <3>1, <3>4 DEF UndoFrame
    <3> QED
      BY <1>2, <3>3, <3>5 DEF UndoStep, RequestUndo, LockWorkspace, LockUndoPath, PlanUndo, ApplyNext, RestoreNext,
         MarkReverted
  <2>3. Observed(u)
    <3>1. CASE EndUndo(u)
      <4>1. undo'[u].at = "answered"
        <5>1. undo \in [Undoers -> UndoRec] /\ undo' = [undo EXCEPT ![u] = [NoUndo EXCEPT !.at = "answered"]]
          BY <2>0, <3>1 DEF ShapePart, EndUndo
        <5> QED
          BY <5>1, AnsweredUndo
      <4> QED
        BY <1>2, <4>1
    <3> QED
      BY <2>2, <3>1 DEF VerifyUndo
  <2> QED
    BY <1>2, <2>1, <2>3 DEF UndoLocks, Observed
<1>3. ChangesInv /\ [ChangesNext]_changeVars =>
        [\A u \in Undoers : MarkReverted(u) =>
           \A p \in DOMAIN undo[u].plan \ disturbed :
             LET c == undo[u].set.files[p] IN
             IF Absent \in {c.before, c.after} THEN file[p] = c.before
             ELSE \A h \in DOMAIN file[p] :
                    file[p][h] = IF settled[p][h] = c.after[h] THEN c.before[h] ELSE settled[p][h]]_changeVars
  BY <1>1
<1>4. ChangesInv /\ [ChangesNext]_changeVars =>
        [\A u \in Undoers : undo[u].at = "verify" /\ undo'[u].at = "apply" =>
           \A p \in DOMAIN undo[u].plan : undo[u].plan[p] \in PlanFile(file[p], undo[u].set.files[p])]_changeVars
  BY <1>2
<1> QED
  BY <1>3, <1>4, ChangesInvHolds, PTL DEF ChangesSpec, UndoKeepsEdits, UndoIsExact, PlanIsCurrent


-----------------------------------------------------------------------------
(* File changes: nobody waits in a circle                                    *)

(* The paths a task holds come before the ones it still wants.               *)
Before(held, wanted) == \A p \in held, q \in wanted \ held : p < q
InOrder ==
  /\ \A w \in Writers : Before(Held(w), DOMAIN Batch(w))
  /\ \A u \in Undoers : Before(Held(u), DOMAIN undo[u].set.files)

(* The path a task waits for, while it takes its locks.                      *)
WriterWaits(w, q) ==
  LET missing == DOMAIN Batch(w) \ Held(w) IN
  writer[w].at = "lock" /\ missing # {} /\ q \in NextPath(missing)
UndoWaits(u, q) ==
  LET missing == DOMAIN undo[u].set.files \ Held(u) IN
  undo[u].at = "paths" /\ missing # {} /\ q \in NextPath(missing)

(* Along a chain of tasks, each waiting for a path the next one holds, the   *)
(* paths only grow: no chain comes back to where it began.                   *)
NoCircularWait ==
  /\ \A w \in Writers : \A p, q \in Paths : path_lock[p] = w /\ WriterWaits(w, q) => p < q
  /\ \A u \in Undoers : \A p, q \in Paths : path_lock[p] = u /\ UndoWaits(u, q) => p < q

LEMMA MinIsBefore ==
  ASSUME NEW S \in SUBSET Paths, S # {}
  PROVE  Min(S) \in S /\ \A q \in S \ {Min(S)} : Min(S) < q
<1>1. S \in SUBSET Nat
  BY ChangesAssumption
<1>2. \E n \in S : \A m \in S : n <= m
  BY <1>1, LeastOfNumbers
<1> DEFINE least == Min(S)
<1>3. least \in S /\ \A m \in S : least <= m
  BY <1>2 DEF Min
<1> HIDE DEF least
<1>4. \A q \in S \ {least} : least < q
  BY <1>1, <1>3
<1> QED
  BY <1>3, <1>4 DEF least

(* The next path is taken: what is held still comes before what is wanted.   *)
LEMMA BeforeNext ==
  ASSUME NEW held \in SUBSET Paths, NEW wanted \in SUBSET Paths, wanted \ held # {}, Before(held, wanted)
  PROVE  Before(held \cup {Min(wanted \ held)}, wanted)
<1> DEFINE S == wanted \ held
<1>1. S \in SUBSET Paths /\ S # {}
  OBVIOUS
<1> HIDE DEF S
<1>2. Min(S) \in S /\ \A q \in S \ {Min(S)} : Min(S) < q
  BY <1>1, MinIsBefore
<1> QED
  BY <1>2 DEF Before, S

LEMMA InOrderInit == ChangesInit => InOrder
<1> SUFFICES ASSUME ChangesInit PROVE InOrder
  OBVIOUS
<1>1. \A t \in Writers \cup Undoers : Held(t) = {}
  BY ChangesAssumption DEF ChangesInit, Held
<1> QED
  BY <1>1 DEF InOrder, Before

LEMMA OnlyLocking ==
  ASSUME ShapePart, NEW u \in Undoers,
         RequestUndo(u) \/ PlanUndo(u) \/ VerifyUndo(u) \/ ApplyNext(u) \/ RestoreNext(u) \/ MarkReverted(u)
  PROVE  undo'[u].at # "paths"
<1>0. undo \in [Undoers -> UndoRec] /\ undo[u] \in UndoRec
  BY DEF ShapePart
<1>1. CASE EndUndo(u)
  <2>1. undo'[u] = [NoUndo EXCEPT !.at = "answered"]
    BY <1>0, <1>1 DEF EndUndo
  <2> QED
    BY <2>1, AnsweredUndo
<1>2. CASE RequestUndo(u)
  <2>1. undo'[u] = [undo[u] EXCEPT !.at = "workspace", !.set = change_set]
    BY <1>0, <1>2 DEF RequestUndo
  <2> QED
    BY <1>0, <2>1 DEF UndoRec
<1>3. CASE PlanUndo(u) /\ ~EndUndo(u)
  <2>1. PICK o, t : undo' = [undo EXCEPT ![u] = [@ EXCEPT !.at = "verify", !.observed = o, !.plan = t]]
    BY <1>3 DEF PlanUndo
  <2>2. undo'[u] = [undo[u] EXCEPT !.at = "verify", !.observed = o, !.plan = t]
    BY <1>0, <2>1
  <2> QED
    BY <1>0, <2>2 DEF UndoRec
<1>4. CASE VerifyUndo(u) /\ ~EndUndo(u)
  <2>1. undo'[u] = [undo[u] EXCEPT !.at = "apply"]
    BY <1>0, <1>4 DEF VerifyUndo
  <2> QED
    BY <1>0, <2>1 DEF UndoRec
<1>5. CASE ApplyNext(u) \/ (RestoreNext(u) /\ ~EndUndo(u))
  <2>1. undo[u].at \in {"apply", "restore"}
    BY <1>5 DEF ApplyNext, RestoreNext
  <2>2. PICK d : \/ undo'[u] = [undo[u] EXCEPT !.done = d]
                 \/ undo'[u] = [undo[u] EXCEPT !.at = "restore", !.done = d]
    <3>1. \/ \E d : undo' = [undo EXCEPT ![u].done = d]
          \/ \E d : undo' = [undo EXCEPT ![u] = [@ EXCEPT !.at = "restore", !.done = d]]
      BY <1>5 DEF ApplyNext, RestoreNext
    <3>2. CASE \E d : undo' = [undo EXCEPT ![u].done = d]
      BY <1>0, <3>2
    <3>3. CASE \E d : undo' = [undo EXCEPT ![u] = [@ EXCEPT !.at = "restore", !.done = d]]
      BY <1>0, <3>3
    <3> QED
      BY <3>1, <3>2, <3>3
  <2> QED
    BY <1>0, <2>1, <2>2 DEF UndoRec
<1> QED
  BY <1>1, <1>2, <1>3, <1>4, <1>5 DEF MarkReverted

LEMMA InOrderStep ==
  ASSUME ChangesInv, ChangesInv', InOrder, [ChangesNext]_changeVars
  PROVE  InOrder'
<1>0. ShapePart /\ LockPart /\ LockPart'
  BY DEF ChangesInv
<1>1. ASSUME NEW w \in Writers
      PROVE  Before(Held(w)', DOMAIN writer'[w].batch)
  <2>0. WriterLocks(w) /\ WriterLocks(w)' /\ w # Free /\ writer[w] \in WriterRec
    BY <1>0, WriterNow DEF LockPart
  <2>1. Before(Held(w), DOMAIN writer[w].batch)
    BY DEF InOrder, Batch
  <2>2. CASE writer'[w].at = "idle"
    BY <2>0, <2>2 DEF WriterLocks, Before
  <2>3. CASE writer'[w].at \notin {"idle", "lock"}
    BY <2>0, <2>3 DEF WriterLocks, Before
  <2>4. CASE writer'[w].at = "lock"
    <3>1. \/ writer'[w].batch = writer[w].batch /\ Held(w)' = Held(w)
          \/ Held(w)' = {}
          \/ LockPath(w) /\ DOMAIN Batch(w) \ Held(w) # {}
      <4>1. CASE BeginTurn \/ PauseTurn \/ ResumeTurn \/ FinalizeRead \/ FinalizeWrite \/ UNCHANGED changeVars
        BY <4>1 DEF BeginTurn, PauseTurn, ResumeTurn, FinalizeRead, FinalizeWrite, changeVars, locks, Held
      <4>2. CASE \E p \in Paths : Edit(p)
        BY <4>2 DEF Edit, locks, Held
      <4>3. CASE \E u \in Undoers : RequestUndo(u) \/ UndoStep(u)
        <5>1. PICK u \in Undoers : RequestUndo(u) \/ UndoStep(u)
          BY <4>3
        <5>2. UndoFrame(u) /\ u # w
          <6>1. FilePart
            BY DEF ChangesInv
          <6> QED
            BY <1>0, <5>1, <6>1, ChangesAssumption, RequestUndoKeeps, LockWorkspaceKeeps, LockUndoPathKeeps, PlanUndoKeeps,
               VerifyUndoKeeps, ApplyNextKeeps, RestoreNextKeeps, MarkRevertedKeeps DEF UndoStep, UndoStepKeeps
        <5> QED
          BY <2>0, <5>2 DEF UndoFrame, Held
      <4>4. CASE \E v \in Writers : PrepareBatch(v) \/ WriterStep(v)
        <5>1. PICK v \in Writers : PrepareBatch(v) \/ WriterStep(v)
          BY <4>4
        <5>2. WriterFrame(v)
          <6>1. FilePart /\ JournalPart
            BY DEF ChangesInv
          <6> QED
            BY <1>0, <5>1, <6>1, PrepareBatchKeeps, LockPathKeeps, ValidateKeeps, WriteNextKeeps, RecordReadKeeps,
               RecordWriteKeeps, RecordRefusedKeeps, RollbackKeeps DEF WriterStep, WriterStepKeeps
        <5>3. CASE v # w
          BY <2>0, <5>2, <5>3 DEF WriterFrame, Held
        <5>4. CASE v = w /\ PrepareBatch(w)
          <6>1. Held(w) = {} /\ path_lock' = path_lock
            BY <2>0, <5>4 DEF PrepareBatch, WriterLocks, locks
          <6> QED
            BY <6>1 DEF Held
        <5>5. CASE v = w /\ LockPath(w)
          <6>1. CASE DOMAIN Batch(w) \ Held(w) = {}
            <7>1. path_lock' = path_lock /\ GoTo(w, "validate")
              BY <5>5, <6>1 DEF LockPath
            <7>2. writer \in [Writers -> WriterRec]
              BY <1>0 DEF ShapePart
            <7>3. writer'[w].at = "validate"
              BY <2>0, <7>1, <7>2 DEF GoTo, WriterRec
            <7> QED
              BY <2>4, <7>3
          <6> QED
            BY <5>5, <6>1
        <5>6. CASE v = w /\ ~PrepareBatch(w) /\ ~LockPath(w)
          <6>1. writer[w].at \notin {"idle", "lock"}
            BY <5>1, <5>6 DEF WriterStep, Validate, WriteNext, RecordRead, RecordWrite, RecordRefused, Rollback
          <6>2. writer \in [Writers -> WriterRec]
            BY <1>0 DEF ShapePart
          <6>3. \/ Return(w)
                \/ \E s \in {"write", "record", "rollback"} : GoTo(w, s)
                \/ \E d : writer' = [writer EXCEPT ![w].done = d]
                \/ writer' = [writer EXCEPT ![w] = [@ EXCEPT !.at = "merge", !.view = change_set]]
            BY <5>1, <5>6 DEF WriterStep, Validate, WriteNext, RecordRead, RecordWrite, RecordRefused, Rollback
          <6>4. CASE Return(w)
            BY <2>0, <6>4, <1>0, ReleasedFacts DEF Return
          <6>5. CASE \E s \in {"write", "record", "rollback"} : GoTo(w, s)
            BY <2>0, <2>4, <6>2, <6>5 DEF GoTo, WriterRec
          <6>6. CASE \E d : writer' = [writer EXCEPT ![w].done = d]
            <7>1. writer'[w].at = writer[w].at
              BY <2>0, <6>2, <6>6 DEF WriterRec
            <7> QED
              BY <2>4, <6>1, <7>1
          <6>7. CASE writer' = [writer EXCEPT ![w] = [@ EXCEPT !.at = "merge", !.view = change_set]]
            BY <2>0, <2>4, <6>2, <6>7 DEF WriterRec
          <6> QED
            BY <6>3, <6>4, <6>5, <6>6, <6>7
        <5> QED
          BY <5>1, <5>3, <5>4, <5>5, <5>6
      <4> QED
        BY <4>1, <4>2, <4>3, <4>4 DEF ChangesNext
    <3>2. CASE writer'[w].batch = writer[w].batch /\ Held(w)' = Held(w)
      BY <2>1, <3>2
    <3>3. CASE Held(w)' = {}
      BY <3>3 DEF Before
    <3>4. CASE LockPath(w) /\ DOMAIN Batch(w) \ Held(w) # {}
      <4> DEFINE wanted == DOMAIN writer[w].batch
                 held == Held(w)
                 m == Min(wanted \ held)
      <4>1. wanted \in SUBSET Paths /\ held \in SUBSET Paths /\ wanted \ held # {}
        BY <2>0, <3>4, WriterFields DEF Batch, Held
      <4>2. writer' = writer /\ path_lock' = [path_lock EXCEPT ![m] = w]
        BY <3>4 DEF LockPath, NextPath, Batch
      <4>3. path_lock \in [Paths -> {Free} \cup Writers \cup Undoers]
        BY <1>0 DEF ShapePart
      <4>4. m \in Paths
        <5> HIDE DEF wanted, held
        <5>1. wanted \ held \in SUBSET Paths
          BY <4>1
        <5> QED
          BY <4>1, <5>1, MinOfPaths
      <4>5. Held(w)' = held \cup {m}
        <5> HIDE DEF m
        <5> QED
          BY <4>2, <4>3, <4>4 DEF Held
      <4> HIDE DEF wanted, held
      <4>6. Before(held \cup {m}, wanted)
        BY <2>1, <4>1, BeforeNext DEF wanted, held
      <4> QED
        BY <4>2, <4>5, <4>6 DEF wanted
    <3> QED
      BY <3>1, <3>2, <3>3, <3>4
  <2> QED
    BY <2>2, <2>3, <2>4
<1>2. ASSUME NEW u \in Undoers
      PROVE  Before(Held(u)', DOMAIN undo'[u].set.files)
  <2>0. UndoLocks(u) /\ UndoLocks(u)' /\ u # Free /\ undo[u] \in UndoRec
        /\ DOMAIN undo[u].set.files \subseteq Paths
    BY <1>0, UndoNow DEF LockPart
  <2>1. Before(Held(u), DOMAIN undo[u].set.files)
    BY DEF InOrder
  <2>s. undo'[u].at \in UndoSteps
    <3>1. undo'[u] \in UndoRec
      BY DEF ChangesInv, ShapePart
    <3> QED
      BY <3>1, UndoFields
  <2>2. CASE undo'[u].at \in {"idle", "workspace", "answered"}
    BY <2>0, <2>2 DEF UndoLocks, Before
  <2>3. CASE undo'[u].at \in {"plan", "verify", "apply", "restore"}
    BY <2>0, <2>3 DEF UndoLocks, Before
  <2>4. CASE undo'[u].at = "paths"
    <3>1. \/ undo'[u].set = undo[u].set /\ Held(u)' = Held(u)
          \/ Held(u)' = {}
          \/ LockUndoPath(u) /\ DOMAIN undo[u].set.files \ Held(u) # {}
      <4>1. CASE BeginTurn \/ PauseTurn \/ ResumeTurn \/ FinalizeRead \/ FinalizeWrite \/ UNCHANGED changeVars
        BY <4>1 DEF BeginTurn, PauseTurn, ResumeTurn, FinalizeRead, FinalizeWrite, changeVars, locks, Held
      <4>2. CASE \E p \in Paths : Edit(p)
        BY <4>2 DEF Edit, locks, Held
      <4>3. CASE \E w \in Writers : PrepareBatch(w) \/ WriterStep(w)
        <5>1. PICK w \in Writers : PrepareBatch(w) \/ WriterStep(w)
          BY <4>3
        <5>2. WriterFrame(w) /\ u # w
          <6>1. FilePart /\ JournalPart
            BY DEF ChangesInv
          <6> QED
            BY <1>0, <5>1, <6>1, ChangesAssumption, PrepareBatchKeeps, LockPathKeeps, ValidateKeeps, WriteNextKeeps,
               RecordReadKeeps, RecordWriteKeeps, RecordRefusedKeeps, RollbackKeeps DEF WriterStep, WriterStepKeeps
        <5> QED
          BY <2>0, <5>2 DEF WriterFrame, Held
      <4>4. CASE \E v \in Undoers : RequestUndo(v) \/ UndoStep(v)
        <5>1. PICK v \in Undoers : RequestUndo(v) \/ UndoStep(v)
          BY <4>4
        <5>2. UndoFrame(v)
          <6>1. FilePart
            BY DEF ChangesInv
          <6> QED
            BY <1>0, <5>1, <6>1, RequestUndoKeeps, LockWorkspaceKeeps, LockUndoPathKeeps, PlanUndoKeeps,
               VerifyUndoKeeps, ApplyNextKeeps, RestoreNextKeeps, MarkRevertedKeeps DEF UndoStep, UndoStepKeeps
        <5>3. CASE v # u
          BY <2>0, <5>2, <5>3 DEF UndoFrame, Held
        <5>4. CASE v = u /\ LockWorkspace(u)
          <6>1. Held(u) = {} /\ path_lock' = path_lock
            BY <2>0, <5>4 DEF LockWorkspace, UndoLocks
          <6> QED
            BY <6>1 DEF Held
        <5>5. CASE v = u /\ LockUndoPath(u)
          <6>1. CASE DOMAIN undo[u].set.files \ Held(u) = {}
            <7>1. undo' = [undo EXCEPT ![u].at = "plan"] /\ undo \in [Undoers -> UndoRec]
              BY <1>0, <5>5, <6>1 DEF LockUndoPath, ShapePart
            <7>2. undo'[u].at = "plan"
              BY <2>0, <7>1 DEF UndoRec
            <7> QED
              BY <2>4, <7>2
          <6> QED
            BY <5>5, <6>1
        <5>6. CASE v = u /\ ~LockWorkspace(u) /\ ~LockUndoPath(u)
          <6>1. undo'[u].at # "paths"
            BY <1>0, <5>1, <5>6, OnlyLocking DEF UndoStep
          <6> QED
            BY <2>4, <6>1
        <5> QED
          BY <5>1, <5>3, <5>4, <5>5, <5>6
      <4> QED
        BY <4>1, <4>2, <4>3, <4>4 DEF ChangesNext
    <3>2. CASE undo'[u].set = undo[u].set /\ Held(u)' = Held(u)
      BY <2>1, <3>2
    <3>3. CASE Held(u)' = {}
      BY <3>3 DEF Before
    <3>4. CASE LockUndoPath(u) /\ DOMAIN undo[u].set.files \ Held(u) # {}
      <4> DEFINE wanted == DOMAIN undo[u].set.files
                 held == Held(u)
                 m == Min(wanted \ held)
      <4>1. wanted \in SUBSET Paths /\ held \in SUBSET Paths /\ wanted \ held # {}
        BY <2>0, <3>4 DEF Held
      <4>2. undo' = undo /\ path_lock' = [path_lock EXCEPT ![m] = u]
        BY <3>4 DEF LockUndoPath, NextPath
      <4>3. path_lock \in [Paths -> {Free} \cup Writers \cup Undoers]
        BY <1>0 DEF ShapePart
      <4>4. m \in Paths
        <5> HIDE DEF wanted, held
        <5>1. wanted \ held \in SUBSET Paths
          BY <4>1
        <5> QED
          BY <4>1, <5>1, MinOfPaths
      <4>5. Held(u)' = held \cup {m}
        <5> HIDE DEF m
        <5> QED
          BY <4>2, <4>3, <4>4 DEF Held
      <4> HIDE DEF wanted, held
      <4>6. Before(held \cup {m}, wanted)
        BY <2>1, <4>1, BeforeNext DEF wanted, held
      <4> QED
        BY <4>2, <4>5, <4>6 DEF wanted
    <3> QED
      BY <3>1, <3>2, <3>3, <3>4
  <2> QED
    BY <2>s, <2>2, <2>3, <2>4 DEF UndoSteps
<1> QED
  BY <1>1, <1>2 DEF InOrder, Batch

(* Tool calls and undo requests that take the locks of several files never   *)
(* wait for each other in a circle, for any number of tasks and files:       *)
(* lock_mutation_paths takes them in the order of mutation_path_key.         *)
THEOREM LocksWithoutDeadlock == ChangesSpec => []NoCircularWait
<1>1. ChangesInv /\ ChangesInv' /\ InOrder /\ [ChangesNext]_changeVars => InOrder'
  BY InOrderStep
<1>2. ChangesInv /\ InOrder => NoCircularWait
  <2> SUFFICES ASSUME ChangesInv, InOrder PROVE NoCircularWait
    OBVIOUS
  <2>0. ShapePart /\ LockPart
    BY DEF ChangesInv
  <2>1. ASSUME NEW held \in SUBSET Paths, NEW wanted \in SUBSET Paths, Before(held, wanted), wanted \ held # {},
               NEW p \in held, NEW q \in NextPath(wanted \ held)
        PROVE  p < q
    <3> DEFINE S == wanted \ held
    <3>1. S \in SUBSET Paths /\ S # {}
      BY <2>1
    <3>2. q = Min(S)
      BY <2>1 DEF NextPath
    <3> HIDE DEF S
    <3>3. q \in S
      BY <3>1, <3>2, MinOfPaths
    <3> QED
      BY <2>1, <3>3 DEF Before, S
  <2>2. ASSUME NEW w \in Writers, NEW p \in Paths, NEW q \in Paths, path_lock[p] = w, WriterWaits(w, q)
        PROVE  p < q
    <3>1. /\ Held(w) \in SUBSET Paths /\ DOMAIN Batch(w) \in SUBSET Paths /\ p \in Held(w)
          /\ Before(Held(w), DOMAIN Batch(w))
      BY <2>0, <2>2, WriterNow, WriterFields DEF Held, Batch, InOrder
    <3> QED
      BY <2>1, <2>2, <3>1 DEF WriterWaits
  <2>3. ASSUME NEW u \in Undoers, NEW p \in Paths, NEW q \in Paths, path_lock[p] = u, UndoWaits(u, q)
        PROVE  p < q
    <3>1. /\ Held(u) \in SUBSET Paths /\ DOMAIN undo[u].set.files \in SUBSET Paths /\ p \in Held(u)
          /\ Before(Held(u), DOMAIN undo[u].set.files)
      BY <2>0, <2>3, UndoNow DEF Held, InOrder
    <3> QED
      BY <2>1, <2>3, <3>1 DEF UndoWaits
  <2> QED
    BY <2>2, <2>3 DEF NoCircularWait
<1> QED
  BY <1>1, <1>2, InOrderInit, ChangesInvHolds, PTL DEF ChangesSpec

=============================================================================
