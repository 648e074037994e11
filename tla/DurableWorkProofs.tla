-------------------------- MODULE DurableWorkProofs --------------------------
(* Work that survives the call that asked for it, and what is told of it.     *)
(* Background jobs, for every set of jobs, every size of the buffer and every *)
(* bound: output is told once and no change of a job is slept through.        *)
(* Flow cases, for any number of callers, keys, revisions and restarts: one   *)
(* event is one run, its case spawns one driver at most, a queued run has the *)
(* caller that will drive it, a run executes the revision that accepted its   *)
(* event, and the schedule worker never undoes an order of the operator.      *)
EXTENDS BackgroundJobs, FlowCases, FiniteSetTheorems, SequenceTheorems, TLAPS

-----------------------------------------------------------------------------
(* The inductive invariant, part by part                                     *)

Words == {"sink", "read", "round"}
FinisherSteps == PublishSteps \cup {"none", "run", "signal", "finish", "ended"}
AttacherSteps == PublishSteps \cup {"none", "check", "ended"}
Readers == [at : {"look", "drowsy", "asleep"}, job : Jobs, seen : Nat]
Completions == [job : Jobs, bytes : SUBSET Nat]

ShapePart ==
  /\ call \in [Jobs -> {"none", "counted", "foreground", "accepted", "done", "failed"}]
  /\ status \in [Jobs -> {"absent", "running", "terminal"}]
  /\ sessions \subseteq Jobs /\ alive \subseteq Jobs /\ sink \subseteq Jobs /\ cancelled \subseteq Jobs
  /\ written \in [Jobs -> Nat] /\ pushed \in [Jobs -> Nat]
  /\ unread \in [Jobs -> Seq(Nat)] /\ dropped \in [Jobs -> SUBSET Nat]
  /\ reported \in [Jobs -> BOOLEAN]
  /\ finisher \in [Jobs -> FinisherSteps] /\ attacher \in [Jobs -> AttacherSteps]
  /\ chunk \in [Jobs -> SUBSET Nat] /\ revision \in [Jobs -> Nat]
  /\ shown \in [Jobs -> SUBSET Nat] /\ told \in [Jobs -> Seq(Words)]
  /\ reader \in Readers \cup {NoReader} /\ batch \subseteq Completions
  /\ reads \in 0..MaxReads /\ rounds \in 0..MaxRounds /\ faults \in 0..MaxStoreFaults

(* Where the task that owns a job is tells how far the job is.               *)
LifePart ==
  \A j \in Jobs :
    /\ status[j] = "absent" <=> finisher[j] = "none"
    /\ status[j] = "running" <=> finisher[j] = "run"
    /\ call[j] \in {"none", "counted", "failed"} <=> status[j] = "absent"
    /\ j \in alive => status[j] = "running"
    /\ attacher[j] \in PublishSteps => status[j] = "terminal"
    /\ reported[j] => status[j] = "terminal"

(* The output: all of it is in the buffer once the job has ended.            *)
OutputPart ==
  \A j \in Jobs :
    /\ pushed[j] <= written[j] /\ written[j] <= MaxOutput
    /\ status[j] = "terminal" => pushed[j] = written[j]
    /\ Len(unread[j]) <= max_buffered_bytes
    /\ 1..pushed[j] = shown[j] \cup ToSet(unread[j]) \cup dropped[j]

(* What a delivery or a reminder carries covers what it will clear.          *)
Delivering(s) == s \in {"claimed", "peeked", "delivered", "refused"}

ClearPart ==
  /\ \A j \in Jobs :
       /\ finisher[j] = "peeked" \/ attacher[j] = "peeked" =>
            ToSet(unread[j]) \subseteq chunk[j] /\ chunk[j] \subseteq 1..pushed[j]
       /\ finisher[j] = "delivered" \/ attacher[j] = "delivered" => ToSet(unread[j]) \subseteq shown[j]
  /\ \A c \in batch : /\ status[c.job] = "terminal"
                      /\ ToSet(unread[c.job]) \subseteq c.bytes
                      /\ c.bytes \subseteq 1..pushed[c.job]

(* The sink is claimed by one publisher, and used at most once.              *)
NoSink(s) == \A i \in DOMAIN s : s[i] # "sink"
OneSink(s) == \E i \in DOMAIN s : s[i] = "sink" /\ \A k \in DOMAIN s : s[k] = "sink" => k = i

SinkPart ==
  \A j \in Jobs :
    /\ ~(Delivering(finisher[j]) /\ Delivering(attacher[j]))
    /\ Delivering(finisher[j]) \/ Delivering(attacher[j]) => j \notin sink
    /\ attacher[j] # "none" \/ j \in sink \/ Delivering(finisher[j]) => call[j] = "done"
    /\ \/ NoSink(told[j])
       \/ /\ OneSink(told[j]) /\ j \notin sink /\ call[j] = "done"
          /\ finisher[j] \notin {"claimed", "peeked", "refused"}
          /\ attacher[j] \notin {"claimed", "peeked", "refused"}

(* The reader knows of no later change than there was.                       *)
ReaderPart ==
  reader # NoReader =>
    /\ status[reader.job] # "absent" /\ reader.seen <= revision[reader.job]
    /\ reader.at \in {"drowsy", "asleep"} /\ Readable(reader.job) =>
         \/ revision[reader.job] > reader.seen
         \/ finisher[reader.job] \in PublishSteps \cup {"signal"}

JobInv == ShapePart /\ LifePart /\ OutputPart /\ ClearPart /\ SinkPart /\ ReaderPart

-----------------------------------------------------------------------------
(* The parts of a state that a step leaves alone                             *)

LEMMA LifeStays ==
  ASSUME JobInv, UNCHANGED <<status, finisher, call, alive, attacher, reported>>
  PROVE  LifePart'
BY DEF JobInv, LifePart

LEMMA OutputStays ==
  ASSUME JobInv, UNCHANGED <<pushed, written, status, unread, shown, dropped>>
  PROVE  OutputPart'
BY DEF JobInv, OutputPart

LEMMA ClearStays ==
  ASSUME JobInv, UNCHANGED <<finisher, attacher, unread, chunk, pushed, shown, batch, status>>
  PROVE  ClearPart'
BY DEF JobInv, ClearPart

LEMMA SinkStays ==
  ASSUME JobInv, UNCHANGED <<finisher, attacher, sink, call, told>>
  PROVE  SinkPart'
BY DEF JobInv, SinkPart

LEMMA ReaderStays ==
  ASSUME JobInv, UNCHANGED <<reader, status, revision, finisher, unread, sessions>>
  PROVE  ReaderPart'
BY DEF JobInv, ReaderPart, Readable, is_terminal

-----------------------------------------------------------------------------
(* Starting a job, its process                                               *)

LEMMA CountRunningKeeps ==
  ASSUME JobInv, NEW j \in Jobs, CountRunning(j)
  PROVE  JobInv'
<1>1. /\ call[j] = "none"
      /\ \E v \in {"counted", "failed"} : call' = [call EXCEPT ![j] = v]
      /\ UNCHANGED <<status, sessions, alive, written, pushed, cancelled, unread, dropped, reported,
                     sink, finisher, attacher, chunk, revision, turn_cancelled, reader, batch,
                     shown, told, reads, rounds, faults>>
  BY DEF CountRunning, buffers, delivery, history, bounds
<1>2. ShapePart'
  BY <1>1 DEF JobInv, ShapePart
<1>3. LifePart'
  BY <1>1 DEF JobInv, ShapePart, LifePart
<1>4. SinkPart'
  BY <1>1 DEF JobInv, ShapePart, SinkPart
<1> QED
  BY <1>1, <1>2, <1>3, <1>4, OutputStays, ClearStays, ReaderStays DEF JobInv

LEMMA InsertJobKeeps ==
  ASSUME JobInv, NEW j \in Jobs, InsertJob(j)
  PROVE  JobInv'
<1>1. /\ call[j] = "counted"
      /\ UNCHANGED <<written, pushed, cancelled, unread, dropped, reported, sink, attacher, chunk,
                     revision, turn_cancelled, reader, batch, shown, told, reads, rounds, faults>>
  BY DEF InsertJob, buffers, history, bounds
<1>2. /\ status[j] = "absent" /\ finisher[j] = "none" /\ attacher[j] = "none" /\ j \notin sink
      /\ NoSink(told[j]) /\ ~reported[j]
  BY <1>1 DEF JobInv, LifePart, SinkPart
<1>3. CASE /\ call' = [call EXCEPT ![j] = "failed"]
           /\ UNCHANGED <<status, sessions, alive, finisher>>
  <2>1. ShapePart'
    BY <1>1, <1>3 DEF JobInv, ShapePart
  <2>2. LifePart'
    BY <1>1, <1>3 DEF JobInv, ShapePart, LifePart
  <2>3. SinkPart'
    BY <1>1, <1>2, <1>3 DEF JobInv, ShapePart, SinkPart
  <2> QED
    BY <1>1, <1>3, <2>1, <2>2, <2>3, OutputStays, ClearStays, ReaderStays DEF JobInv
<1>4. CASE /\ \E v \in {"foreground", "accepted"} : call' = [call EXCEPT ![j] = v]
           /\ sessions' \in {sessions, sessions \cup {j}}
           /\ status' = [status EXCEPT ![j] = "running"]
           /\ alive' = alive \cup {j}
           /\ finisher' = [finisher EXCEPT ![j] = "run"]
  <2>1. ShapePart'
    BY <1>1, <1>4 DEF JobInv, ShapePart, FinisherSteps
  <2>2. LifePart'
    BY <1>1, <1>2, <1>4 DEF JobInv, ShapePart, LifePart
  <2>3. OutputPart'
    BY <1>1, <1>2, <1>4 DEF JobInv, ShapePart, OutputPart
  <2>4. ClearPart'
    BY <1>1, <1>2, <1>4 DEF JobInv, ShapePart, ClearPart, Completions
  <2>5. SinkPart'
    BY <1>1, <1>2, <1>4 DEF JobInv, ShapePart, SinkPart, Delivering
  <2>6. ReaderPart'
    BY <1>1, <1>2, <1>4 DEF JobInv, ShapePart, ReaderPart, Readable, is_terminal, Readers
  <2> QED
    BY <2>1, <2>2, <2>3, <2>4, <2>5, <2>6 DEF JobInv
<1> QED
  BY <1>3, <1>4 DEF InsertJob

LEMMA WriteByteKeeps ==
  ASSUME JobInv, NEW j \in Jobs, WriteByte(j)
  PROVE  JobInv'
<1>1. /\ j \in alive /\ written[j] < MaxOutput /\ written' = [written EXCEPT ![j] = written[j] + 1]
      /\ UNCHANGED <<call, status, sessions, alive, pushed, cancelled, unread, dropped, reported,
                     sink, finisher, attacher, chunk, revision, turn_cancelled, reader, batch,
                     shown, told, reads, rounds, faults>>
  BY DEF WriteByte, buffers, delivery, history, bounds, JobInv, ShapePart
<1>2. written[j] \in Nat /\ status[j] = "running" /\ pushed[j] \in Nat
  BY <1>1 DEF JobInv, ShapePart, LifePart
<1>3. ShapePart'
  <2>1. written[j] + 1 \in Nat
    BY <1>2
  <2>2. written' \in [Jobs -> Nat]
    BY <1>1, <2>1 DEF JobInv, ShapePart
  <2> QED
    BY <1>1, <2>2 DEF JobInv, ShapePart
<1>4. OutputPart'
  BY <1>1, <1>2, JobsAssumption DEF JobInv, ShapePart, OutputPart
<1> QED
  BY <1>1, <1>3, <1>4, LifeStays, ClearStays, SinkStays, ReaderStays DEF JobInv

LEMMA ProcessEndsKeeps ==
  ASSUME JobInv, NEW j \in Jobs, ProcessEnds(j)
  PROVE  JobInv'
<1>1. /\ alive' = alive \ {j}
      /\ UNCHANGED <<call, status, sessions, written, pushed, cancelled, unread, dropped, reported,
                     sink, finisher, attacher, chunk, revision, turn_cancelled, reader, batch,
                     shown, told, reads, rounds, faults>>
  BY DEF ProcessEnds, buffers, delivery, history, bounds
<1>2. ShapePart'
  BY <1>1 DEF JobInv, ShapePart
<1>3. LifePart'
  BY <1>1 DEF JobInv, LifePart
<1> QED
  BY <1>1, <1>2, <1>3, OutputStays, ClearStays, SinkStays, ReaderStays DEF JobInv

LEMMA FinishKeeps ==
  ASSUME JobInv, NEW j \in Jobs, Finish(j)
  PROVE  JobInv'
<1>1. /\ finisher[j] = "run" /\ j \notin alive /\ pushed[j] = written[j]
      /\ status' = [status EXCEPT ![j] = "terminal"]
      /\ finisher' = [finisher EXCEPT ![j] = "publish"]
      /\ UNCHANGED <<call, sessions, alive, written, pushed, cancelled, unread, dropped, reported,
                     sink, attacher, chunk, revision, turn_cancelled, reader, batch,
                     shown, told, reads, rounds, faults>>
  BY DEF Finish, Drained, buffers, history, bounds
<1>2. ShapePart'
  BY <1>1 DEF JobInv, ShapePart, FinisherSteps, PublishSteps
<1>3. LifePart'
  BY <1>1 DEF JobInv, ShapePart, LifePart
<1>4. OutputPart'
  BY <1>1 DEF JobInv, ShapePart, OutputPart
<1>5. ClearPart'
  BY <1>1 DEF JobInv, ShapePart, ClearPart, Completions
<1>6. SinkPart'
  BY <1>1 DEF JobInv, ShapePart, SinkPart, Delivering
<1>7. ReaderPart'
  BY <1>1 DEF JobInv, ShapePart, ReaderPart, Readable, is_terminal, Readers, PublishSteps
<1> QED
  BY <1>2, <1>3, <1>4, <1>5, <1>6, <1>7 DEF JobInv

-----------------------------------------------------------------------------
(* The buffer                                                                *)

(* StreamBuffer::push keeps a bounded part of what there was.                *)
LEMMA BoundedFacts ==
  ASSUME NEW s \in Seq(Nat)
  PROVE  /\ Bounded(s) \in Seq(Nat) /\ Len(Bounded(s)) <= max_buffered_bytes
         /\ ToSet(Bounded(s)) \subseteq ToSet(s)
<1> DEFINE m == max_buffered_bytes
           head == m \div 2
           tail == m - head
           a == SubSeq(s, 1, head)
           b == SubSeq(s, Len(s) - tail + 1, Len(s))
<1>1. m \in Nat /\ head \in Nat /\ head <= m
  BY JobsAssumption
<1>2. tail \in Nat /\ head + tail = m
  BY <1>1
<1>3. CASE Len(s) <= m
  BY <1>3 DEF Bounded
<1>4. CASE ~(Len(s) <= m)
  <2>1. Bounded(s) = a \o b
    BY <1>4 DEF Bounded
  <2> HIDE DEF head, tail
  <2>2. Len(s) \in Nat /\ head <= Len(s) /\ tail <= Len(s)
    BY <1>1, <1>2, <1>4
  <2>3. /\ a \in Seq(Nat) /\ Len(a) = head /\ \A i \in 1..head : a[i] = s[i]
    BY <1>1, <2>2, SubSeqProperties
  <2>4. /\ b \in Seq(Nat) /\ Len(b) = tail
        /\ \A i \in 1..tail : b[i] = s[Len(s) - tail + i]
    BY <1>2, <2>2, SubSeqProperties
  <2> HIDE DEF a, b
  <2>5. a \o b \in Seq(Nat) /\ Len(a \o b) = m
    <3>1. a \in Seq(Nat) /\ b \in Seq(Nat) /\ Len(a) + Len(b) = m
      BY <1>2, <2>3, <2>4
    <3> QED
      BY <3>1, ConcatProperties
  <2>6. \A i \in 1..m : (a \o b)[i] = IF i <= head THEN a[i] ELSE b[i - head]
    <3>1. a \in Seq(Nat) /\ b \in Seq(Nat) /\ Len(a) = head /\ Len(a) + Len(b) = m
      BY <1>2, <2>3, <2>4
    <3>2. \A i \in 1..(Len(a) + Len(b)) : (a \o b)[i] = IF i <= Len(a) THEN a[i] ELSE b[i - Len(a)]
      BY <3>1, ConcatProperties
    <3> QED
      BY <3>1, <3>2
  <2>7. ASSUME NEW i \in 1..m
        PROVE  \E k \in 1..Len(s) : (a \o b)[i] = s[k]
    <3>1. CASE i <= head
      BY <1>1, <2>2, <2>3, <2>6, <3>1
    <3>2. CASE ~(i <= head)
      <4>1. i - head \in 1..tail /\ Len(s) - tail + (i - head) \in 1..Len(s)
        BY <1>1, <1>2, <2>2, <3>2
      <4>2. (a \o b)[i] = s[Len(s) - tail + (i - head)]
        BY <2>4, <2>6, <3>2, <4>1
      <4> QED
        BY <4>1, <4>2
    <3> QED
      BY <3>1, <3>2
  <2>8. ToSet(a \o b) \subseteq ToSet(s)
    <3> DEFINE t == a \o b
    <3>1. DOMAIN t = 1..m /\ DOMAIN s = 1..Len(s)
      BY <2>5
    <3> HIDE DEF t
    <3>2. \A i \in DOMAIN t : \E k \in DOMAIN s : t[i] = s[k]
      BY <2>7, <3>1 DEF t
    <3>3. ToSet(t) \subseteq ToSet(s)
      BY <3>2 DEF ToSet
    <3> QED
      BY <3>3 DEF t
  <2> QED
    BY <1>1, <2>1, <2>5, <2>8
<1> QED
  BY <1>3, <1>4

LEMMA AppendSet ==
  ASSUME NEW s \in Seq(Nat), NEW x \in Nat
  PROVE  Append(s, x) \in Seq(Nat) /\ ToSet(Append(s, x)) = ToSet(s) \cup {x}
<1>1. /\ Append(s, x) \in Seq(Nat) /\ Len(s) \in Nat /\ DOMAIN s = 1..Len(s)
      /\ DOMAIN Append(s, x) = 1..(Len(s) + 1)
      /\ \A i \in 1..Len(s) : Append(s, x)[i] = s[i]
      /\ Append(s, x)[Len(s) + 1] = x
  BY AppendProperties
<1>2. ToSet(Append(s, x)) \subseteq ToSet(s) \cup {x}
  BY <1>1 DEF ToSet
<1>3. x \in ToSet(Append(s, x)) /\ ToSet(s) \subseteq ToSet(Append(s, x))
  BY <1>1 DEF ToSet
<1> QED
  BY <1>1, <1>2, <1>3

LEMMA EmptyRead == ToSet(<<>>) = {} /\ <<>> \in Seq(Nat) /\ Len(<<>>) = 0
BY DEF ToSet

LEMMA PushOutputKeeps ==
  ASSUME JobInv, NEW j \in Jobs, PushOutput(j)
  PROVE  JobInv'
<1> DEFINE byte == pushed[j] + 1
           kept == Bounded(Append(unread[j], byte))
           lost == (ToSet(unread[j]) \cup {byte}) \ ToSet(kept)
<1>1. /\ pushed[j] < written[j]
      /\ pushed' = [pushed EXCEPT ![j] = byte] /\ unread' = [unread EXCEPT ![j] = kept]
      /\ dropped' = [dropped EXCEPT ![j] = dropped[j] \cup lost]
      /\ revision' = [revision EXCEPT ![j] = revision[j] + 1]
  BY DEF PushOutput, JobInv, ShapePart
<1>2. UNCHANGED <<call, status, sessions, alive, written, cancelled, reported, sink, finisher, attacher,
                  chunk, turn_cancelled, reader, batch, shown, told, reads, rounds, faults>>
  BY DEF PushOutput, delivery, history, bounds
<1>3. /\ pushed[j] \in Nat /\ written[j] \in Nat /\ revision[j] \in Nat /\ unread[j] \in Seq(Nat)
      /\ dropped[j] \in SUBSET Nat
  BY DEF JobInv, ShapePart
<1>4. byte \in Nat /\ byte = pushed[j] + 1 /\ byte <= written[j] /\ revision[j] + 1 \in Nat
  BY <1>1, <1>3
<1> HIDE DEF byte
<1>5. Append(unread[j], byte) \in Seq(Nat) /\ ToSet(Append(unread[j], byte)) = ToSet(unread[j]) \cup {byte}
  BY <1>3, <1>4, AppendSet
<1>6. /\ kept \in Seq(Nat) /\ Len(kept) <= max_buffered_bytes
      /\ ToSet(kept) \subseteq ToSet(unread[j]) \cup {byte}
  BY <1>5, BoundedFacts
<1>7. ToSet(unread[j]) \subseteq Nat
  BY <1>3 DEF ToSet
<1> HIDE DEF kept
<1>8. lost \in SUBSET Nat /\ lost \cup ToSet(kept) = ToSet(unread[j]) \cup {byte}
  BY <1>4, <1>6, <1>7
<1> HIDE DEF lost
<1>9. status[j] # "terminal"
  BY <1>1, <1>3 DEF JobInv, OutputPart
<1>10. ShapePart'
  <2>1. pushed' \in [Jobs -> Nat] /\ revision' \in [Jobs -> Nat]
    BY <1>1, <1>4 DEF JobInv, ShapePart
  <2>2. unread' \in [Jobs -> Seq(Nat)]
    BY <1>1, <1>6 DEF JobInv, ShapePart
  <2>3. dropped' \in [Jobs -> SUBSET Nat]
    BY <1>1, <1>3, <1>8 DEF JobInv, ShapePart
  <2> QED
    BY <1>2, <2>1, <2>2, <2>3 DEF JobInv, ShapePart
<1>11. /\ pushed'[j] = byte /\ unread'[j] = kept /\ dropped'[j] = dropped[j] \cup lost
       /\ revision'[j] = revision[j] + 1
       /\ \A k \in Jobs \ {j} : /\ pushed'[k] = pushed[k] /\ unread'[k] = unread[k]
                                /\ dropped'[k] = dropped[k] /\ revision'[k] = revision[k]
  BY <1>1 DEF JobInv, ShapePart
<1>12. OutputPart'
  <2>1. 1..byte = (1..pushed[j]) \cup {byte}
    BY <1>3, <1>4
  <2>2. 1..pushed[j] = shown[j] \cup ToSet(unread[j]) \cup dropped[j]
    BY DEF JobInv, OutputPart
  <2>3. 1..byte = shown[j] \cup ToSet(kept) \cup (dropped[j] \cup lost)
    BY <1>8, <2>1, <2>2
  <2> QED
    BY <1>2, <1>4, <1>6, <1>9, <1>11, <2>3 DEF JobInv, OutputPart
<1>13. ClearPart'
  <2>1. /\ \A p \in {finisher[j], attacher[j]} : p \notin PublishSteps
    BY <1>9 DEF JobInv, LifePart, ShapePart, FinisherSteps, PublishSteps
  <2>2. finisher[j] \notin {"peeked", "delivered"} /\ attacher[j] \notin {"peeked", "delivered"}
    BY <2>1 DEF PublishSteps
  <2>3. \A c \in batch : c.job \in Jobs /\ c.job # j
    BY <1>9 DEF JobInv, ShapePart, ClearPart, Completions
  <2> QED
    BY <1>2, <1>11, <2>2, <2>3 DEF JobInv, ClearPart
<1>14. ReaderPart'
  <2>1. reader # NoReader => reader \in Readers /\ reader.job \in Jobs /\ reader.seen \in Nat
    BY DEF JobInv, ShapePart, Readers
  <2>2. CASE reader # NoReader /\ reader.job = j
    BY <1>2, <1>3, <1>4, <1>9, <1>11, <2>1, <2>2 DEF JobInv, ReaderPart, Readable, is_terminal
  <2>3. CASE reader # NoReader /\ reader.job # j
    BY <1>2, <1>11, <2>1, <2>3 DEF JobInv, ReaderPart, Readable, is_terminal
  <2> QED
    BY <1>2, <2>2, <2>3 DEF ReaderPart
<1>15. LifePart' /\ SinkPart'
  BY <1>2, LifeStays, SinkStays
<1> QED
  BY <1>10, <1>12, <1>13, <1>14, <1>15 DEF JobInv

-----------------------------------------------------------------------------
(* Publishing the end                                                        *)

LEMMA ToldAppend ==
  ASSUME NEW s \in Seq(Words), NEW w \in Words
  PROVE  /\ Append(s, w) \in Seq(Words)
         /\ w = "sink" /\ NoSink(s) => OneSink(Append(s, w))
         /\ w # "sink" /\ NoSink(s) => NoSink(Append(s, w))
         /\ w # "sink" /\ OneSink(s) => OneSink(Append(s, w))
<1> DEFINE t == Append(s, w)
           n == Len(s)
<1>1. /\ t \in Seq(Words) /\ n \in Nat /\ DOMAIN s = 1..n /\ DOMAIN t = 1..(n + 1)
      /\ \A i \in 1..n : t[i] = s[i]
      /\ t[n + 1] = w
  BY AppendProperties
<1> HIDE DEF t, n
<1>2. w = "sink" /\ NoSink(s) => OneSink(t)
  BY <1>1 DEF NoSink, OneSink
<1>3. w # "sink" /\ NoSink(s) => NoSink(t)
  BY <1>1 DEF NoSink
<1>4. ASSUME w # "sink", OneSink(s) PROVE OneSink(t)
  <2>1. PICK i \in 1..n : s[i] = "sink" /\ \A k \in 1..n : s[k] = "sink" => k = i
    BY <1>1, <1>4 DEF OneSink
  <2>2. i \in DOMAIN t /\ t[i] = "sink"
    BY <1>1, <2>1
  <2>3. \A k \in DOMAIN t : t[k] = "sink" => k = i
    BY <1>1, <1>4, <2>1
  <2> QED
    BY <2>2, <2>3 DEF OneSink
<1> QED
  BY <1>1, <1>2, <1>3, <1>4 DEF t

(* One of the two publishers goes from one step to another.                  *)
Goes(p, j, from, to) ==
  \/ /\ p = "finisher" /\ finisher[j] = from
     /\ finisher' = [finisher EXCEPT ![j] = to] /\ attacher' = attacher
  \/ /\ p = "attacher" /\ attacher[j] = from
     /\ attacher' = [attacher EXCEPT ![j] = to] /\ finisher' = finisher

LEMMA GoesIs ==
  ASSUME NEW p \in {"finisher", "attacher"}, NEW j, NEW from, NEW to, At(p, j) = from, Move(p, j, to)
  PROVE  Goes(p, j, from, to)
BY DEF At, Move, Goes

Publishers == {"finisher", "attacher"}

(* What a step of a publisher keeps whatever it does.                        *)
LEMMA GoesKeeps ==
  ASSUME JobInv, NEW p \in Publishers, NEW j \in Jobs, NEW from \in PublishSteps, NEW to,
         Goes(p, j, from, to), to \in PublishSteps \/ to = Published(p),
         UNCHANGED <<status, call, alive, sessions, revision, reader>>,
         \A k \in Jobs : reported'[k] => reported[k] \/ status[k] = "terminal",
         \A k \in Jobs : unread'[k] = unread[k] \/ unread'[k] = <<>>
  PROVE  /\ finisher' \in [Jobs -> FinisherSteps] /\ attacher' \in [Jobs -> AttacherSteps]
         /\ LifePart' /\ ReaderPart' /\ status[j] = "terminal"
<1>1. finisher \in [Jobs -> FinisherSteps] /\ attacher \in [Jobs -> AttacherSteps]
  BY DEF JobInv, ShapePart
<1>2. /\ p = "finisher" => to \in PublishSteps \cup {"signal"}
      /\ p = "attacher" => to \in PublishSteps \cup {"ended"}
  BY DEF Published
<1>3. status[j] = "terminal"
  BY <1>1 DEF Goes, JobInv, LifePart, ShapePart, PublishSteps
<1>4. finisher' \in [Jobs -> FinisherSteps] /\ attacher' \in [Jobs -> AttacherSteps]
  BY <1>1, <1>2 DEF Goes, FinisherSteps, AttacherSteps
<1>5. LifePart'
  <2>1. CASE p = "finisher"
    BY <1>1, <1>2, <1>3, <2>1 DEF Goes, JobInv, LifePart, PublishSteps
  <2>2. CASE p = "attacher"
    BY <1>1, <1>2, <1>3, <2>2 DEF Goes, JobInv, LifePart, PublishSteps
  <2> QED
    BY <2>1, <2>2 DEF Publishers
<1>6. ReaderPart'
  <2>1. reader # NoReader => reader.job \in Jobs
    BY DEF JobInv, ShapePart, Readers
  <2>2. \A k \in Jobs : finisher[k] \in PublishSteps \cup {"signal"} =>
                          finisher'[k] \in PublishSteps \cup {"signal"}
    BY <1>1, <1>2 DEF Goes
  <2>3. \A k \in Jobs : unread'[k] # <<>> => unread[k] # <<>>
    OBVIOUS
  <2> QED
    BY <2>1, <2>2, <2>3 DEF JobInv, ReaderPart, Readable, is_terminal
<1> QED
  BY <1>3, <1>4, <1>5, <1>6

LEMMA ClaimSinkKeeps ==
  ASSUME JobInv, NEW p \in Publishers, NEW j \in Jobs, ClaimSink(p, j),
         UNCHANGED <<buffers, chunk, history, faults>>,
         UNCHANGED <<job, revision, turn_cancelled, reader, batch, reads, rounds>>
  PROVE  JobInv'
<1>1. UNCHANGED <<call, status, sessions, alive, written, pushed, cancelled, unread, dropped, reported,
                  chunk, revision, reader, batch, shown, told, reads, rounds, faults>>
  BY DEF job, buffers, history
<1>2. PICK to \in {"claimed", Published(p)} :
        /\ Move(p, j, to)
        /\ IF to = "claimed" THEN j \in sink /\ sink' = sink \ {j} ELSE sink' = sink
  BY DEF ClaimSink, Published
<1>3. Goes(p, j, "publish", to)
  BY <1>2, GoesIs DEF ClaimSink, Publishers
<1>4. "publish" \in PublishSteps /\ (to \in PublishSteps \/ to = Published(p))
  BY DEF PublishSteps
<1>5. /\ finisher' \in [Jobs -> FinisherSteps] /\ attacher' \in [Jobs -> AttacherSteps]
      /\ LifePart' /\ ReaderPart'
  BY <1>1, <1>3, <1>4, GoesKeeps
<1>6. to \in {"claimed", "signal", "ended"}
  BY DEF Published
<1>7. finisher \in [Jobs -> FinisherSteps] /\ attacher \in [Jobs -> AttacherSteps]
  BY DEF JobInv, ShapePart
<1>8. ShapePart'
  BY <1>1, <1>2, <1>5 DEF JobInv, ShapePart
<1>9. ClearPart'
  BY <1>1, <1>3, <1>6, <1>7 DEF Goes, JobInv, ClearPart
<1>10. SinkPart'
  <2>1. CASE to = "claimed"
    <3>1. j \in sink /\ sink' = sink \ {j} /\ call[j] = "done" /\ NoSink(told[j])
          /\ ~Delivering(finisher[j]) /\ ~Delivering(attacher[j])
      BY <1>2, <2>1 DEF JobInv, SinkPart
    <3>2. \A k \in Jobs \ {j} : /\ finisher'[k] = finisher[k] /\ attacher'[k] = attacher[k]
                                /\ k \in sink' <=> k \in sink
      BY <1>3, <1>7, <3>1 DEF Goes
    <3>3. \/ finisher'[j] = "claimed" /\ attacher'[j] = attacher[j]
          \/ finisher'[j] = finisher[j] /\ attacher'[j] = "claimed"
      BY <1>3, <1>7, <2>1 DEF Goes
    <3> QED
      BY <1>1, <3>1, <3>2, <3>3 DEF JobInv, SinkPart, Delivering
  <2>2. CASE to # "claimed"
    <3>1. sink' = sink
      BY <1>2, <2>2
    <3>2. \A k \in Jobs : /\ finisher'[k] \in {finisher[k], "signal"}
                          /\ \/ attacher'[k] = attacher[k]
                             \/ attacher'[k] = "ended" /\ attacher[k] = "publish"
      <4>1. CASE p = "finisher"
        BY <1>3, <1>7, <2>2, <4>1 DEF Goes, Published
      <4>2. CASE p = "attacher"
        BY <1>3, <1>7, <2>2, <4>2 DEF Goes, Published
      <4> QED
        BY <4>1, <4>2 DEF Publishers
    <3> QED
      BY <1>1, <3>1, <3>2 DEF JobInv, SinkPart, Delivering
  <2> QED
    BY <2>1, <2>2
<1>11. OutputPart'
  BY <1>1, OutputStays
<1> QED
  BY <1>5, <1>8, <1>9, <1>10, <1>11 DEF JobInv

LEMMA PeekChunkKeeps ==
  ASSUME JobInv, NEW p \in Publishers, NEW j \in Jobs, PeekChunk(p, j),
         UNCHANGED <<buffers, sink, history, faults>>,
         UNCHANGED <<job, revision, turn_cancelled, reader, batch, reads, rounds>>
  PROVE  JobInv'
<1>1. UNCHANGED <<call, status, sessions, alive, written, pushed, cancelled, unread, dropped, reported,
                  sink, revision, reader, batch, shown, told, reads, rounds, faults>>
  BY DEF job, buffers, history
<1>2. Goes(p, j, "claimed", "peeked") /\ chunk' = [chunk EXCEPT ![j] = ToSet(unread[j])]
  BY GoesIs DEF PeekChunk, Publishers
<1>3. "claimed" \in PublishSteps /\ "peeked" \in PublishSteps
  BY DEF PublishSteps
<1>4. /\ finisher' \in [Jobs -> FinisherSteps] /\ attacher' \in [Jobs -> AttacherSteps]
      /\ LifePart' /\ ReaderPart'
  BY <1>1, <1>2, <1>3, GoesKeeps
<1>5. finisher \in [Jobs -> FinisherSteps] /\ attacher \in [Jobs -> AttacherSteps]
  BY DEF JobInv, ShapePart
<1>6. ToSet(unread[j]) \subseteq 1..pushed[j] /\ ToSet(unread[j]) \subseteq Nat
  <2>1. unread[j] \in Seq(Nat)
    BY DEF JobInv, ShapePart
  <2>2. ToSet(unread[j]) \subseteq Nat
    BY <2>1 DEF ToSet
  <2> QED
    BY <2>2 DEF JobInv, OutputPart
<1>7. ShapePart'
  <2>1. chunk' \in [Jobs -> SUBSET Nat]
    BY <1>2, <1>6 DEF JobInv, ShapePart
  <2> QED
    BY <1>1, <1>4, <2>1 DEF JobInv, ShapePart
<1>8. /\ \A k \in Jobs \ {j} : /\ finisher'[k] = finisher[k] /\ attacher'[k] = attacher[k]
                               /\ chunk'[k] = chunk[k]
      /\ chunk'[j] = ToSet(unread[j])
      /\ \/ finisher[j] = "claimed" /\ finisher'[j] = "peeked" /\ attacher'[j] = attacher[j]
         \/ attacher[j] = "claimed" /\ attacher'[j] = "peeked" /\ finisher'[j] = finisher[j]
  BY <1>2, <1>5 DEF Goes, JobInv, ShapePart
<1>9. ClearPart'
  BY <1>1, <1>6, <1>8 DEF JobInv, ClearPart
<1>10. SinkPart'
  BY <1>1, <1>8 DEF JobInv, SinkPart, Delivering
<1>11. OutputPart'
  BY <1>1, OutputStays
<1> QED
  BY <1>4, <1>7, <1>9, <1>10, <1>11 DEF JobInv

(* The chunk is shown: what is left unread was in it.                        *)
LEMMA DeliveredKeeps ==
  ASSUME JobInv, NEW p \in Publishers, NEW j \in Jobs, At(p, j) = "peeked", Move(p, j, "delivered"),
         shown' = [shown EXCEPT ![j] = shown[j] \cup chunk[j]],
         told' = [told EXCEPT ![j] = Append(told[j], "sink")],
         UNCHANGED <<buffers, sink, chunk, faults>>,
         UNCHANGED <<job, revision, turn_cancelled, reader, batch, reads, rounds>>
  PROVE  JobInv'
<1>1. UNCHANGED <<call, status, sessions, alive, written, pushed, cancelled, unread, dropped, reported,
                  sink, chunk, revision, reader, batch, reads, rounds, faults>>
  BY DEF job, buffers
<1>2. Goes(p, j, "peeked", "delivered")
  BY GoesIs DEF Publishers
<1>3. "peeked" \in PublishSteps /\ "delivered" \in PublishSteps
  BY DEF PublishSteps
<1>4. /\ finisher' \in [Jobs -> FinisherSteps] /\ attacher' \in [Jobs -> AttacherSteps]
      /\ LifePart' /\ ReaderPart'
  BY <1>1, <1>2, <1>3, GoesKeeps
<1>5. finisher \in [Jobs -> FinisherSteps] /\ attacher \in [Jobs -> AttacherSteps]
  BY DEF JobInv, ShapePart
<1>6. /\ \A k \in Jobs \ {j} : finisher'[k] = finisher[k] /\ attacher'[k] = attacher[k]
      /\ \/ finisher[j] = "peeked" /\ finisher'[j] = "delivered" /\ attacher'[j] = attacher[j]
         \/ attacher[j] = "peeked" /\ attacher'[j] = "delivered" /\ finisher'[j] = finisher[j]
  BY <1>2, <1>5 DEF Goes
<1>7. ToSet(unread[j]) \subseteq chunk[j] /\ chunk[j] \subseteq 1..pushed[j]
  BY <1>6 DEF JobInv, ClearPart
<1>8. /\ shown[j] \in SUBSET Nat /\ chunk[j] \in SUBSET Nat /\ told[j] \in Seq(Words)
  BY DEF JobInv, ShapePart
<1>9. NoSink(told[j])
  BY <1>6 DEF JobInv, SinkPart
<1>10. Append(told[j], "sink") \in Seq(Words) /\ OneSink(Append(told[j], "sink"))
  BY <1>8, <1>9, ToldAppend DEF Words
<1>11. ShapePart'
  <2>1. shown' \in [Jobs -> SUBSET Nat]
    BY <1>8 DEF JobInv, ShapePart
  <2>2. told' \in [Jobs -> Seq(Words)]
    BY <1>10 DEF JobInv, ShapePart
  <2> QED
    BY <1>1, <1>4, <2>1, <2>2 DEF JobInv, ShapePart
<1>12. /\ shown'[j] = shown[j] \cup chunk[j] /\ OneSink(told'[j])
       /\ \A k \in Jobs \ {j} : shown'[k] = shown[k] /\ told'[k] = told[k]
  BY <1>10 DEF JobInv, ShapePart
<1>13. OutputPart'
  <2>1. 1..pushed[j] = (shown[j] \cup chunk[j]) \cup ToSet(unread[j]) \cup dropped[j]
    BY <1>7 DEF JobInv, OutputPart
  <2> QED
    BY <1>1, <1>12, <2>1 DEF JobInv, OutputPart
<1>14. ClearPart'
  BY <1>1, <1>6, <1>7, <1>12 DEF JobInv, ClearPart
<1>15. SinkPart'
  BY <1>1, <1>6, <1>12 DEF JobInv, SinkPart, Delivering
<1> QED
  BY <1>4, <1>11, <1>13, <1>14, <1>15 DEF JobInv

(* The store refuses the delivery: nothing was shown.                        *)
LEMMA RefusedKeeps ==
  ASSUME JobInv, NEW p \in Publishers, NEW j \in Jobs, At(p, j) = "peeked", Move(p, j, "refused"),
         faults < MaxStoreFaults, faults' = faults + 1,
         UNCHANGED <<buffers, sink, chunk, history>>,
         UNCHANGED <<job, revision, turn_cancelled, reader, batch, reads, rounds>>
  PROVE  JobInv'
<1>1. UNCHANGED <<call, status, sessions, alive, written, pushed, cancelled, unread, dropped, reported,
                  sink, chunk, revision, reader, batch, shown, told, reads, rounds>>
  BY DEF job, buffers, history
<1>2. Goes(p, j, "peeked", "refused")
  BY GoesIs DEF Publishers
<1>3. "peeked" \in PublishSteps /\ "refused" \in PublishSteps
  BY DEF PublishSteps
<1>4. /\ finisher' \in [Jobs -> FinisherSteps] /\ attacher' \in [Jobs -> AttacherSteps]
      /\ LifePart' /\ ReaderPart'
  BY <1>1, <1>2, <1>3, GoesKeeps
<1>5. finisher \in [Jobs -> FinisherSteps] /\ attacher \in [Jobs -> AttacherSteps]
  BY DEF JobInv, ShapePart
<1>6. /\ \A k \in Jobs \ {j} : finisher'[k] = finisher[k] /\ attacher'[k] = attacher[k]
      /\ \/ finisher[j] = "peeked" /\ finisher'[j] = "refused" /\ attacher'[j] = attacher[j]
         \/ attacher[j] = "peeked" /\ attacher'[j] = "refused" /\ finisher'[j] = finisher[j]
  BY <1>2, <1>5 DEF Goes
<1>7. ShapePart'
  <2>1. faults' \in 0..MaxStoreFaults
    BY JobsAssumption DEF JobInv, ShapePart
  <2> QED
    BY <1>1, <1>4, <2>1 DEF JobInv, ShapePart
<1>8. ClearPart'
  BY <1>1, <1>6 DEF JobInv, ClearPart
<1>9. SinkPart'
  BY <1>1, <1>6 DEF JobInv, SinkPart, Delivering
<1>10. OutputPart'
  BY <1>1, OutputStays
<1> QED
  BY <1>4, <1>7, <1>8, <1>9, <1>10 DEF JobInv

(* mark_reported after a delivery: the model has what is cleared.            *)
LEMMA ReportedKeeps ==
  ASSUME JobInv, NEW p \in Publishers, NEW j \in Jobs, At(p, j) = "delivered", Move(p, j, Published(p)),
         reported' = [reported EXCEPT ![j] = TRUE], unread' = [unread EXCEPT ![j] = <<>>],
         UNCHANGED <<sink, dropped, chunk, history, faults>>,
         UNCHANGED <<job, revision, turn_cancelled, reader, batch, reads, rounds>>
  PROVE  JobInv'
<1>1. UNCHANGED <<call, status, sessions, alive, written, pushed, cancelled, dropped, shown, told,
                  sink, chunk, revision, reader, batch, reads, rounds, faults>>
  BY DEF job, history
<1>2. Goes(p, j, "delivered", Published(p))
  BY GoesIs DEF Publishers
<1>3. "delivered" \in PublishSteps
  BY DEF PublishSteps
<1>4. finisher \in [Jobs -> FinisherSteps] /\ attacher \in [Jobs -> AttacherSteps]
  BY DEF JobInv, ShapePart
<1>5. /\ unread'[j] = <<>> /\ reported'[j]
      /\ \A k \in Jobs \ {j} : unread'[k] = unread[k] /\ reported'[k] = reported[k]
  BY DEF JobInv, ShapePart
<1>6. status[j] = "terminal"
  BY <1>2, <1>3, <1>4 DEF Goes, JobInv, LifePart, ShapePart, PublishSteps
<1>7. \A k \in Jobs : /\ reported'[k] => reported[k] \/ status[k] = "terminal"
                      /\ unread'[k] = unread[k] \/ unread'[k] = <<>>
  BY <1>5, <1>6
<1>8. /\ finisher' \in [Jobs -> FinisherSteps] /\ attacher' \in [Jobs -> AttacherSteps]
      /\ LifePart' /\ ReaderPart'
  BY <1>1, <1>2, <1>3, <1>7, GoesKeeps
<1>9. /\ \A k \in Jobs \ {j} : finisher'[k] = finisher[k] /\ attacher'[k] = attacher[k]
      /\ \/ finisher[j] = "delivered" /\ finisher'[j] = "signal" /\ attacher'[j] = attacher[j]
         \/ attacher[j] = "delivered" /\ attacher'[j] = "ended" /\ finisher'[j] = finisher[j]
  BY <1>2, <1>4 DEF Goes, Published
<1>10. ShapePart'
  <2>1. unread' \in [Jobs -> Seq(Nat)]
    BY EmptyRead DEF JobInv, ShapePart
  <2>2. reported' \in [Jobs -> BOOLEAN]
    BY DEF JobInv, ShapePart
  <2> QED
    BY <1>1, <1>8, <2>1, <2>2 DEF JobInv, ShapePart
<1>11. ToSet(unread[j]) \subseteq shown[j]
  BY <1>9 DEF JobInv, ClearPart
<1>12. OutputPart'
  <2>1. 1..pushed[j] = shown[j] \cup {} \cup dropped[j]
    BY <1>11 DEF JobInv, OutputPart
  <2>2. Len(unread'[j]) <= max_buffered_bytes /\ ToSet(unread'[j]) = {}
    BY <1>5, EmptyRead, JobsAssumption
  <2> QED
    BY <1>1, <1>5, <2>1, <2>2 DEF JobInv, OutputPart
<1>13. ClearPart'
  <2>1. \A k \in Jobs : ToSet(unread'[k]) \subseteq ToSet(unread[k])
    BY <1>5, EmptyRead
  <2>2. \A c \in batch : c.job \in Jobs
    BY DEF JobInv, ShapePart, Completions
  <2> QED
    BY <1>1, <1>9, <2>1, <2>2 DEF JobInv, ClearPart
<1>14. SinkPart'
  BY <1>1, <1>9 DEF JobInv, SinkPart, Delivering
<1> QED
  BY <1>8, <1>10, <1>12, <1>13, <1>14 DEF JobInv

(* A refused delivery gives the sink back.                                   *)
LEMMA GivenBackKeeps ==
  ASSUME JobInv, NEW p \in Publishers, NEW j \in Jobs, At(p, j) = "refused", Move(p, j, Published(p)),
         sink' = sink \cup {j},
         UNCHANGED <<buffers, chunk, history, faults>>,
         UNCHANGED <<job, revision, turn_cancelled, reader, batch, reads, rounds>>
  PROVE  JobInv'
<1>1. UNCHANGED <<call, status, sessions, alive, written, pushed, cancelled, unread, dropped, reported,
                  shown, told, chunk, revision, reader, batch, reads, rounds, faults>>
  BY DEF job, buffers, history
<1>2. Goes(p, j, "refused", Published(p))
  BY GoesIs DEF Publishers
<1>3. "refused" \in PublishSteps
  BY DEF PublishSteps
<1>4. /\ finisher' \in [Jobs -> FinisherSteps] /\ attacher' \in [Jobs -> AttacherSteps]
      /\ LifePart' /\ ReaderPart'
  BY <1>1, <1>2, <1>3, GoesKeeps
<1>5. finisher \in [Jobs -> FinisherSteps] /\ attacher \in [Jobs -> AttacherSteps]
  BY DEF JobInv, ShapePart
<1>6. /\ \A k \in Jobs \ {j} : finisher'[k] = finisher[k] /\ attacher'[k] = attacher[k]
      /\ \/ finisher[j] = "refused" /\ finisher'[j] = "signal" /\ attacher'[j] = attacher[j]
         \/ attacher[j] = "refused" /\ attacher'[j] = "ended" /\ finisher'[j] = finisher[j]
  BY <1>2, <1>5 DEF Goes, Published
<1>7. ShapePart'
  BY <1>1, <1>4 DEF JobInv, ShapePart
<1>8. ClearPart'
  BY <1>1, <1>6 DEF JobInv, ClearPart
<1>9. SinkPart'
  BY <1>1, <1>6 DEF JobInv, SinkPart, Delivering
<1>10. OutputPart'
  BY <1>1, OutputStays
<1> QED
  BY <1>4, <1>7, <1>8, <1>9, <1>10 DEF JobInv

LEMMA PublishKeeps ==
  ASSUME JobInv, NEW p \in Publishers, NEW j \in Jobs, Publish(p, j)
  PROVE  JobInv'
<1>1. UNCHANGED <<job, revision, turn_cancelled, reader, batch, reads, rounds>>
  BY DEF Publish
<1>2. CASE ClaimSink(p, j) /\ UNCHANGED <<buffers, chunk, history, faults>>
  BY <1>1, <1>2, ClaimSinkKeeps
<1>3. CASE PeekChunk(p, j) /\ UNCHANGED <<buffers, sink, history, faults>>
  BY <1>1, <1>3, PeekChunkKeeps
<1>4. CASE Deliver(p, j) /\ UNCHANGED <<buffers, sink, chunk>>
  <2>1. At(p, j) = "peeked" /\ UNCHANGED <<buffers, sink, chunk>>
    BY <1>4 DEF Deliver
  <2>2. CASE /\ Move(p, j, "delivered")
             /\ shown' = [shown EXCEPT ![j] = @ \cup chunk[j]]
             /\ told' = [told EXCEPT ![j] = Append(@, "sink")]
             /\ UNCHANGED faults
    <3>1. /\ shown' = [shown EXCEPT ![j] = shown[j] \cup chunk[j]]
          /\ told' = [told EXCEPT ![j] = Append(told[j], "sink")]
      BY <2>2 DEF JobInv, ShapePart
    <3> QED
      BY <1>1, <2>1, <2>2, <3>1, DeliveredKeeps
  <2>3. CASE /\ faults < MaxStoreFaults
             /\ faults' = faults + 1
             /\ Move(p, j, "refused")
             /\ UNCHANGED history
    BY <1>1, <2>1, <2>3, RefusedKeeps
  <2> QED
    BY <1>4, <2>2, <2>3 DEF Deliver
<1>5. CASE SettleDelivery(p, j) /\ UNCHANGED <<chunk, history, faults>>
  <2>1. CASE /\ At(p, j) = "delivered"
             /\ Move(p, j, Published(p))
             /\ reported' = [reported EXCEPT ![j] = TRUE]
             /\ unread' = [unread EXCEPT ![j] = <<>>]
             /\ UNCHANGED <<sink, dropped>>
    BY <1>1, <1>5, <2>1, ReportedKeeps
  <2>2. CASE /\ At(p, j) = "refused"
             /\ Move(p, j, Published(p))
             /\ sink' = sink \cup {j}
             /\ UNCHANGED buffers
    BY <1>1, <1>5, <2>2, GivenBackKeeps
  <2> QED
    BY <1>5, <2>1, <2>2 DEF SettleDelivery
<1> QED
  BY <1>2, <1>3, <1>4, <1>5 DEF Publish

LEMMA SignalEndKeeps ==
  ASSUME JobInv, NEW j \in Jobs, SignalEnd(j)
  PROVE  JobInv'
<1>1. /\ finisher[j] = "signal" /\ finisher' = [finisher EXCEPT ![j] = "finish"]
      /\ revision' = [revision EXCEPT ![j] = revision[j] + 1]
      /\ UNCHANGED <<call, status, sessions, alive, written, pushed, cancelled, unread, dropped, reported,
                     sink, attacher, chunk, turn_cancelled, reader, batch, shown, told, reads, rounds, faults>>
  BY DEF SignalEnd, job, buffers, history, bounds, JobInv, ShapePart
<1>2. revision[j] \in Nat /\ revision[j] + 1 \in Nat
  BY DEF JobInv, ShapePart
<1>3. /\ finisher'[j] = "finish" /\ revision'[j] = revision[j] + 1
      /\ \A k \in Jobs \ {j} : finisher'[k] = finisher[k] /\ revision'[k] = revision[k]
  BY <1>1 DEF JobInv, ShapePart
<1>4. ShapePart'
  <2>1. finisher' \in [Jobs -> FinisherSteps]
    BY <1>1 DEF JobInv, ShapePart, FinisherSteps
  <2>2. revision' \in [Jobs -> Nat]
    BY <1>1, <1>2 DEF JobInv, ShapePart
  <2> QED
    BY <1>1, <2>1, <2>2 DEF JobInv, ShapePart
<1>5. LifePart'
  BY <1>1, <1>3 DEF JobInv, LifePart
<1>6. ClearPart'
  BY <1>1, <1>3 DEF JobInv, ClearPart
<1>7. SinkPart'
  BY <1>1, <1>3 DEF JobInv, SinkPart, Delivering
<1>8. ReaderPart'
  <2>1. reader # NoReader => reader.job \in Jobs /\ reader.seen \in Nat
    BY DEF JobInv, ShapePart, Readers
  <2>2. CASE reader # NoReader /\ reader.job = j
    BY <1>1, <1>2, <1>3, <2>1, <2>2 DEF JobInv, ReaderPart, Readable, is_terminal
  <2>3. CASE reader # NoReader /\ reader.job # j
    BY <1>1, <1>3, <2>1, <2>3 DEF JobInv, ReaderPart, Readable, is_terminal
  <2> QED
    BY <1>1, <2>2, <2>3 DEF ReaderPart
<1>9. OutputPart'
  BY <1>1, OutputStays
<1> QED
  BY <1>4, <1>5, <1>6, <1>7, <1>8, <1>9 DEF JobInv

LEMMA FinishEndKeeps ==
  ASSUME JobInv, NEW j \in Jobs, FinishEnd(j)
  PROVE  JobInv'
<1>1. /\ finisher[j] = "finish" /\ finisher' = [finisher EXCEPT ![j] = "ended"]
      /\ UNCHANGED <<call, status, sessions, alive, written, pushed, cancelled, unread, dropped, reported,
                     sink, attacher, chunk, revision, turn_cancelled, reader, batch, shown, told,
                     reads, rounds, faults>>
  BY DEF FinishEnd, job, buffers, history, bounds
<1>2. /\ finisher'[j] = "ended" /\ \A k \in Jobs \ {j} : finisher'[k] = finisher[k]
  BY <1>1 DEF JobInv, ShapePart
<1>3. ShapePart'
  <2>1. finisher' \in [Jobs -> FinisherSteps]
    BY <1>1 DEF JobInv, ShapePart, FinisherSteps
  <2> QED
    BY <1>1, <2>1 DEF JobInv, ShapePart
<1>4. LifePart'
  BY <1>1, <1>2 DEF JobInv, LifePart
<1>5. ClearPart'
  BY <1>1, <1>2 DEF JobInv, ClearPart
<1>6. SinkPart'
  BY <1>1, <1>2 DEF JobInv, SinkPart, Delivering
<1>7. ReaderPart'
  <2>1. reader # NoReader => reader.job \in Jobs
    BY DEF JobInv, ShapePart, Readers
  <2>2. finisher[j] \notin PublishSteps \cup {"signal"}
    BY <1>1 DEF PublishSteps
  <2> QED
    BY <1>1, <1>2, <2>1, <2>2 DEF JobInv, ReaderPart, Readable, is_terminal
<1>8. OutputPart'
  BY <1>1, OutputStays
<1> QED
  BY <1>3, <1>4, <1>5, <1>6, <1>7, <1>8 DEF JobInv

LEMMA AttachSinkKeeps ==
  ASSUME JobInv, NEW j \in Jobs, AttachSink(j)
  PROVE  JobInv'
<1>1. /\ call[j] = "accepted" /\ call' = [call EXCEPT ![j] = "done"]
      /\ sink' = sink \cup {j} /\ attacher' = [attacher EXCEPT ![j] = "check"]
      /\ UNCHANGED <<status, sessions, alive, written, pushed, cancelled, unread, dropped, reported,
                     finisher, chunk, revision, turn_cancelled, reader, batch, shown, told,
                     reads, rounds, faults>>
  BY DEF AttachSink, buffers, history, bounds
<1>2. /\ call'[j] = "done" /\ attacher'[j] = "check"
      /\ \A k \in Jobs \ {j} : call'[k] = call[k] /\ attacher'[k] = attacher[k]
  BY <1>1 DEF JobInv, ShapePart
<1>3. attacher[j] = "none" /\ j \notin sink /\ ~Delivering(finisher[j]) /\ NoSink(told[j])
  BY <1>1 DEF JobInv, SinkPart
<1>4. ShapePart'
  <2>1. attacher' \in [Jobs -> AttacherSteps]
    BY <1>1 DEF JobInv, ShapePart, AttacherSteps
  <2> QED
    BY <1>1, <2>1 DEF JobInv, ShapePart
<1>5. LifePart'
  BY <1>1, <1>2 DEF JobInv, LifePart, PublishSteps
<1>6. ClearPart'
  BY <1>1, <1>2 DEF JobInv, ClearPart
<1>7. SinkPart'
  BY <1>1, <1>2, <1>3 DEF JobInv, SinkPart, Delivering
<1> QED
  BY <1>1, <1>4, <1>5, <1>6, <1>7, OutputStays, ReaderStays DEF JobInv

LEMMA CheckAttachedKeeps ==
  ASSUME JobInv, NEW j \in Jobs, CheckAttached(j)
  PROVE  JobInv'
<1> DEFINE next == IF is_terminal(j) /\ ~reported[j] THEN "publish" ELSE "ended"
<1>1. /\ attacher[j] = "check" /\ attacher' = [attacher EXCEPT ![j] = next]
      /\ UNCHANGED <<call, status, sessions, alive, written, pushed, cancelled, unread, dropped, reported,
                     sink, finisher, chunk, revision, turn_cancelled, reader, batch, shown, told,
                     reads, rounds, faults>>
  BY DEF CheckAttached, job, buffers, history, bounds
<1>2. next \in {"publish", "ended"} /\ (next = "publish" => status[j] = "terminal")
  BY DEF is_terminal
<1> HIDE DEF next
<1>3. attacher'[j] = next /\ \A k \in Jobs \ {j} : attacher'[k] = attacher[k]
  BY <1>1 DEF JobInv, ShapePart
<1>4. ShapePart'
  <2>1. attacher' \in [Jobs -> AttacherSteps]
    BY <1>1, <1>2 DEF JobInv, ShapePart, AttacherSteps, PublishSteps
  <2> QED
    BY <1>1, <2>1 DEF JobInv, ShapePart
<1>5. LifePart'
  BY <1>1, <1>2, <1>3 DEF JobInv, LifePart, PublishSteps
<1>6. ClearPart'
  BY <1>1, <1>2, <1>3 DEF JobInv, ClearPart
<1>7. SinkPart'
  BY <1>1, <1>2, <1>3 DEF JobInv, SinkPart, Delivering
<1> QED
  BY <1>1, <1>4, <1>5, <1>6, <1>7, OutputStays, ReaderStays DEF JobInv

-----------------------------------------------------------------------------
(* Reading                                                                   *)

(* What read_output does to the parts of the invariant, whoever calls it.    *)
LEMMA ReadOutputKeeps ==
  ASSUME JobInv, NEW j \in Jobs, ReadOutput(j),
         UNCHANGED <<status, sessions, alive, written, pushed, delivery, revision, batch>>,
         \A k \in Jobs : call'[k] = call[k] \/ (call[k] = "foreground" /\ call'[k] = "done")
  PROVE  /\ unread' \in [Jobs -> Seq(Nat)] /\ reported' \in [Jobs -> BOOLEAN]
         /\ shown' \in [Jobs -> SUBSET Nat] /\ told' \in [Jobs -> Seq(Words)]
         /\ UNCHANGED dropped
         /\ LifePart' /\ OutputPart' /\ ClearPart' /\ SinkPart'
         /\ \A k \in Jobs : Readable(k)' => Readable(k)
<1>1. /\ shown' = [shown EXCEPT ![j] = shown[j] \cup ToSet(unread[j])]
      /\ unread' = [unread EXCEPT ![j] = <<>>]
      /\ reported' = [reported EXCEPT ![j] = reported[j] \/ is_terminal(j)]
      /\ UNCHANGED dropped
  BY DEF ReadOutput, JobInv, ShapePart
<1>2. \/ told' = told
      \/ told' = [told EXCEPT ![j] = Append(told[j], "read")]
  BY DEF ReadOutput, JobInv, ShapePart
<1>3. UNCHANGED <<sink, finisher, attacher, chunk>>
  BY DEF delivery
<1>4. /\ unread[j] \in Seq(Nat) /\ shown[j] \in SUBSET Nat /\ told[j] \in Seq(Words) /\ reported[j] \in BOOLEAN
      /\ status[j] \in {"absent", "running", "terminal"}
  BY DEF JobInv, ShapePart
<1>5. ToSet(unread[j]) \subseteq Nat
  BY <1>4 DEF ToSet
<1>6. /\ Append(told[j], "read") \in Seq(Words)
      /\ NoSink(told[j]) => NoSink(Append(told[j], "read"))
      /\ OneSink(told[j]) => OneSink(Append(told[j], "read"))
  BY <1>4, ToldAppend DEF Words
<1>7. /\ unread' \in [Jobs -> Seq(Nat)] /\ shown' \in [Jobs -> SUBSET Nat]
  BY <1>1, <1>4, <1>5, EmptyRead DEF JobInv, ShapePart
<1>8. reported' \in [Jobs -> BOOLEAN]
  BY <1>1 DEF JobInv, ShapePart, is_terminal
<1>9. told' \in [Jobs -> Seq(Words)]
  BY <1>2, <1>6 DEF JobInv, ShapePart
<1>10. /\ shown'[j] = shown[j] \cup ToSet(unread[j]) /\ unread'[j] = <<>>
       /\ reported'[j] => reported[j] \/ status[j] = "terminal"
       /\ \A k \in Jobs \ {j} : shown'[k] = shown[k] /\ unread'[k] = unread[k] /\ reported'[k] = reported[k]
  BY <1>1 DEF JobInv, ShapePart, is_terminal
<1>11. \A k \in Jobs : /\ NoSink(told[k]) => NoSink(told'[k])
                       /\ OneSink(told[k]) => OneSink(told'[k])
  BY <1>2, <1>6 DEF JobInv, ShapePart
<1>12. LifePart'
  BY <1>3, <1>10 DEF JobInv, LifePart
<1>13. OutputPart'
  <2>1. 1..pushed[j] = (shown[j] \cup ToSet(unread[j])) \cup {} \cup dropped[j]
    BY DEF JobInv, OutputPart
  <2>2. Len(unread'[j]) <= max_buffered_bytes /\ ToSet(unread'[j]) = {}
    BY <1>10, EmptyRead, JobsAssumption
  <2> QED
    BY <1>1, <1>10, <2>1, <2>2 DEF JobInv, OutputPart
<1>14. ClearPart'
  <2>1. \A k \in Jobs : /\ ToSet(unread'[k]) \subseteq ToSet(unread[k])
                        /\ shown[k] \subseteq shown'[k]
    BY <1>10, EmptyRead
  <2>2. \A c \in batch : c.job \in Jobs
    BY DEF JobInv, ShapePart, Completions
  <2> QED
    BY <1>3, <2>1, <2>2 DEF JobInv, ClearPart
<1>15. SinkPart'
  BY <1>3, <1>11 DEF JobInv, SinkPart
<1>16. \A k \in Jobs : Readable(k)' => Readable(k)
  BY <1>10 DEF Readable, is_terminal
<1> QED
  BY <1>1, <1>7, <1>8, <1>9, <1>12, <1>13, <1>14, <1>15, <1>16

LEMMA WaitForOutputKeeps ==
  ASSUME JobInv, NEW j \in Jobs, WaitForOutput(j)
  PROVE  JobInv'
<1>1. /\ call[j] = "foreground"
      /\ UNCHANGED <<status, sessions, alive, written, pushed, cancelled, delivery, revision,
                     turn_cancelled, reader, batch, reads, rounds, faults>>
  BY DEF WaitForOutput, bounds
<1>2. UNCHANGED <<sink, finisher, attacher, chunk>>
  BY <1>1 DEF delivery
<1>3. CASE ReadOutput(j) /\ call' = [call EXCEPT ![j] = "done"]
  <2>1. /\ call'[j] = "done" /\ \A k \in Jobs \ {j} : call'[k] = call[k]
    BY <1>3 DEF JobInv, ShapePart
  <2>2. \A k \in Jobs : call'[k] = call[k] \/ (call[k] = "foreground" /\ call'[k] = "done")
    BY <1>1, <2>1
  <2>3. /\ unread' \in [Jobs -> Seq(Nat)] /\ reported' \in [Jobs -> BOOLEAN]
        /\ shown' \in [Jobs -> SUBSET Nat] /\ told' \in [Jobs -> Seq(Words)]
        /\ UNCHANGED dropped
        /\ LifePart' /\ OutputPart' /\ ClearPart' /\ SinkPart'
        /\ \A k \in Jobs : Readable(k)' => Readable(k)
    BY <1>1, <1>3, <2>2, ReadOutputKeeps
  <2>4. ShapePart'
    BY <1>1, <1>2, <1>3, <2>3 DEF JobInv, ShapePart
  <2>5. ReaderPart'
    BY <1>1, <1>2, <2>3 DEF JobInv, ShapePart, Readers, ReaderPart
  <2> QED
    BY <2>3, <2>4, <2>5 DEF JobInv
<1>4. CASE call' = [call EXCEPT ![j] = "accepted"] /\ UNCHANGED <<buffers, history>>
  <2>1. UNCHANGED <<unread, dropped, reported, shown, told>>
    BY <1>4 DEF buffers, history
  <2>2. /\ call'[j] = "accepted" /\ \A k \in Jobs \ {j} : call'[k] = call[k]
    BY <1>4 DEF JobInv, ShapePart
  <2>3. ShapePart'
    BY <1>1, <1>2, <1>4, <2>1 DEF JobInv, ShapePart
  <2>4. LifePart'
    BY <1>1, <1>2, <2>1, <2>2 DEF JobInv, LifePart
  <2>5. SinkPart'
    BY <1>1, <1>2, <2>1, <2>2 DEF JobInv, SinkPart
  <2> QED
    BY <1>1, <1>2, <2>1, <2>3, <2>4, <2>5, OutputStays, ClearStays, ReaderStays DEF JobInv
<1> QED
  BY <1>3, <1>4 DEF WaitForOutput

LEMMA BeginReadKeeps ==
  ASSUME JobInv, NEW j \in Jobs, BeginRead(j)
  PROVE  JobInv'
<1>1. /\ reads < MaxReads /\ reads' = reads + 1 /\ status[j] # "absent"
      /\ reader' = [at |-> "look", job |-> j, seen |-> revision[j]]
      /\ UNCHANGED <<call, status, sessions, alive, written, pushed, cancelled, unread, dropped, reported,
                     sink, finisher, attacher, chunk, revision, batch, shown, told, rounds, faults>>
  BY DEF BeginRead, job, buffers, delivery, history
<1>2. revision[j] \in Nat
  BY DEF JobInv, ShapePart
<1>3. ShapePart'
  <2>1. reader' \in Readers
    BY <1>1, <1>2 DEF Readers
  <2>2. reads' \in 0..MaxReads
    BY <1>1, JobsAssumption DEF JobInv, ShapePart
  <2> QED
    BY <1>1, <2>1, <2>2 DEF JobInv, ShapePart
<1>4. ReaderPart'
  BY <1>1, <1>2 DEF ReaderPart
<1> QED
  BY <1>1, <1>3, <1>4, LifeStays, OutputStays, ClearStays, SinkStays DEF JobInv

(* A read that ends takes the reader away.                                   *)
LEMMA ReadEndsKeeps ==
  ASSUME JobInv, reader # NoReader, ReadOutput(reader.job), reader' = NoReader,
         UNCHANGED <<job, delivery, revision, turn_cancelled, batch, bounds>>
  PROVE  JobInv'
<1>1. reader.job \in Jobs
  BY DEF JobInv, ShapePart, Readers
<1>2. UNCHANGED <<call, status, sessions, alive, written, pushed, cancelled, sink, finisher, attacher, chunk,
                  reads, rounds, faults>>
  BY DEF job, delivery, bounds
<1>3. /\ unread' \in [Jobs -> Seq(Nat)] /\ reported' \in [Jobs -> BOOLEAN]
      /\ shown' \in [Jobs -> SUBSET Nat] /\ told' \in [Jobs -> Seq(Words)]
      /\ UNCHANGED dropped
      /\ LifePart' /\ OutputPart' /\ ClearPart' /\ SinkPart'
  BY <1>1, <1>2, ReadOutputKeeps
<1>4. ShapePart'
  BY <1>2, <1>3 DEF JobInv, ShapePart
<1>5. ReaderPart'
  BY DEF ReaderPart
<1> QED
  BY <1>3, <1>4, <1>5 DEF JobInv

(* A reader that goes on: it has looked, or there was nothing to read.       *)
LEMMA ReaderGoesOn ==
  ASSUME JobInv, reader' \in Readers,
         status[reader'.job] # "absent", reader'.seen <= revision[reader'.job],
         /\ reader'.at \in {"drowsy", "asleep"} /\ Readable(reader'.job) =>
              \/ revision[reader'.job] > reader'.seen
              \/ finisher[reader'.job] \in PublishSteps \cup {"signal"},
         UNCHANGED <<job, buffers, delivery, revision, turn_cancelled, batch, history, bounds>>
  PROVE  JobInv'
<1>1. UNCHANGED <<call, status, sessions, alive, written, pushed, cancelled, unread, dropped, reported,
                  sink, finisher, attacher, chunk, shown, told, reads, rounds, faults>>
  BY DEF job, buffers, delivery, history, bounds
<1>2. ShapePart'
  BY <1>1 DEF JobInv, ShapePart
<1>3. ReaderPart'
  BY <1>1 DEF ReaderPart, Readable, is_terminal
<1> QED
  BY <1>1, <1>2, <1>3, LifeStays, OutputStays, ClearStays, SinkStays DEF JobInv

LEMMA LookKeeps ==
  ASSUME JobInv, Look
  PROVE  JobInv'
<1>1. reader # NoReader /\ reader \in Readers
  BY DEF Look, NoReader, JobInv, ShapePart
<1>2. CASE Readable(reader.job)
  BY <1>1, <1>2, ReadEndsKeeps DEF Look
<1>3. CASE ~Readable(reader.job)
  <2>1. /\ reader' = [reader EXCEPT !.at = "drowsy"]
        /\ UNCHANGED <<job, buffers, delivery, revision, turn_cancelled, batch, history, bounds>>
    BY <1>3 DEF Look
  <2>2. /\ reader' \in Readers /\ reader'.job = reader.job /\ reader'.seen = reader.seen
    BY <1>1, <2>1 DEF Readers
  <2>3. status[reader.job] # "absent" /\ reader.seen <= revision[reader.job]
    BY <1>1 DEF JobInv, ReaderPart
  <2> QED
    BY <1>3, <2>1, <2>2, <2>3, ReaderGoesOn
<1> QED
  BY <1>2, <1>3

LEMMA SleepKeeps ==
  ASSUME JobInv, Sleep
  PROVE  JobInv'
<1>1. reader # NoReader /\ reader \in Readers
  BY DEF Sleep, NoReader, JobInv, ShapePart
<1>2. /\ reader.at = "drowsy" /\ reader' = [reader EXCEPT !.at = "asleep"]
      /\ UNCHANGED <<job, buffers, delivery, revision, turn_cancelled, batch, history, bounds>>
  BY DEF Sleep
<1>3. /\ reader' \in Readers /\ reader'.job = reader.job /\ reader'.seen = reader.seen
  BY <1>1, <1>2 DEF Readers
<1>4. /\ status[reader.job] # "absent" /\ reader.seen <= revision[reader.job]
      /\ Readable(reader.job) => \/ revision[reader.job] > reader.seen
                                 \/ finisher[reader.job] \in PublishSteps \cup {"signal"}
  BY <1>1, <1>2 DEF JobInv, ReaderPart
<1> QED
  BY <1>2, <1>3, <1>4, ReaderGoesOn

LEMMA WakeKeeps ==
  ASSUME JobInv, Wake
  PROVE  JobInv'
<1>1. reader # NoReader /\ reader \in Readers
  BY DEF Wake, NoReader, JobInv, ShapePart
<1>2. UNCHANGED <<job, delivery, revision, turn_cancelled, batch, bounds>>
  BY DEF Wake
<1>3. CASE ReadOutput(reader.job) /\ reader' = NoReader
  BY <1>1, <1>2, <1>3, ReadEndsKeeps
<1>4. CASE /\ reader' = [reader EXCEPT !.at = "look", !.seen = revision[reader.job]]
           /\ UNCHANGED <<buffers, history>>
  <2>1. reader.job \in Jobs /\ revision[reader.job] \in Nat
    BY <1>1 DEF JobInv, ShapePart, Readers
  <2>2. /\ reader' \in Readers /\ reader'.job = reader.job /\ reader'.seen = revision[reader.job]
        /\ reader'.at = "look"
    BY <1>1, <1>4, <2>1 DEF Readers
  <2>3. status[reader.job] # "absent" /\ revision[reader.job] <= revision[reader.job]
    BY <1>1, <2>1 DEF JobInv, ReaderPart
  <2> QED
    BY <1>2, <1>4, <2>2, <2>3, ReaderGoesOn
<1> QED
  BY <1>3, <1>4 DEF Wake

-----------------------------------------------------------------------------
(* Model rounds, stopping                                                    *)

LEMMA CollectRemindersKeeps ==
  ASSUME JobInv, CollectReminders
  PROVE  JobInv'
<1>1. /\ rounds < MaxRounds /\ rounds' = rounds + 1
      /\ batch' = {[job |-> j, bytes |-> ToSet(unread[j])] :
                     j \in {k \in Jobs : is_terminal(k) /\ ~reported[k]}}
      /\ UNCHANGED <<call, status, sessions, alive, written, pushed, cancelled, unread, dropped, reported,
                     sink, finisher, attacher, chunk, revision, reader, shown, told, reads, faults>>
  BY DEF CollectReminders, job, buffers, delivery, history
<1>2. \A j \in Jobs : ToSet(unread[j]) \subseteq Nat /\ ToSet(unread[j]) \subseteq 1..pushed[j]
  <2>1. \A j \in Jobs : unread[j] \in Seq(Nat)
    BY DEF JobInv, ShapePart
  <2>2. \A j \in Jobs : ToSet(unread[j]) \subseteq Nat
    BY <2>1 DEF ToSet
  <2> QED
    BY <2>2 DEF JobInv, OutputPart
<1>3. ASSUME NEW c \in batch'
      PROVE  /\ c \in Completions /\ status[c.job] = "terminal" /\ c.bytes = ToSet(unread[c.job])
             /\ c.bytes \subseteq 1..pushed[c.job]
  <2>1. PICK j \in Jobs : is_terminal(j) /\ c = [job |-> j, bytes |-> ToSet(unread[j])]
    BY <1>1, <1>3
  <2> QED
    BY <1>2, <2>1 DEF Completions, is_terminal
<1>4. ShapePart'
  <2>1. rounds' \in 0..MaxRounds
    BY <1>1, JobsAssumption DEF JobInv, ShapePart
  <2>2. batch' \subseteq Completions
    BY <1>3
  <2> QED
    BY <1>1, <2>1, <2>2 DEF JobInv, ShapePart
<1>5. ClearPart'
  BY <1>1, <1>3 DEF JobInv, ClearPart
<1> QED
  BY <1>1, <1>4, <1>5, LifeStays, OutputStays, SinkStays, ReaderStays DEF JobInv

LEMMA CommitRemindersKeeps ==
  ASSUME JobInv, CommitReminders
  PROVE  JobInv'
<1> DEFINE told_now == {c.job : c \in batch}
           Bytes(j) == UNION {c.bytes : c \in {d \in batch : d.job = j}}
<1>1. /\ batch' = {}
      /\ shown' = [j \in Jobs |-> shown[j] \cup Bytes(j)]
      /\ told' = [j \in Jobs |-> IF j \in told_now THEN Append(told[j], "round") ELSE told[j]]
      /\ reported' = [j \in Jobs |-> reported[j] \/ j \in told_now]
      /\ unread' = [j \in Jobs |-> IF j \in told_now THEN <<>> ELSE unread[j]]
      /\ UNCHANGED <<call, status, sessions, alive, written, pushed, cancelled, dropped,
                     sink, finisher, attacher, chunk, revision, reader, reads, rounds, faults>>
  BY DEF CommitReminders, job, delivery, bounds
<1>2. ASSUME NEW j \in Jobs
      PROVE  /\ Bytes(j) \subseteq Nat /\ Bytes(j) \subseteq 1..pushed[j]
             /\ j \in told_now => ToSet(unread[j]) \subseteq Bytes(j) /\ status[j] = "terminal"
  <2>1. \A c \in batch : c \in Completions /\ c.bytes \subseteq Nat
    BY DEF JobInv, ShapePart, Completions
  <2>2. \A c \in batch : c.job = j => /\ status[j] = "terminal" /\ ToSet(unread[j]) \subseteq c.bytes
                                      /\ c.bytes \subseteq 1..pushed[j]
    BY DEF JobInv, ClearPart
  <2> QED
    BY <2>1, <2>2
<1> HIDE DEF told_now, Bytes
<1>3. \A j \in Jobs : /\ unread[j] \in Seq(Nat) /\ shown[j] \in SUBSET Nat /\ told[j] \in Seq(Words)
                      /\ reported[j] \in BOOLEAN
  BY DEF JobInv, ShapePart
<1>4. \A j \in Jobs : /\ Append(told[j], "round") \in Seq(Words)
                      /\ NoSink(told[j]) => NoSink(Append(told[j], "round"))
                      /\ OneSink(told[j]) => OneSink(Append(told[j], "round"))
  BY <1>3, ToldAppend DEF Words
<1>5. ShapePart'
  <2>1. shown' \in [Jobs -> SUBSET Nat]
    BY <1>1, <1>2, <1>3
  <2>2. told' \in [Jobs -> Seq(Words)]
    BY <1>1, <1>3, <1>4
  <2>3. reported' \in [Jobs -> BOOLEAN]
    BY <1>1
  <2>4. unread' \in [Jobs -> Seq(Nat)]
    BY <1>1, <1>3, EmptyRead
  <2> QED
    BY <1>1, <2>1, <2>2, <2>3, <2>4 DEF JobInv, ShapePart
<1>6. LifePart'
  BY <1>1, <1>2 DEF JobInv, LifePart
<1>7. ASSUME NEW j \in Jobs
      PROVE  /\ ToSet(unread'[j]) \subseteq ToSet(unread[j]) /\ shown[j] \subseteq shown'[j]
             /\ Len(unread'[j]) <= max_buffered_bytes
             /\ 1..pushed[j] = shown'[j] \cup ToSet(unread'[j]) \cup dropped[j]
  <2>1. 1..pushed[j] = shown[j] \cup ToSet(unread[j]) \cup dropped[j] /\ Len(unread[j]) <= max_buffered_bytes
    BY DEF JobInv, OutputPart
  <2>2. shown'[j] = shown[j] \cup Bytes(j)
    BY <1>1
  <2>3. CASE j \in told_now
    <3>1. unread'[j] = <<>>
      BY <1>1, <2>3
    <3>2. ToSet(unread'[j]) = {} /\ Len(unread'[j]) = 0
      BY <3>1, EmptyRead
    <3> QED
      BY <1>2, <2>1, <2>2, <2>3, <3>2, JobsAssumption
  <2>4. CASE j \notin told_now
    <3>1. unread'[j] = unread[j]
      BY <1>1, <2>4
    <3> QED
      BY <1>2, <2>1, <2>2, <3>1
  <2> QED
    BY <2>3, <2>4
<1>8. OutputPart'
  BY <1>1, <1>7 DEF JobInv, OutputPart
<1>9. ClearPart'
  BY <1>1, <1>7 DEF JobInv, ClearPart
<1>10. SinkPart'
  <2>1. \A j \in Jobs : told'[j] = told[j] \/ told'[j] = Append(told[j], "round")
    BY <1>1
  <2> QED
    BY <1>1, <1>4, <2>1 DEF JobInv, SinkPart
<1>11. ReaderPart'
  <2>1. reader # NoReader => reader.job \in Jobs
    BY DEF JobInv, ShapePart, Readers
  <2>2. \A j \in Jobs : unread'[j] = unread[j] \/ unread'[j] = <<>>
    BY <1>1
  <2> QED
    BY <1>1, <2>1, <2>2 DEF JobInv, ReaderPart, Readable, is_terminal
<1> QED
  BY <1>5, <1>6, <1>8, <1>9, <1>10, <1>11 DEF JobInv

LEMMA FailRoundKeeps ==
  ASSUME JobInv, FailRound
  PROVE  JobInv'
<1>1. /\ batch' = {}
      /\ UNCHANGED <<call, status, sessions, alive, written, pushed, cancelled, unread, dropped, reported,
                     sink, finisher, attacher, chunk, revision, reader, shown, told, reads, rounds, faults>>
  BY DEF FailRound, job, buffers, delivery, history, bounds
<1>2. ShapePart'
  BY <1>1 DEF JobInv, ShapePart
<1>3. ClearPart'
  BY <1>1 DEF JobInv, ClearPart
<1> QED
  BY <1>1, <1>2, <1>3, LifeStays, OutputStays, SinkStays, ReaderStays DEF JobInv

(* Steps that only set a cancel token, or none at all.                       *)
LEMMA CancelKeeps ==
  ASSUME JobInv, cancelled' \subseteq Jobs,
         UNCHANGED <<call, status, sessions, alive, written, pushed, unread, dropped, reported,
                     sink, finisher, attacher, chunk, revision, reader, batch, shown, told,
                     reads, rounds, faults>>
  PROVE  JobInv'
<1>1. ShapePart'
  BY DEF JobInv, ShapePart
<1> QED
  BY <1>1, LifeStays, OutputStays, ClearStays, SinkStays, ReaderStays DEF JobInv

-----------------------------------------------------------------------------
(* The theorems                                                              *)

LEMMA JobInitHolds == JobsInit => JobInv
<1> SUFFICES ASSUME JobsInit PROVE JobInv
  OBVIOUS
<1>1. /\ call = [j \in Jobs |-> "none"] /\ status = [j \in Jobs |-> "absent"]
      /\ sessions = {} /\ alive = {} /\ cancelled = {} /\ sink = {} /\ batch = {} /\ reader = NoReader
      /\ written = [j \in Jobs |-> 0] /\ pushed = [j \in Jobs |-> 0]
      /\ unread = [j \in Jobs |-> <<>>] /\ dropped = [j \in Jobs |-> {}]
      /\ reported = [j \in Jobs |-> FALSE]
      /\ finisher = [j \in Jobs |-> "none"] /\ attacher = [j \in Jobs |-> "none"]
      /\ chunk = [j \in Jobs |-> {}] /\ revision = [j \in Jobs |-> 0]
      /\ shown = [j \in Jobs |-> {}] /\ told = [j \in Jobs |-> <<>>]
      /\ reads = 0 /\ rounds = 0 /\ faults = 0
  BY DEF JobsInit
<1>2. ShapePart
  <2>1. unread \in [Jobs -> Seq(Nat)] /\ told \in [Jobs -> Seq(Words)]
    BY <1>1
  <2>2. dropped \in [Jobs -> SUBSET Nat] /\ chunk \in [Jobs -> SUBSET Nat] /\ shown \in [Jobs -> SUBSET Nat]
    BY <1>1
  <2>3. reads \in 0..MaxReads /\ rounds \in 0..MaxRounds /\ faults \in 0..MaxStoreFaults
    BY <1>1, JobsAssumption
  <2>4. finisher \in [Jobs -> FinisherSteps] /\ attacher \in [Jobs -> AttacherSteps]
    BY <1>1 DEF FinisherSteps, AttacherSteps
  <2> QED
    BY <1>1, <2>1, <2>2, <2>3, <2>4 DEF ShapePart
<1>3. LifePart
  BY <1>1 DEF LifePart, PublishSteps
<1>4. OutputPart
  <2>1. \A j \in Jobs : ToSet(unread[j]) = {} /\ Len(unread[j]) = 0
    BY <1>1, EmptyRead
  <2> QED
    BY <1>1, <2>1, JobsAssumption DEF OutputPart
<1>5. ClearPart
  BY <1>1 DEF ClearPart
<1>6. SinkPart
  <2>1. \A j \in Jobs : NoSink(told[j])
    BY <1>1 DEF NoSink
  <2> QED
    BY <1>1, <2>1 DEF SinkPart, Delivering
<1>7. ReaderPart
  BY <1>1 DEF ReaderPart
<1> QED
  BY <1>2, <1>3, <1>4, <1>5, <1>6, <1>7 DEF JobInv

LEMMA JobNextKeeps == JobInv /\ [JobsNext]_jobVars => JobInv'
<1> SUFFICES ASSUME JobInv, [JobsNext]_jobVars PROVE JobInv'
  OBVIOUS
<1>1. cancelled \subseteq Jobs
  BY DEF JobInv, ShapePart
<1>2. ASSUME NEW j \in Jobs, Stop(j) \/ LinkCancels(j)
      PROVE  JobInv'
  <2>1. cancelled' \subseteq Jobs
    BY <1>1, <1>2 DEF Stop, LinkCancels
  <2>2. UNCHANGED <<call, status, sessions, alive, written, pushed, unread, dropped, reported,
                    sink, finisher, attacher, chunk, revision, reader, batch, shown, told,
                    reads, rounds, faults>>
    BY <1>2 DEF Stop, LinkCancels, buffers, delivery, history, bounds
  <2> QED
    BY <2>1, <2>2, CancelKeeps
<1>3. CASE CancelTurn
  <2>1. cancelled' \subseteq Jobs /\ UNCHANGED <<call, status, sessions, alive, written, pushed, unread, dropped,
                    reported, sink, finisher, attacher, chunk, revision, reader, batch, shown, told,
                    reads, rounds, faults>>
    BY <1>1, <1>3 DEF CancelTurn, job, buffers, delivery, history, bounds
  <2> QED
    BY <2>1, CancelKeeps
<1>4. CASE UNCHANGED jobVars
  <2>1. cancelled' \subseteq Jobs /\ UNCHANGED <<call, status, sessions, alive, written, pushed, unread, dropped,
                    reported, sink, finisher, attacher, chunk, revision, reader, batch, shown, told,
                    reads, rounds, faults>>
    BY <1>1, <1>4 DEF jobVars, job, buffers, delivery, history, bounds
  <2> QED
    BY <2>1, CancelKeeps
<1>5. ASSUME NEW j \in Jobs, Runtime(j)
      PROVE  JobInv'
  <2>1. CASE \E p \in {"finisher", "attacher"} : Publish(p, j)
    BY <2>1, PublishKeeps DEF Publishers
  <2> QED
    BY <1>2, <1>5, <2>1, PushOutputKeeps, FinishKeeps, SignalEndKeeps, FinishEndKeeps, AttachSinkKeeps,
       CheckAttachedKeeps DEF Runtime
<1>6. ASSUME NEW j \in Jobs,
             CountRunning(j) \/ InsertJob(j) \/ WriteByte(j) \/ ProcessEnds(j) \/ WaitForOutput(j) \/ BeginRead(j)
      PROVE  JobInv'
  BY <1>6, CountRunningKeeps, InsertJobKeeps, WriteByteKeeps, ProcessEndsKeeps, WaitForOutputKeeps, BeginReadKeeps
<1>7. CASE Look \/ Sleep \/ Wake \/ CollectReminders \/ CommitReminders \/ FailRound
  BY <1>7, LookKeeps, SleepKeeps, WakeKeeps, CollectRemindersKeeps, CommitRemindersKeeps, FailRoundKeeps
<1> QED
  BY <1>2, <1>3, <1>4, <1>5, <1>6, <1>7 DEF JobsNext

(* The invariant gives back what a run checks.                               *)
LEMMA JobInvGives == JobInv => OutputToldOnce /\ NoMissedChange
<1> SUFFICES ASSUME JobInv PROVE OutputToldOnce /\ NoMissedChange
  OBVIOUS
<1>1. ShapePart /\ LifePart /\ OutputPart /\ ClearPart /\ SinkPart /\ ReaderPart
  BY DEF JobInv
<1>2. OutputConserved
  BY <1>1 DEF OutputPart, OutputConserved
<1>3. JobsTypeOK
  <2>1. \A c \in batch : is_terminal(c.job) /\ c.bytes \subseteq 1..pushed[c.job]
    BY <1>1 DEF ClearPart, is_terminal
  <2>2. ASSUME NEW j \in Jobs
        PROVE  /\ pushed[j] \in 0..written[j] /\ written[j] \in 0..MaxOutput
               /\ Len(unread[j]) <= max_buffered_bytes
               /\ dropped[j] \subseteq 1..pushed[j]
               /\ shown[j] \subseteq 1..pushed[j]
               /\ is_terminal(j) => j \notin alive
               /\ reported[j] => is_terminal(j)
               /\ finisher[j] \in FinisherSteps /\ attacher[j] \in AttacherSteps
    <3>1. pushed[j] \in Nat /\ written[j] \in Nat
      BY <1>1 DEF ShapePart
    <3>2. pushed[j] \in 0..written[j] /\ written[j] \in 0..MaxOutput
      BY <1>1, <3>1, JobsAssumption DEF OutputPart
    <3>3. dropped[j] \subseteq 1..pushed[j] /\ shown[j] \subseteq 1..pushed[j] /\ Len(unread[j]) <= max_buffered_bytes
      BY <1>1 DEF OutputPart
    <3>4. (is_terminal(j) => j \notin alive) /\ (reported[j] => is_terminal(j))
      BY <1>1 DEF LifePart, is_terminal
    <3>5. finisher[j] \in FinisherSteps /\ attacher[j] \in AttacherSteps
      BY <1>1 DEF ShapePart
    <3> QED
      BY <3>2, <3>3, <3>4, <3>5
  <2> QED
    BY <1>1, <2>1, <2>2 DEF ShapePart, JobsTypeOK, FinisherSteps, AttacherSteps
<1>4. SinkDeliversOnce
  <2> SUFFICES ASSUME NEW j \in Jobs
               PROVE  Cardinality({i \in DOMAIN told[j] : told[j][i] = "sink"}) <= 1
    BY DEF SinkDeliversOnce
  <2> DEFINE S == {i \in DOMAIN told[j] : told[j][i] = "sink"}
  <2>1. NoSink(told[j]) \/ OneSink(told[j])
    BY <1>1 DEF SinkPart
  <2>2. S = {} \/ \E i \in DOMAIN told[j] : S = {i}
    BY <2>1 DEF NoSink, OneSink
  <2> HIDE DEF S
  <2>3. Cardinality(S) \in {0, 1}
    BY <2>2, FS_EmptySet, FS_Singleton
  <2>4. Cardinality(S) <= 1
    BY <2>3
  <2> QED
    BY <2>4 DEF S
<1>5. NoMissedChange
  <2>1. reader.at = "asleep" => reader # NoReader
    BY DEF NoReader
  <2> QED
    BY <1>1, <2>1 DEF ReaderPart, NoMissedChange
<1> QED
  BY <1>2, <1>3, <1>4, <1>5 DEF OutputToldOnce

(* What a job produced is told completely and once: every byte that reached  *)
(* the buffer is shown, buffered or counted as dropped, although the buffer  *)
(* is cleared by the call that waits, a read, the completion sink and the    *)
(* reminders of a round, each from a chunk taken earlier (read_output,       *)
(* publish_completion, mark_reported); and of the end of the job and a late  *)
(* attach_completion_sink only one uses the sink.                            *)
THEOREM OutputToldOnceHolds == JobsSpec => []OutputToldOnce
<1>1. JobsInit => JobInv
  BY JobInitHolds
<1>2. JobInv /\ [JobsNext]_jobVars => JobInv'
  BY JobNextKeeps
<1>3. JobInv => OutputToldOnce
  BY JobInvGives
<1> QED
  BY <1>1, <1>2, <1>3, PTL DEF JobsSpec

(* wait_for_readable_output never sleeps through what it waits for: whatever *)
(* was published since it subscribed, a later revision is there or the       *)
(* finisher has still to signal.                                             *)
THEOREM NoMissedChangeHolds == JobsSpec => []NoMissedChange
<1>1. JobsInit => JobInv
  BY JobInitHolds
<1>2. JobInv /\ [JobsNext]_jobVars => JobInv'
  BY JobNextKeeps
<1>3. JobInv => NoMissedChange
  BY JobInvGives
<1> QED
  BY <1>1, <1>2, <1>3, PTL DEF JobsSpec

-----------------------------------------------------------------------------
(* Flow cases                                                                *)

CaseRec == [status : CaseStatuses, input : Payloads, rev : Revisions, linked : BOOLEAN]
CopyRec == [status : {"accepted"}, input : Payloads, rev : Revisions, linked : {FALSE}]
RunRec == [status : {"queued", "driven", "paused"}, rev : Revisions]
EventRec == [input : Payloads \cup {"none"}, rev : Revisions]
FlowRec == [active : BOOLEAN, rev : Revisions, next : 0..(MaxTime + 1)]
CallStep == {"idle", "fire", "lookup", "insert", "prepare", "insertRun", "link", "supersede"}

HoldsCopy(c) == pc[c] \in {"prepare", "insertRun", "link", "supersede"}

-----------------------------------------------------------------------------
(* The inductive invariant                                                   *)

(* While the worker's revision is the stored one, its draft differs from the *)
(* flow in the next firing alone.                                            *)
FlowPart ==
  /\ flow \in FlowRec /\ draft \in FlowRec
  /\ now \in Times /\ current \in BOOLEAN
  /\ ordered \in [active : BOOLEAN, rev : Revisions]
  /\ OrderStands
  /\ current => draft.active = flow.active /\ draft.rev = flow.rev

(* A copy is of the stored case: its revision is the one that was frozen.    *)
CopyMatches ==
  \A c \in Callers : HoldsCopy(c) =>
    case[key[c]] # NoCase /\ case[key[c]].rev = copy[c].rev

CallPart ==
  /\ pc \in [Callers -> CallStep]
  /\ key \in [Callers -> Keys]
  /\ event \in [Callers -> EventRec]
  /\ copy \in [Callers -> CopyRec \cup {NoCase}]
  /\ \A c \in Callers : HoldsCopy(c) => copy[c] \in CopyRec
  /\ \A c \in Callers : ~ HoldsCopy(c) => copy[c] = NoCase
  /\ \A c \in Callers : pc[c] \in {"lookup", "insert"} => event[c].input \in Payloads
  /\ spawns \subseteq {c \in Callers : pc[c] = "link"}
  /\ CopyMatches

(* Whoever inserted the run of a case is alone with it and has not spawned.  *)
SpawnsOnce ==
  /\ \A c \in spawns : run[key[c]] # NoRun /\ started[key[c]] = 0
  /\ \A c, d \in spawns : key[c] = key[d] => c = d

(* A case is linked to its run and leaves `accepted' in one write.           *)
AcceptedUnlinked ==
  \A k \in Keys : case[k] # NoCase /\ case[k].status = "accepted" => case[k].linked = FALSE

RunPart ==
  /\ case \in [Keys -> CaseRec \cup {NoCase}]
  /\ AcceptedUnlinked
  /\ run \in [Keys -> RunRec \cup {NoRun}]
  /\ started \in [Keys -> Nat] /\ crashes \in 0..MaxCrashes
  /\ \A k \in Keys : run[k] = NoRun => started[k] = 0
  /\ SpawnsOnce
  /\ OneStartPerCase
  /\ QueuedHasStarter
  /\ RunsFrozenRevision

CasesInv == FlowPart /\ CallPart /\ RunPart

-----------------------------------------------------------------------------
(* Facts about the records                                                   *)

LEMMA RecordFacts ==
  /\ NoCase \notin CaseRec /\ NoCase \notin CopyRec /\ NoRun \notin RunRec
  /\ NoEvent \in EventRec /\ NoFlow \in FlowRec
  /\ 0 \in Keys
  /\ CopyRec \subseteq CaseRec
<1>1. \A d \in CaseRec \cup CopyRec : d.status # "none"
  BY DEF CaseRec, CopyRec, CaseStatuses
<1>2. NoCase.status = "none" /\ NoRun.status = "none"
  BY DEF NoCase, NoRun
<1>3. \A r \in RunRec : r.status # "none"
  BY DEF RunRec
<1>4. NoEvent \in EventRec /\ NoFlow \in FlowRec /\ 0 \in Keys
  BY FlowCasesAssumption DEF NoEvent, NoFlow, EventRec, FlowRec, Keys, Times
<1>5. CopyRec \subseteq CaseRec
  BY DEF CopyRec, CaseRec, CaseStatuses
<1> QED
  BY <1>1, <1>2, <1>3, <1>4, <1>5

(* The call of c moves: to step p, with key k, event e and copy d.           *)
Moves(c, p, k, e, d) ==
  /\ pc' = [pc EXCEPT ![c] = p]
  /\ key' = [key EXCEPT ![c] = k]
  /\ event' = [event EXCEPT ![c] = e]
  /\ copy' = [copy EXCEPT ![c] = d]

(* Cases are added and rewritten, but neither removed nor given another      *)
(* revision.                                                                 *)
CasesKept ==
  /\ case' \in [Keys -> CaseRec \cup {NoCase}]
  /\ \A k \in Keys : case[k] # NoCase => case'[k] # NoCase /\ case'[k].rev = case[k].rev
  /\ AcceptedUnlinked'

LEMMA CallMoves ==
  ASSUME CallPart, CasesKept, NEW c \in Callers, NEW p \in CallStep, NEW k \in Keys,
         NEW e \in EventRec, NEW d, Moves(c, p, k, e, d),
         p \in {"prepare", "insertRun", "link", "supersede"} =>
           d \in CopyRec /\ case'[k] # NoCase /\ case'[k].rev = d.rev,
         p \notin {"prepare", "insertRun", "link", "supersede"} => d = NoCase,
         p \in {"lookup", "insert"} => e.input \in Payloads,
         spawns' \subseteq spawns \cup {c}, p # "link" => c \notin spawns'
  PROVE  CallPart'
<1>1. /\ pc' \in [Callers -> CallStep] /\ pc'[c] = p
      /\ key' \in [Callers -> Keys] /\ key'[c] = k
      /\ event' \in [Callers -> EventRec] /\ event'[c] = e
      /\ copy' \in [Callers -> CopyRec \cup {NoCase}] /\ copy'[c] = d
      /\ \A b \in Callers : b # c =>
           pc'[b] = pc[b] /\ key'[b] = key[b] /\ event'[b] = event[b] /\ copy'[b] = copy[b]
  BY DEF Moves, CallPart
<1>2. \A b \in Callers : b # c => (HoldsCopy(b)' <=> HoldsCopy(b))
  BY <1>1 DEF HoldsCopy
<1>3. HoldsCopy(c)' <=> p \in {"prepare", "insertRun", "link", "supersede"}
  BY <1>1 DEF HoldsCopy
<1>4. /\ \A b \in Callers : HoldsCopy(b)' => copy'[b] \in CopyRec
      /\ \A b \in Callers : ~ HoldsCopy(b)' => copy'[b] = NoCase
  BY <1>1, <1>2, <1>3 DEF CallPart
<1>5. \A b \in Callers : pc'[b] \in {"lookup", "insert"} => event'[b].input \in Payloads
  BY <1>1 DEF CallPart
<1>6. spawns' \subseteq {b \in Callers : pc'[b] = "link"}
  BY <1>1 DEF CallPart
<1>7. \A b \in Callers : HoldsCopy(b)' =>
        case'[key'[b]] # NoCase /\ case'[key'[b]].rev = copy'[b].rev
  <2> SUFFICES ASSUME NEW b \in Callers, HoldsCopy(b)'
               PROVE  case'[key'[b]] # NoCase /\ case'[key'[b]].rev = copy'[b].rev
    OBVIOUS
  <2>1. CASE b = c
    BY <1>1, <1>3, <2>1
  <2>2. CASE b # c
    <3>1. HoldsCopy(b) /\ key'[b] = key[b] /\ copy'[b] = copy[b] /\ key[b] \in Keys
      BY <1>1, <1>2, <2>2 DEF CallPart
    <3>2. case[key[b]] # NoCase /\ case[key[b]].rev = copy[b].rev
      BY <3>1 DEF CallPart, CopyMatches
    <3> QED
      BY <3>1, <3>2 DEF CasesKept
  <2> QED
    BY <2>1, <2>2
<1> QED
  BY <1>1, <1>4, <1>5, <1>6, <1>7 DEF CallPart, CopyMatches

LEMMA RunsKept ==
  ASSUME RunPart, CasesKept, UNCHANGED <<run, started, crashes, spawns>>,
         \A c \in spawns : key'[c] = key[c]
  PROVE  RunPart'
<1>1. SpawnsOnce' /\ OneStartPerCase'
  BY DEF RunPart, SpawnsOnce, OneStartPerCase
<1>2. QueuedHasStarter'
  BY DEF RunPart, QueuedHasStarter
<1>3. RunsFrozenRevision'
  BY DEF RunPart, RunsFrozenRevision, CasesKept
<1> QED
  BY <1>1, <1>2, <1>3 DEF RunPart, CasesKept

LEMMA SameCases == ASSUME RunPart, UNCHANGED case PROVE CasesKept
BY DEF RunPart, CasesKept, AcceptedUnlinked

(* A caller that owes no driver moves, and no run is touched.                *)
LEMMA CallerMoves ==
  ASSUME CasesInv, FlowPart', CasesKept, NEW c \in Callers, pc[c] # "link",
         NEW p \in CallStep, NEW k \in Keys, NEW e \in EventRec, NEW d, Moves(c, p, k, e, d),
         p \in {"prepare", "insertRun", "link", "supersede"} =>
           d \in CopyRec /\ case'[k] # NoCase /\ case'[k].rev = d.rev,
         p \notin {"prepare", "insertRun", "link", "supersede"} => d = NoCase,
         p \in {"lookup", "insert"} => e.input \in Payloads,
         spawns' \in {spawns, spawns \ {c}},
         UNCHANGED <<run, started, crashes>>
  PROVE  CasesInv'
<1>1. c \notin spawns /\ spawns' = spawns
  BY DEF CasesInv, CallPart
<1>2. CallPart'
  BY <1>1, CallMoves DEF CasesInv
<1>3. \A b \in spawns : key'[b] = key[b]
  BY <1>1 DEF Moves, CasesInv, CallPart
<1>4. RunPart'
  BY <1>1, <1>3, RunsKept DEF CasesInv
<1> QED
  BY <1>2, <1>4 DEF CasesInv

LEMMA ReturnMoves ==
  ASSUME NEW c \in Callers, Return(c)
  PROVE  Moves(c, "idle", 0, NoEvent, NoCase) /\ spawns' = spawns \ {c}
BY DEF Return, Goto, Moves

LEMMA GotoMoves ==
  ASSUME CallPart, NEW c \in Callers, NEW p \in CallStep, Goto(c, p),
         UNCHANGED <<key, event, copy>>
  PROVE  Moves(c, p, key[c], event[c], copy[c])
BY DEF CallPart, Goto, Moves

(* A call returns; what it wrote before keeps the cases.                     *)
LEMMA CallReturns ==
  ASSUME CasesInv, FlowPart', CasesKept, NEW c \in Callers, pc[c] # "link", Return(c),
         UNCHANGED <<run, started, crashes>>
  PROVE  CasesInv'
<1>1. Moves(c, "idle", 0, NoEvent, NoCase) /\ spawns' = spawns \ {c}
  BY ReturnMoves
<1>2. "idle" \in CallStep /\ 0 \in Keys /\ NoEvent \in EventRec
  BY RecordFacts DEF CallStep
<1> QED
  BY <1>1, <1>2, CallerMoves

LEMMA SameFlow == ASSUME FlowPart, UNCHANGED flowVars PROVE FlowPart'
BY DEF FlowPart, flowVars, OrderStands

(* The case stored under c's key is replaced by one of the same revision.    *)
LEMMA StoreKeeps ==
  ASSUME CasesInv, NEW c \in Callers, NEW d \in CaseRec, Store(c, d),
         case[key[c]] # NoCase => d.rev = case[key[c]].rev,
         d.status = "accepted" => d.linked = FALSE
  PROVE  CasesKept /\ case'[key[c]] = d
<1>1. key[c] \in Keys /\ d # NoCase
  BY RecordFacts DEF CasesInv, CallPart
<1>2. /\ case' \in [Keys -> CaseRec \cup {NoCase}] /\ case'[key[c]] = d
      /\ \A k \in Keys : k # key[c] => case'[k] = case[k]
  BY <1>1 DEF CasesInv, RunPart, Store
<1>3. AcceptedUnlinked'
  BY <1>1, <1>2 DEF CasesInv, RunPart, AcceptedUnlinked
<1> QED
  BY <1>1, <1>2, <1>3 DEF CasesKept

LEMMA ReuseStep ==
  ASSUME CasesInv, NEW c \in Callers, pc[c] \in {"lookup", "insert"}, case[key[c]] # NoCase,
         ResumeOrReuse(c), UNCHANGED <<flowVars, case, run, started, crashes>>
  PROVE  CasesInv'
<1> DEFINE d == case[key[c]]
<1>1. FlowPart' /\ CasesKept
  BY SameFlow, SameCases DEF CasesInv
<1>2. CASE Return(c)
  BY <1>1, <1>2, CallReturns
<1>3. CASE ~ Return(c)
  <2>1. /\ d.status = "accepted" /\ d.input = event[c].input /\ d.rev \notin Reviewed
        /\ copy' = [copy EXCEPT ![c] = d] /\ Goto(c, "prepare") /\ UNCHANGED <<key, event, spawns>>
    BY <1>3 DEF ResumeOrReuse
  <2>2. key[c] \in Keys /\ event[c] \in EventRec /\ d \in CaseRec
    BY DEF CasesInv, CallPart, RunPart
  <2>3. Moves(c, "prepare", key[c], event[c], d)
    BY <2>1 DEF Moves, Goto, CasesInv, CallPart
  <2>4. d \in CopyRec
    <3>1. d.linked = FALSE
      BY <2>1, <2>2 DEF CasesInv, CallPart, RunPart, AcceptedUnlinked
    <3> QED
      BY <2>1, <2>2, <3>1 DEF CaseRec, CopyRec
  <2> QED
    BY <1>1, <2>1, <2>2, <2>3, <2>4, CallerMoves DEF CallStep
<1> QED
  BY <1>2, <1>3

-----------------------------------------------------------------------------
(* One lemma per action                                                      *)

LEMMA AcceptStep ==
  ASSUME CasesInv, NEW c \in Callers, NEW k \in RequestKeys, NEW i \in Inputs,
         AcceptFlowCase(c, k, i)
  PROVE  CasesInv'
<1> DEFINE e == [input |-> i, rev |-> flow.rev]
<1>1. /\ pc[c] = "idle" /\ key' = [key EXCEPT ![c] = k] /\ event' = [event EXCEPT ![c] = e]
      /\ Goto(c, "lookup") /\ UNCHANGED <<flowVars, case, run, copy, spawns, started, crashes>>
  BY DEF AcceptFlowCase
<1>2. e \in EventRec /\ e.input \in Payloads /\ k \in Keys
  BY DEF CasesInv, FlowPart, FlowRec, EventRec, Payloads, Keys
<1> HIDE DEF e
<1>3. Moves(c, "lookup", k, e, copy[c]) /\ copy[c] = NoCase
  BY <1>1 DEF Moves, Goto, CasesInv, CallPart, HoldsCopy
<1>4. FlowPart' /\ CasesKept
  BY <1>1, SameFlow, SameCases DEF CasesInv
<1> QED
  BY <1>1, <1>2, <1>3, <1>4, CallerMoves DEF CallStep

LEMMA LookupStep ==
  ASSUME CasesInv, NEW c \in Callers, LookupCase(c)
  PROVE  CasesInv'
<1>1. pc[c] = "lookup" /\ UNCHANGED <<flowVars, case, run, started, crashes>>
  BY DEF LookupCase
<1>2. CASE case[key[c]] # NoCase
  BY <1>1, <1>2, ReuseStep DEF LookupCase
<1>3. CASE case[key[c]] = NoCase
  <2>1. Goto(c, "insert") /\ UNCHANGED <<key, event, copy, spawns>>
    BY <1>3 DEF LookupCase
  <2>2. /\ key[c] \in Keys /\ event[c] \in EventRec /\ event[c].input \in Payloads
        /\ copy[c] = NoCase
    BY <1>1 DEF CasesInv, CallPart, HoldsCopy
  <2>3. Moves(c, "insert", key[c], event[c], copy[c])
    BY <2>1, GotoMoves DEF CasesInv, CallStep
  <2>4. FlowPart' /\ CasesKept
    BY <1>1, SameFlow, SameCases DEF CasesInv
  <2> QED
    BY <1>1, <2>1, <2>2, <2>3, <2>4, CallerMoves DEF CallStep
<1> QED
  BY <1>2, <1>3

LEMMA InsertStep ==
  ASSUME CasesInv, NEW c \in Callers, InsertCase(c)
  PROVE  CasesInv'
<1> DEFINE d == Accepted(c)
<1>1. pc[c] = "insert" /\ UNCHANGED <<flowVars, run, started, crashes>>
  BY DEF InsertCase
<1>2. CASE case[key[c]] # NoCase
  BY <1>1, <1>2, ReuseStep DEF InsertCase
<1>3. CASE case[key[c]] = NoCase
  <2>1. /\ Store(c, d)
        /\ \/ Return(c)
           \/ copy' = [copy EXCEPT ![c] = d] /\ Goto(c, "prepare") /\ UNCHANGED <<key, event, spawns>>
    BY <1>3 DEF InsertCase
  <2>2. key[c] \in Keys /\ event[c] \in EventRec /\ event[c].input \in Payloads
    BY <1>1 DEF CasesInv, CallPart
  <2>3. d \in CopyRec /\ d \in CaseRec /\ d.status = "accepted" /\ d.linked = FALSE
    BY <2>2 DEF Accepted, CopyRec, CaseRec, CaseStatuses, EventRec
  <2> HIDE DEF d
  <2>4. CasesKept /\ case'[key[c]] = d /\ d # NoCase
    BY <1>3, <2>1, <2>3, StoreKeeps, RecordFacts
  <2>5. FlowPart'
    BY <1>1, SameFlow DEF CasesInv
  <2>6. CASE Return(c)
    BY <1>1, <2>4, <2>5, <2>6, CallReturns
  <2>7. CASE copy' = [copy EXCEPT ![c] = d] /\ Goto(c, "prepare") /\ UNCHANGED <<key, event, spawns>>
    <3>1. Moves(c, "prepare", key[c], event[c], d)
      BY <2>7 DEF Moves, Goto, CasesInv, CallPart
    <3> QED
      BY <1>1, <2>2, <2>3, <2>4, <2>5, <2>7, <3>1, CallerMoves DEF CallStep
  <2> QED
    BY <2>1, <2>6, <2>7
<1> QED
  BY <1>2, <1>3

LEMMA TakeUpStep ==
  ASSUME CasesInv, NEW c \in Callers, NEW k \in Keys, StartPending(c, k) \/ ReadSuperseded(c, k)
  PROVE  CasesInv'
<1> DEFINE d == case[k]
<1>1. PICK p \in {"prepare", "supersede"} :
        /\ pc[c] = "idle" /\ Pending(k) /\ key' = [key EXCEPT ![c] = k]
        /\ copy' = [copy EXCEPT ![c] = d] /\ Goto(c, p)
        /\ UNCHANGED <<flowVars, case, run, event, spawns, started, crashes>>
  BY DEF StartPending, ReadSuperseded
<1>2. d \in CaseRec /\ d # NoCase /\ d.status = "accepted" /\ d.linked = FALSE
  BY <1>1 DEF Pending, CasesInv, RunPart, AcceptedUnlinked
<1>3. d \in CopyRec
  BY <1>2 DEF CaseRec, CopyRec
<1>4. Moves(c, p, k, event[c], d) /\ event[c] \in EventRec
  BY <1>1 DEF Moves, Goto, CasesInv, CallPart
<1>5. FlowPart' /\ CasesKept
  BY <1>1, SameFlow, SameCases DEF CasesInv
<1>6. case'[k] = d
  BY <1>1
<1> HIDE DEF d
<1> QED
  BY <1>1, <1>2, <1>3, <1>4, <1>5, <1>6, CallerMoves DEF CallStep

LEMMA PrepareStep ==
  ASSUME CasesInv, NEW c \in Callers, PrepareRun(c)
  PROVE  CasesInv'
<1>1. /\ pc[c] = "prepare" /\ Goto(c, "insertRun")
      /\ UNCHANGED <<flowVars, case, run, key, event, copy, spawns, started, crashes>>
  BY DEF PrepareRun
<1>2. /\ key[c] \in Keys /\ event[c] \in EventRec /\ copy[c] \in CopyRec
      /\ case[key[c]] # NoCase /\ case[key[c]].rev = copy[c].rev
  BY <1>1 DEF CasesInv, CallPart, CopyMatches, HoldsCopy
<1>3. Moves(c, "insertRun", key[c], event[c], copy[c])
  BY <1>1, GotoMoves DEF CasesInv, CallStep
<1>4. FlowPart' /\ CasesKept
  BY <1>1, SameFlow, SameCases DEF CasesInv
<1> QED
  BY <1>1, <1>2, <1>3, <1>4, CallerMoves DEF CallStep

(* The copy, with another status, is written over the stored case.           *)
LEMMA GiveUpStep ==
  ASSUME CasesInv, NEW c \in Callers, FailCase(c) \/ Supersede(c)
  PROVE  CasesInv'
<1>1. PICK st \in {"failed", "superseded"} :
        /\ pc[c] \in {"prepare", "insertRun", "supersede"}
        /\ Store(c, [copy[c] EXCEPT !.status = st]) /\ Return(c)
        /\ UNCHANGED <<flowVars, run, started, crashes>>
  BY DEF FailCase, Supersede
<1> DEFINE d == [copy[c] EXCEPT !.status = st]
<1>2. copy[c] \in CopyRec /\ case[key[c]].rev = copy[c].rev
  BY <1>1 DEF CasesInv, CallPart, CopyMatches, HoldsCopy
<1>3. d \in CaseRec /\ d.rev = copy[c].rev /\ d.status = st
  BY <1>2 DEF CopyRec, CaseRec, CaseStatuses
<1>4. Store(c, d)
  BY <1>1
<1> HIDE DEF d
<1>5. CasesKept
  BY <1>2, <1>3, <1>4, StoreKeeps
<1>6. FlowPart'
  BY <1>1, SameFlow DEF CasesInv
<1> QED
  BY <1>1, <1>5, <1>6, CallReturns

(* The primary key of the run lets one caller insert it, and that one owes   *)
(* the driver.                                                               *)
LEMMA InsertRunStep ==
  ASSUME CasesInv, NEW c \in Callers, InsertRun(c)
  PROVE  CasesInv'
<1> DEFINE k == key[c]
           r == [status |-> "queued", rev |-> copy[c].rev]
<1>1. /\ pc[c] = "insertRun" /\ Goto(c, "link")
      /\ UNCHANGED <<flowVars, case, key, event, copy, started, crashes>>
  BY DEF InsertRun
<1>2. /\ k \in Keys /\ event[c] \in EventRec /\ copy[c] \in CopyRec
      /\ case[k] # NoCase /\ case[k].rev = copy[c].rev /\ c \notin spawns
  BY <1>1 DEF CasesInv, CallPart, CopyMatches, HoldsCopy
<1>3. Moves(c, "link", k, event[c], copy[c])
  BY <1>1, GotoMoves DEF CasesInv, CallStep
<1>4. FlowPart' /\ CasesKept
  BY <1>1, SameFlow, SameCases DEF CasesInv
<1>5. spawns' \subseteq spawns \cup {c}
  BY DEF InsertRun
<1>6. CallPart'
  BY <1>1, <1>2, <1>3, <1>4, <1>5, CallMoves DEF CallStep, CasesInv
<1>7. CASE run[k] # NoRun
  <2>1. UNCHANGED <<run, spawns>>
    BY <1>7 DEF InsertRun
  <2>2. RunPart'
    BY <1>1, <1>4, <2>1, RunsKept DEF CasesInv
  <2> QED
    BY <1>4, <1>6, <2>2 DEF CasesInv
<1>8. CASE run[k] = NoRun
  <2>1. run' = [run EXCEPT ![k] = r] /\ spawns' = spawns \cup {c}
    BY <1>8 DEF InsertRun
  <2>2. r \in RunRec /\ r # NoRun /\ r.rev = copy[c].rev
    <3>1. r \in RunRec /\ r.rev = copy[c].rev
      BY <1>2 DEF CopyRec, RunRec
    <3> HIDE DEF r
    <3> QED
      BY <3>1, RecordFacts
  <2> HIDE DEF r
  <2>3. /\ run' \in [Keys -> RunRec \cup {NoRun}] /\ run'[k] = r
        /\ \A j \in Keys : j # k => run'[j] = run[j]
    BY <1>2, <2>1, <2>2 DEF CasesInv, RunPart
  <2>4. started[k] = 0 /\ \A b \in spawns : key[b] # k
    BY <1>2, <1>8 DEF CasesInv, RunPart, SpawnsOnce
  <2>5. \A b \in spawns : b \in Callers /\ key[b] \in Keys
    BY DEF CasesInv, CallPart
  <2>6. SpawnsOnce'
    BY <1>1, <1>2, <2>1, <2>2, <2>3, <2>4, <2>5 DEF CasesInv, RunPart, SpawnsOnce
  <2>7. QueuedHasStarter'
    BY <1>1, <2>1, <2>3 DEF CasesInv, RunPart, QueuedHasStarter
  <2>8. RunsFrozenRevision'
    BY <1>1, <1>2, <2>2, <2>3 DEF CasesInv, RunPart, RunsFrozenRevision
  <2>9. RunPart'
    <3>1. case' \in [Keys -> CaseRec \cup {NoCase}] /\ AcceptedUnlinked'
      BY <1>4 DEF CasesKept
    <3>2. OneStartPerCase' /\ \A j \in Keys : run'[j] = NoRun => started'[j] = 0
      BY <1>1, <2>3, <2>4 DEF CasesInv, RunPart, OneStartPerCase
    <3> QED
      BY <1>1, <2>3, <2>6, <2>7, <2>8, <3>1, <3>2 DEF CasesInv, RunPart
  <2> QED
    BY <1>4, <1>6, <2>9 DEF CasesInv
<1> QED
  BY <1>7, <1>8

LEMMA LinkStep ==
  ASSUME CasesInv, NEW c \in Callers, LinkCase(c)
  PROVE  CasesInv'
<1> DEFINE k == key[c]
           d == [copy[c] EXCEPT !.status = "started", !.linked = TRUE]
<1>1. pc[c] = "link" /\ Store(c, d) /\ Return(c) /\ UNCHANGED <<flowVars, crashes>>
  BY DEF LinkCase
<1>2. /\ k \in Keys /\ copy[c] \in CopyRec /\ case[k] # NoCase /\ case[k].rev = copy[c].rev
  BY <1>1 DEF CasesInv, CallPart, CopyMatches, HoldsCopy
<1>3. d \in CaseRec /\ d.rev = copy[c].rev /\ d.status = "started"
  BY <1>2 DEF CopyRec, CaseRec, CaseStatuses
<1> HIDE DEF d
<1>4. CasesKept
  BY <1>1, <1>2, <1>3, StoreKeeps
<1>5. FlowPart'
  BY <1>1, SameFlow DEF CasesInv
<1>6. Moves(c, "idle", 0, NoEvent, NoCase) /\ spawns' = spawns \ {c}
  BY <1>1, ReturnMoves
<1>7. CallPart'
  BY <1>4, <1>6, CallMoves, RecordFacts DEF CasesInv, CallStep
<1>8. \A b \in spawns : b \in Callers /\ key[b] \in Keys /\ (b # c => key'[b] = key[b])
  BY <1>6 DEF CasesInv, CallPart, Moves
<1>9. CASE c \notin spawns
  <2>1. UNCHANGED <<run, started, spawns>>
    BY <1>6, <1>9 DEF LinkCase
  <2>2. RunPart'
    BY <1>1, <1>4, <1>8, <1>9, <2>1, RunsKept DEF CasesInv
  <2> QED
    BY <1>5, <1>7, <2>2 DEF CasesInv
<1>10. CASE c \in spawns
  <2>1. /\ run' = [run EXCEPT ![k].status = "driven"]
        /\ started' = [started EXCEPT ![k] = started[k] + 1]
    BY <1>10 DEF LinkCase
  <2>2. run[k] # NoRun /\ started[k] = 0 /\ \A b \in spawns : b # c => key[b] # k
    BY <1>10 DEF CasesInv, RunPart, SpawnsOnce
  <2> DEFINE r == [run[k] EXCEPT !.status = "driven"]
  <2>3. run[k] \in RunRec
    BY <1>2, <2>2 DEF CasesInv, RunPart
  <2>4. r \in RunRec /\ r # NoRun /\ r.rev = run[k].rev /\ r.status = "driven"
    BY <2>3, RecordFacts DEF RunRec
  <2>5. run' = [run EXCEPT ![k] = r]
    BY <1>2, <2>1 DEF CasesInv, RunPart
  <2> HIDE DEF r
  <2>6. /\ run' \in [Keys -> RunRec \cup {NoRun}] /\ run'[k] = r
        /\ \A j \in Keys : j # k => run'[j] = run[j]
        /\ started' \in [Keys -> Nat] /\ started'[k] = 1
        /\ \A j \in Keys : j # k => started'[j] = started[j]
    BY <1>2, <2>1, <2>2, <2>4, <2>5 DEF CasesInv, RunPart
  <2>7. SpawnsOnce'
    <3>1. \A b \in spawns' : b \in spawns /\ b # c /\ key'[b] = key[b] /\ key[b] # k /\ key[b] \in Keys
      BY <1>6, <1>8, <2>2
    <3> QED
      BY <2>6, <3>1 DEF CasesInv, RunPart, SpawnsOnce
  <2>8. QueuedHasStarter'
    <3> SUFFICES ASSUME NEW j \in Keys, run'[j] # NoRun, run'[j].status = "queued"
                 PROVE  \E b \in spawns' : key'[b] = j
      BY DEF QueuedHasStarter
    <3>1. j # k /\ run'[j] = run[j]
      BY <2>4, <2>6
    <3>2. PICK b \in spawns : key[b] = j
      BY <3>1 DEF CasesInv, RunPart, QueuedHasStarter
    <3> QED
      BY <1>6, <1>8, <3>1, <3>2
  <2>9. RunsFrozenRevision'
    BY <1>4, <2>2, <2>4, <2>6 DEF CasesInv, RunPart, RunsFrozenRevision, CasesKept
  <2>10. OneStartPerCase' /\ \A j \in Keys : run'[j] = NoRun => started'[j] = 0
    BY <2>4, <2>6 DEF CasesInv, RunPart, OneStartPerCase
  <2>11. RunPart'
    BY <1>1, <1>4, <2>6, <2>7, <2>8, <2>9, <2>10 DEF CasesInv, RunPart, CasesKept
  <2> QED
    BY <1>5, <1>7, <2>11 DEF CasesInv
<1> QED
  BY <1>9, <1>10

(* process_schedule_tick: the draft is taken, then written back if nobody    *)
(* changed the flow.                                                         *)
LEMMA TickStep ==
  ASSUME CasesInv, ScheduleTick
  PROVE  CasesInv'
<1> DEFINE c == Worker
<1>1. /\ c \in Callers /\ pc[c] = "idle" /\ flow.next <= now
      /\ draft' = [flow EXCEPT !.next = now + 1] /\ current' = TRUE
      /\ key' = [key EXCEPT ![c] = flow.next] /\ Goto(c, "fire")
      /\ UNCHANGED <<flow, now, case, run, event, copy, spawns, ordered, started, crashes>>
  BY DEF ScheduleTick, Callers
<1>2. flow \in FlowRec /\ now \in Times /\ flow.next \in 0..(MaxTime + 1)
  BY DEF CasesInv, FlowPart, FlowRec
<1>3. flow.next \in Keys
  BY <1>1, <1>2, FlowCasesAssumption DEF Keys, Times
<1>4. now + 1 \in 0..(MaxTime + 1)
  BY <1>2, FlowCasesAssumption DEF Times
<1>5. draft' \in FlowRec /\ draft'.active = flow.active /\ draft'.rev = flow.rev
  BY <1>1, <1>2, <1>4 DEF FlowRec
<1>6. FlowPart'
  BY <1>1, <1>5 DEF CasesInv, FlowPart, OrderStands
<1>7. /\ Moves(c, "fire", flow.next, event[c], copy[c])
      /\ copy[c] = NoCase /\ event[c] \in EventRec
  BY <1>1 DEF Moves, Goto, CasesInv, CallPart, HoldsCopy
<1>8. CasesKept
  BY <1>1, SameCases DEF CasesInv
<1> QED
  BY <1>1, <1>3, <1>6, <1>7, <1>8, CallerMoves DEF CallStep

LEMMA FireStep ==
  ASSUME CasesInv, FireSchedule
  PROVE  CasesInv'
<1> DEFINE c == Worker
           e == [input |-> "schedule", rev |-> draft.rev]
<1>1. /\ c \in Callers /\ pc[c] = "fire" /\ draft' = NoFlow /\ current' = FALSE
      /\ UNCHANGED <<now, case, run, ordered, started, crashes>>
  BY DEF FireSchedule, Callers
<1>2. CasesKept
  BY <1>1, SameCases DEF CasesInv
<1>3. CASE current
  <2>1. /\ flow' = draft /\ event' = [event EXCEPT ![c] = e] /\ Goto(c, "lookup")
        /\ UNCHANGED <<key, copy, spawns>>
    BY <1>3 DEF FireSchedule
  <2>2. FlowPart'
    BY <1>1, <1>3, <2>1, RecordFacts DEF CasesInv, FlowPart, OrderStands
  <2>3. e \in EventRec /\ e.input \in Payloads
    BY DEF CasesInv, FlowPart, FlowRec, EventRec, Payloads
  <2> HIDE DEF e
  <2>4. /\ Moves(c, "lookup", key[c], e, copy[c])
        /\ copy[c] = NoCase /\ key[c] \in Keys
    BY <1>1, <2>1 DEF Moves, Goto, CasesInv, CallPart, HoldsCopy
  <2> QED
    BY <1>1, <1>2, <2>1, <2>2, <2>3, <2>4, CallerMoves DEF CallStep
<1>4. CASE ~ current
  <2>1. Return(c) /\ UNCHANGED flow
    BY <1>4 DEF FireSchedule
  <2>2. FlowPart'
    BY <1>1, <2>1, RecordFacts DEF CasesInv, FlowPart, OrderStands
  <2> QED
    BY <1>1, <1>2, <2>1, <2>2, CallReturns
<1> QED
  BY <1>3, <1>4

(* The operator's orders and the clock touch no call and no case.            *)
LEMMA OrderStep ==
  ASSUME CasesInv,
         \/ PauseFlow \/ ResumeFlow \/ (\E r \in Revisions : ActivateRevision(r)) \/ TimePasses
  PROVE  CasesInv'
<1>1. UNCHANGED <<draft, case, run, callVars, started, crashes>>
  BY DEF PauseFlow, ResumeFlow, ActivateRevision, TimePasses
<1>2. RunPart'
  BY <1>1, RunsKept, SameCases DEF CasesInv, callVars
<1>3. CallPart'
  BY <1>1 DEF CasesInv, CallPart, CopyMatches, HoldsCopy, callVars
<1>4. flow \in FlowRec /\ ordered \in [active : BOOLEAN, rev : Revisions]
  BY DEF CasesInv, FlowPart
<1>5. CASE PauseFlow \/ ResumeFlow
  <2>1. PICK b \in BOOLEAN : /\ flow' = [flow EXCEPT !.active = b]
                             /\ ordered' = [ordered EXCEPT !.active = b]
                             /\ current' = FALSE /\ UNCHANGED now
    BY <1>5 DEF PauseFlow, ResumeFlow
  <2>2. /\ flow' \in FlowRec /\ flow'.active = b /\ flow'.rev = flow.rev
        /\ ordered' \in [active : BOOLEAN, rev : Revisions]
        /\ ordered'.active = b /\ ordered'.rev = ordered.rev
    BY <1>4, <2>1 DEF FlowRec
  <2>3. FlowPart'
    BY <1>1, <2>1, <2>2 DEF CasesInv, FlowPart, OrderStands
  <2> QED
    BY <1>2, <1>3, <2>3 DEF CasesInv
<1>6. ASSUME NEW r \in Revisions, ActivateRevision(r) PROVE FlowPart'
  <2>1. PICK t \in Times : flow' = [active |-> TRUE, rev |-> r, next |-> t]
    BY <1>6 DEF ActivateRevision
  <2>2. ordered' = [active |-> TRUE, rev |-> r] /\ current' = FALSE /\ UNCHANGED now
    BY <1>6 DEF ActivateRevision
  <2>3. t \in 0..(MaxTime + 1)
    BY FlowCasesAssumption DEF Times
  <2>4. flow' \in FlowRec /\ flow'.active = TRUE /\ flow'.rev = r
    BY <2>1, <2>3 DEF FlowRec
  <2>5. /\ ordered' \in [active : BOOLEAN, rev : Revisions]
        /\ ordered'.active = TRUE /\ ordered'.rev = r
    BY <2>2
  <2> QED
    BY <1>1, <2>2, <2>4, <2>5 DEF CasesInv, FlowPart, OrderStands
<1>7. CASE TimePasses
  <2>1. now' \in Times
    BY <1>7, FlowCasesAssumption DEF TimePasses, CasesInv, FlowPart, Times
  <2>2. FlowPart'
    BY <1>7, <2>1 DEF TimePasses, CasesInv, FlowPart, OrderStands
  <2> QED
    BY <1>2, <1>3, <2>2 DEF CasesInv
<1> QED
  BY <1>2, <1>3, <1>5, <1>6, <1>7 DEF CasesInv

(* Every call is lost and its run, if it was inserted, is paused.            *)
LEMMA RestartStep ==
  ASSUME CasesInv, Restart
  PROVE  CasesInv'
<1>1. /\ \A c \in Callers : pc'[c] = "idle" /\ key'[c] = 0 /\ event'[c] = NoEvent /\ copy'[c] = NoCase
      /\ draft' = NoFlow /\ current' = FALSE /\ spawns' = {}
      /\ UNCHANGED <<flow, now, case, ordered, started>>
  BY DEF Restart
<1>2. FlowPart'
  BY <1>1, RecordFacts DEF CasesInv, FlowPart, OrderStands
<1>3. CallPart'
  <2>1. /\ pc' \in [Callers -> CallStep] /\ key' \in [Callers -> Keys]
        /\ event' \in [Callers -> EventRec] /\ copy' \in [Callers -> CopyRec \cup {NoCase}]
    BY RecordFacts DEF Restart, CallStep
  <2> QED
    BY <1>1, <2>1 DEF CallPart, CopyMatches, HoldsCopy
<1>4. ASSUME NEW k \in Keys
      PROVE  /\ run'[k] \in RunRec \cup {NoRun}
             /\ run'[k] = NoRun <=> run[k] = NoRun
             /\ run'[k] # NoRun => run'[k].rev = run[k].rev /\ run'[k].status = "paused"
  <2>1. run'[k] = IF run[k] = NoRun THEN NoRun ELSE [run[k] EXCEPT !.status = "paused"]
    BY DEF Restart
  <2>2. CASE run[k] = NoRun
    BY <2>1, <2>2
  <2>3. CASE run[k] # NoRun
    <3> DEFINE r == [run[k] EXCEPT !.status = "paused"]
    <3>1. run[k] \in RunRec
      BY <2>3 DEF CasesInv, RunPart
    <3>2. r \in RunRec /\ r.rev = run[k].rev /\ r.status = "paused"
      BY <3>1 DEF RunRec
    <3>3. run'[k] = r
      BY <2>1, <2>3
    <3> HIDE DEF r
    <3> QED
      BY <2>3, <3>2, <3>3, RecordFacts
  <2> QED
    BY <2>2, <2>3
<1>5. run' \in [Keys -> RunRec \cup {NoRun}]
  BY <1>4 DEF Restart
<1>6. crashes' \in 0..MaxCrashes
  BY FlowCasesAssumption DEF Restart, CasesInv, RunPart
<1>7. SpawnsOnce' /\ OneStartPerCase' /\ AcceptedUnlinked'
  BY <1>1 DEF CasesInv, RunPart, SpawnsOnce, OneStartPerCase, AcceptedUnlinked
<1>8. QueuedHasStarter'
  BY <1>4 DEF QueuedHasStarter
<1>9. RunsFrozenRevision'
  BY <1>1, <1>4 DEF CasesInv, RunPart, RunsFrozenRevision
<1>10. RunPart'
  BY <1>1, <1>4, <1>5, <1>6, <1>7, <1>8, <1>9 DEF CasesInv, RunPart
<1> QED
  BY <1>2, <1>3, <1>10 DEF CasesInv

LEMMA CasesInvInit ==
  ASSUME CasesInit
  PROVE  CasesInv
<1>1. FlowPart
  <2>1. flow \in FlowRec /\ draft \in FlowRec
    BY RecordFacts, FlowCasesAssumption DEF CasesInit, FlowRec
  <2>2. now \in Times
    BY FlowCasesAssumption DEF CasesInit, Times
  <2>3. current \in BOOLEAN
    BY DEF CasesInit
  <2>4. ordered \in [active : BOOLEAN, rev : Revisions]
    BY FlowCasesAssumption DEF CasesInit
  <2> QED
    BY <2>1, <2>2, <2>3, <2>4 DEF CasesInit, FlowPart, OrderStands
<1>2. CallPart
  <2>1. \A c \in Callers : pc[c] = "idle" /\ copy[c] = NoCase
    BY DEF CasesInit
  <2>2. /\ pc \in [Callers -> CallStep] /\ key \in [Callers -> Keys]
        /\ event \in [Callers -> EventRec] /\ copy \in [Callers -> CopyRec \cup {NoCase}]
    BY RecordFacts DEF CasesInit, CallStep
  <2> QED
    BY <2>1, <2>2 DEF CasesInit, CallPart, CopyMatches, HoldsCopy
<1>3. RunPart
  <2>1. \A k \in Keys : case[k] = NoCase /\ run[k] = NoRun /\ started[k] = 0
    BY DEF CasesInit
  <2>2. /\ case \in [Keys -> CaseRec \cup {NoCase}] /\ run \in [Keys -> RunRec \cup {NoRun}]
        /\ started \in [Keys -> Nat] /\ crashes \in 0..MaxCrashes
    BY FlowCasesAssumption DEF CasesInit
  <2> QED
    BY <2>1, <2>2 DEF CasesInit, RunPart, AcceptedUnlinked, SpawnsOnce, OneStartPerCase,
       QueuedHasStarter, RunsFrozenRevision
<1> QED
  BY <1>1, <1>2, <1>3 DEF CasesInv

LEMMA CasesStep ==
  ASSUME CasesInv, [CasesNext]_caseVars
  PROVE  CasesInv'
<1>1. \A c \in Requests : c \in Callers
  BY DEF Callers
<1>2. ASSUME NEW c \in Callers, Proceed(c) PROVE CasesInv'
  BY <1>2, LookupStep, InsertStep, PrepareStep, GiveUpStep, InsertRunStep, LinkStep DEF Proceed
<1>3. CASE UNCHANGED caseVars
  <2>1. UNCHANGED flowVars /\ UNCHANGED <<case, run, callVars, started, crashes>>
    BY <1>3 DEF caseVars, flowVars, callVars
  <2>2. FlowPart'
    BY <2>1, SameFlow DEF CasesInv
  <2>3. RunPart'
    BY <2>1, RunsKept, SameCases DEF CasesInv, callVars
  <2>4. CallPart'
    BY <2>1 DEF CasesInv, CallPart, CopyMatches, HoldsCopy, callVars
  <2> QED
    BY <2>2, <2>3, <2>4 DEF CasesInv
<1> QED
  BY <1>1, <1>2, <1>3, OrderStep, TickStep, FireStep, RestartStep, AcceptStep, TakeUpStep DEF CasesNext

LEMMA CasesInvariant == CasesSpec => []CasesInv
BY CasesInvInit, CasesStep, PTL DEF CasesSpec

-----------------------------------------------------------------------------
(* However often an event is delivered under one key, by whom and around     *)
(* which restarts, its case spawns one driver at most, its run is of the     *)
(* revision that accepted it, and a queued run has the caller that will      *)
(* drive it: cases are written without a revision check, so all of it rests  *)
(* on the primary key of insert_flow_run (start_accepted_case).              *)
THEOREM EventRunsOnceHolds == CasesSpec => []EventRunsOnce
<1>1. CasesInv => EventRunsOnce
  <2> SUFFICES ASSUME CasesInv PROVE EventRunsOnce
    OBVIOUS
  <2>1. \A c \in Callers :
          IF pc[c] \in {"prepare", "insertRun", "link", "supersede"}
          THEN copy[c] \in CopyRec ELSE copy[c] = NoCase
    BY DEF CasesInv, CallPart, HoldsCopy
  <2>2. CasesTypeOK
    BY <2>1 DEF CasesInv, FlowPart, CallPart, RunPart, CasesTypeOK, CaseRec, CopyRec, RunRec, EventRec,
                FlowRec, CallStep
  <2> QED
    BY <2>2 DEF CasesInv, RunPart, EventRunsOnce
<1> QED
  BY <1>1, CasesInvariant, PTL

(* The schedule worker, which reads the flow, advances it and writes it back *)
(* in two steps, never undoes a pause, a resume or an activation that came   *)
(* in between (process_schedule_tick).                                       *)
THEOREM OrderStandsHolds == CasesSpec => []OrderStands
<1>1. CasesInv => OrderStands
  BY DEF CasesInv, FlowPart
<1> QED
  BY <1>1, CasesInvariant, PTL
=============================================================================
