---------------------------- MODULE BackgroundJobs ----------------------------
(***************************************************************************)
(* BackgroundProcessRegistry: the jobs of one agent. A tool call registers *)
(* a job and waits for it or leaves it to run; the process fills a bounded *)
(* buffer; its end is told to the model by whoever gets there first: the   *)
(* call that waits, a background_output read, the completion sink, or the  *)
(* reminders of the next model round.                                      *)
(***************************************************************************)
EXTENDS Integers, Sequences, FiniteSets, SequencesExt

CONSTANTS
  Jobs,
  max_jobs_per_agent,
  max_buffered_bytes,
  MaxOutput,       \* bound: bytes a process writes
  MaxReads,        \* bound: calls of background_output read
  MaxRounds,       \* bound: model rounds
  MaxStoreFaults   \* bound: deliveries the store refuses

ASSUME JobsAssumption ==
  /\ max_jobs_per_agent \in Nat
  /\ max_buffered_bytes \in Nat
  /\ MaxOutput \in Nat /\ MaxReads \in Nat /\ MaxRounds \in Nat /\ MaxStoreFaults \in Nat

VARIABLES
  call,        \* the tool call that starts each job
  status,      \* BackgroundJobStatus; absent until the job is inserted
  sessions,    \* jobs that are interactive stdio sessions
  alive,       \* jobs whose process runs
  written,     \* bytes each process wrote
  pushed,      \* bytes of them that reached the buffer
  unread,      \* StreamBuffer.unread: the bytes by number
  dropped,     \* bytes omitted from every chunk
  reported,    \* completion_reported
  sink,        \* jobs whose completion_sink slot is full
  finisher,    \* the task that owns the job: what it does next
  attacher,    \* attach_completion_sink: what it does next
  chunk,       \* the completion chunk being delivered
  revision,    \* the watch channel of each job
  cancelled,   \* jobs whose cancel token is set
  turn_cancelled,
  reader,      \* a background_output read
  batch,       \* completions in the reminders of the round under way
  shown,       \* bytes the model was given (history)
  told,        \* how each end was told, in order (history)
  reads, rounds, faults

job == <<call, status, sessions, alive, written, pushed, cancelled>>
buffers == <<unread, dropped, reported>>
delivery == <<sink, finisher, attacher, chunk>>
history == <<shown, told>>
bounds == <<reads, rounds, faults>>
jobVars == <<job, buffers, delivery, revision, turn_cancelled, reader, batch, history, bounds>>

(* Exited, Failed, Cancelled and TimedOut are one status, "terminal". *)
is_terminal(j) == status[j] = "terminal"
PublishSteps == {"publish", "claimed", "peeked", "delivered", "refused"}
NoReader == [at |-> "idle"]

(* The state of the registry (Job, JobState, StreamBuffer).                  *)
JobsTypeOK ==
  /\ call \in [Jobs -> {"none", "counted", "foreground", "accepted", "done", "failed"}]
  /\ status \in [Jobs -> {"absent", "running", "terminal"}]
  /\ sessions \subseteq Jobs /\ alive \subseteq Jobs /\ sink \subseteq Jobs /\ cancelled \subseteq Jobs
  /\ \A c \in batch : is_terminal(c.job) /\ c.bytes \subseteq 1..pushed[c.job]
  /\ \A j \in Jobs :
       /\ pushed[j] \in 0..written[j] /\ written[j] \in 0..MaxOutput
       /\ Len(unread[j]) <= max_buffered_bytes
       /\ dropped[j] \subseteq 1..pushed[j]
       /\ shown[j] \subseteq 1..pushed[j]
       /\ is_terminal(j) => j \notin alive
       /\ reported[j] => is_terminal(j)
       /\ finisher[j] \in PublishSteps \cup {"none", "run", "signal", "finish", "ended"}
       /\ attacher[j] \in PublishSteps \cup {"none", "check", "ended"}
  /\ reads \in 0..MaxReads /\ rounds \in 0..MaxRounds /\ faults \in 0..MaxStoreFaults

JobsInit ==
  /\ call = [j \in Jobs |-> "none"]
  /\ status = [j \in Jobs |-> "absent"]
  /\ sessions = {} /\ alive = {} /\ cancelled = {} /\ turn_cancelled = FALSE
  /\ written = [j \in Jobs |-> 0] /\ pushed = written
  /\ unread = [j \in Jobs |-> <<>>]
  /\ dropped = [j \in Jobs |-> {}]
  /\ reported = [j \in Jobs |-> FALSE]
  /\ sink = {}
  /\ finisher = [j \in Jobs |-> "none"] /\ attacher = finisher
  /\ chunk = [j \in Jobs |-> {}]
  /\ revision = [j \in Jobs |-> 0]
  /\ reader = NoReader
  /\ batch = {}
  /\ shown = [j \in Jobs |-> {}]
  /\ told = [j \in Jobs |-> <<>>]
  /\ reads = 0 /\ rounds = 0 /\ faults = 0

-----------------------------------------------------------------------------
(* Starting a job *)

RunningJobs == {j \in Jobs : status[j] = "running"}

(* The limit is compared under the lock of the map, which is then released.  *)
CountRunning(j) ==
  /\ call[j] = "none"
  /\ call' = [call EXCEPT ![j] =
       IF Cardinality(RunningJobs) < max_jobs_per_agent THEN "counted" ELSE "failed"]
  /\ UNCHANGED <<status, sessions, alive, written, pushed, cancelled, buffers, delivery, revision,
                 turn_cancelled, reader, batch, history, bounds>>

(* spawn and spawn_task insert the job and wait for it, or leave it to run;  *)
(* spawn_session starts the process first, which may fail.                   *)
InsertJob(j) ==
  /\ call[j] = "counted"
  /\ \/ /\ call' = [call EXCEPT ![j] = "failed"]
        /\ UNCHANGED <<status, sessions, alive, finisher>>
     \/ /\ \/ /\ \E next \in {"foreground", "accepted"} : call' = [call EXCEPT ![j] = next]
              /\ UNCHANGED sessions
           \/ /\ call' = [call EXCEPT ![j] = "accepted"]
              /\ sessions' = sessions \cup {j}
        /\ status' = [status EXCEPT ![j] = "running"]
        /\ alive' = alive \cup {j}
        /\ finisher' = [finisher EXCEPT ![j] = "run"]
  /\ UNCHANGED <<written, pushed, cancelled, buffers, sink, attacher, chunk, revision,
                 turn_cancelled, reader, batch, history, bounds>>

-----------------------------------------------------------------------------
(* The process and its output *)

WriteByte(j) ==
  /\ j \in alive
  /\ written[j] < MaxOutput
  /\ written' = [written EXCEPT ![j] = @ + 1]
  /\ UNCHANGED <<call, status, sessions, alive, pushed, cancelled, buffers, delivery, revision,
                 turn_cancelled, reader, batch, history, bounds>>

(* What StreamBuffer::push keeps of s: the head and the newest tail.  *)
Bounded(s) ==
  LET head == max_buffered_bytes \div 2
      tail == max_buffered_bytes - head
  IN IF Len(s) <= max_buffered_bytes THEN s
     ELSE SubSeq(s, 1, head) \o SubSeq(s, Len(s) - tail + 1, Len(s))

PushOutput(j) ==
  LET byte == pushed[j] + 1
      kept == Bounded(Append(unread[j], byte))
  IN
  /\ pushed[j] < written[j]
  /\ pushed' = [pushed EXCEPT ![j] = byte]
  /\ unread' = [unread EXCEPT ![j] = kept]
  /\ dropped' = [dropped EXCEPT ![j] = @ \cup ((ToSet(unread[j]) \cup {byte}) \ ToSet(kept))]
  /\ revision' = [revision EXCEPT ![j] = @ + 1]
  /\ UNCHANGED <<call, status, sessions, alive, written, cancelled, reported, delivery, turn_cancelled,
                 reader, batch, history, bounds>>

(* The process ends by itself, at its timeout, or because it is cancelled. *)
ProcessEnds(j) ==
  /\ j \in alive
  /\ alive' = alive \ {j}
  /\ UNCHANGED <<call, status, sessions, written, pushed, cancelled, buffers, delivery, revision,
                 turn_cancelled, reader, batch, history, bounds>>

(* Faulty variant: the end is recorded while the pipes still hold output.    *)
Drained_ignored(j) == TRUE

(* Both pipes are awaited before the outcome is recorded. *)
Drained(j) == pushed[j] = written[j]

Finish(j) ==
  /\ finisher[j] = "run"
  /\ j \notin alive
  /\ Drained(j)
  /\ status' = [status EXCEPT ![j] = "terminal"]
  /\ finisher' = [finisher EXCEPT ![j] = "publish"]
  /\ UNCHANGED <<call, sessions, alive, written, pushed, cancelled, buffers, sink, attacher, chunk,
                 revision, turn_cancelled, reader, batch, history, bounds>>

-----------------------------------------------------------------------------
(* publish_completion, run by the finisher and by attach_completion_sink *)

(* The two publishers of a job differ in the place they keep and where they go on. *)
At(p, j) == IF p = "finisher" THEN finisher[j] ELSE attacher[j]

Move(p, j, next) ==
  \/ p = "finisher" /\ finisher' = [finisher EXCEPT ![j] = next] /\ UNCHANGED attacher
  \/ p = "attacher" /\ attacher' = [attacher EXCEPT ![j] = next] /\ UNCHANGED finisher

Published(p) == IF p = "finisher" THEN "signal" ELSE "ended"

(* Taking the sink is the claim. *)
ClaimSink(p, j) ==
  /\ At(p, j) = "publish"
  /\ IF reported[j] \/ j \notin sink
     THEN Move(p, j, Published(p)) /\ UNCHANGED sink
     ELSE Move(p, j, "claimed") /\ sink' = sink \ {j}

PeekChunk(p, j) ==
  /\ At(p, j) = "claimed"
  /\ chunk' = [chunk EXCEPT ![j] = ToSet(unread[j])]
  /\ Move(p, j, "peeked")

(* DurableAsyncToolResultSink::deliver: the ledger, then the inbox of a live Turn. *)
Deliver(p, j) ==
  /\ At(p, j) = "peeked"
  /\ \/ /\ Move(p, j, "delivered")
        /\ shown' = [shown EXCEPT ![j] = @ \cup chunk[j]]
        /\ told' = [told EXCEPT ![j] = Append(@, "sink")]
        /\ UNCHANGED faults
     \/ /\ faults < MaxStoreFaults
        /\ faults' = faults + 1
        /\ Move(p, j, "refused")
        /\ UNCHANGED history

SettleDelivery(p, j) ==
  \/ /\ At(p, j) = "delivered"
     /\ Move(p, j, Published(p))
     /\ reported' = [reported EXCEPT ![j] = TRUE]
     /\ unread' = [unread EXCEPT ![j] = <<>>]
     /\ UNCHANGED <<sink, dropped>>
  \/ /\ At(p, j) = "refused"
     /\ Move(p, j, Published(p))
     /\ sink' = sink \cup {j}
     /\ UNCHANGED buffers

Publish(p, j) ==
  /\ \/ ClaimSink(p, j) /\ UNCHANGED <<buffers, chunk, history, faults>>
     \/ PeekChunk(p, j) /\ UNCHANGED <<buffers, sink, history, faults>>
     \/ Deliver(p, j) /\ UNCHANGED <<buffers, sink, chunk>>
     \/ SettleDelivery(p, j) /\ UNCHANGED <<chunk, history, faults>>
  /\ UNCHANGED <<job, revision, turn_cancelled, reader, batch, reads, rounds>>

(* The finisher wakes the readers, then the call that waits for the end. *)
SignalEnd(j) ==
  /\ finisher[j] = "signal"
  /\ finisher' = [finisher EXCEPT ![j] = "finish"]
  /\ revision' = [revision EXCEPT ![j] = @ + 1]
  /\ UNCHANGED <<job, buffers, sink, attacher, chunk, turn_cancelled, reader, batch, history, bounds>>

FinishEnd(j) ==
  /\ finisher[j] = "finish"
  /\ finisher' = [finisher EXCEPT ![j] = "ended"]
  /\ UNCHANGED <<job, buffers, sink, attacher, chunk, revision, turn_cancelled, reader, batch,
                 history, bounds>>

(* A call whose job was accepted attaches the sink, then looks at the status. *)
AttachSink(j) ==
  /\ call[j] = "accepted"
  /\ call' = [call EXCEPT ![j] = "done"]
  /\ sink' = sink \cup {j}
  /\ attacher' = [attacher EXCEPT ![j] = "check"]
  /\ UNCHANGED <<status, sessions, alive, written, pushed, cancelled, buffers, finisher, chunk, revision,
                 turn_cancelled, reader, batch, history, bounds>>

CheckAttached(j) ==
  /\ attacher[j] = "check"
  /\ attacher' = [attacher EXCEPT ![j] =
       IF is_terminal(j) /\ ~reported[j] THEN "publish" ELSE "ended"]
  /\ UNCHANGED <<job, buffers, sink, finisher, chunk, revision, turn_cancelled, reader, batch,
                 history, bounds>>

-----------------------------------------------------------------------------
(* Reading *)

(* read_output: everything unread, and an end that is read counts as reported. *)
ReadOutput(j) ==
  /\ shown' = [shown EXCEPT ![j] = @ \cup ToSet(unread[j])]
  /\ unread' = [unread EXCEPT ![j] = <<>>]
  /\ reported' = [reported EXCEPT ![j] = @ \/ is_terminal(j)]
  /\ told' = IF is_terminal(j) THEN [told EXCEPT ![j] = Append(@, "read")] ELSE told
  /\ UNCHANGED dropped

(* wait_for_output of the call itself: the end, or the time to yield. *)
WaitForOutput(j) ==
  /\ call[j] = "foreground"
  /\ \/ /\ finisher[j] = "ended" \/ is_terminal(j)
        /\ ReadOutput(j)
        /\ call' = [call EXCEPT ![j] = "done"]
     \/ /\ finisher[j] # "ended"
        /\ call' = [call EXCEPT ![j] = "accepted"]
        /\ UNCHANGED <<buffers, history>>
  /\ UNCHANGED <<status, sessions, alive, written, pushed, cancelled, delivery, revision, turn_cancelled,
                 reader, batch, bounds>>

(* The call of j has returned: its sink is attached and published if need be. *)
Returned(j) == call[j] \in {"done", "failed"} /\ attacher[j] \in {"none", "ended"}

(* background_output read: wait_for_readable_output subscribes before it looks. *)
BeginRead(j) ==
  /\ reader = NoReader
  /\ reads < MaxReads
  /\ reads' = reads + 1
  /\ Returned(j) /\ status[j] # "absent"
  /\ reader' = [at |-> "look", job |-> j, seen |-> revision[j]]
  /\ UNCHANGED <<job, buffers, delivery, revision, turn_cancelled, batch, history, rounds, faults>>

(* Output wakes the reader of a session; any other job is read at its end. *)
Readable(j) == is_terminal(j) \/ (j \in sessions /\ unread[j] # <<>>)

Look ==
  /\ reader.at = "look"
  /\ IF Readable(reader.job)
     THEN ReadOutput(reader.job) /\ reader' = NoReader
     ELSE /\ reader' = [reader EXCEPT !.at = "drowsy"]
          /\ UNCHANGED <<buffers, history>>
  /\ UNCHANGED <<job, delivery, revision, turn_cancelled, batch, bounds>>

(* Faulty variant: the reader waits for changes after the ones made meanwhile. *)
Sleep_resubscribes ==
  /\ reader.at = "drowsy"
  /\ reader' = [reader EXCEPT !.at = "asleep", !.seen = revision[reader.job]]
  /\ UNCHANGED <<job, buffers, delivery, revision, turn_cancelled, batch, history, bounds>>

(* changes.changed() compares with the revision seen at the subscription. *)
Sleep ==
  /\ reader.at = "drowsy"
  /\ reader' = [reader EXCEPT !.at = "asleep"]
  /\ UNCHANGED <<job, buffers, delivery, revision, turn_cancelled, batch, history, bounds>>

(* A change, or the deadline: then whatever there is is read. *)
Wake ==
  /\ reader.at = "asleep"
  /\ \/ /\ revision[reader.job] > reader.seen
        /\ reader' = [reader EXCEPT !.at = "look", !.seen = revision[reader.job]]
        /\ UNCHANGED <<buffers, history>>
     \/ /\ ReadOutput(reader.job)
        /\ reader' = NoReader
  /\ UNCHANGED <<job, delivery, revision, turn_cancelled, batch, bounds>>

-----------------------------------------------------------------------------
(* Model rounds, stopping *)

(* collect_step_reminders: pending_completions consumes nothing. The calls   *)
(* of the last round have returned; those of the next may run before it ends. *)
CollectReminders ==
  /\ batch = {}
  /\ reader = NoReader
  /\ \A j \in Jobs : call[j] = "none" \/ Returned(j)
  /\ rounds < MaxRounds
  /\ rounds' = rounds + 1
  /\ batch' = {[job |-> j, bytes |-> ToSet(unread[j])] :
                 j \in {k \in Jobs : is_terminal(k) /\ ~reported[k]}}
  /\ UNCHANGED <<job, buffers, delivery, revision, turn_cancelled, reader, history, reads, faults>>

(* commit_step_reminders: mark_reported, once the model has answered.  *)
CommitReminders ==
  LET told_now == {c.job : c \in batch} IN
  /\ batch # {}
  /\ batch' = {}
  /\ shown' = [j \in Jobs |-> shown[j] \cup UNION {c.bytes : c \in {d \in batch : d.job = j}}]
  /\ told' = [j \in Jobs |-> IF j \in told_now THEN Append(told[j], "round") ELSE told[j]]
  /\ reported' = [j \in Jobs |-> reported[j] \/ j \in told_now]
  /\ unread' = [j \in Jobs |-> IF j \in told_now THEN <<>> ELSE unread[j]]
  /\ UNCHANGED <<job, dropped, delivery, revision, turn_cancelled, reader, bounds>>

FailRound ==
  /\ batch # {}
  /\ batch' = {}
  /\ UNCHANGED <<job, buffers, delivery, revision, turn_cancelled, reader, history, bounds>>

Stop(j) ==
  /\ status[j] # "absent"
  /\ j \notin cancelled
  /\ cancelled' = cancelled \cup {j}
  /\ UNCHANGED <<call, status, sessions, alive, written, pushed, buffers, delivery, revision,
                 turn_cancelled, reader, batch, history, bounds>>

CancelTurn ==
  /\ ~turn_cancelled
  /\ turn_cancelled' = TRUE
  /\ UNCHANGED <<job, buffers, delivery, revision, reader, batch, history, bounds>>

(* Faulty variant: the link ends with the call that started the job.         *)
Linked_to_call(j) == call[j] # "done"

(* The linking task lives until the job has finished.  *)
Linked(j) == finisher[j] # "ended"

LinkCancels(j) ==
  /\ turn_cancelled
  /\ status[j] = "running"
  /\ Linked(j)
  /\ j \notin cancelled
  /\ cancelled' = cancelled \cup {j}
  /\ UNCHANGED <<call, status, sessions, alive, written, pushed, buffers, delivery, revision,
                 turn_cancelled, reader, batch, history, bounds>>

-----------------------------------------------------------------------------
Runtime(j) ==
  \/ PushOutput(j) \/ Finish(j) \/ SignalEnd(j) \/ FinishEnd(j)
  \/ AttachSink(j) \/ CheckAttached(j) \/ LinkCancels(j)
  \/ \E p \in {"finisher", "attacher"} : Publish(p, j)

JobsNext ==
  \/ \E j \in Jobs : \/ CountRunning(j) \/ InsertJob(j) \/ WriteByte(j) \/ ProcessEnds(j)
                     \/ Runtime(j) \/ WaitForOutput(j) \/ BeginRead(j) \/ Stop(j)
  \/ Look \/ Sleep \/ Wake
  \/ CollectReminders \/ CommitReminders \/ FailRound \/ CancelTurn

JobsSpec == JobsInit /\ [][JobsNext]_jobVars

(* The tasks of the runtime are scheduled, and a cancelled process is killed. *)
FairJobsSpec ==
  /\ JobsSpec
  /\ \A j \in Jobs : /\ WF_jobVars(Runtime(j))
                     /\ WF_jobVars(j \in cancelled /\ ProcessEnds(j))

-----------------------------------------------------------------------------
(* Properties *)

(* No byte is lost between the process and the model: it was shown, it can   *)
(* still be read, or it is counted as dropped, whoever cleared the buffer.   *)
OutputConserved ==
  \A j \in Jobs : 1..pushed[j] = shown[j] \cup ToSet(unread[j]) \cup dropped[j]

(* The end of a job and a late attach race, but only one of them publishes.  *)
SinkDeliversOnce ==
  \A j \in Jobs : Cardinality({i \in DOMAIN told[j] : told[j][i] = "sink"}) <= 1

(* What a job produced is told completely and once: every byte is shown,     *)
(* buffered or counted as dropped (StreamBuffer::push), and the sink is used *)
(* once (publish_completion).                                                *)
OutputToldOnce == JobsTypeOK /\ OutputConserved /\ SinkDeliversOnce

(* A reader does not sleep through what it waits for: a change it has not    *)
(* seen is there, or the finisher has still to signal it.                    *)
NoMissedChange ==
  reader.at = "asleep" /\ Readable(reader.job) =>
    \/ revision[reader.job] > reader.seen
    \/ finisher[reader.job] \in PublishSteps \cup {"signal"}

(* A job that was left to run reports its end, unless the store refused it.  *)
EndIsTold ==
  \A j \in Jobs : is_terminal(j) /\ call[j] = "done" ~> reported[j] \/ faults > 0

(* Stopping the Turn stops every job started under it, the later ones too.   *)
TurnCancelStopsJobs ==
  \A j \in Jobs : turn_cancelled /\ status[j] = "running" ~> is_terminal(j)

(* No job is left over: each one reports its end, and none outlives the      *)
(* cancellation of its Turn (link_turn_cancellation).                        *)
JobsSettle == EndIsTold /\ TurnCancelStopsJobs

=============================================================================
