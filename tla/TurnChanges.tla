----------------------------- MODULE TurnChanges -----------------------------
(***************************************************************************)
(* FileMutationBatch and TurnChangeManager: the tool calls of one Turn     *)
(* commit batches of file writes under per-path locks and journal their    *)
(* net effect; when the Turn is over the journal becomes a change set that *)
(* can be undone, by a three-way merge that keeps what was edited later.   *)
(* The user may edit any file at any time: no lock stops that.             *)
(*                                                                         *)
(* A file is Absent or a pair of separate hunks. Renames are left out: a   *)
(* rename is a deletion and an addition here.                              *)
(***************************************************************************)
EXTENDS Integers, Sequences, FiniteSetsExt

CONSTANTS
  Writers,       \* tool calls of the Turn that run at the same time
  Undoers,       \* undo requests: a bound, each is made once
  Paths,         \* numbered in the order of mutation_path_key
  Hunks,         \* what a hunk of a file may hold
  Versions,      \* the contents each path may get
  InitialFile,
  MaxBatches,    \* bound: batches
  MaxEdits,      \* bound: edits by the user
  MaxFaults      \* bound: writes that fail

Absent == <<>>
Contents == {Absent} \cup [1..2 -> Hunks]
Free == "free"

(* A tool call and an undo request are different tasks, and a lock that is   *)
(* free has no owner.                                                        *)
ASSUME ChangesAssumption ==
  /\ \E last \in Paths : Paths \subseteq 0..last
  /\ Versions \in [Paths -> SUBSET Contents]
  /\ InitialFile \in [Paths -> Contents]
  /\ Writers \cap Undoers = {} /\ Free \notin Writers \cup Undoers
  /\ MaxBatches \in Nat /\ MaxEdits \in Nat /\ MaxFaults \in Nat

VARIABLES
  file,            \* the workspace
  turn,            \* what the Turn is doing
  change_set,      \* its TurnChangeSet in the store
  finalizing,      \* the change set finalize_capture has read
  writer,          \* each tool call
  undo,            \* each undo request
  path_lock,       \* MUTATION_LOCKS
  journal_lock,
  workspace_lock,  \* the undo that holds the lock of the workspace
  committed,       \* [Paths -> mutations of batches that succeeded, in order] (history)
  settled,         \* each file as the last edit, batch or undo left it (history)
  disturbed,       \* files edited while they were locked (history)
  batches, edits, faults

locks == <<path_lock, journal_lock, workspace_lock>>
history == <<committed, settled, disturbed>>
bounds == <<batches, edits, faults>>
changeVars == <<file, turn, change_set, finalizing, writer, undo, locks, history, bounds>>

NoSet == [status |-> "none", files |-> <<>>, reverted |-> FALSE]
(* A tool call without a batch, and an undo that nobody asked for.           *)
Idle == [at |-> "idle", done |-> {}, batch |-> <<>>, view |-> NoSet]
NoUndo == [at |-> "idle", set |-> NoSet, observed |-> <<>>, plan |-> <<>>, done |-> {}]

(* The journal holds a net change of some paths, never an empty one, and a   *)
(* lock is held by a task that is at work.                                   *)
ChangesTypeOK ==
  /\ file \in [Paths -> Contents]
  /\ turn \in {"new", "running", "paused", "ended"}
  /\ change_set.status \in {"none", "unavailable", "capturing", "ready", "empty", "failed"}
  /\ DOMAIN change_set.files \subseteq Paths
  /\ \A p \in DOMAIN change_set.files : change_set.files[p].before # change_set.files[p].after
  /\ change_set.status = "empty" => change_set.files = <<>>
  /\ \A p \in Paths : path_lock[p] \in Writers => writer[path_lock[p]].at # "idle"
  /\ \A p \in Paths : path_lock[p] \in Undoers => undo[path_lock[p]].at \notin {"idle", "answered"}
  /\ workspace_lock \in Undoers => turn # "running"

ChangesInit ==
  /\ file = InitialFile
  /\ turn = "new" /\ change_set = NoSet /\ finalizing = NoSet
  /\ writer = [w \in Writers |-> Idle]
  /\ undo = [u \in Undoers |-> NoUndo]
  /\ path_lock = [p \in Paths |-> Free] /\ journal_lock = Free /\ workspace_lock = Free
  /\ committed = [p \in Paths |-> <<>>] /\ settled = file /\ disturbed = {}
  /\ batches = 0 /\ edits = 0 /\ faults = 0

Released(owner) == [p \in Paths |-> IF path_lock[p] = owner THEN Free ELSE path_lock[p]]
Held(owner) == {p \in Paths : path_lock[p] = owner}

(* Faulty variant: the paths are locked in the order of the batch.           *)
NextPath_any_order(paths) == paths

(* lock_mutation_paths: the next lock to wait for.                           *)
NextPath(paths) == {Min(paths)}

-----------------------------------------------------------------------------
(* The Turn *)

(* The Turn takes the workspace guard, shared, and starts its journal; where *)
(* there is no repository the journal is unavailable and nothing is recorded. *)
BeginTurn ==
  /\ turn = "new" /\ workspace_lock = Free
  /\ turn' = "running"
  /\ \E s \in {"capturing", "unavailable"} : change_set' = [NoSet EXCEPT !.status = s]
  /\ UNCHANGED <<file, finalizing, writer, undo, locks, history, bounds>>

(* A Turn that waits gives up its guard; resume_capture keeps the journal.   *)
PauseTurn ==
  /\ turn = "running" /\ turn' = "paused"
  /\ UNCHANGED <<file, change_set, finalizing, writer, undo, locks, history, bounds>>

ResumeTurn ==
  /\ turn = "paused" /\ workspace_lock = Free
  /\ turn' = "running"
  /\ UNCHANGED <<file, change_set, finalizing, writer, undo, locks, history, bounds>>

(* finalize_capture_scoped reads the set, builds the trees and writes it.    *)
FinalizeRead ==
  /\ turn \in {"running", "paused"} /\ finalizing = NoSet
  /\ finalizing' = change_set
  /\ UNCHANGED <<file, turn, change_set, writer, undo, locks, history, bounds>>

(* An empty journal is Empty, unless a shell command reported writes. The    *)
(* git commands may fail.                                                    *)
FinalizeWrite ==
  /\ finalizing # NoSet /\ turn # "ended"
  /\ turn' = "ended"
  /\ IF finalizing.status # "capturing" THEN UNCHANGED change_set
     ELSE \E s \in (IF finalizing.files = <<>> THEN {"empty", "failed"} ELSE {"ready", "failed"}) :
            change_set' = [finalizing EXCEPT !.status = s]
  /\ UNCHANGED <<file, finalizing, writer, undo, locks, history, bounds>>

-----------------------------------------------------------------------------
(* One batch *)

(* A tool call reads the files and prepares what it will write.              *)
PrepareBatch(w) ==
  /\ writer[w].at = "idle" /\ turn = "running" /\ batches < MaxBatches
  /\ batches' = batches + 1
  /\ \E ps \in SUBSET Paths \ {{}} : \E target \in [ps -> Contents] :
       /\ \A p \in ps : target[p] \in Versions[p] \ {file[p]}
       /\ writer' = [writer EXCEPT ![w] =
            [Idle EXCEPT !.at = "lock",
             !.batch = [p \in ps |-> [original |-> file[p], target |-> target[p]]]]]
  /\ UNCHANGED <<file, turn, change_set, finalizing, undo, locks, history, edits, faults>>

Batch(w) == writer[w].batch
GoTo(w, step) == writer' = [writer EXCEPT ![w].at = step]

LockPath(w) ==
  /\ writer[w].at = "lock"
  /\ LET missing == DOMAIN Batch(w) \ Held(w) IN
     IF missing = {} THEN GoTo(w, "validate") /\ UNCHANGED path_lock
     ELSE \E p \in NextPath(missing) :
            /\ path_lock[p] = Free
            /\ path_lock' = [path_lock EXCEPT ![p] = w]
            /\ UNCHANGED writer
  /\ UNCHANGED <<file, turn, change_set, finalizing, undo, journal_lock, workspace_lock, history, bounds>>

(* A file is no longer what the batch was prepared for.                      *)
Stale(w) == \E p \in DOMAIN Batch(w) : file[p] # Batch(w)[p].original

Return(w) ==
  /\ writer' = [writer EXCEPT ![w] = Idle]
  /\ path_lock' = Released(w)

Validate(w) ==
  /\ writer[w].at = "validate"
  /\ IF Stale(w) THEN Return(w) ELSE GoTo(w, "write") /\ UNCHANGED path_lock
  /\ UNCHANGED <<file, turn, change_set, finalizing, undo, journal_lock, workspace_lock, history, bounds>>

(* The mutations are applied one by one; the first to fail starts a rollback. *)
WriteNext(w) ==
  /\ writer[w].at = "write"
  /\ LET rest == DOMAIN Batch(w) \ writer[w].done IN
     \/ /\ rest = {}
        /\ GoTo(w, "record") /\ UNCHANGED <<file, faults>>
     \/ /\ rest # {}
        /\ file' = [file EXCEPT ![Min(rest)] = Batch(w)[Min(rest)].target]
        /\ writer' = [writer EXCEPT ![w].done = writer[w].done \cup {Min(rest)}]
        /\ UNCHANGED faults
     \/ /\ rest # {} /\ faults < MaxFaults
        /\ faults' = faults + 1
        /\ GoTo(w, "rollback") /\ UNCHANGED file
  /\ UNCHANGED <<turn, change_set, finalizing, undo, locks, history, batches, edits>>

(* Faulty variant: the merge of the journal is not serialized.               *)
JournalFree_always(w) == TRUE

JournalFree(w) == journal_lock = Free

(* record_file_mutations reads the set under journal_lock ...                *)
RecordRead(w) ==
  /\ writer[w].at = "record"
  /\ JournalFree(w) /\ journal_lock' = w
  /\ writer' = [writer EXCEPT ![w] = [@ EXCEPT !.at = "merge", !.view = change_set]]
  /\ UNCHANGED <<file, turn, change_set, finalizing, undo, path_lock, workspace_lock, history, bounds>>

(* ... keeps the first state of a file the Turn wrote before, and drops a    *)
(* file that is back to it ...                                               *)
Merged(files, b) ==
  LET net == [p \in DOMAIN b |->
               [before |-> IF p \in DOMAIN files THEN files[p].before ELSE b[p].original,
                after |-> b[p].target]]
      kept == (DOMAIN files \ DOMAIN b) \cup {p \in DOMAIN b : net[p].before # net[p].after}
  IN [p \in kept |-> IF p \in DOMAIN b THEN net[p] ELSE files[p]]

(* ... and writes it back. A set that is finalized refuses the batch, and so *)
(* does a store that fails: the files are rolled back.                       *)
RecordWrite(w) ==
  /\ writer[w].at = "merge"
  /\ journal_lock' = Free
  /\ \/ /\ writer[w].view.status = "capturing"
        /\ change_set' = [writer[w].view EXCEPT !.files = Merged(@, Batch(w))]
        /\ UNCHANGED faults
     \/ /\ writer[w].view.status = "unavailable"
        /\ UNCHANGED <<change_set, faults>>
  /\ committed' = [p \in Paths |-> IF p \in DOMAIN Batch(w)
                                   THEN Append(committed[p], Batch(w)[p]) ELSE committed[p]]
  /\ settled' = [p \in Paths |-> IF p \in DOMAIN Batch(w) THEN file[p] ELSE settled[p]]
  /\ Return(w)
  /\ UNCHANGED <<file, turn, finalizing, undo, workspace_lock, disturbed, batches, edits>>

RecordRefused(w) ==
  /\ writer[w].at = "merge"
  /\ journal_lock' = Free
  /\ \/ /\ writer[w].view.status \notin {"capturing", "unavailable"}
        /\ UNCHANGED faults
     \/ /\ faults < MaxFaults /\ faults' = faults + 1
  /\ GoTo(w, "rollback")
  /\ UNCHANGED <<file, turn, change_set, finalizing, undo, path_lock, workspace_lock, history, batches, edits>>

(* rollback_after_error goes backwards ...                                   *)
RollbackPath(w) == IF writer[w].done = {} THEN {} ELSE {Max(writer[w].done)}

(* ... and leaves a file that is not as the batch wrote it.                  *)
Rollback(w) ==
  /\ writer[w].at = "rollback"
  /\ \/ /\ RollbackPath(w) = {}
        /\ Return(w) /\ UNCHANGED file
     \/ \E p \in RollbackPath(w) :
          /\ file' = [file EXCEPT ![p] = IF @ = Batch(w)[p].target THEN Batch(w)[p].original ELSE @]
          /\ writer' = [writer EXCEPT ![w].done = writer[w].done \ {p}]
          /\ UNCHANGED path_lock
  /\ UNCHANGED <<turn, change_set, finalizing, undo, journal_lock, workspace_lock, history, bounds>>
-----------------------------------------------------------------------------
(* Undo *)

(* The handler reads the change set and then waits for the workspace. A set  *)
(* that is not Ready when it is read is refused later, without effect.       *)
RequestUndo(u) ==
  /\ undo[u].at = "idle" /\ change_set.status = "ready"
  /\ undo' = [undo EXCEPT ![u] = [@ EXCEPT !.at = "workspace", !.set = change_set]]
  /\ UNCHANGED <<file, turn, change_set, finalizing, writer, locks, history, bounds>>

LockWorkspace(u) ==
  /\ undo[u].at = "workspace"
  /\ workspace_lock = Free /\ turn # "running"
  /\ workspace_lock' = u
  /\ undo' = [undo EXCEPT ![u].at = "paths"]
  /\ UNCHANGED <<file, turn, change_set, finalizing, writer, path_lock, journal_lock, history, bounds>>

LockUndoPath(u) ==
  /\ undo[u].at = "paths"
  /\ LET missing == DOMAIN undo[u].set.files \ Held(u) IN
     IF missing = {} THEN undo' = [undo EXCEPT ![u].at = "plan"] /\ UNCHANGED path_lock
     ELSE \E p \in NextPath(missing) :
            /\ path_lock[p] = Free
            /\ path_lock' = [path_lock EXCEPT ![p] = u]
            /\ UNCHANGED undo
  /\ UNCHANGED <<file, turn, change_set, finalizing, writer, journal_lock, workspace_lock, history, bounds>>

(* Faulty variant: the state before the Turn is put back over later edits.   *)
MergedHunks_before(current, c) == {c.before}

(* merge_contents, and the shortcut for an unchanged file: hunk by hunk the  *)
(* change of the Turn is taken back; a hunk both changed is a conflict.      *)
MergedHunks(current, c) ==
  LET undone(h) == IF current[h] = c.after[h] THEN c.before[h] ELSE current[h]
      conflict == \E h \in DOMAIN current :
        c.before[h] # c.after[h] /\ current[h] \notin {c.before[h], c.after[h]}
  IN IF conflict THEN {} ELSE {[h \in DOMAIN current |-> undone(h)]}

(* plan_file_undo: what the file is to become, or nothing for a conflict.    *)
PlanFile(current, c) ==
  CASE c.before = Absent -> IF current = c.after THEN {Absent} ELSE {}
    [] c.after = Absent -> IF current \in {Absent, c.before} THEN {c.before} ELSE {}
    [] OTHER -> IF current = Absent THEN {} ELSE MergedHunks(current, c)

(* The undo ends: its locks are dropped.                                     *)
EndUndo(u) ==
  /\ undo' = [undo EXCEPT ![u] = [NoUndo EXCEPT !.at = "answered"]]
  /\ path_lock' = Released(u) /\ workspace_lock' = Free

(* build_undo_plan: refused when the set that was read is reverted, or when  *)
(* a file is in conflict.                                                    *)
PlanUndo(u) ==
  /\ undo[u].at = "plan"
  /\ LET set == undo[u].set
         paths == DOMAIN set.files
     IN IF set.reverted \/ \E p \in paths : PlanFile(file[p], set.files[p]) = {}
        THEN EndUndo(u)
        ELSE /\ undo' = [undo EXCEPT ![u] =
                  [@ EXCEPT !.at = "verify", !.observed = [p \in paths |-> file[p]],
                            !.plan = [p \in paths |-> CHOOSE v \in PlanFile(file[p], set.files[p]) : TRUE]]]
             /\ UNCHANGED <<path_lock, workspace_lock>>
  /\ UNCHANGED <<file, turn, change_set, finalizing, writer, journal_lock, history, bounds>>

Observed(u) == \A p \in DOMAIN undo[u].observed : file[p] = undo[u].observed[p]

(* verify_observed_entries, and the backups apply_actions takes, which are   *)
(* then the entries that were observed.                                      *)
VerifyUndo(u) ==
  /\ undo[u].at = "verify"
  /\ IF Observed(u)
     THEN undo' = [undo EXCEPT ![u].at = "apply"]
          /\ UNCHANGED <<path_lock, workspace_lock>>
     ELSE EndUndo(u)
  /\ UNCHANGED <<file, turn, change_set, finalizing, writer, journal_lock, history, bounds>>

(* apply_actions: one file after the other; write_file_atomic removes the    *)
(* old file before the rename, and a failure may come in between.            *)
ApplyNext(u) ==
  /\ undo[u].at = "apply"
  /\ LET rest == DOMAIN undo[u].plan \ undo[u].done IN
     /\ rest # {}
     /\ \/ /\ file' = [file EXCEPT ![Min(rest)] = undo[u].plan[Min(rest)]]
           /\ undo' = [undo EXCEPT ![u].done = undo[u].done \cup {Min(rest)}]
           /\ UNCHANGED faults
        \/ /\ faults < MaxFaults /\ faults' = faults + 1
           /\ file' \in {file, [file EXCEPT ![Min(rest)] = Absent]}
           /\ undo' = [undo EXCEPT ![u] = [@ EXCEPT !.at = "restore", !.done = DOMAIN undo[u].plan]]
  /\ UNCHANGED <<turn, change_set, finalizing, writer, locks, history, batches, edits>>

(* The backups of every file of the plan are put back, in reverse.           *)
RestoreNext(u) ==
  /\ undo[u].at = "restore"
  /\ IF undo[u].done = {} THEN EndUndo(u) /\ UNCHANGED file
     ELSE LET p == Max(undo[u].done) IN
          /\ file' = [file EXCEPT ![p] = undo[u].observed[p]]
          /\ undo' = [undo EXCEPT ![u].done = undo[u].done \ {p}]
          /\ UNCHANGED <<path_lock, workspace_lock>>
  /\ UNCHANGED <<turn, change_set, finalizing, writer, journal_lock, history, bounds>>

MarkReverted(u) ==
  /\ undo[u].at = "apply" /\ undo[u].done = DOMAIN undo[u].plan
  /\ change_set' = [change_set EXCEPT !.reverted = TRUE]
  /\ settled' = [p \in Paths |-> IF p \in DOMAIN undo[u].plan THEN file[p] ELSE settled[p]]
  /\ EndUndo(u)
  /\ UNCHANGED <<file, turn, finalizing, writer, journal_lock, committed, disturbed, bounds>>

-----------------------------------------------------------------------------
(* The user edits a file, whatever is locked.                                *)
Edit(p) ==
  /\ edits < MaxEdits /\ edits' = edits + 1
  /\ \E v \in Versions[p] \ {file[p]} : file' = [file EXCEPT ![p] = v]
  /\ settled' = [settled EXCEPT ![p] = file'[p]]
  /\ disturbed' = IF path_lock[p] = Free THEN disturbed ELSE disturbed \cup {p}
  /\ UNCHANGED <<turn, change_set, finalizing, writer, undo, locks, committed, batches, faults>>

WriterStep(w) ==
  LockPath(w) \/ Validate(w) \/ WriteNext(w) \/ RecordRead(w) \/ RecordWrite(w)
    \/ RecordRefused(w) \/ Rollback(w)

UndoStep(u) ==
  LockWorkspace(u) \/ LockUndoPath(u) \/ PlanUndo(u) \/ VerifyUndo(u) \/ ApplyNext(u)
    \/ RestoreNext(u) \/ MarkReverted(u)

ChangesNext ==
  \/ BeginTurn \/ PauseTurn \/ ResumeTurn \/ FinalizeRead \/ FinalizeWrite
  \/ \E w \in Writers : PrepareBatch(w) \/ WriterStep(w)
  \/ \E u \in Undoers : RequestUndo(u) \/ UndoStep(u)
  \/ \E p \in Paths : Edit(p)

ChangesSpec == ChangesInit /\ [][ChangesNext]_changeVars

(* Tool calls and undo requests that can go on do; nothing makes a Turn end. *)
FairChangesSpec ==
  ChangesSpec /\ (\A w \in Writers : WF_changeVars(WriterStep(w))) /\ (\A u \in Undoers : WF_changeVars(UndoStep(u)))

-----------------------------------------------------------------------------
(* The journal of a capturing Turn is exact, however its tool calls overlap: *)
(* it holds a path exactly when the committed writes have a net effect, with *)
(* the last content written and the first one replaced.                      *)
JournalIsExact ==
  change_set.status = "capturing" =>
    \A p \in Paths :
      LET ms == committed[p]
          n == Len(ms)
      IN IF p \in DOMAIN change_set.files
         THEN /\ n > 0 /\ change_set.files[p].after = ms[n].target
              /\ \E i \in 1..n : change_set.files[p].before = ms[i].original
              /\ (\A i \in 1..(n - 1) : ms[i].target # ms[1].original) =>
                   change_set.files[p].before = ms[1].original
         ELSE n > 0 => \E i \in 1..n : ms[i].original = ms[n].target

(* A batch or an undo that fails leaves no trace: a file nobody has locked   *)
(* is as the last edit, committed batch or applied undo left it. Files the   *)
(* user edited while they were locked are excepted.                          *)
FilesSettle ==
  \A p \in Paths \ disturbed : path_lock[p] = Free => file[p] = settled[p]

(* Files and journal agree with the batches that succeeded, and with no      *)
(* others (commit_observed, record_file_mutations).                          *)
BatchesAreAtomic == ChangesTypeOK /\ JournalIsExact /\ FilesSettle

(* An applied undo takes back the change of the Turn and nothing else: a     *)
(* hunk the Turn changed and nobody changed since is as it was before the    *)
(* Turn, every other hunk is as the user last left it.                       *)
UndoIsExact ==
  [][ \A u \in Undoers : MarkReverted(u) =>
        \A p \in DOMAIN undo[u].plan \ disturbed :
          LET c == undo[u].set.files[p] IN
          IF Absent \in {c.before, c.after} THEN file[p] = c.before
          ELSE \A h \in DOMAIN file[p] :
                 file[p][h] = IF settled[p][h] = c.after[h] THEN c.before[h] ELSE settled[p][h] ]_changeVars

(* An undo never overwrites an edit the user made after the plan was drawn   *)
(* up and before it was verified.                                            *)
PlanIsCurrent ==
  [][ \A u \in Undoers : undo[u].at = "verify" /\ undo'[u].at = "apply" =>
        \A p \in DOMAIN undo[u].plan : undo[u].plan[p] \in PlanFile(file[p], undo[u].set.files[p]) ]_changeVars

(* An undo does what the user confirmed (TurnChangeManager::undo): it takes  *)
(* back the Turn's changes, on the files as they are.                        *)
UndoKeepsEdits == UndoIsExact /\ PlanIsCurrent

(* Every lock on a path is given back: batches and undo requests that want   *)
(* the same files never wait for each other in a circle.                     *)
PathsReleased == \A p \in Paths : path_lock[p] # Free ~> path_lock[p] = Free
=============================================================================
