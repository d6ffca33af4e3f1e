----------------------------- MODULE Workspace -----------------------------
(***************************************************************************)
(* The commands that share one workspace: inspect, apply --preview, apply  *)
(* --commit, recover --list, --complete and --rollback, run by concurrent  *)
(* processes, while somebody else edits the files and processes die.       *)
(*                                                                         *)
(* Files are directory entries that name inodes, so that an open handle    *)
(* outlives the entry.  A file is read in two parts: its contents are      *)
(* pairs, and whoever writes a file writes both parts at once, so a pair   *)
(* with different halves is a read that mixed two states.                  *)
(*                                                                         *)
(* The transaction engine is the subject of module Transaction; here one   *)
(* step moves an original away or a candidate into place, and what it      *)
(* verifies around the rename happens in that step.                        *)
(***************************************************************************)
EXTENDS Naturals, Sequences, FiniteSets, SequencesExt

CONSTANTS
  Procs,        \* process slots of the machine
  Paths,        \* workspace-relative paths, in the order of the snapshot
  Layouts,      \* initial directories: path -> entry
  Contents,     \* initial contents of the inodes, a sequence of values
  Commands,     \* the command lines users type, recoveries left out
  EditedTo,     \* the values an editor writes
  Replacements, \* the other entries that somebody puts in a file's place
  MAX_ACQUISITION_ATTEMPTS,
  MaxCommands, MaxEdits, MaxCrashes   \* bounds of the exploration

Absent == [kind |-> "absent", inode |-> 0]
Symlink == [kind |-> "symlink", inode |-> 0]
Special == [kind |-> "special", inode |-> 0]
File(inode) == [kind |-> "file", inode |-> inode]
Entries(count) == {Absent, Symlink, Special} \cup {File(i) : i \in 1 .. count}
PathSet == ToSet(Paths)
Whole(value) == <<value, value>>

\* Nobody but srcmv makes an entry for a candidate, which is in the
\* transaction directory until it is installed.
ASSUME WorkspaceAssumption ==
  /\ Paths \in Seq(Nat) /\ \A i, j \in DOMAIN Paths : i < j => Paths[i] < Paths[j]
  /\ Contents \in Seq(ToSet(Contents))
  /\ Layouts \subseteq [PathSet -> Entries(Len(Contents))]
  /\ Replacements \subseteq Entries(Len(Contents))
  /\ \A cmd \in Commands : cmd.kind = "commit" =>
       LET batch == cmd.batch
       IN  /\ batch.targets \in Seq(PathSet)
           /\ \A p \in ToSet(batch.targets) : batch.result[p] = Whole(batch.result[p][1])
  /\ MAX_ACQUISITION_ATTEMPTS \in Nat \ {0}
  /\ MaxCommands \in Nat /\ MaxEdits \in Nat /\ MaxCrashes \in Nat

VARIABLES
  entry,        \* path -> what the directory entry is, and its inode
  inodes,       \* inode number -> contents and time stamp
  control,      \* the objects of .srcmv that exist
  holders,      \* who holds the flock of .srcmv/lock, and how
  tx,           \* the transaction directory, or NoTx
  process,      \* process slot -> what the process is doing
  created,      \* number of transactions created so far
  started, edits, crashes, \* how much of the bounds is used
  writer,       \* path -> who wrote it last (not part of the program's state)
  touched       \* paths edited since a commit last confirmed them (idem)

vars == <<entry, inodes, control, holders, tx, process, created, started,
          edits, crashes, writer, touched>>

-----------------------------------------------------------------------------
(* Files *)

User == [tx |-> 0, targets |-> {}, hole |-> FALSE, user |-> TRUE]
Writer(id, targets, hole) ==
  [tx |-> id, targets |-> targets, hole |-> hole, user |-> FALSE]

(* Any write or rename of a file changes its ctime. *)
Stamped(i, bytes) == [bytes |-> bytes, stamp |-> inodes[i].stamp + 1]

-----------------------------------------------------------------------------
(* The control tree and its lock *)

ControlObjects == <<"control", "transactions", "completed", "lock">>
ControlTreeValid == control = ToSet(ControlObjects)
NoLocks == [shared |-> {}, exclusive |-> {}]
Released(self) == [shared |-> holders.shared \ {self},
                   exclusive |-> holders.exclusive \ {self}]

(* flock: any number of shared holders, or one exclusive holder. *)
SharedIgnoresHolder(exclusive) ==
  IF exclusive THEN holders = NoLocks ELSE TRUE
try_flock(exclusive) ==
  IF exclusive THEN holders = NoLocks ELSE holders.exclusive = {}

NoTx == [phase |-> "none"]
Completed == {"committed", "rolled_back"}
Unfinished == tx.phase \notin Completed \cup {"none"}

-----------------------------------------------------------------------------
(* Processes *)

NoFile == [inode |-> 0, stamp |-> 0, first |-> 0]
NoPlan == <<>>
Idle == [pc |-> "idle", cmd |-> [kind |-> "none"], use |-> "none", todo |-> <<>>,
         attempt |-> 1, open |-> NoFile, snapshot |-> <<>>, prelock |-> NoPlan,
         warned |-> FALSE, error |-> "none", result |-> "none"]

Set(self, state) == process' = [process EXCEPT ![self] = state]
GoTo(self, pc) == process' = [process EXCEPT ![self].pc = pc]
At(self, pc) == process[self].pc = pc
Kind(self) == process[self].cmd.kind
Batch(self) == process[self].cmd.batch

(* A command ends: its report is kept until the slot runs another one, its
   lock file is closed. *)
End(self, result, snapshot, warned) ==
  /\ Set(self, [Idle EXCEPT !.pc = "done", !.result = result, !.snapshot = snapshot,
                             !.warned = warned])
  /\ holders' = Released(self)
Refuse(self, error) == End(self, error, <<>>, FALSE)

Files == <<entry, inodes, writer, touched>>
Budgets == <<started, created, edits, crashes>>

-----------------------------------------------------------------------------
(* Snapshot acquisition: acquire_snapshot for every path in order *)

PathsLeft(todo) == IF todo = <<>> THEN "acquired" ELSE "validate"
AcquireSnapshot(state, use) ==
  [state EXCEPT !.pc = PathsLeft(Paths), !.use = use, !.todo = Paths, !.attempt = 1,
                !.snapshot = <<>>, !.open = NoFile]

(* inspect asks for no state; a batch asks for a digest or for absence. *)
Required(self) ==
  IF Kind(self) = "inspect" THEN [p \in PathSet |-> [kind |-> "any"]]
  ELSE IF process[self].use = "complete" THEN tx.batch.requires
  ELSE Batch(self).requires

PreconditionFailed(required, bytes) ==
  /\ required.kind = "existing"
  /\ required.bytes # bytes

(* A commit that already has a transaction directory rolls it back itself. *)
SnapshotError(self, error) ==
  IF process[self].use = "revalidate"
  THEN /\ Set(self, [process[self] EXCEPT !.pc = "rollback", !.error = error,
                                          !.todo = <<>>, !.open = NoFile,
                                          !.attempt = 1, !.snapshot = <<>>])
       /\ UNCHANGED holders
  ELSE Refuse(self, error)

Observe(self, p, inode, bytes) ==
  LET rest == Tail(process[self].todo)
      seen == [inode |-> inode, bytes |-> bytes, writer |-> writer[p]]
      before == process[self].snapshot
  IN  /\ Set(self, [process[self] EXCEPT
                      !.todo = rest, !.attempt = 1, !.open = NoFile,
                      !.snapshot = [q \in DOMAIN before \cup {p} |->
                                      IF q = p THEN seen ELSE before[q]],
                      !.pc = PathsLeft(rest)])
      /\ touched' = IF process[self].use \in {"revalidate", "complete"}
                    THEN touched \ {p} ELSE touched
      /\ UNCHANGED holders

validate_path(self) ==
  /\ At(self, "validate")
  /\ LET p == Head(process[self].todo)
         required == Required(self)[p]
     IN  \/ /\ entry[p].kind = "symlink"
            /\ SnapshotError(self, "SymlinkNotAllowed")
            /\ UNCHANGED touched
         \/ /\ entry[p].kind = "special"
            /\ SnapshotError(self, "UnsupportedFileType")
            /\ UNCHANGED touched
         \/ /\ \/ entry[p].kind = "absent" /\ required.kind = "existing"
               \/ entry[p].kind = "file" /\ required.kind = "absent"
            /\ SnapshotError(self, "PreconditionFailed")
            /\ UNCHANGED touched
         \/ /\ entry[p].kind = "absent" /\ required.kind # "existing"
            /\ Observe(self, p, 0, <<>>)
         \/ /\ entry[p].kind = "file" /\ required.kind # "absent"
            /\ Set(self, [process[self] EXCEPT
                            !.pc = "open", !.open = [NoFile EXCEPT !.inode = entry[p].inode]])
            /\ UNCHANGED <<holders, touched>>
  /\ UNCHANGED <<entry, inodes, writer, control, tx, Budgets>>

Unstable(self) ==
  IF process[self].attempt < MAX_ACQUISITION_ATTEMPTS
  THEN /\ Set(self, [process[self] EXCEPT !.pc = "validate", !.open = NoFile,
                                          !.attempt = @ + 1])
       /\ UNCHANGED holders
  ELSE SnapshotError(self, "FileChanged")

(* File::open follows the entry as it is now; the handle must be the inode
   that was validated. *)
open_snapshot_file(self) ==
  /\ At(self, "open")
  /\ LET p == Head(process[self].todo)
         inode == process[self].open.inode
     IN  IF entry[p] # File(inode)
         THEN Unstable(self)
         ELSE /\ Set(self, [process[self] EXCEPT
                              !.pc = "read",
                              !.open = [inode |-> inode, stamp |-> inodes[inode].stamp,
                                        first |-> inodes[inode].bytes[1]]])
              /\ UNCHANGED holders
  /\ UNCHANGED <<Files, control, tx, Budgets>>

(* The signature of the open file, and the entry, are as they were. *)
StableUnlessReplaced(p, open) == entry[p] = File(open.inode)
Stable(p, open) ==
  /\ inodes[open.inode].stamp = open.stamp
  /\ entry[p] = File(open.inode)

reject_alias(self, inode) ==
  \E p \in DOMAIN process[self].snapshot : process[self].snapshot[p].inode = inode

acquire_existing_attempt(self) ==
  /\ At(self, "read")
  /\ LET p == Head(process[self].todo)
         open == process[self].open
         bytes == <<open.first, inodes[open.inode].bytes[2]>>
     IN  \/ /\ ~Stable(p, open)
            /\ Unstable(self)
            /\ UNCHANGED touched
         \/ /\ Stable(p, open)
            /\ PreconditionFailed(Required(self)[p], bytes)
            /\ SnapshotError(self, "PreconditionFailed")
            /\ UNCHANGED touched
         \/ /\ Stable(p, open)
            /\ ~PreconditionFailed(Required(self)[p], bytes)
            /\ reject_alias(self, open.inode)
            /\ SnapshotError(self, "FileAlias")
            /\ UNCHANGED touched
         \/ /\ Stable(p, open)
            /\ ~PreconditionFailed(Required(self)[p], bytes)
            /\ ~reject_alias(self, open.inode)
            /\ Observe(self, p, open.inode, bytes)
  /\ UNCHANGED <<entry, inodes, writer, control, tx, Budgets>>

-----------------------------------------------------------------------------
(* Locks *)

(* Shared: no control tree, no lock and a warning; a partial tree is refused.
   A recovery takes the lock only to learn that there is a tree. *)
diagnostic_lock(self) ==
  /\ At(self, "diagnose")
  /\ \/ /\ "control" \notin control
        /\ CASE Kind(self) \in {"complete", "rollback"} ->
                  Refuse(self, "TransactionNotFound")
             [] Kind(self) = "list" -> End(self, "listed", <<>>, FALSE)
             [] Kind(self) = "commit" -> End(self, "no_op", <<>>, TRUE)
             [] OTHER -> /\ Set(self, AcquireSnapshot([process[self] EXCEPT !.warned = TRUE],
                                                      "report"))
                         /\ UNCHANGED holders
     \/ /\ "control" \in control /\ ~ControlTreeValid
        /\ Refuse(self, "ControlDirectoryInvalid")
     \/ /\ ControlTreeValid
        /\ GoTo(self, "share")
        /\ UNCHANGED holders
  /\ UNCHANGED <<Files, control, tx, Budgets>>

share(self) ==
  /\ At(self, "share")
  /\ \/ /\ ~try_flock(FALSE)
        /\ Refuse(self, "TransactionBusy")
     \/ /\ try_flock(FALSE)
        /\ holders' = [holders EXCEPT !.shared = @ \cup {self}]
        /\ GoTo(self, "scan")
  /\ UNCHANGED <<Files, control, tx, Budgets>>

(* What follows the shared lock: the scan of diagnostic_context, the list, or
   the release that comes before a recovery asks for the exclusive lock. *)
diagnostic_context(self) ==
  /\ At(self, "scan")
  /\ CASE Kind(self) = "list" -> End(self, "listed", <<>>, FALSE)
       [] Kind(self) \in {"complete", "rollback"} ->
            /\ GoTo(self, "exclude")
            /\ holders' = Released(self)
       [] OTHER ->
            \/ /\ Unfinished
               /\ Refuse(self, "TransactionRecoveryRequired")
            \/ /\ ~Unfinished /\ Kind(self) = "commit"
               /\ End(self, "no_op", <<>>, FALSE)
            \/ /\ ~Unfinished /\ Kind(self) # "commit"
               /\ Set(self, AcquireSnapshot(process[self], "report"))
               /\ UNCHANGED holders
  /\ UNCHANGED <<Files, control, tx, Budgets>>

(* A commit creates what is missing of the control tree, in this order, and
   tolerates that somebody else created it. *)
create_or_validate_control_tree(self) ==
  /\ At(self, "create")
  /\ LET missing == SelectSeq(ControlObjects, LAMBDA o : o \notin control)
     IN  /\ control' = IF missing = <<>> THEN control ELSE control \cup {Head(missing)}
         /\ GoTo(self, IF Len(missing) <= 1 THEN "exclude" ELSE "create")
  /\ UNCHANGED <<Files, holders, tx, Budgets>>

(* The tree only grows, so it is still valid when the lock is taken; nobody
   removes .srcmv in this model. *)
mutation_lock(self) ==
  /\ At(self, "exclude")
  /\ \/ /\ ~try_flock(TRUE)
        /\ Refuse(self, "TransactionBusy")
     \/ /\ try_flock(TRUE)
        /\ holders' = [holders EXCEPT !.exclusive = @ \cup {self}]
        /\ GoTo(self, IF Kind(self) = "commit" THEN "gate" ELSE "recover")
  /\ UNCHANGED <<Files, control, tx, Budgets>>

(* No new transaction while one is unfinished; leftovers of finished ones are
   removed. *)
gate_new_transaction(self) ==
  /\ At(self, "gate")
  /\ \/ /\ Unfinished
        /\ Refuse(self, "TransactionRecoveryRequired")
        /\ UNCHANGED tx
     \/ /\ ~Unfinished
        /\ tx' = NoTx
        /\ Set(self, AcquireSnapshot(process[self], "locked"))
        /\ UNCHANGED holders
  /\ UNCHANGED <<Files, control, Budgets>>

-----------------------------------------------------------------------------
(* apply: the plan binds contents and identities of every input *)

PlanDigest(snapshot) ==
  [p \in PathSet |-> <<snapshot[p].inode, snapshot[p].bytes>>]
Unexpected(self, digest) ==
  LET expect == process[self].cmd.expect IN expect # {} /\ digest \notin expect

(* The preview's or inspection's report is built while the lock is held. *)
report(self) ==
  /\ At(self, "acquired") /\ process[self].use = "report"
  /\ End(self, "reported", process[self].snapshot, process[self].warned)
  /\ UNCHANGED <<Files, control, tx, Budgets>>

prelock_plan(self) ==
  /\ At(self, "acquired") /\ process[self].use = "prelock"
  /\ LET digest == PlanDigest(process[self].snapshot)
     IN  \/ /\ Unexpected(self, digest)
            /\ Refuse(self, "ExpectedPlanMismatch")
         \/ /\ ~Unexpected(self, digest)
            /\ Set(self, [process[self] EXCEPT
                            !.pc = IF Batch(self).targets = <<>> THEN "diagnose"
                                   ELSE "create",
                            !.use = "none", !.prelock = digest, !.snapshot = <<>>])
            /\ UNCHANGED holders
  /\ UNCHANGED <<Files, control, tx, Budgets>>

(* The plan is made again under the lock; then the transaction directory, its
   manifest and its candidates are created. *)
locked_plan(self) ==
  /\ At(self, "acquired") /\ process[self].use = "locked"
  /\ LET snapshot == process[self].snapshot
         digest == PlanDigest(snapshot)
     IN  \/ /\ Unexpected(self, digest)
            /\ Refuse(self, "ExpectedPlanMismatch")
            /\ UNCHANGED <<tx, created>>
         \/ /\ ~Unexpected(self, digest) /\ digest # process[self].prelock
            /\ Refuse(self, "PlanChangedDuringCommit")
            /\ UNCHANGED <<tx, created>>
         \/ /\ ~Unexpected(self, digest) /\ digest = process[self].prelock
            /\ tx' = [phase |-> "preparing", id |-> created + 1, batch |-> Batch(self),
                      inputs |-> digest, before |-> [p \in PathSet |-> snapshot[p].writer],
                      done |-> [p \in PathSet |-> "none"],
                      candidate |-> [p \in PathSet |-> 0],
                      expect |-> process[self].cmd.expect]
            /\ created' = created + 1
            /\ Set(self, [process[self] EXCEPT !.pc = "prepare", !.use = "none",
                                               !.prelock = NoPlan, !.snapshot = <<>>])
            /\ UNCHANGED holders
  /\ UNCHANGED <<Files, control, started, edits, crashes>>

prepare(self) ==
  /\ At(self, "prepare")
  /\ LET targets == tx.batch.targets
         made == [k \in DOMAIN targets |->
                    [bytes |-> tx.batch.result[targets[k]], stamp |-> 0]]
     IN  /\ inodes' = inodes \o made
         /\ tx' = [tx EXCEPT !.phase = "prepared",
                     !.candidate = [p \in PathSet |->
                        IF p \in ToSet(targets)
                        THEN Len(inodes) + CHOOSE k \in DOMAIN targets : targets[k] = p
                        ELSE 0]]
  /\ Set(self, AcquireSnapshot(process[self], "revalidate"))
  /\ UNCHANGED <<entry, writer, touched, control, holders, Budgets>>

(* The inputs are what the manifest says, identities included. *)
SameContents(snapshot) ==
  \A p \in PathSet : snapshot[p].bytes = tx.inputs[p][2]
revalidate_manifest_inputs(snapshot) == PlanDigest(snapshot) = tx.inputs

start_committing(self) ==
  /\ At(self, "acquired") /\ process[self].use \in {"revalidate", "complete"}
  /\ \/ /\ ~revalidate_manifest_inputs(process[self].snapshot)
        /\ SnapshotError(self, "FileChanged")
        /\ UNCHANGED tx
     \/ /\ revalidate_manifest_inputs(process[self].snapshot)
        /\ tx' = [tx EXCEPT !.phase = "committing"]
        /\ Set(self, [process[self] EXCEPT !.pc = "install", !.use = "none",
                                           !.snapshot = <<>>])
        /\ UNCHANGED holders
  /\ UNCHANGED <<Files, control, Budgets>>

-----------------------------------------------------------------------------
(* The transaction, one rename at a time *)

(* What a target's path holds when nobody else interfered. *)
Original(p) ==
  LET inode == tx.inputs[p][1]
  IN  IF inode = 0 THEN entry[p] = Absent
      ELSE entry[p] = File(inode) /\ inodes[inode].bytes = tx.inputs[p][2]
Candidate(p) ==
  LET inode == tx.candidate[p]
  IN  entry[p] = File(inode) /\ inodes[inode].bytes = tx.batch.result[p]
AsRecorded(p) ==
  CASE tx.done[p] = "none"      -> Original(p)
    [] tx.done[p] = "backed_up" -> entry[p] = Absent
    [] tx.done[p] = "installed" -> Candidate(p)

Targets == ToSet(tx.batch.targets)
Rename(p, to, hole, step) ==
  /\ entry' = [entry EXCEPT ![p] = to]
  /\ inodes' = [i \in DOMAIN inodes |->
                  IF i \in {entry[p].inode, to.inode} THEN Stamped(i, inodes[i].bytes) ELSE inodes[i]]
  /\ tx' = [tx EXCEPT !.done[p] = step]
  /\ writer' = [writer EXCEPT ![p] = IF step = "none" THEN tx.before[p]
                                     ELSE Writer(tx.id, Targets, hole)]

(* A commit that fails rolls back; a failed completion leaves the transaction. *)
InstallError(self, error) ==
  IF Kind(self) = "commit"
  THEN /\ Set(self, [process[self] EXCEPT !.pc = "rollback", !.error = error])
       /\ UNCHANGED holders
  ELSE Refuse(self, error)

complete_commit_steps(self) ==
  /\ At(self, "install")
  /\ LET left == {k \in DOMAIN tx.batch.targets : tx.done[tx.batch.targets[k]] # "installed"}
         p == tx.batch.targets[Min(left)]
     IN  \/ /\ left = {}
            /\ tx' = [tx EXCEPT !.phase = "committed"]
            /\ GoTo(self, "cleanup")
            /\ UNCHANGED <<entry, inodes, writer, holders>>
         \/ /\ left # {} /\ ~AsRecorded(p)
            /\ InstallError(self, "RecoveryConflict")
            /\ UNCHANGED <<entry, inodes, writer, tx>>
         \/ /\ left # {} /\ AsRecorded(p)
            /\ IF entry[p] = Absent
               THEN Rename(p, File(tx.candidate[p]), FALSE, "installed")
               ELSE Rename(p, Absent, TRUE, "backed_up")
            /\ UNCHANGED <<process, holders>>
  /\ UNCHANGED <<touched, control, Budgets>>

(* Rollback first classifies every target, then restores them from the last
   to the first. *)
RollbackConflict(self) ==
  Refuse(self, IF Kind(self) = "commit" THEN "TransactionRecoveryRequired"
               ELSE "RecoveryConflict")

RolledBack(self) ==
  IF Kind(self) = "commit" THEN Refuse(self, process[self].error)
  ELSE End(self, "rolled_back", <<>>, FALSE)

recover_rollback_active(self) ==
  /\ At(self, "rollback")
  /\ \/ /\ \E p \in Targets : ~AsRecorded(p)
        /\ RollbackConflict(self)
        /\ UNCHANGED tx
     \/ /\ \A p \in Targets : AsRecorded(p)
        /\ tx' = [tx EXCEPT !.phase = "rolling_back"]
        /\ GoTo(self, "restore")
        /\ UNCHANGED holders
  /\ UNCHANGED <<Files, control, Budgets>>

rollback_all_targets(self) ==
  /\ At(self, "restore")
  /\ LET left == {k \in DOMAIN tx.batch.targets : tx.done[tx.batch.targets[k]] # "none"}
         p == tx.batch.targets[Max(left)]
     IN  \/ /\ left = {}
            /\ tx' = [tx EXCEPT !.phase = "rolled_back"]
            /\ GoTo(self, "cleanup")
            /\ UNCHANGED <<entry, inodes, writer, holders>>
         \/ /\ left # {} /\ ~AsRecorded(p)
            /\ Refuse(self, "TransactionRecoveryRequired")
            /\ UNCHANGED <<entry, inodes, writer, tx>>
         \/ /\ left # {} /\ AsRecorded(p)
            /\ IF tx.done[p] = "installed" /\ tx.inputs[p][1] # 0
               THEN Rename(p, Absent, TRUE, "backed_up")
               ELSE Rename(p, IF tx.inputs[p][1] = 0 THEN Absent ELSE File(tx.inputs[p][1]),
                           FALSE, "none")
            /\ UNCHANGED <<process, holders>>
  /\ UNCHANGED <<touched, control, Budgets>>

(* finish_transaction after its terminal rename. *)
cleanup_completed(self) ==
  /\ At(self, "cleanup")
  /\ tx' = NoTx
  /\ IF tx.phase = "committed" THEN End(self, "committed", <<>>, FALSE) ELSE RolledBack(self)
  /\ UNCHANGED <<Files, control, Budgets>>

(* recover --complete and --rollback look the transaction up again under the
   exclusive lock. *)
recover_locked(self) ==
  /\ At(self, "recover")
  /\ LET complete == Kind(self) = "complete"
     IN  IF tx.phase = "none" \/ tx.id # process[self].cmd.id
         THEN Refuse(self, "TransactionNotFound") /\ UNCHANGED tx
         ELSE   \/ /\ tx.phase \in Completed
                   /\ IF complete = (tx.phase = "committed")
                      THEN GoTo(self, "cleanup") /\ UNCHANGED <<tx, holders>>
                      ELSE Refuse(self, "RecoveryActionNotAllowed") /\ UNCHANGED tx
                \/ /\ tx.phase \in {"preparing", "rolling_back"} /\ complete
                   /\ Refuse(self, "RecoveryActionNotAllowed") /\ UNCHANGED tx
                \/ /\ tx.phase = "preparing" /\ ~complete
                   /\ tx' = NoTx
                   /\ End(self, "rolled_back", <<>>, FALSE)
                \/ /\ tx.phase = "prepared" /\ complete
                   /\ Set(self, AcquireSnapshot(process[self], "complete"))
                   /\ UNCHANGED <<tx, holders>>
                \/ /\ tx.phase = "committing" /\ complete
                   /\ GoTo(self, "install")
                   /\ UNCHANGED <<tx, holders>>
                \/ /\ tx.phase \in {"prepared", "committing", "rolling_back"} /\ ~complete
                   /\ GoTo(self, "rollback")
                   /\ UNCHANGED <<tx, holders>>
  /\ UNCHANGED <<Files, control, Budgets>>

-----------------------------------------------------------------------------
(* Users: commands, edits behind srcmv's back, and kills *)

Recoveries ==
  [kind : {"complete", "rollback"}, id : 1 .. created]

Start(self) ==
  /\ process[self].pc \in {"idle", "done"}
  /\ started < MaxCommands
  /\ started' = started + 1
  /\ \E cmd \in Commands \cup Recoveries :
       LET state == [Idle EXCEPT !.pc = "diagnose", !.cmd = cmd]
       IN  Set(self, IF cmd.kind = "commit" THEN AcquireSnapshot(state, "prelock")
                     ELSE state)
  /\ UNCHANGED <<Files, control, holders, tx, created, edits, crashes>>

Edited(edited) ==
  /\ edits < MaxEdits
  /\ edits' = edits + 1
  /\ touched' = touched \cup edited
  /\ writer' = [p \in PathSet |-> IF p \in edited THEN User ELSE writer[p]]
  /\ UNCHANGED <<control, holders, tx, process, created, started, crashes>>

write_in_place(p) ==
  /\ entry[p].kind = "file"
  /\ \E value \in EditedTo :
       inodes' = [inodes EXCEPT ![entry[p].inode] = Stamped(entry[p].inode, Whole(value))]
  /\ UNCHANGED entry
  /\ Edited({q \in PathSet : entry[q] = entry[p]})

replace_file(p) ==
  /\ \E value \in EditedTo :
       inodes' = Append(inodes, [bytes |-> Whole(value), stamp |-> 0])
  /\ entry' = [entry EXCEPT ![p] = File(Len(inodes) + 1)]
  /\ Edited({p})

replace_entry(p) ==
  /\ \E other \in Replacements \ {entry[p]} :
       entry' = [entry EXCEPT ![p] = other]
  /\ UNCHANGED inodes
  /\ Edited({p})

(* The kernel closes the lock file of a dead process. *)
Crash(self) ==
  /\ process[self].pc \notin {"idle", "done"}
  /\ crashes < MaxCrashes
  /\ crashes' = crashes + 1
  /\ Set(self, Idle)
  /\ holders' = Released(self)
  /\ UNCHANGED <<Files, control, tx, created, started, edits>>

-----------------------------------------------------------------------------
Init ==
  /\ entry \in Layouts
  /\ inodes = [i \in DOMAIN Contents |-> [bytes |-> Whole(Contents[i]), stamp |-> 0]]
  /\ control = {}
  /\ holders = NoLocks
  /\ tx = NoTx
  /\ process = [self \in Procs |-> Idle]
  /\ created = 0 /\ started = 0 /\ edits = 0 /\ crashes = 0
  /\ writer = [p \in PathSet |-> Writer(0, {}, FALSE)]
  /\ touched = {}

Step(self) ==
  \/ validate_path(self) \/ open_snapshot_file(self) \/ acquire_existing_attempt(self)
  \/ diagnostic_lock(self) \/ share(self) \/ diagnostic_context(self)
  \/ create_or_validate_control_tree(self) \/ mutation_lock(self)
  \/ gate_new_transaction(self)
  \/ report(self) \/ prelock_plan(self) \/ locked_plan(self) \/ prepare(self)
  \/ start_committing(self) \/ complete_commit_steps(self)
  \/ recover_rollback_active(self) \/ rollback_all_targets(self)
  \/ cleanup_completed(self) \/ recover_locked(self)

Next ==
  \/ \E self \in Procs : Start(self) \/ Step(self) \/ Crash(self)
  \/ \E p \in PathSet : write_in_place(p) \/ replace_file(p) \/ replace_entry(p)

Spec == Init /\ [][Next]_vars

-----------------------------------------------------------------------------
(* A snapshot in which a transaction is visible in one of its targets and not
   in another one, or in which a target is missing while it is replaced. *)
HalfInstalled(snapshot) ==
  \/ \E p \in DOMAIN snapshot : snapshot[p].writer.hole
  \/ \E p, q \in DOMAIN snapshot :
       LET done == snapshot[p].writer
           other == snapshot[q].writer
       IN  /\ ~done.user /\ ~other.user
           /\ q \in done.targets
           /\ other.tx < done.tx

(* A report of inspect or preview shows contents that each file had at one
   moment, and, unless it carries the warning that no lock coordinated it, no
   transaction of another srcmv process half done, wherever that process is or
   died (execute_inspect, execute_apply and diagnostic_context against
   acquire_existing_attempt and the flock of the control tree). *)
ReportsOneState ==
  \A self \in Procs :
    LET snapshot == process[self].snapshot
    IN  process[self].result = "reported" =>
          /\ \A p \in DOMAIN snapshot :
               snapshot[p].bytes = <<>> \/ snapshot[p].bytes[1] = snapshot[p].bytes[2]
          /\ ~process[self].warned => ~HalfInstalled(snapshot)

(* While a transaction replaces files, by its commit or by a later recovery,
   every input of its plan is what the plan says it is, identity included,
   unless somebody else edited it after the last look at it; and the plan is
   the one the user reviewed (execute_commit, gate_new_transaction and
   revalidate_manifest_inputs). *)
PlanHoldsWhileCommitting ==
  tx.phase = "committing" =>
    /\ \A p \in PathSet \ touched : AsRecorded(p)
    /\ tx.expect # {} => tx.inputs \in tx.expect
=============================================================================
