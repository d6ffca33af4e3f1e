----------------------------- MODULE Transaction -----------------------------
(***************************************************************************)
(* The transaction engine of crates/srcmv-fs: commit, recover --complete   *)
(* and recover --rollback of one transaction, on the files it moves and on *)
(* the journal that describes them (transaction.rs, journal.rs,            *)
(* control.rs).                                                            *)
(*                                                                         *)
(* The workspace lock admits one mutating process at a time, so there is   *)
(* one process; pc, ti and mode are its volatile state, everything else    *)
(* but the history variables is on disk and survives a crash.  The         *)
(* process's own copy of the last state record is never different from the *)
(* last published one while it runs, so it is not a variable.              *)
(*                                                                         *)
(* Every action is one system call with a lasting effect, together with    *)
(* the checks the code makes around it.  A crash, an I/O error and an edit *)
(* of a target by somebody else may come between any two of them.          *)
(***************************************************************************)
EXTENDS Journal, FiniteSets

CONSTANTS MaxFaults,   \* crashes and I/O errors in a behaviour
          MaxEdits     \* targets somebody else edits in a behaviour

ASSUME BoundsAssumption == MaxFaults \in Nat /\ MaxEdits \in Nat

VARIABLES
  \* the three locations of each target
  target, staged, backup,
  \* .srcmv: the transaction directory, its records, a temporary state record
  dir, manifest, records, tmp,
  \* the last published state record
  global, candidate, commit, rollback,
  \* the running command
  pc, ti, mode,
  \* history: what the last command reported, faults so far, edits so far
  started, result, faults, edited

files == <<target, staged, backup>>
control == <<dir, manifest>>
chain == <<records, global, candidate, commit, rollback>>
process == <<pc, ti, mode, result>>
history == <<started, faults, edited>>
vars == <<target, staged, backup, dir, manifest, records, tmp, global,
          candidate, commit, rollback, pc, ti, mode, started, result, faults,
          edited>>

PublishPc == {"pub_zero", "pub_ready", "pub_committing", "pub_backedup",
              "pub_installed", "pub_committed", "pub_rollingback",
              "pub_restored", "pub_rolledback"}
RollbackPc == {"rb_classify", "rb_remove", "rb_restore", "rb_clean",
               "rb_verify", "rb_check"}
CommitPc == {"create", "revalidate", "classify", "observe", "backup", "mode",
             "install", "verify", "final"}
ControlPc == {"idle", "manifest", "scan", "load", "finish", "cleanup",
              "control"}
Pc == PublishPc \cup RollbackPc \cup CommitPc \cup ControlPc
Mode == {"none", "commit", "undo", "complete", "rollback", "gate"}
Result == {"none", "committed", "rolledback", "error", "recovery_required"}

TypeOK ==
  /\ target \in [Targets -> File]
  /\ staged \in [Targets -> File]
  /\ backup \in [Targets -> File]
  /\ dir \in {"none", "active", "committed", "rolledback"}
  /\ manifest \in {"none", "torn", "tmp", "rec"}
  /\ records \in Nat
  /\ tmp \in {"none", "torn", "whole"}
  /\ global \in GlobalState
  /\ candidate \in [Targets -> CandidateKind]
  /\ commit \in [Targets -> CommitKind]
  /\ rollback \in [Targets -> RollbackKind]
  /\ pc \in Pc /\ ti \in Targets /\ mode \in Mode
  /\ started \in BOOLEAN /\ result \in Result
  /\ faults \in 0 .. MaxFaults
  /\ edited \in [Targets -> {"no", "wrote", "deleted"}]

InitialFile(t) == IF t \in Existing THEN "original" ELSE "absent"

Init ==
  /\ target = [t \in Targets |-> InitialFile(t)]
  /\ staged = [t \in Targets |-> "absent"]
  /\ backup = [t \in Targets |-> "absent"]
  /\ dir = "none" /\ manifest = "none" /\ records = 0 /\ tmp = "none"
  /\ global = "Preparing"
  /\ candidate = [t \in Targets |-> "Missing"]
  /\ commit = [t \in Targets |-> "Untouched"]
  /\ rollback = [t \in Targets |-> "None"]
  /\ pc = "idle" /\ ti = 1 /\ mode = "none"
  /\ started = FALSE /\ result = "none" /\ faults = 0
  /\ edited = [t \in Targets |-> "no"]

-----------------------------------------------------------------------------
(***************************************************************************)
(* Control flow of a command.                                              *)
(***************************************************************************)
Goto(p, t) == pc' = p /\ ti' = t /\ UNCHANGED <<mode, result>>

Return(r) == pc' = "idle" /\ ti' = 1 /\ mode' = "none" /\ result' = r

\* An error is returned.  A failed commit whose transaction directory is
\* still active rolls it back at once, with recover_locked.
Abort ==
  IF mode = "commit" /\ dir = "active"
  THEN pc' = "scan" /\ ti' = 1 /\ mode' = "undo" /\ UNCHANGED result
  ELSE Return(IF mode = "undo" THEN "recovery_required" ELSE "error")

\* A commit that was rolled back reports the error that stopped it.
Outcome == CASE mode \in {"commit", "complete"} -> "committed"
             [] mode = "rollback"               -> "rolledback"
             [] mode = "undo"                   -> "error"
             [] OTHER                           -> "none"

-----------------------------------------------------------------------------
(***************************************************************************)
(* Reading the disk.                                                       *)
(***************************************************************************)
observe_target(t) ==
  << classify_location(target[t], t \in Existing, candidate[t], FALSE, global),
     classify_location(staged[t], t \in Existing, candidate[t], TRUE, global),
     classify_backup(backup[t], t \in Existing) >>

Disposition(t) ==
  classify_recovery(global, t \in Existing, commit[t], rollback[t],
                    observe_target(t))

\* classify_all_targets: every target permits the action, or is terminal.
classify_all_targets(action) ==
  \A t \in Targets : Disposition(t) \cap {action, "cleanup"} # {}

matches_candidate(t) == target[t] \in CandidateFile /\ candidate[t] = "Ready"

\* Every record found in a completed directory decodes.
validate_completed_contents == tmp # "torn"

\* validate_manifest_only_entries, validate_active_names,
\* validate_temporaries: every record decodes, and a state temporary without
\* a published manifest is an unknown entry.
inspect_active_transaction ==
  IF manifest = "rec" THEN tmp # "torn" ELSE manifest # "torn" /\ tmp = "none"

\* The directory passes the scan that every command makes first.
ScanOK ==
  /\ dir = "active" => inspect_active_transaction
  /\ dir \in {"committed", "rolledback"} => validate_completed_contents

RecoveryEntryKind ==
  CASE dir = "none"                        -> "None"
    [] dir \in {"committed", "rolledback"} -> "CleanupOnly"
    [] OTHER -> IF manifest # "rec" THEN "OrphanRecord"
                ELSE IF records = 0 THEN "ManifestOnly" ELSE "Active"

actions_for_state ==
  CASE global = "Preparing"                -> {"rollback"}
    [] global \in {"Prepared", "Committing"} -> {"complete", "rollback"}
    [] global \in {"Committed", "RolledBack"} -> {"cleanup"}
    [] global = "RollingBack"              -> {"rollback"}

\* Fault: a rollback that has begun is reported as done.
VisibilityTooEarly ==
  CASE global = "Committing" -> "mixed_old_new_possible"
    [] global = "Committed"  -> "all_planned"
    [] OTHER                 -> "all_original"

visibility_for_state ==
  CASE global \in {"Preparing", "Prepared", "RolledBack"} -> "all_original"
    [] global \in {"Committing", "RollingBack"} -> "mixed_old_new_possible"
    [] global = "Committed" -> "all_planned"

\* The visibility that recover --list and --status report.
Visibility ==
  CASE RecoveryEntryKind = "Active"      -> visibility_for_state
    [] RecoveryEntryKind = "CleanupOnly" ->
         IF dir = "committed" THEN "all_planned" ELSE "all_original"
    [] OTHER                             -> "all_original"

-----------------------------------------------------------------------------
(***************************************************************************)
(* Publishing a state record: a validated successor of the last one is     *)
(* written to a temporary, then renamed.                                   *)
(***************************************************************************)
LastState == [sequence |-> records - 1, global |-> global,
              candidate |-> candidate, commit |-> commit, rollback |-> rollback]

Restored(t) == RestoredKind(t \in Existing)

\* What the caller of publish_state asks to publish at each program point.
NextState ==
  LET next == [LastState EXCEPT !.sequence = records]
  IN CASE pc = "pub_zero"        -> next
       [] pc = "pub_ready"       ->
            [next EXCEPT !.candidate[ti] = "Ready",
                         !.global = IF ti = N THEN "Prepared" ELSE "Preparing"]
       [] pc = "pub_committing"  -> [next EXCEPT !.global = "Committing"]
       [] pc = "pub_backedup"    -> [next EXCEPT !.commit[ti] = "BackedUp",
                                                 !.global = "Committing"]
       [] pc = "pub_installed"   -> [next EXCEPT !.commit[ti] = "Installed",
                                                 !.global = "Committing"]
       [] pc = "pub_committed"   -> [next EXCEPT !.global = "Committed"]
       [] pc = "pub_rollingback" -> [next EXCEPT !.global = "RollingBack"]
       [] pc = "pub_restored"    -> [next EXCEPT !.rollback[ti] = Restored(ti),
                                                 !.global = "RollingBack"]
       [] pc = "pub_rolledback"  -> [next EXCEPT !.global = "RolledBack"]

publish_state_accepts ==
  /\ validate_state_against_originals(NextState)
  /\ IF records = 0 THEN validate_state_zero(NextState)
     ELSE validate_state_transition(LastState, NextState)

\* Fault: the reverse loop of rollback_all_targets starts one target short.
RollBackFromBelow == N - 1

\* Fault: it starts at the number of targets, counted from zero.
RollBackFromLength == N + 1

RollBackFrom == N

\* Where the caller goes on, and with which target.
AfterPublish ==
  CASE pc = "pub_zero"        -> "create"
    [] pc = "pub_ready"       -> IF ti = N THEN "revalidate" ELSE "create"
    [] pc = "pub_committing"  -> "classify"
    [] pc = "pub_backedup"    -> "install"
    [] pc = "pub_installed"   -> IF ti = N THEN "final" ELSE "observe"
    [] pc = "pub_committed"   -> "finish"
    [] pc = "pub_rollingback" -> "rb_remove"
    [] pc = "pub_restored"    -> IF ti = 1 THEN "rb_check" ELSE "rb_remove"
    [] pc = "pub_rolledback"  -> "finish"

TargetAfterPublish ==
  CASE pc = "pub_backedup"                               -> ti
    [] pc \in {"pub_ready", "pub_installed"} /\ ti # N   -> ti + 1
    [] pc = "pub_restored" /\ ti # 1                     -> ti - 1
    [] pc = "pub_rollingback"                            -> RollBackFrom
    [] OTHER                                             -> 1

\* The temporary is created, then completely written.
WriteTemporary ==
  /\ pc \in PublishPc
  /\ IF publish_state_accepts
     THEN /\ \/ tmp = "none" /\ tmp' = "torn"
             \/ tmp = "torn" /\ tmp' = "whole"
          /\ UNCHANGED process
     ELSE Abort /\ UNCHANGED tmp
  /\ UNCHANGED <<files, control, chain, history>>

PublishState ==
  /\ pc \in PublishPc /\ tmp = "whole" /\ publish_state_accepts
  /\ tmp' = "none"
  /\ records' = records + 1
  /\ global' = NextState.global
  /\ candidate' = NextState.candidate
  /\ commit' = NextState.commit
  /\ rollback' = NextState.rollback
  /\ Goto(AfterPublish, TargetAfterPublish)
  /\ UNCHANGED <<files, control, history>>

-----------------------------------------------------------------------------
(***************************************************************************)
(* Commit: Workspace::commit and execute_new_transaction.                  *)
(***************************************************************************)
StartCommit ==
  /\ pc = "idle" /\ ~started /\ dir = "none"
  /\ started' = TRUE
  /\ dir' = "active"
  /\ pc' = "manifest" /\ ti' = 1 /\ mode' = "commit" /\ result' = "none"
  /\ UNCHANGED <<files, manifest, tmp, chain, faults, edited>>

\* TransactionJournal::create publishes the manifest like any record.
PublishManifest ==
  /\ pc = "manifest"
  /\ \/ manifest = "none" /\ manifest' = "torn" /\ UNCHANGED process
     \/ manifest = "torn" /\ manifest' = "tmp" /\ UNCHANGED process
     \/ manifest = "tmp" /\ manifest' = "rec" /\ Goto("pub_zero", 1)
  /\ UNCHANGED <<files, dir, tmp, chain, history>>

create_candidate ==
  /\ pc = "create"
  /\ \/ /\ staged[ti] = "absent"
        /\ staged' = [staged EXCEPT ![ti] = "partial"]
        /\ UNCHANGED process
     \/ /\ staged[ti] = "partial"
        /\ staged' = [staged EXCEPT ![ti] = "staged"]
        /\ Goto("pub_ready", ti)
  /\ UNCHANGED <<target, backup, control, tmp, chain, history>>

\* revalidate_manifest_inputs; a recovery also classifies before it commits.
revalidate ==
  /\ pc = "revalidate"
  /\ IF /\ \A t \in Targets : target[t] = InitialFile(t)
        /\ mode = "complete" => classify_all_targets("complete")
     THEN Goto("pub_committing", 1)
     ELSE Abort
  /\ UNCHANGED <<files, control, tmp, chain, history>>

\* The head of complete_commit_steps.
classify_before_commit ==
  /\ pc = "classify"
  /\ IF classify_all_targets("complete") THEN Goto("observe", 1) ELSE Abort
  /\ UNCHANGED <<files, control, tmp, chain, history>>

-----------------------------------------------------------------------------
(***************************************************************************)
(* complete_target, one system call at a time.                             *)
(***************************************************************************)
\* Fault: an existing target is not backed up before its record says so.
BackupForgotten(t) ==
  IF observe_target(t)[1] = "Candidate" THEN "verify" ELSE "mode"

FirstStep(t) ==
  IF observe_target(t)[1] = "Candidate" THEN "verify"
  ELSE IF t \in Existing /\ observe_target(t)[3] # "Original" THEN "backup"
  ELSE "mode"

complete_observe ==
  /\ pc = "observe"
  /\ Goto(FirstStep(ti), ti)
  /\ UNCHANGED <<files, control, tmp, chain, history>>

\* Fault: renames replace their destination.
ReplacingRename(source, destination) == source # "absent"

\* renameat2(RENAME_NOREPLACE) of source onto destination succeeds.
no_replace_rename(source, destination) ==
  source # "absent" /\ destination = "absent"

\* The no-replace rename of the target, and the check of what it moved.
backup_target ==
  /\ pc = "backup"
  /\ IF no_replace_rename(target[ti], backup[ti])
     THEN /\ backup' = [backup EXCEPT ![ti] = target[ti]]
          /\ target' = [target EXCEPT ![ti] = "absent"]
          /\ IF target[ti] = "original" THEN Goto("mode", ti) ELSE Abort
          /\ UNCHANGED staged
     ELSE Abort /\ UNCHANGED files
  /\ UNCHANGED <<control, tmp, chain, history>>

\* Fault: the candidate keeps the private mode it was created with.
ModeForgotten(file) == file

\* The permission bits of the backup, or the recorded new-file mode.
WithFinalMode(file) == "moded"

set_mode ==
  /\ pc = "mode"
  /\ IF staged[ti] = "absent"
     THEN Abort /\ UNCHANGED staged
     ELSE /\ staged' = [staged EXCEPT ![ti] = WithFinalMode(staged[ti])]
          /\ Goto(IF ti \in Existing /\ commit[ti] = "Untouched"
                  THEN "pub_backedup" ELSE "install", ti)
  /\ UNCHANGED <<target, backup, control, tmp, chain, history>>

install_candidate ==
  /\ pc = "install"
  /\ IF no_replace_rename(staged[ti], target[ti])
     THEN /\ target' = [target EXCEPT ![ti] = staged[ti]]
          /\ staged' = [staged EXCEPT ![ti] = "absent"]
          /\ Goto("verify", ti)
          /\ UNCHANGED backup
     ELSE Abort /\ UNCHANGED files
  /\ UNCHANGED <<control, tmp, chain, history>>

\* verify_candidate_location; publish_installed publishes at most once.
verify_installed ==
  /\ pc = "verify"
  /\ IF ~matches_candidate(ti) THEN Abort
     ELSE IF commit[ti] # "Installed" THEN Goto("pub_installed", ti)
     ELSE IF ti = N THEN Goto("final", 1)
     ELSE Goto("observe", ti + 1)
  /\ UNCHANGED <<files, control, tmp, chain, history>>

final_verification ==
  /\ pc = "final"
  /\ IF \A t \in Targets : matches_candidate(t)
     THEN Goto("pub_committed", 1) ELSE Abort
  /\ UNCHANGED <<files, control, tmp, chain, history>>

-----------------------------------------------------------------------------
(***************************************************************************)
(* Recovery: recover_locked, called by the recover command, by a commit    *)
(* that failed ("undo"), and, as far as cleanup goes, by the gate of the   *)
(* next mutating command ("gate").                                         *)
(***************************************************************************)
StartRecovery(m) ==
  /\ pc = "idle" /\ dir # "none"
  /\ pc' = "scan" /\ ti' = 1 /\ mode' = m /\ result' = "none"
  /\ UNCHANGED <<files, control, tmp, chain, history>>

scan_control ==
  /\ pc = "scan"
  /\ CASE ScanOK /\ RecoveryEntryKind = "CleanupOnly" ->
            IF \/ mode = "gate"
               \/ dir = "committed" /\ mode = "complete"
               \/ dir = "rolledback" /\ mode \in {"rollback", "undo"}
            THEN Goto("cleanup", 1) ELSE Abort
       [] ScanOK /\ RecoveryEntryKind \in {"OrphanRecord", "ManifestOnly"} ->
            IF mode \in {"rollback", "undo"} THEN Goto("control", 1) ELSE Abort
       [] ScanOK /\ RecoveryEntryKind = "Active" ->
            IF mode = "gate" THEN Abort ELSE Goto("load", 1)
       [] OTHER -> Abort
  /\ UNCHANGED <<files, control, tmp, chain, history>>

\* Fault: an interrupted commit is finished instead of completed.
ResumeAsCommitted ==
  CASE global = "Prepared"                   -> "revalidate"
    [] global \in {"Committing", "Committed"} -> "finish"
    [] OTHER                                 -> "refuse"

\* recover_complete_active: where the journal lets completion start.
recover_complete_active ==
  CASE global = "Prepared"   -> "revalidate"
    [] global = "Committing" -> "classify"
    [] global = "Committed"  -> IF classify_all_targets("complete")
                                THEN "finish" ELSE "refuse"
    [] OTHER                 -> "refuse"

\* Fault: an interrupted rollback is taken for a finished one.
ResumeAsRolledBack ==
  CASE global = "Committed"                     -> "refuse"
    [] global \in {"RollingBack", "RolledBack"} -> "finish"
    [] OTHER                                    -> "rb_classify"

\* recover_rollback_active: where the journal lets rollback start.
recover_rollback_active ==
  CASE global = "Committed"  -> "refuse"
    [] global = "RolledBack" -> "finish"
    [] OTHER                 -> "rb_classify"

\* load_active_transaction drops a temporary before anything is decided.
load_active_transaction ==
  /\ pc = "load"
  /\ tmp' = "none"
  /\ LET first == IF mode = "complete" THEN recover_complete_active
                  ELSE recover_rollback_active
     IN IF first = "refuse" THEN Abort ELSE Goto(first, 1)
  /\ UNCHANGED <<files, control, chain, history>>

classify_before_rollback ==
  /\ pc = "rb_classify"
  /\ IF ~classify_all_targets("rollback") THEN Abort
     ELSE IF global = "RollingBack" THEN Goto("rb_remove", RollBackFrom)
     ELSE Goto("pub_rollingback", 1)
  /\ UNCHANGED <<files, control, tmp, chain, history>>

\* rollback_target: the installed candidate is verified and removed ...
remove_installed_candidate ==
  /\ pc = "rb_remove"
  /\ IF observe_target(ti)[1] = "Candidate"
     THEN target' = [target EXCEPT ![ti] = "absent"]
     ELSE UNCHANGED target
  /\ Goto("rb_restore", ti)
  /\ UNCHANGED <<staged, backup, control, tmp, chain, history>>

\* ... the backup, if there is one, is renamed back without replacement ...
restore_backup ==
  /\ pc = "rb_restore"
  /\ IF ti \in Existing /\ backup[ti] # "absent"
     THEN IF backup[ti] = "original" /\ no_replace_rename(backup[ti], target[ti])
          THEN /\ target' = [target EXCEPT ![ti] = "original"]
               /\ backup' = [backup EXCEPT ![ti] = "absent"]
               /\ Goto("rb_clean", ti)
          ELSE Abort /\ UNCHANGED <<target, backup>>
     ELSE Goto("rb_clean", ti) /\ UNCHANGED <<target, backup>>
  /\ UNCHANGED <<staged, control, tmp, chain, history>>

\* ... the staged candidate is removed ...
remove_staged_candidate ==
  /\ pc = "rb_clean"
  /\ IF staged[ti] = "absent" \/ candidate[ti] = "Missing"
        \/ staged[ti] \in CandidateFile
     THEN staged' = [staged EXCEPT ![ti] = "absent"] /\ Goto("rb_verify", ti)
     ELSE Abort /\ UNCHANGED staged
  /\ UNCHANGED <<target, backup, control, tmp, chain, history>>

\* Fault: a target already recorded as restored is recorded again.
RecordAgain(t) == TRUE

RestoreUnrecorded(t) == rollback[t] = "None"

\* ... and what is now in place is checked before it is recorded.
verify_restored ==
  /\ pc = "rb_verify"
  /\ IF target[ti] # InitialFile(ti) \/ backup[ti] # "absent" THEN Abort
     ELSE IF RestoreUnrecorded(ti) THEN Goto("pub_restored", ti)
     ELSE IF ti = 1 THEN Goto("rb_check", 1)
     ELSE Goto("rb_remove", ti - 1)
  /\ UNCHANGED <<files, control, tmp, chain, history>>

classify_after_rollback ==
  /\ pc = "rb_check"
  /\ IF classify_all_targets("rollback")
     THEN Goto("pub_rolledback", 1) ELSE Abort
  /\ UNCHANGED <<files, control, tmp, chain, history>>

-----------------------------------------------------------------------------
(***************************************************************************)
(* Ending a transaction.                                                   *)
(***************************************************************************)
\* The terminal rename to completed/<id>-<suffix>.
finish_transaction ==
  /\ pc = "finish"
  /\ dir' = IF mode \in {"commit", "complete"} THEN "committed" ELSE "rolledback"
  /\ Goto("cleanup", 1)
  /\ UNCHANGED <<files, manifest, tmp, chain, history>>

First(S) == CHOOSE t \in S : \A u \in S : t <= u

\* Children go in name order: backup-*, candidate-*, manifest.rec, state-*;
\* the state records are removed in one step.  global keeps its last value
\* as history.
cleanup_completed_directory ==
  /\ pc = "cleanup"
  /\ LET backups == {t \in Targets : backup[t] # "absent"}
         candidates == {t \in Targets : staged[t] # "absent"}
     IN CASE backups # {} ->
               /\ backup' = [backup EXCEPT ![First(backups)] = "absent"]
               /\ UNCHANGED <<target, staged, control, tmp, records, process>>
          [] backups = {} /\ candidates # {} ->
               /\ staged' = [staged EXCEPT ![First(candidates)] = "absent"]
               /\ UNCHANGED <<target, backup, control, tmp, records, process>>
          [] backups = {} /\ candidates = {} /\ manifest # "none" ->
               /\ manifest' = "none"
               /\ UNCHANGED <<files, dir, tmp, records, process>>
          [] backups = {} /\ candidates = {} /\ manifest = "none" /\ records > 0 ->
               /\ records' = 0 /\ tmp' = "none"
               /\ UNCHANGED <<files, control, process>>
          [] OTHER ->
               /\ dir' = "none" /\ Return(Outcome)
               /\ UNCHANGED <<files, manifest, tmp, records>>
  /\ UNCHANGED <<global, candidate, commit, rollback, history>>

\* rollback_control_only: manifest.rec or manifest.tmp, then
\* state-00000000.tmp, then the directory.
rollback_control_only ==
  /\ pc = "control"
  /\ CASE manifest # "none" ->
            manifest' = "none" /\ UNCHANGED <<dir, tmp, process>>
       [] manifest = "none" /\ tmp # "none" ->
            tmp' = "none" /\ UNCHANGED <<control, process>>
       [] OTHER -> dir' = "none" /\ Return(Outcome) /\ UNCHANGED <<manifest, tmp>>
  /\ UNCHANGED <<files, chain, history>>

-----------------------------------------------------------------------------
(***************************************************************************)
(* The environment.                                                        *)
(***************************************************************************)
Crash ==
  /\ pc # "idle" /\ faults < MaxFaults
  /\ faults' = faults + 1
  /\ Return("none")
  /\ UNCHANGED <<files, control, tmp, chain, started, edited>>

\* A system call fails (disk full, an unavailable no-replace rename, ...).
IoError ==
  /\ pc # "idle" /\ faults < MaxFaults
  /\ faults' = faults + 1
  /\ Abort
  /\ UNCHANGED <<files, control, tmp, chain, started, edited>>

\* Somebody else, who does not take the lock, writes or deletes a target.
Edit(t) ==
  /\ dir # "none" /\ edited[t] = "no"
  /\ Cardinality({u \in Targets : edited[u] # "no"}) < MaxEdits
  /\ \/ /\ target' = [target EXCEPT ![t] = "user"]
        /\ edited' = [edited EXCEPT ![t] = "wrote"]
     \/ /\ target[t] # "absent"
        /\ target' = [target EXCEPT ![t] = "absent"]
        /\ edited' = [edited EXCEPT ![t] = "deleted"]
  /\ UNCHANGED <<staged, backup, control, tmp, chain, process, started, faults>>

Step ==
  \/ PublishManifest \/ WriteTemporary \/ PublishState
  \/ create_candidate \/ revalidate \/ classify_before_commit
  \/ complete_observe \/ backup_target \/ set_mode \/ install_candidate
  \/ verify_installed \/ final_verification
  \/ scan_control \/ load_active_transaction \/ classify_before_rollback
  \/ remove_installed_candidate \/ restore_backup \/ remove_staged_candidate
  \/ verify_restored \/ classify_after_rollback
  \/ finish_transaction \/ cleanup_completed_directory \/ rollback_control_only

Next ==
  \/ StartCommit
  \/ \E m \in {"complete", "rollback", "gate"} : StartRecovery(m)
  \/ Step
  \/ Crash \/ IoError
  \/ \E t \in Targets : Edit(t)

Spec == Init /\ [][Next]_vars

-----------------------------------------------------------------------------
(***************************************************************************)
(* Properties.  They speak of the targets nobody else has edited.          *)
(***************************************************************************)
Unedited == {t \in Targets : edited[t] = "no"}
Original(t) == target[t] = InitialFile(t)
Planned(t) == target[t] = "moded"
Idle == pc = "idle"

\* Until Committed is published, the original of every existing target is
\* at the target path or in its backup, whatever crashes and retries have
\* happened (complete_target, rollback_target, finish_transaction).
OriginalNeverLost ==
  global # "Committed" =>
    \A t \in Existing \cap Unedited : "original" \in {target[t], backup[t]}

\* Bytes somebody else wrote at a target path are never overwritten or
\* removed: they stay there or are moved, whole, to the backup (every
\* rename is no-replace, every removal is preceded by a verification).
UserBytesPreserved ==
  \A t \in Targets : edited[t] = "wrote" => "user" \in {target[t], backup[t]}

\* docs/transaction-model.md: records "never claim a filesystem action before
\* it occurs".  Ready means a complete candidate file exists until rollback
\* removes it, BackedUp and Installed mean the renames have happened, and a
\* recorded restoration is in place with nothing left to remove.
JournalNeverAhead ==
  \A t \in Unedited :
    /\ candidate[t] = "Ready" /\ global \notin {"RollingBack", "RolledBack"} =>
         staged[t] \in CandidateFile \/ target[t] \in CandidateFile
    /\ commit[t] = "BackedUp" /\ global = "Committing" => backup[t] = "original"
    /\ commit[t] = "Installed" /\ global \in {"Committing", "Committed"} => Planned(t)
    /\ rollback[t] # "None" =>
         Original(t) /\ staged[t] = "absent" /\ backup[t] = "absent"

\* What recover --list says of the visible files between commands is true.
VisibilityHonest ==
  Idle /\ dir # "none" /\ ScanOK =>
    /\ Visibility = "all_original" => \A t \in Unedited : Original(t)
    /\ Visibility = "all_planned" => \A t \in Unedited : Planned(t)

\* When the transaction directory is gone every target has its original or
\* every target has its planned bytes and mode, and nothing is left behind.
AllOrNothing ==
  dir = "none" =>
    /\ \/ \A t \in Unedited : Original(t)
       \/ \A t \in Unedited : Planned(t)
    /\ \A t \in Unedited : staged[t] = "absent" /\ backup[t] = "absent"
    /\ manifest = "none" /\ records = 0 /\ tmp = "none"

\* A command that reports success tells the truth about every target.
ResultHonest ==
  /\ result = "committed" => \A t \in Unedited : Planned(t)
  /\ result = "rolledback" => \A t \in Unedited : Original(t)

\* Every state the engine asks publish_state to publish passes the journal's
\* own validation, after any sequence of crashes, retries and recoveries.
JournalAccepts == pc \in PublishPc => publish_state_accepts

\* The state chain of a transaction stays within MAX_STATE_RECORDS however
\* often it is interrupted and resumed.
ChainBounded == records <= 3 * N + Cardinality(Existing) + 4

(***************************************************************************)
(* Recovery is available between commands: the scan passes, and every      *)
(* action recover --list offers for an active transaction is permitted by  *)
(* the classification of every target.  Three interruptions leave a        *)
(* directory for which this fails.                                         *)
(***************************************************************************)
Recoverable ==
  /\ ScanOK
  /\ RecoveryEntryKind = "Active" =>
       \A action \in actions_for_state, t \in Targets : action \in Disposition(t)

\* A record temporary that was not completely written.
TornRecord == manifest = "torn" \/ tmp = "torn"

\* rollback_control_only removed manifest.rec but not yet the temporary.
OrphanedTemporary == manifest = "none" /\ tmp # "none"

\* A candidate file that no record mentions, once Preparing is over.
UnrecordedCandidate ==
  /\ global = "RollingBack"
  /\ \E t \in Targets : candidate[t] = "Missing" /\ staged[t] # "absent"

Interrupted == Idle /\ dir # "none" /\ Unedited = Targets

\* With the three interruptions set apart, recovery is always available.
RecoveryAvailable ==
  Interrupted /\ ~TornRecord /\ ~OrphanedTemporary /\ ~UnrecordedCandidate
    => Recoverable

\* README.md: "Recovery after abrupt process termination is supported": also
\* when the termination came while a record was being written
\* (publish_record).
RecoverableAfterTornRecord ==
  Interrupted /\ ~OrphanedTemporary /\ ~UnrecordedCandidate => Recoverable

\* ... and when it came during a rollback of a transaction that was still
\* preparing its candidates (rollback_target, classify_location).
RecoverableAfterRollbackCrash ==
  Interrupted /\ ~TornRecord /\ ~OrphanedTemporary => Recoverable

\* ... and when it came while a manifest-only transaction was being removed
\* (rollback_control_only).
RecoverableAfterControlCrash ==
  Interrupted /\ ~TornRecord /\ ~UnrecordedCandidate => Recoverable
=============================================================================
