-------------------------- MODULE TransactionProofs --------------------------
(***************************************************************************)
(* Safety of the transaction engine for every number of targets, any set   *)
(* of existing ones, and any number of crashes, I/O errors and edits: no   *)
(* original and no foreign byte is lost, the journal never claims more     *)
(* than was done, what recovery and the commands report is true, recovery  *)
(* is available, and the engine implements RecoverableCommit.              *)
(***************************************************************************)
EXTENDS TransactionRefinement, FiniteSetTheorems, TLAPS

\* Program points at which every target has been classified by the running
\* command and none was unexpected.
ClassifiedPc ==
  {"observe", "backup", "mode", "install", "verify", "final", "pub_backedup",
   "pub_installed", "pub_committed", "pub_rollingback", "rb_remove",
   "rb_restore", "rb_clean", "rb_verify", "pub_restored", "rb_check",
   "pub_rolledback", "finish", "cleanup"}

ForwardPc == {"classify", "observe", "backup", "mode", "install", "verify", "final",
              "pub_backedup", "pub_installed", "pub_committed"}

CommittingPc == ForwardPc \cup {"manifest", "pub_zero", "create", "pub_ready",
                                "revalidate", "pub_committing"}

RollingBackPc == {"rb_classify", "pub_rollingback", "rb_remove", "rb_restore",
                  "rb_clean", "rb_verify", "pub_restored", "rb_check",
                  "pub_rolledback"}

(***************************************************************************)
(* The program point agrees with the last published record and with the    *)
(* command that runs, and a                                                *)
(* transaction directory is terminal only after a terminal record.         *)
(***************************************************************************)
PhaseInv ==
  /\ pc \in {"manifest", "pub_zero", "create", "pub_ready"} => global = "Preparing"
  /\ pc \in ForwardPc => global = "Committing"
  /\ pc \in CommittingPc => mode \in {"commit", "complete"}
  /\ pc \in {"scan", "load"} => mode # "commit"
  /\ pc \in RollingBackPc => mode \notin {"commit", "complete"}
  /\ pc = "finish" => IF mode \in {"commit", "complete"}
                      THEN global = "Committed" ELSE global = "RolledBack"
  /\ pc = "cleanup" => dir \in {"committed", "rolledback"}
  /\ ~started => pc = "idle" /\ dir = "none" /\ global = "Preparing"
  /\ dir = "committed" => global = "Committed"
  /\ dir = "rolledback" => global = "RolledBack"

\* What validate_global_constraints leaves true of a published record.
RecordInv ==
  /\ global \in {"Preparing", "Prepared", "Committing", "Committed"}
       => \A t \in Targets : rollback[t] = "None"
  /\ global = "RolledBack" => \A t \in Targets : rollback[t] # "None"

\* A foreign file never sits in a backup the engine is about to use or delete.
BackupInv ==
  pc \in ClassifiedPc \/ global \in {"Committed", "RolledBack"} =>
    \A t \in Targets : backup[t] # "user"

InPlace(t) == target[t] = "original" /\ backup[t] = "absent"

RestoredInv ==
  /\ \A t \in Existing \cap Unedited : rollback[t] # "None" => InPlace(t)
  /\ pc = "pub_restored" /\ ti \in Existing \cap Unedited => InPlace(ti)

OriginalInv ==
  global # "Committed" =>
    \A t \in Existing \cap Unedited : InPlace(t) \/ backup[t] = "original"

IInv == /\ TypeOK /\ PhaseInv /\ RecordInv /\ BackupInv /\ RestoredInv
        /\ OriginalInv /\ UserBytesPreserved

-----------------------------------------------------------------------------
(***************************************************************************)
(* Type correctness.                                                       *)
(***************************************************************************)
\* The record a publication writes, field by field.
LEMMA NextStateFields ==
  ASSUME TypeOK, pc \in PublishPc
  PROVE  /\ NextState.sequence = records
         /\ NextState.global = CASE pc = "pub_zero"        -> global
                                 [] pc = "pub_ready"       -> IF ti = N THEN "Prepared" ELSE "Preparing"
                                 [] pc \in {"pub_committing", "pub_backedup", "pub_installed"} -> "Committing"
                                 [] pc = "pub_committed"   -> "Committed"
                                 [] pc \in {"pub_rollingback", "pub_restored"} -> "RollingBack"
                                 [] pc = "pub_rolledback"  -> "RolledBack"
         /\ NextState.candidate = IF pc = "pub_ready"
                                  THEN [candidate EXCEPT ![ti] = "Ready"] ELSE candidate
         /\ NextState.commit = CASE pc = "pub_backedup"  -> [commit EXCEPT ![ti] = "BackedUp"]
                                 [] pc = "pub_installed" -> [commit EXCEPT ![ti] = "Installed"]
                                 [] OTHER                -> commit
         /\ NextState.rollback = IF pc = "pub_restored"
                                 THEN [rollback EXCEPT ![ti] = Restored(ti)] ELSE rollback
<1>1. CASE pc = "pub_zero"        BY <1>1 DEF NextState, LastState
<1>2. CASE pc = "pub_ready"       BY <1>2 DEF NextState, LastState
<1>3. CASE pc = "pub_committing"  BY <1>3 DEF NextState, LastState
<1>4. CASE pc = "pub_backedup"    BY <1>4 DEF NextState, LastState
<1>5. CASE pc = "pub_installed"   BY <1>5 DEF NextState, LastState
<1>6. CASE pc = "pub_committed"   BY <1>6 DEF NextState, LastState
<1>7. CASE pc = "pub_rollingback" BY <1>7 DEF NextState, LastState
<1>8. CASE pc = "pub_restored"    BY <1>8 DEF NextState, LastState
<1>9. CASE pc = "pub_rolledback"  BY <1>9 DEF NextState, LastState
<1> QED BY <1>1, <1>2, <1>3, <1>4, <1>5, <1>6, <1>7, <1>8, <1>9 DEF PublishPc

\* Where a publication continues.
LEMMA AfterPublishType ==
  ASSUME TypeOK, pc \in PublishPc
  PROVE  AfterPublish \in Pc /\ TargetAfterPublish \in Targets
<1>1. AfterPublish \in Pc
  BY DEF AfterPublish, PublishPc, Pc, RollbackPc, CommitPc, ControlPc
<1>2. TargetAfterPublish \in Targets
  BY TargetsAssumption DEF TypeOK, TargetAfterPublish, Targets, RollBackFrom
<1> QED BY <1>1, <1>2

LEMMA InitType == Init => TypeOK
<1> SUFFICES ASSUME Init PROVE TypeOK OBVIOUS
<1> USE DEF Init
<1>1. target \in [Targets -> File] /\ staged \in [Targets -> File] /\ backup \in [Targets -> File]
  BY DEF InitialFile, File
<1>2. dir \in {"none", "active", "committed", "rolledback"} /\ manifest \in {"none", "torn", "tmp", "rec"}
      /\ records \in Nat /\ tmp \in {"none", "torn", "whole"}
  OBVIOUS
<1>3. global \in GlobalState /\ candidate \in [Targets -> CandidateKind]
      /\ commit \in [Targets -> CommitKind] /\ rollback \in [Targets -> RollbackKind]
  BY DEF GlobalState, CandidateKind, CommitKind, RollbackKind
<1>4. pc \in Pc /\ ti \in Targets /\ mode \in Mode /\ result \in Result
  BY TargetsAssumption DEF Pc, ControlPc, Mode, Result, Targets
<1>5. started \in BOOLEAN
  OBVIOUS
<1>6. faults \in 0 .. MaxFaults /\ edited \in [Targets -> {"no", "wrote", "deleted"}]
  BY BoundsAssumption
<1> QED BY <1>1, <1>2, <1>3, <1>4, <1>5, <1>6 DEF TypeOK

\* An update keeps the type of a function, wherever it is made.
LEMMA ExceptType ==
  ASSUME NEW S, NEW T, NEW f \in [S -> T], NEW x, NEW v \in T
  PROVE  [f EXCEPT ![x] = v] \in [S -> T]
OBVIOUS

\* The sets a step's values are taken from.
LEMMA StepType == TypeOK /\ [Next]_vars => TypeOK'
<1> SUFFICES ASSUME TypeOK, [Next]_vars PROVE TypeOK' OBVIOUS
<1> USE TargetsAssumption, BoundsAssumption
    DEF TypeOK, files, control, chain, process, history, File, Pc, PublishPc,
        RollbackPc, CommitPc, ControlPc, Mode, Result, Targets
<1>1. CASE StartCommit
  BY <1>1 DEF StartCommit, files, chain
<1>2. CASE \E m \in {"complete", "rollback", "gate"} : StartRecovery(m)
  BY <1>2 DEF StartRecovery
<1>3. CASE PublishManifest
  BY <1>3 DEF PublishManifest, Goto
<1>4. CASE WriteTemporary
  BY <1>4 DEF WriteTemporary, Abort, Return
<1>5. CASE PublishState
  <2>1. pc \in PublishPc
    BY <1>5 DEF PublishState
  <2>2. AfterPublish \in Pc /\ TargetAfterPublish \in Targets
    BY <2>1, AfterPublishType
  <2>3. NextState.global \in GlobalState /\ NextState.candidate \in [Targets -> CandidateKind]
    BY <2>1, NextStateFields DEF GlobalState, CandidateKind
  <2>4. NextState.commit \in [Targets -> CommitKind]
    BY <2>1, NextStateFields DEF CommitKind
  <2>5. NextState.rollback \in [Targets -> RollbackKind]
    BY <2>1, NextStateFields DEF RollbackKind, Restored, RestoredKind
  <2> QED BY <1>5, <2>2, <2>3, <2>4, <2>5 DEF PublishState, Goto
<1>6. CASE create_candidate
  BY <1>6 DEF create_candidate, Goto
<1>7. CASE revalidate
  BY <1>7 DEF revalidate, Goto, Abort, Return
<1>8. CASE classify_before_commit
  BY <1>8 DEF classify_before_commit, Goto, Abort, Return
<1>9. CASE complete_observe
  BY <1>9 DEF complete_observe, FirstStep, Goto
<1>10. CASE backup_target
  <2>1. CASE no_replace_rename(target[ti], backup[ti])
    <3>1. /\ target' \in [Targets -> File] /\ backup' \in [Targets -> File]
          /\ staged' = staged
      <4>1. /\ target' = [target EXCEPT ![ti] = "absent"]
            /\ backup' = [backup EXCEPT ![ti] = target[ti]]
            /\ staged' = staged
        BY <1>10, <2>1 DEF backup_target
      <4>2. target[ti] \in File /\ "absent" \in File
        OBVIOUS
      <4> QED BY <4>1, <4>2, ExceptType
    <3>2. Goto("mode", ti) \/ Abort
      BY <1>10, <2>1 DEF backup_target
    <3> QED BY <1>10, <3>1, <3>2 DEF backup_target, Goto, Abort, Return
  <2>2. CASE ~no_replace_rename(target[ti], backup[ti])
    BY <1>10, <2>2 DEF backup_target, Abort, Return
  <2> QED BY <2>1, <2>2
<1>11. CASE set_mode
  BY <1>11 DEF set_mode, WithFinalMode, Goto, Abort, Return
<1>12. CASE install_candidate
  BY <1>12 DEF install_candidate, Goto, Abort, Return
<1>13. CASE verify_installed
  BY <1>13 DEF verify_installed, Goto, Abort, Return
<1>14. CASE final_verification
  BY <1>14 DEF final_verification, Goto, Abort, Return
<1>15. CASE scan_control
  <2>1. Abort \/ Goto("cleanup", 1) \/ Goto("control", 1) \/ Goto("load", 1)
    BY <1>15 DEF scan_control
  <2> QED BY <1>15, <2>1 DEF scan_control, Goto, Abort, Return
<1>16. CASE load_active_transaction
  BY <1>16 DEF load_active_transaction, recover_complete_active, recover_rollback_active, Goto, Abort, Return
<1>17. CASE classify_before_rollback
  BY <1>17 DEF classify_before_rollback, RollBackFrom, Goto, Abort, Return
<1>18. CASE remove_installed_candidate
  BY <1>18 DEF remove_installed_candidate, Goto
<1>19. CASE restore_backup
  <2>1. CASE UNCHANGED <<target, backup>>
    BY <1>19, <2>1 DEF restore_backup, Goto, Abort, Return
  <2>2. CASE ~UNCHANGED <<target, backup>>
    <3>1. /\ target' = [target EXCEPT ![ti] = "original"]
          /\ backup' = [backup EXCEPT ![ti] = "absent"]
          /\ Goto("rb_clean", ti)
      BY <1>19, <2>2 DEF restore_backup
    <3>2. target' \in [Targets -> File] /\ backup' \in [Targets -> File]
      BY <3>1, ExceptType
    <3> QED BY <1>19, <3>1, <3>2 DEF restore_backup, Goto
  <2> QED BY <2>1, <2>2
<1>20. CASE remove_staged_candidate
  BY <1>20 DEF remove_staged_candidate, Goto, Abort, Return
<1>21. CASE verify_restored
  BY <1>21 DEF verify_restored, Goto, Abort, Return
<1>22. CASE classify_after_rollback
  BY <1>22 DEF classify_after_rollback, Goto, Abort, Return
<1>23. CASE finish_transaction
  BY <1>23 DEF finish_transaction, Goto
<1>24. CASE cleanup_completed_directory
  <2> DEFINE backups == {t \in Targets : backup[t] # "absent"}
             candidates == {t \in Targets : staged[t] # "absent"}
  <2>0. UNCHANGED <<global, candidate, commit, rollback, history>>
    BY <1>24 DEF cleanup_completed_directory
  <2>1. CASE backups # {}
    <3>1. backup' = [backup EXCEPT ![First(backups)] = "absent"]
      BY <1>24, <2>1 DEF cleanup_completed_directory
    <3>2. UNCHANGED <<target, staged, control, tmp, records, process>>
      BY <1>24, <2>1 DEF cleanup_completed_directory
    <3> HIDE DEF backups
    <3>3. backup' \in [Targets -> File]
      BY <3>1, ExceptType
    <3> QED BY <2>0, <3>2, <3>3
  <2>2. CASE backups = {} /\ candidates # {}
    <3>1. staged' = [staged EXCEPT ![First(candidates)] = "absent"]
      BY <1>24, <2>2 DEF cleanup_completed_directory
    <3>2. UNCHANGED <<target, backup, control, tmp, records, process>>
      BY <1>24, <2>2 DEF cleanup_completed_directory
    <3> HIDE DEF backups, candidates
    <3>3. staged' \in [Targets -> File]
      BY <3>1, ExceptType
    <3> QED BY <2>0, <3>2, <3>3
  <2>3. CASE backups = {} /\ candidates = {} /\ manifest # "none"
    BY <1>24, <2>3 DEF cleanup_completed_directory
  <2>4. CASE backups = {} /\ candidates = {} /\ manifest = "none" /\ records > 0
    BY <1>24, <2>4 DEF cleanup_completed_directory
  <2>5. CASE backups = {} /\ candidates = {} /\ manifest = "none" /\ ~(records > 0)
    BY <1>24, <2>5 DEF cleanup_completed_directory, Return, Outcome
  <2> QED BY <2>1, <2>2, <2>3, <2>4, <2>5
<1>25. CASE rollback_control_only
  BY <1>25 DEF rollback_control_only, Return, Outcome
<1>26. CASE Crash
  BY <1>26 DEF Crash, Return
<1>27. CASE IoError
  BY <1>27 DEF IoError, Abort, Return
<1>28. CASE \E t \in Targets : Edit(t)
  <2> PICK t \in Targets : Edit(t)
    BY <1>28
  <2>1. /\ \E f \in File : target' = [target EXCEPT ![t] = f]
        /\ \E e \in {"wrote", "deleted"} : edited' = [edited EXCEPT ![t] = e]
    BY DEF Edit
  <2>2. target' \in [Targets -> File] /\ edited' \in [Targets -> {"no", "wrote", "deleted"}]
    BY <2>1, ExceptType
  <2> QED BY <2>2 DEF Edit
<1>29. CASE UNCHANGED vars
  BY <1>29 DEF vars
<1> QED BY <1>1, <1>2, <1>3, <1>4, <1>5, <1>6, <1>7, <1>8, <1>9, <1>10, <1>11, <1>12, <1>13, <1>14, <1>15, <1>16, <1>17, <1>18, <1>19, <1>20, <1>21, <1>22, <1>23, <1>24, <1>25, <1>26, <1>27, <1>28, <1>29 DEF Next, Step

\* Every variable of the engine keeps its type, whatever fails.
THEOREM TypeCorrect == Spec => []TypeOK
<1>1. Init => TypeOK
  BY InitType
<1>2. TypeOK /\ [Next]_vars => TypeOK'
  BY StepType
<1> QED BY <1>1, <1>2, PTL DEF Spec

-----------------------------------------------------------------------------
(***************************************************************************)
(* The inductive invariant.                                                *)
(***************************************************************************)
\* A classification that passes has seen no foreign backup.
LEMMA ClassifiedBackups ==
  ASSUME TypeOK, NEW action \in {"complete", "rollback"}, classify_all_targets(action)
  PROVE  \A t \in Targets : backup[t] # "user"
<1> SUFFICES ASSUME NEW t \in Targets, backup[t] = "user" PROVE FALSE
  OBVIOUS
<1>1. observe_target(t)[3] = "Unexpected"
  BY DEF observe_target, classify_backup
<1>2. Disposition(t) = {}
  BY <1>1 DEF Disposition, classify_recovery, Conflict
<1> QED BY <1>2 DEF classify_all_targets

LEMMA InitInv == Init => IInv
<1> SUFFICES ASSUME Init PROVE IInv OBVIOUS
<1>1. TypeOK BY InitType
<1>2. PhaseInv /\ RecordInv BY DEF Init, PhaseInv, RecordInv, ForwardPc, CommittingPc, RollingBackPc
<1>3. BackupInv BY DEF Init, BackupInv
<1>4. RestoredInv BY DEF Init, RestoredInv, Unedited, Targets
<1>5. OriginalInv BY TargetsAssumption DEF Init, OriginalInv, InPlace, InitialFile, Unedited, Targets
<1>6. UserBytesPreserved BY DEF Init, UserBytesPreserved
<1> QED BY <1>1, <1>2, <1>3, <1>4, <1>5, <1>6 DEF IInv

\* Every step keeps the invariant.
LEMMA StepInv == IInv /\ [Next]_vars => IInv'
<1> SUFFICES ASSUME IInv, [Next]_vars PROVE IInv' OBVIOUS
<1> TypeOK /\ TypeOK' BY StepType DEF IInv
<1> DEFINE Rest == PhaseInv /\ RecordInv /\ BackupInv /\ RestoredInv /\ OriginalInv /\ UserBytesPreserved
<1> SUFFICES Rest' BY DEF IInv
<1> Rest BY DEF IInv
<1> /\ target \in [Targets -> File] /\ staged \in [Targets -> File] /\ backup \in [Targets -> File]
    /\ edited \in [Targets -> {"no", "wrote", "deleted"}] /\ ti \in Targets
    /\ dir \in {"none", "active", "committed", "rolledback"}
  BY DEF TypeOK
<1> USE DEF PhaseInv, RecordInv, BackupInv, RestoredInv, OriginalInv, UserBytesPreserved, InPlace, Unedited,
      ClassifiedPc, ForwardPc, CommittingPc, RollingBackPc, files, control, chain, process, history
<1>1. CASE StartCommit
  BY <1>1 DEF StartCommit
<1>2. CASE \E m \in {"complete", "rollback", "gate"} : StartRecovery(m)
  BY <1>2 DEF StartRecovery
<1>3. CASE PublishManifest
  BY <1>3 DEF PublishManifest, Goto
<1>4. CASE WriteTemporary
  BY <1>4 DEF WriteTemporary, Abort, Return
<1>5. CASE create_candidate
  BY <1>5 DEF create_candidate, Goto
<1>6. CASE revalidate
  BY <1>6 DEF revalidate, Goto, Abort, Return
<1>7. CASE complete_observe
  BY <1>7 DEF complete_observe, FirstStep, Goto
<1>8. CASE backup_target
  <2>0. pc = "backup" /\ global = "Committing" /\ UNCHANGED <<dir, global, rollback, started, edited>>
    BY <1>8 DEF backup_target
  <2>1. CASE ~no_replace_rename(target[ti], backup[ti])
    BY <1>8, <2>1 DEF backup_target, Abort, Return
  <2>2. CASE no_replace_rename(target[ti], backup[ti])
    <3>1. backup[ti] = "absent"
      BY <2>2 DEF no_replace_rename
    <3>2. \A t \in Targets : target'[t] = IF t = ti THEN "absent" ELSE target[t]
      BY <1>8, <2>2 DEF backup_target
    <3>3. \A t \in Targets : backup'[t] = IF t = ti THEN target[ti] ELSE backup[t]
      BY <1>8, <2>2 DEF backup_target
    <3>4. IF target[ti] = "original" THEN Goto("mode", ti) ELSE Abort
      BY <1>8, <2>2 DEF backup_target
    <3>5. \/ target[ti] = "original" /\ pc' = "mode" /\ mode' = mode
          \/ target[ti] # "original" /\ pc' = "idle"
          \/ target[ti] # "original" /\ pc' = "scan" /\ mode' = "undo"
      BY <3>4 DEF Goto, Abort, Return
    <3>6. \A t \in Existing : t \in Targets
      BY TargetsAssumption DEF Targets
    <3>7. PhaseInv' /\ RecordInv'
      BY <2>0, <3>5
    <3>8. BackupInv'
      BY <2>0, <3>3, <3>5
    <3>9. RestoredInv'
      BY <2>0, <3>5, <3>6
    <3>10. OriginalInv'
      BY <2>0, <3>1, <3>2, <3>3, <3>6
    <3>11. UserBytesPreserved'
      BY <2>0, <3>1, <3>2, <3>3
    <3> QED BY <3>7, <3>8, <3>9, <3>10, <3>11
  <2> QED BY <2>1, <2>2
<1>9. CASE set_mode
  BY <1>9 DEF set_mode, Goto, Abort, Return
<1>10. CASE install_candidate
  <2>0. pc = "install" /\ global = "Committing" /\ UNCHANGED <<backup, dir, global, rollback, started, edited>>
    BY <1>10 DEF install_candidate
  <2>1. CASE ~no_replace_rename(staged[ti], target[ti])
    BY <1>10, <2>1 DEF install_candidate, Abort, Return
  <2>2. CASE no_replace_rename(staged[ti], target[ti])
    <3>1. target[ti] = "absent"
      BY <2>2 DEF no_replace_rename
    <3>2. \A t \in Targets : target'[t] = IF t = ti THEN staged[ti] ELSE target[t]
      BY <1>10, <2>2 DEF install_candidate
    <3>3. pc' = "verify" /\ mode' = mode
      BY <1>10, <2>2 DEF install_candidate, Goto
    <3>4. \A t \in Existing : t \in Targets
      BY TargetsAssumption DEF Targets
    <3>5. OriginalInv'
      BY <2>0, <3>1, <3>2, <3>4
    <3>6. UserBytesPreserved'
      BY <2>0, <3>1, <3>2
    <3> QED BY <2>0, <3>3, <3>4, <3>5, <3>6
  <2> QED BY <2>1, <2>2
<1>11. CASE verify_installed
  BY <1>11 DEF verify_installed, Goto, Abort, Return
<1>12. CASE final_verification
  BY <1>12 DEF final_verification, Goto, Abort, Return
<1>13. CASE scan_control
  <2>0. pc = "scan" /\ UNCHANGED <<files, control, chain, history>>
    BY <1>13 DEF scan_control
  <2>1. CASE RecoveryEntryKind = "CleanupOnly"
    <3>1. dir \in {"committed", "rolledback"}
      BY <2>1 DEF RecoveryEntryKind
    <3>2. Abort \/ Goto("cleanup", 1)
      BY <1>13, <2>1 DEF scan_control
    <3> QED BY <2>0, <3>1, <3>2 DEF Goto, Abort, Return
  <2>2. CASE RecoveryEntryKind # "CleanupOnly"
    <3>1. Abort \/ Goto("control", 1) \/ Goto("load", 1)
      BY <1>13, <2>2 DEF scan_control
    <3> QED BY <2>0, <3>1 DEF Goto, Abort, Return
  <2> QED BY <2>1, <2>2
<1>14. CASE remove_installed_candidate
  <2>0. /\ pc = "rb_remove" /\ pc' = "rb_restore" /\ mode' = mode
        /\ UNCHANGED <<backup, dir, global, rollback, started, edited>>
    BY <1>14 DEF remove_installed_candidate, Goto
  <2>1. CASE observe_target(ti)[1] = "Candidate"
    <3>1. target[ti] \in {"staged", "moded"}
      BY <2>1 DEF observe_target, classify_location, CandidateFile, TypeOK, File
    <3>2. \A t \in Targets : target'[t] = IF t = ti THEN "absent" ELSE target[t]
      BY <1>14, <2>1 DEF remove_installed_candidate
    <3>3. \A t \in Existing : t \in Targets
      BY TargetsAssumption DEF Targets
    <3>4. RestoredInv'
      BY <2>0, <3>1, <3>2, <3>3
    <3>5. OriginalInv'
      BY <2>0, <3>1, <3>2, <3>3
    <3>6. UserBytesPreserved'
      BY <2>0, <3>1, <3>2
    <3> QED BY <2>0, <3>4, <3>5, <3>6
  <2>2. CASE observe_target(ti)[1] # "Candidate"
    BY <1>14, <2>0, <2>2 DEF remove_installed_candidate
  <2> QED BY <2>1, <2>2
<1>15. CASE restore_backup
  <2>0. pc = "rb_restore" /\ UNCHANGED <<dir, global, rollback, started, edited>>
    BY <1>15 DEF restore_backup
  <2> DEFINE rename == /\ ti \in Existing /\ backup[ti] = "original"
                       /\ no_replace_rename(backup[ti], target[ti])
  <2>1. CASE ~rename
    <3>1. (Abort \/ Goto("rb_clean", ti)) /\ UNCHANGED <<target, backup>>
      BY <1>15, <2>1 DEF restore_backup
    <3> QED BY <2>0, <3>1 DEF Goto, Abort, Return
  <2>2. CASE rename
    <3>1. target[ti] = "absent" /\ backup[ti] = "original"
      BY <2>2 DEF no_replace_rename
    <3>2. \A t \in Targets : target'[t] = IF t = ti THEN "original" ELSE target[t]
      BY <1>15, <2>2 DEF restore_backup
    <3>3. \A t \in Targets : backup'[t] = IF t = ti THEN "absent" ELSE backup[t]
      BY <1>15, <2>2 DEF restore_backup
    <3>4. pc' = "rb_clean" /\ mode' = mode
      BY <1>15, <2>2 DEF restore_backup, Goto
    <3>5. \A t \in Existing : t \in Targets
      BY TargetsAssumption DEF Targets
    <3> HIDE DEF rename
    <3>6. BackupInv'
      BY <2>0, <3>3
    <3>7. RestoredInv'
      BY <2>0, <3>2, <3>3, <3>4, <3>5
    <3>8. OriginalInv'
      BY <2>0, <3>2, <3>3, <3>5
    <3>9. UserBytesPreserved'
      BY <2>0, <3>1, <3>2, <3>3
    <3> QED BY <2>0, <3>4, <3>6, <3>7, <3>8, <3>9
  <2> QED BY <2>1, <2>2
<1>16. CASE remove_staged_candidate
  BY <1>16 DEF remove_staged_candidate, Goto, Abort, Return
<1>17. CASE verify_restored
  <2>0. UNCHANGED <<files, control, chain, history>>
    BY <1>17 DEF verify_restored
  <2>1. CASE target[ti] # InitialFile(ti) \/ backup[ti] # "absent"
    <3>1. Abort
      BY <1>17, <2>1 DEF verify_restored
    <3> QED BY <2>0, <3>1 DEF Abort, Return
  <2>2. CASE ~(target[ti] # InitialFile(ti) \/ backup[ti] # "absent")
    <3>1. pc' \in {"pub_restored", "rb_check", "rb_remove"} /\ (pc' = "pub_restored" => ti' = ti)
      BY <1>17, <2>2 DEF verify_restored, Goto
    <3>2. ti \in Existing => InPlace(ti)
      BY <2>2 DEF InitialFile
    <3>3. pc = "rb_verify" /\ mode' = mode
      BY <1>17, <2>2 DEF verify_restored, Goto
    <3> QED BY <2>0, <3>1, <3>2, <3>3
  <2> QED BY <2>1, <2>2
<1>18. CASE finish_transaction
  BY <1>18 DEF finish_transaction, Goto
<1>19. CASE rollback_control_only
  BY <1>19 DEF rollback_control_only, Return
<1>20. CASE Crash
  BY <1>20 DEF Crash, Return
<1>21. CASE IoError
  BY <1>21 DEF IoError, Abort, Return
<1>22. CASE classify_before_commit
  <2>0. UNCHANGED <<files, control, chain, history>>
    BY <1>22 DEF classify_before_commit
  <2>1. CASE classify_all_targets("complete")
    <3>1. \A t \in Targets : backup[t] # "user"
      BY <2>1, ClassifiedBackups
    <3>2. pc = "classify" /\ pc' = "observe" /\ global = "Committing" /\ mode' = mode
      BY <1>22, <2>1 DEF classify_before_commit, Goto
    <3> QED BY <2>0, <3>1, <3>2
  <2>2. CASE ~classify_all_targets("complete")
    BY <1>22, <2>0, <2>2 DEF classify_before_commit, Abort, Return
  <2> QED BY <2>1, <2>2
<1>23. CASE load_active_transaction
  <2>0. pc = "load" /\ UNCHANGED <<files, control, chain, history>>
    BY <1>23 DEF load_active_transaction
  <2>1. \/ Abort
        \/ mode' = mode /\ pc' = "revalidate" /\ mode = "complete"
        \/ mode' = mode /\ pc' = "rb_classify" /\ mode # "complete"
        \/ mode' = mode /\ pc' = "classify" /\ mode = "complete" /\ global = "Committing"
        \/ mode' = mode /\ pc' = "finish" /\ mode = "complete" /\ global = "Committed"
        \/ mode' = mode /\ pc' = "finish" /\ mode # "complete" /\ global = "RolledBack"
    BY <1>23 DEF load_active_transaction, recover_complete_active, recover_rollback_active, Goto
  <2>2. CASE Abort
    BY <2>0, <2>2 DEF Abort, Return
  <2> QED BY <2>0, <2>1, <2>2
<1>24. CASE classify_before_rollback
  <2>0. UNCHANGED <<files, control, chain, history>>
    BY <1>24 DEF classify_before_rollback
  <2>1. CASE classify_all_targets("rollback")
    <3>1. \A t \in Targets : backup[t] # "user"
      BY <2>1, ClassifiedBackups
    <3>2. pc = "rb_classify" /\ pc' \in {"rb_remove", "pub_rollingback"} /\ mode' = mode
      BY <1>24, <2>1 DEF classify_before_rollback, Goto
    <3> QED BY <2>0, <3>1, <3>2
  <2>2. CASE ~classify_all_targets("rollback")
    <3>1. Abort
      BY <1>24, <2>2 DEF classify_before_rollback
    <3> QED BY <2>0, <3>1 DEF Abort, Return
  <2> QED BY <2>1, <2>2
<1>25. CASE classify_after_rollback
  BY <1>25 DEF classify_after_rollback, Goto, Abort, Return
<1>26. CASE cleanup_completed_directory
  <2>1. UNCHANGED <<target, global, rollback, edited, started>>
    BY <1>26 DEF cleanup_completed_directory
  <2>2. backup' = backup \/ \E t : backup' = [backup EXCEPT ![t] = "absent"]
    BY <1>26 DEF cleanup_completed_directory
  <2>3. UNCHANGED <<pc, mode, ti, dir>> \/ (pc' = "idle" /\ dir' = "none")
    BY <1>26 DEF cleanup_completed_directory, Return
  <2>4. pc = "cleanup" BY <1>26 DEF cleanup_completed_directory
  <2>5. \A t \in Targets : backup'[t] \in {backup[t], "absent"}
    BY <2>2
  <2> QED BY <2>1, <2>3, <2>4, <2>5
<1>27. CASE PublishState
  <2>0. /\ pc \in PublishPc /\ publish_state_accepts
        /\ UNCHANGED <<target, backup, dir, mode, started, edited>>
        /\ pc' = AfterPublish
    BY <1>27 DEF PublishState, Goto
  <2>1. global' = NextState.global /\ rollback' = NextState.rollback
    BY <1>27 DEF PublishState
  <2>2. validate_global_constraints(NextState)
    BY <2>0 DEF publish_state_accepts, validate_state_zero, validate_state_transition, validate_state_shape
  <2>3. NextState.global \in GlobalState
    <3>1. global \in GlobalState
      BY DEF TypeOK
    <3> QED BY <2>0, <3>1, NextStateFields DEF GlobalState, PublishPc
  <2>4. RecordInv'
    BY <2>1, <2>2, <2>3 DEF validate_global_constraints, GlobalState
  <2>5. global \notin {"Committed", "RolledBack"}
    <3>1. CASE records = 0
      <4>1. NextState.global = "Preparing"
        BY <2>0, <3>1 DEF publish_state_accepts, validate_state_zero
      <4>2. pc \in {"pub_zero", "pub_ready"}
        BY <2>0, <4>1, NextStateFields DEF PublishPc
      <4> QED BY <4>2
    <3>2. CASE records # 0
      <4>1. NextState.global \in GlobalSuccessors(LastState.global)
        BY <2>0, <3>2 DEF publish_state_accepts, validate_state_transition
      <4>2. NextState.global \in GlobalSuccessors(global)
        BY <4>1 DEF LastState
      <4> QED BY <4>2 DEF GlobalSuccessors
    <3> QED BY <3>1, <3>2
  <2>6. \/ pc = "pub_zero" /\ pc' = "create" /\ global' = global
        \/ pc = "pub_ready" /\ pc' = "create" /\ global' = "Preparing"
        \/ pc = "pub_ready" /\ pc' = "revalidate" /\ global' = "Prepared"
        \/ pc = "pub_committing" /\ pc' = "classify" /\ global' = "Committing"
        \/ pc = "pub_backedup" /\ pc' = "install" /\ global' = "Committing"
        \/ pc = "pub_installed" /\ pc' \in {"final", "observe"} /\ global' = "Committing"
        \/ pc = "pub_committed" /\ pc' = "finish" /\ global' = "Committed"
        \/ pc \in {"pub_rollingback", "pub_restored"} /\ pc' \in {"rb_remove", "rb_check"}
             /\ global' = "RollingBack"
        \/ pc = "pub_rolledback" /\ pc' = "finish" /\ global' = "RolledBack"
    BY <2>0, <2>1, NextStateFields DEF PublishPc, AfterPublish
  <2>10. PhaseInv'
    BY <2>0, <2>5, <2>6
  <2>7. RestoredInv'
    <3>1. pc' # "pub_restored"
      BY <2>0 DEF PublishPc, AfterPublish
    <3>2. CASE pc # "pub_restored"
      BY <2>0, <2>1, <3>1, <3>2, NextStateFields
    <3>3. CASE pc = "pub_restored"
      <4>1. rollback' = [rollback EXCEPT ![ti] = Restored(ti)]
        BY <2>0, <2>1, <3>3, NextStateFields
      <4>2. \A t \in Targets : t # ti => rollback'[t] = rollback[t]
        BY <4>1 DEF TypeOK
      <4>3. \A t \in Existing : t \in Targets
        BY TargetsAssumption DEF Targets
      <4> QED BY <2>0, <3>1, <3>3, <4>2, <4>3
    <3> QED BY <3>2, <3>3
  <2>8. BackupInv'
    BY <2>0, <2>5, <2>6
  <2>9. OriginalInv'
    BY <2>0, <2>5
  <2> QED BY <2>0, <2>4, <2>7, <2>8, <2>9, <2>10
<1>28. CASE \E t \in Targets : Edit(t)
  <2> PICK t \in Targets : Edit(t)
    BY <1>28
  <2>1. edited[t] = "no" /\ UNCHANGED <<backup, dir, global, rollback, pc, ti, mode, started>>
    BY DEF Edit
  <2>2. \A u \in Targets : u # t => target'[u] = target[u] /\ edited'[u] = edited[u]
    BY DEF Edit
  <2>3. edited'[t] # "no" /\ (edited'[t] = "wrote" => target'[t] = "user")
    BY DEF Edit
  <2>4. \A u \in Existing : u \in Targets
    BY TargetsAssumption DEF Targets
  <2> QED BY <2>1, <2>2, <2>3, <2>4
<1>29. CASE UNCHANGED vars
  BY <1>29 DEF vars
<1> QED BY <1>1, <1>2, <1>3, <1>4, <1>5, <1>6, <1>7, <1>8, <1>9, <1>10, <1>11,
          <1>12, <1>13, <1>14, <1>15, <1>16, <1>17, <1>18, <1>19, <1>20, <1>21,
          <1>22, <1>23, <1>24, <1>25, <1>26, <1>27, <1>28, <1>29 DEF Next, Step

LEMMA InvariantHolds == Spec => []IInv
<1>1. Init => IInv
  BY InitInv
<1>2. IInv /\ [Next]_vars => IInv'
  BY StepInv
<1> QED BY <1>1, <1>2, PTL DEF Spec

\* Until Committed is published no original is lost, for any number of
\* targets and after any number of crashes, failures, edits and retries.
THEOREM OriginalSafe == Spec => []OriginalNeverLost
<1>1. IInv => OriginalNeverLost
  BY DEF IInv, OriginalInv, OriginalNeverLost, InPlace
<1> QED BY <1>1, InvariantHolds, PTL

\* Bytes somebody else wrote at a target path while the transaction was open
\* are never destroyed: the engine moves them at most, whole, to a backup it
\* never deletes.
THEOREM UserBytesSafe == Spec => []UserBytesPreserved
<1>1. IInv => UserBytesPreserved
  BY DEF IInv
<1> QED BY <1>1, InvariantHolds, PTL

-----------------------------------------------------------------------------
(***************************************************************************)
(* The journal of the transaction engine, for every number of targets, any *)
(* set of existing ones, and any number of crashes, I/O errors and edits:  *)
(* every record the engine asks for is one the journal accepts, and the    *)
(* chain of records never reaches its limit.                               *)
(***************************************************************************)
\* Program points of complete_target and of rollback_target.
CompletePc == {"observe", "backup", "mode", "install", "verify",
               "pub_backedup", "pub_installed"}
RestorePc == {"rb_remove", "rb_restore", "rb_clean", "rb_verify", "pub_restored"}

(***************************************************************************)
(* The control tree: which of its entries exist at which program point,    *)
(* which command may be there, and what a reported result commits to.      *)
(***************************************************************************)
TreeInv ==
  /\ pc \notin {"idle", "scan", "cleanup"} => dir = "active"
  /\ dir = "none" => /\ manifest = "none" /\ records = 0 /\ tmp = "none"
                     /\ global \in {"Preparing", "Committed", "RolledBack"}
  /\ dir = "active" /\ records > 0 => manifest = "rec"
  /\ dir = "active" /\ records = 0 => global = "Preparing"
  /\ pc = "manifest" => records = 0 /\ manifest # "rec" /\ tmp = "none"
  /\ pc = "pub_zero" => records = 0 /\ manifest = "rec"
  /\ pc = "control" => records = 0 /\ mode \in {"rollback", "undo"}
  /\ pc \notin {"idle", "scan", "manifest", "pub_zero", "control", "cleanup"} => records > 0
  /\ tmp # "none" => pc \in PublishPc \cup {"idle", "scan", "load", "control"}
                     /\ dir = "active" /\ manifest \in {"none", "rec"}

ResultInv ==
  /\ pc = "cleanup" /\ mode \in {"commit", "complete"} => dir = "committed"
  /\ pc = "cleanup" /\ mode \in {"rollback", "undo"} => dir = "rolledback"
  /\ pc # "idle" => result = "none"
  /\ result = "committed" => global = "Committed"
  /\ result = "rolledback" => \/ global = "RolledBack"
                              \/ global = "Preparing" /\ dir = "none"

\* The last record satisfies the rules of the journal that speak of targets.
ShapeInv ==
  /\ global \in {"Preparing", "Prepared"} => \A t \in Targets : commit[t] = "Untouched"
  /\ global \in {"Prepared", "Committing", "Committed"} => \A t \in Targets : candidate[t] = "Ready"
  /\ global = "Committed" => \A t \in Targets : commit[t] = "Installed"
  /\ global = "RollingBack" => \A t \in Targets : \/ commit[t] = "Untouched"
                                                  \/ candidate[t] = "Ready"
  /\ \A t \in Targets : commit[t] = "BackedUp" => t \in Existing
  /\ \A t \in Targets : rollback[t] \in {"None", Restored(t)}
  /\ dir = "none" /\ ~started => \A t \in Targets : candidate[t] = "Missing"

\* How far the loops over the targets have come, in the record.
ProgressInv ==
  /\ pc \in {"manifest", "pub_zero"} => \A t \in Targets : candidate[t] = "Missing"
  /\ pc \in {"create", "pub_ready"} =>
       \A t \in Targets : candidate[t] = "Ready" <=> t < ti
  /\ pc \in {"revalidate", "pub_committing"} => global = "Prepared"
  /\ pc \in CompletePc => \A t \in Targets : t < ti => commit[t] = "Installed"
  /\ pc = "pub_backedup" => ti \in Existing /\ commit[ti] = "Untouched"
  /\ pc = "pub_installed" => commit[ti] # "Installed"
  /\ pc \in {"final", "pub_committed"} => \A t \in Targets : commit[t] = "Installed"
  /\ pc \in {"rb_classify", "pub_rollingback"} => global \notin {"Committed", "RolledBack"}
  /\ pc = "pub_rollingback" => global # "RollingBack"
  /\ pc \in RestorePc => /\ global = "RollingBack"
                         /\ \A t \in Targets : t > ti => rollback[t] # "None"
  /\ pc = "pub_restored" => rollback[ti] = "None"
  /\ pc \in {"rb_check", "pub_rolledback"} =>
       global = "RollingBack" /\ \A t \in Targets : rollback[t] # "None"

(***************************************************************************)
(* The number of records is bounded by what the last one says: one for the *)
(* empty state, one per recorded candidate, backup, installation and       *)
(* restoration, and one per change of the global state.                    *)
(***************************************************************************)
ReadySet(cand) == {t \in Targets : cand[t] = "Ready"}
BackedUpSet(com) == {t \in Existing : com[t] # "Untouched"}
InstalledSet(com) == {t \in Targets : com[t] = "Installed"}
RestoredSet(rb) == {t \in Targets : rb[t] # "None"}

GlobalCount(g) == CASE g \in {"Preparing", "Prepared"}    -> 0
                    [] g = "Committing"                   -> 1
                    [] g \in {"Committed", "RollingBack"} -> 2
                    [] g = "RolledBack"                   -> 3

RecordCount(g, cand, com, rb) ==
  1 + Cardinality(ReadySet(cand)) + Cardinality(BackedUpSet(com))
    + Cardinality(InstalledSet(com)) + Cardinality(RestoredSet(rb)) + GlobalCount(g)

CountInv == records <= RecordCount(global, candidate, commit, rollback)

JInv == TreeInv /\ ResultInv /\ ShapeInv /\ ProgressInv /\ CountInv
-----------------------------------------------------------------------------
(***************************************************************************)
(* What the steps do to the record.                                        *)
(***************************************************************************)
\* Where an error leaves the process.
LEMMA AbortEffect ==
  ASSUME Abort
  PROVE  /\ ti' = 1
         /\ \/ pc' = "scan" /\ mode' = "undo" /\ result' = result /\ dir = "active"
            \/ pc' = "idle" /\ mode' = "none" /\ result' \in {"error", "recovery_required"}
BY DEF Abort, Return

\* Only a publication changes the last record.
LEMMA RecordFrozen ==
  ASSUME [Next]_vars, ~PublishState
  PROVE  UNCHANGED <<global, candidate, commit, rollback>>
<1> USE DEF chain, vars
<1>1. CASE StartCommit BY <1>1 DEF StartCommit
<1>2. CASE \E m \in {"complete", "rollback", "gate"} : StartRecovery(m) BY <1>2 DEF StartRecovery
<1>3. CASE Crash \/ IoError BY <1>3 DEF Crash, IoError
<1>4. CASE \E t \in Targets : Edit(t) BY <1>4 DEF Edit
<1>5. CASE UNCHANGED vars BY <1>5
<1>6. CASE PublishManifest \/ WriteTemporary BY <1>6 DEF PublishManifest, WriteTemporary
<1>7. CASE create_candidate \/ revalidate \/ classify_before_commit
  BY <1>7 DEF create_candidate, revalidate, classify_before_commit
<1>8. CASE complete_observe \/ backup_target \/ set_mode \/ install_candidate
  BY <1>8 DEF complete_observe, backup_target, set_mode, install_candidate
<1>9. CASE verify_installed \/ final_verification BY <1>9 DEF verify_installed, final_verification
<1>10. CASE scan_control \/ load_active_transaction \/ classify_before_rollback
  BY <1>10 DEF scan_control, load_active_transaction, classify_before_rollback
<1>11. CASE remove_installed_candidate \/ restore_backup \/ remove_staged_candidate
  BY <1>11 DEF remove_installed_candidate, restore_backup, remove_staged_candidate
<1>12. CASE verify_restored \/ classify_after_rollback BY <1>12 DEF verify_restored, classify_after_rollback
<1>13. CASE finish_transaction \/ rollback_control_only
  BY <1>13 DEF finish_transaction, rollback_control_only
<1>14. CASE cleanup_completed_directory BY <1>14 DEF cleanup_completed_directory
<1> QED BY <1>1, <1>2, <1>3, <1>4, <1>5, <1>6, <1>7, <1>8, <1>9, <1>10, <1>11,
          <1>12, <1>13, <1>14 DEF Next, Step

\* The nine publications: what is recorded and where the caller goes on.
LEMMA PublishEffect ==
  ASSUME TypeOK, PublishState
  PROVE
    \/ /\ pc = "pub_zero" /\ pc' = "create" /\ ti' = 1
       /\ UNCHANGED <<global, candidate, commit, rollback>>
    \/ /\ pc = "pub_ready" /\ ti # N /\ pc' = "create" /\ ti' = ti + 1 /\ global' = "Preparing"
       /\ candidate' = [candidate EXCEPT ![ti] = "Ready"] /\ UNCHANGED <<commit, rollback>>
    \/ /\ pc = "pub_ready" /\ ti = N /\ pc' = "revalidate" /\ ti' = 1 /\ global' = "Prepared"
       /\ candidate' = [candidate EXCEPT ![ti] = "Ready"] /\ UNCHANGED <<commit, rollback>>
    \/ /\ pc = "pub_committing" /\ pc' = "classify" /\ ti' = 1 /\ global' = "Committing"
       /\ UNCHANGED <<candidate, commit, rollback>>
    \/ /\ pc = "pub_backedup" /\ pc' = "install" /\ ti' = ti /\ global' = "Committing"
       /\ commit' = [commit EXCEPT ![ti] = "BackedUp"] /\ UNCHANGED <<candidate, rollback>>
    \/ /\ pc = "pub_installed" /\ ti # N /\ pc' = "observe" /\ ti' = ti + 1 /\ global' = "Committing"
       /\ commit' = [commit EXCEPT ![ti] = "Installed"] /\ UNCHANGED <<candidate, rollback>>
    \/ /\ pc = "pub_installed" /\ ti = N /\ pc' = "final" /\ ti' = 1 /\ global' = "Committing"
       /\ commit' = [commit EXCEPT ![ti] = "Installed"] /\ UNCHANGED <<candidate, rollback>>
    \/ /\ pc = "pub_committed" /\ pc' = "finish" /\ ti' = 1 /\ global' = "Committed"
       /\ UNCHANGED <<candidate, commit, rollback>>
    \/ /\ pc = "pub_rollingback" /\ pc' = "rb_remove" /\ ti' = N /\ global' = "RollingBack"
       /\ UNCHANGED <<candidate, commit, rollback>>
    \/ /\ pc = "pub_restored" /\ ti # 1 /\ pc' = "rb_remove" /\ ti' = ti - 1 /\ global' = "RollingBack"
       /\ rollback' = [rollback EXCEPT ![ti] = Restored(ti)] /\ UNCHANGED <<candidate, commit>>
    \/ /\ pc = "pub_restored" /\ ti = 1 /\ pc' = "rb_check" /\ ti' = 1 /\ global' = "RollingBack"
       /\ rollback' = [rollback EXCEPT ![ti] = Restored(ti)] /\ UNCHANGED <<candidate, commit>>
    \/ /\ pc = "pub_rolledback" /\ pc' = "finish" /\ ti' = 1 /\ global' = "RolledBack"
       /\ UNCHANGED <<candidate, commit, rollback>>
<1>1. pc \in PublishPc /\ pc' = AfterPublish /\ ti' = TargetAfterPublish
  BY DEF PublishState, Goto
<1>2. /\ global' = NextState.global /\ candidate' = NextState.candidate
      /\ commit' = NextState.commit /\ rollback' = NextState.rollback
  BY DEF PublishState
<1>3. CASE pc = "pub_zero"
  BY <1>1, <1>2, <1>3, NextStateFields DEF AfterPublish, TargetAfterPublish
<1>4. CASE pc = "pub_ready"
  BY <1>1, <1>2, <1>4, NextStateFields DEF AfterPublish, TargetAfterPublish
<1>5. CASE pc = "pub_committing"
  BY <1>1, <1>2, <1>5, NextStateFields DEF AfterPublish, TargetAfterPublish
<1>6. CASE pc = "pub_backedup"
  BY <1>1, <1>2, <1>6, NextStateFields DEF AfterPublish, TargetAfterPublish
<1>7. CASE pc = "pub_installed"
  BY <1>1, <1>2, <1>7, NextStateFields DEF AfterPublish, TargetAfterPublish
<1>8. CASE pc = "pub_committed"
  BY <1>1, <1>2, <1>8, NextStateFields DEF AfterPublish, TargetAfterPublish
<1>9. CASE pc = "pub_rollingback"
  BY <1>1, <1>2, <1>9, NextStateFields DEF AfterPublish, TargetAfterPublish, RollBackFrom
<1>10. CASE pc = "pub_restored"
  BY <1>1, <1>2, <1>10, NextStateFields DEF AfterPublish, TargetAfterPublish
<1>11. CASE pc = "pub_rolledback"
  BY <1>1, <1>2, <1>11, NextStateFields DEF AfterPublish, TargetAfterPublish
<1> QED BY <1>1, <1>3, <1>4, <1>5, <1>6, <1>7, <1>8, <1>9, <1>10, <1>11 DEF PublishPc
-----------------------------------------------------------------------------
(***************************************************************************)
(* The control tree.                                                       *)
(***************************************************************************)
\* No step leaves an entry of the control tree where it does not belong.
LEMMA TreeStep == IInv /\ TreeInv /\ ResultInv /\ [Next]_vars => TreeInv' /\ ResultInv'
<1> SUFFICES ASSUME IInv, TreeInv, ResultInv, [Next]_vars PROVE TreeInv' /\ ResultInv' OBVIOUS
<1> TypeOK /\ PhaseInv /\ RecordInv BY DEF IInv
<1> /\ dir \in {"none", "active", "committed", "rolledback"} /\ records \in Nat /\ mode \in Mode
    /\ manifest \in {"none", "torn", "tmp", "rec"} /\ started \in BOOLEAN
  BY DEF TypeOK
<1> USE DEF PhaseInv, TreeInv, ResultInv, ForwardPc, CommittingPc, RollingBackPc, PublishPc,
      files, control, chain, process, history
<1>1. CASE StartCommit
  BY <1>1 DEF StartCommit
<1>2. CASE \E m \in {"complete", "rollback", "gate"} : StartRecovery(m)
  BY <1>2 DEF StartRecovery
<1>3. CASE PublishManifest
  BY <1>3 DEF PublishManifest, Goto
<1>4. CASE WriteTemporary
  BY <1>4, AbortEffect DEF WriteTemporary
<1>5. CASE create_candidate
  BY <1>5 DEF create_candidate, Goto
<1>6. CASE revalidate
  BY <1>6, AbortEffect DEF revalidate, Goto
<1>7. CASE complete_observe
  BY <1>7 DEF complete_observe, FirstStep, Goto
<1>8. CASE backup_target
  BY <1>8, AbortEffect DEF backup_target, Goto
<1>9. CASE set_mode
  BY <1>9, AbortEffect DEF set_mode, Goto
<1>10. CASE install_candidate
  BY <1>10, AbortEffect DEF install_candidate, Goto
<1>11. CASE verify_installed
  BY <1>11, AbortEffect DEF verify_installed, Goto
<1>12. CASE final_verification
  BY <1>12, AbortEffect DEF final_verification, Goto
<1>13. CASE scan_control
  <2>0. pc = "scan" /\ UNCHANGED <<control, tmp, chain, started>>
    BY <1>13 DEF scan_control
  <2>1. CASE Abort
    BY <2>0, <2>1, AbortEffect
  <2>2. CASE ~Abort
    <3>1. \/ /\ RecoveryEntryKind = "CleanupOnly" /\ Goto("cleanup", 1)
             /\ \/ mode = "gate"
                \/ dir = "committed" /\ mode = "complete"
                \/ dir = "rolledback" /\ mode \in {"rollback", "undo"}
          \/ /\ RecoveryEntryKind \in {"OrphanRecord", "ManifestOnly"}
             /\ mode \in {"rollback", "undo"} /\ Goto("control", 1)
          \/ RecoveryEntryKind = "Active" /\ Goto("load", 1)
      BY <1>13, <2>2 DEF scan_control
    <3> QED BY <2>0, <3>1 DEF RecoveryEntryKind, Goto
  <2> QED BY <2>1, <2>2
<1>14. CASE load_active_transaction
  <2>0. pc = "load" /\ tmp' = "none" /\ UNCHANGED <<control, chain, started>>
    BY <1>14 DEF load_active_transaction
  <2>1. Abort \/ /\ pc' \in {"revalidate", "classify", "finish", "rb_classify"}
                 /\ mode' = mode /\ result' = result
    BY <1>14 DEF load_active_transaction, recover_complete_active, recover_rollback_active, Goto
  <2> QED BY <2>0, <2>1, AbortEffect
<1>15. CASE classify_before_commit
  BY <1>15, AbortEffect DEF classify_before_commit, Goto
<1>16. CASE classify_before_rollback
  BY <1>16, AbortEffect DEF classify_before_rollback, Goto
<1>17. CASE remove_installed_candidate
  BY <1>17 DEF remove_installed_candidate, Goto
<1>18. CASE restore_backup
  BY <1>18, AbortEffect DEF restore_backup, Goto
<1>19. CASE remove_staged_candidate
  BY <1>19, AbortEffect DEF remove_staged_candidate, Goto
<1>20. CASE verify_restored
  BY <1>20, AbortEffect DEF verify_restored, Goto
<1>21. CASE classify_after_rollback
  BY <1>21, AbortEffect DEF classify_after_rollback, Goto
<1>22. CASE finish_transaction
  BY <1>22 DEF finish_transaction, Goto
<1>23. CASE rollback_control_only
  BY <1>23 DEF rollback_control_only, Return, Outcome, Mode
<1>24. CASE Crash
  BY <1>24 DEF Crash, Return
<1>25. CASE IoError
  BY <1>25, AbortEffect DEF IoError
<1>26. CASE cleanup_completed_directory
  <2>0. pc = "cleanup" /\ UNCHANGED <<global, started>>
    BY <1>26 DEF cleanup_completed_directory
  <2>1. \/ UNCHANGED <<dir, manifest, records, tmp, process>>
        \/ manifest' = "none" /\ UNCHANGED <<dir, records, tmp, process>>
        \/ records' = 0 /\ tmp' = "none" /\ UNCHANGED <<control, process>>
        \/ /\ manifest = "none" /\ ~(records > 0) /\ dir' = "none" /\ Return(Outcome)
           /\ UNCHANGED <<manifest, tmp, records>>
    BY <1>26 DEF cleanup_completed_directory
  <2> QED BY <2>0, <2>1 DEF Return, Outcome, Mode
<1>27. CASE PublishState
  <2>1. tmp' = "none" /\ records' = records + 1 /\ UNCHANGED <<control, mode, result, started>>
    BY <1>27 DEF PublishState, Goto
  <2> QED BY <1>27, <2>1, PublishEffect
<1>28. CASE \E t \in Targets : Edit(t)
  BY <1>28 DEF Edit
<1>29. CASE UNCHANGED vars
  BY <1>29 DEF vars
<1> QED BY <1>1, <1>2, <1>3, <1>4, <1>5, <1>6, <1>7, <1>8, <1>9, <1>10, <1>11,
          <1>12, <1>13, <1>14, <1>15, <1>16, <1>17, <1>18, <1>19, <1>20, <1>21,
          <1>22, <1>23, <1>24, <1>25, <1>26, <1>27, <1>28, <1>29 DEF Next, Step
-----------------------------------------------------------------------------
(***************************************************************************)
(* The record and the program point.                                       *)
(***************************************************************************)
\* The rules about targets hold of every record that is published.
LEMMA ShapeStep ==
  IInv /\ ShapeInv /\ ProgressInv /\ [Next]_vars => ShapeInv'
<1> SUFFICES ASSUME IInv, ShapeInv, ProgressInv, [Next]_vars PROVE ShapeInv' OBVIOUS
<1> TypeOK /\ PhaseInv BY DEF IInv
<1> USE DEF ShapeInv
<1>1. CASE ~PublishState
  <2>1. UNCHANGED <<global, candidate, commit, rollback>>
    BY <1>1, RecordFrozen
  <2>2. dir' = "none" /\ ~started' => dir = "none" /\ ~started
    <3>1. CASE cleanup_completed_directory \/ rollback_control_only
      BY <3>1 DEF cleanup_completed_directory, rollback_control_only, PhaseInv, history
    <3>2. CASE StartCommit \/ finish_transaction \/ UNCHANGED vars
      BY <3>2 DEF StartCommit, finish_transaction, vars
    <3>3. CASE UNCHANGED <<dir, started>>
      BY <3>3
    <3>4. (cleanup_completed_directory \/ rollback_control_only) \/ (StartCommit \/ finish_transaction)
          \/ UNCHANGED <<dir, started>>
      <4> USE DEF control, history
      <4>1. CASE \E m \in {"complete", "rollback", "gate"} : StartRecovery(m) BY <4>1 DEF StartRecovery
      <4>2. CASE Crash \/ IoError \/ \E t \in Targets : Edit(t) BY <4>2 DEF Crash, IoError, Edit
      <4>3. CASE PublishManifest \/ WriteTemporary \/ create_candidate \/ revalidate \/ classify_before_commit
        BY <4>3 DEF PublishManifest, WriteTemporary, create_candidate, revalidate, classify_before_commit
      <4>4. CASE complete_observe \/ backup_target \/ set_mode \/ install_candidate
                 \/ verify_installed \/ final_verification
        BY <4>4 DEF complete_observe, backup_target, set_mode, install_candidate, verify_installed,
             final_verification
      <4>5. CASE scan_control \/ load_active_transaction \/ classify_before_rollback
        BY <4>5 DEF scan_control, load_active_transaction, classify_before_rollback
      <4>6. CASE remove_installed_candidate \/ restore_backup \/ remove_staged_candidate
                 \/ verify_restored \/ classify_after_rollback
        BY <4>6 DEF remove_installed_candidate, restore_backup, remove_staged_candidate, verify_restored,
             classify_after_rollback
      <4>7. CASE UNCHANGED vars BY <4>7 DEF vars
      <4> QED BY <1>1, <4>1, <4>2, <4>3, <4>4, <4>5, <4>6, <4>7 DEF Next, Step
    <3> QED BY <3>1, <3>2, <3>3, <3>4
  <2> QED BY <2>1, <2>2
<1>2. CASE PublishState
  <2>0. /\ candidate \in [Targets -> CandidateKind] /\ commit \in [Targets -> CommitKind]
        /\ rollback \in [Targets -> RollbackKind] /\ ti \in Targets
        /\ N \in Nat /\ Targets = 1 .. N
    BY TargetsAssumption DEF TypeOK, Targets
  <2>1. started /\ started' = started
    BY <1>2 DEF PublishState, history, PhaseInv, PublishPc, TypeOK
  <2>2. ShapeInv!1'
    BY <1>2, <2>0, PublishEffect DEF PhaseInv
  <2>3. ShapeInv!2'
    BY <1>2, <2>0, PublishEffect DEF PhaseInv, ProgressInv, ForwardPc, CompletePc
  <2>4. ShapeInv!3'
    BY <1>2, <2>0, PublishEffect DEF ProgressInv, GlobalState
  <2>5. ShapeInv!4'
    <3>1. global \in GlobalState
      BY DEF TypeOK
    <3> QED BY <1>2, <2>0, <3>1, PublishEffect DEF ProgressInv, RestorePc, GlobalState
  <2>6. ShapeInv!5'
    BY <1>2, <2>0, PublishEffect DEF ProgressInv
  <2>7. ShapeInv!6'
    BY <1>2, <2>0, PublishEffect DEF Restored
  <2> QED BY <2>1, <2>2, <2>3, <2>4, <2>5, <2>6, <2>7
<1> QED BY <1>1, <1>2

\* The loops over the targets record them in order.
LEMMA ProgressStep ==
  IInv /\ ShapeInv /\ ProgressInv /\ [Next]_vars => ProgressInv'
<1> SUFFICES ASSUME IInv, ShapeInv, ProgressInv, [Next]_vars PROVE ProgressInv' OBVIOUS
<1> TypeOK /\ PhaseInv /\ RecordInv BY DEF IInv
<1> /\ candidate \in [Targets -> CandidateKind] /\ commit \in [Targets -> CommitKind]
    /\ rollback \in [Targets -> RollbackKind] /\ ti \in Targets /\ global \in GlobalState
  BY DEF TypeOK
<1> N \in Nat /\ N >= 1 /\ Targets = 1 .. N
  BY TargetsAssumption DEF Targets
<1> USE DEF ProgressInv, CompletePc, RestorePc, chain
<1>1. CASE PublishState
  BY <1>1, PublishEffect DEF PhaseInv, ForwardPc, Restored, RestoredKind
<1>2. CASE ~PublishState
  <2>0. UNCHANGED <<global, candidate, commit, rollback>>
    BY <1>2, RecordFrozen
  <2>1. CASE StartCommit
    BY <2>0, <2>1 DEF StartCommit, ShapeInv
  <2>2. CASE \E m \in {"complete", "rollback", "gate"} : StartRecovery(m)
    BY <2>0, <2>2 DEF StartRecovery
  <2>3. CASE PublishManifest
    BY <2>0, <2>3 DEF PublishManifest, Goto, process
  <2>4. CASE WriteTemporary
    BY <2>0, <2>4, AbortEffect DEF WriteTemporary, process
  <2>5. CASE create_candidate
    BY <2>0, <2>5 DEF create_candidate, Goto, process
  <2>6. CASE revalidate
    BY <2>0, <2>6, AbortEffect DEF revalidate, Goto
  <2>7. CASE complete_observe
    BY <2>0, <2>7 DEF complete_observe, FirstStep, Goto
  <2>8. CASE backup_target
    BY <2>0, <2>8, AbortEffect DEF backup_target, Goto
  <2>9. CASE set_mode
    BY <2>0, <2>9, AbortEffect DEF set_mode, Goto
  <2>10. CASE install_candidate
    BY <2>0, <2>10, AbortEffect DEF install_candidate, Goto
  <2>11. CASE verify_installed
    BY <2>0, <2>11, AbortEffect DEF verify_installed, Goto
  <2>12. CASE final_verification
    BY <2>0, <2>12, AbortEffect DEF final_verification, Goto
  <2>13. CASE scan_control
    <3>1. Abort \/ Goto("cleanup", 1) \/ Goto("control", 1) \/ Goto("load", 1)
      BY <2>13 DEF scan_control
    <3> QED BY <2>0, <3>1, AbortEffect DEF Goto
  <2>14. CASE load_active_transaction
    <3>1. \/ Abort
          \/ pc' = "revalidate" /\ global = "Prepared"
          \/ pc' \in {"classify", "finish"}
          \/ pc' = "rb_classify" /\ global \notin {"Committed", "RolledBack"}
      BY <2>14 DEF load_active_transaction, recover_complete_active, recover_rollback_active, Goto
    <3> QED BY <2>0, <3>1, AbortEffect
  <2>15. CASE classify_before_commit
    BY <2>0, <2>15, AbortEffect DEF classify_before_commit, Goto
  <2>16. CASE classify_before_rollback
    BY <2>0, <2>16, AbortEffect DEF classify_before_rollback, RollBackFrom, Goto
  <2>17. CASE remove_installed_candidate
    BY <2>0, <2>17 DEF remove_installed_candidate, Goto
  <2>18. CASE restore_backup
    BY <2>0, <2>18, AbortEffect DEF restore_backup, Goto
  <2>19. CASE remove_staged_candidate
    BY <2>0, <2>19, AbortEffect DEF remove_staged_candidate, Goto
  <2>20. CASE verify_restored
    BY <2>0, <2>20, AbortEffect DEF verify_restored, RestoreUnrecorded, Goto
  <2>21. CASE classify_after_rollback
    BY <2>0, <2>21, AbortEffect DEF classify_after_rollback, Goto
  <2>22. CASE finish_transaction
    BY <2>0, <2>22 DEF finish_transaction, Goto
  <2>23. CASE rollback_control_only
    BY <2>0, <2>23 DEF rollback_control_only, Return, process
  <2>24. CASE cleanup_completed_directory
    <3>1. pc = "cleanup" /\ pc' \in {"cleanup", "idle"}
      BY <2>24 DEF cleanup_completed_directory, Return, process
    <3> QED BY <2>0, <3>1
  <2>25. CASE Crash
    BY <2>0, <2>25 DEF Crash, Return
  <2>26. CASE IoError
    BY <2>0, <2>26, AbortEffect DEF IoError
  <2>27. CASE \E t \in Targets : Edit(t)
    BY <2>0, <2>27 DEF Edit, process
  <2>28. CASE UNCHANGED vars
    BY <2>28 DEF vars
  <2> QED BY <1>2, <2>1, <2>2, <2>3, <2>4, <2>5, <2>6, <2>7, <2>8, <2>9, <2>10, <2>11, <2>12,
            <2>13, <2>14, <2>15, <2>16, <2>17, <2>18, <2>19, <2>20, <2>21, <2>22, <2>23,
            <2>24, <2>25, <2>26, <2>27, <2>28 DEF Next, Step
<1> QED BY <1>1, <1>2

-----------------------------------------------------------------------------
(***************************************************************************)
(* Counting the records.                                                   *)
(***************************************************************************)
\* Recording one more target makes its set one larger.
LEMMA OneMore ==
  ASSUME NEW S, NEW T, NEW x, IsFiniteSet(S), x \notin S, T = S \cup {x}
  PROVE  Cardinality(T) = Cardinality(S) + 1
BY FS_AddElement

\* The sets that are counted are finite and no larger than the targets.
LEMMA CountedSets ==
  ASSUME NEW cand, NEW com, NEW rb
  PROVE  /\ IsFiniteSet(ReadySet(cand)) /\ Cardinality(ReadySet(cand)) \in 0 .. N
         /\ IsFiniteSet(BackedUpSet(com)) /\ Cardinality(BackedUpSet(com)) \in 0 .. Cardinality(Existing)
         /\ IsFiniteSet(InstalledSet(com)) /\ Cardinality(InstalledSet(com)) \in 0 .. N
         /\ IsFiniteSet(RestoredSet(rb)) /\ Cardinality(RestoredSet(rb)) \in 0 .. N
         /\ IsFiniteSet(Existing) /\ Cardinality(Existing) \in 0 .. N
<1>1. N \in Nat /\ Existing \subseteq Targets /\ Targets = 1 .. N
  BY TargetsAssumption DEF Targets
<1>2. IsFiniteSet(Targets) /\ Cardinality(Targets) = N
  BY <1>1, FS_Interval
<1>3. \A S \in SUBSET Targets : IsFiniteSet(S) /\ Cardinality(S) \in 0 .. N
  <2> TAKE S \in SUBSET Targets
  <2>1. IsFiniteSet(S) /\ Cardinality(S) <= N
    BY <1>2, FS_Subset
  <2> QED BY <2>1, <1>1, FS_CardinalityType
<1>4. \A S \in SUBSET Existing : IsFiniteSet(S) /\ Cardinality(S) \in 0 .. Cardinality(Existing)
  <2> TAKE S \in SUBSET Existing
  <2>1. IsFiniteSet(S) /\ Cardinality(S) <= Cardinality(Existing)
    BY <1>1, <1>3, FS_Subset
  <2> QED BY <2>1, <1>1, <1>3, FS_CardinalityType
<1>5. ReadySet(cand) \in SUBSET Targets
  BY DEF ReadySet
<1>6. BackedUpSet(com) \in SUBSET Existing
  BY DEF BackedUpSet
<1>7. InstalledSet(com) \in SUBSET Targets
  BY DEF InstalledSet
<1>8. RestoredSet(rb) \in SUBSET Targets
  BY DEF RestoredSet
<1> QED BY <1>1, <1>3, <1>4, <1>5, <1>6, <1>7, <1>8

\* No record counts more than three per target, one per existing target and
\* four for the transaction.
LEMMA CountBound ==
  ASSUME NEW g \in GlobalState, NEW cand, NEW com, NEW rb
  PROVE  /\ RecordCount(g, cand, com, rb) \in Nat
         /\ RecordCount(g, cand, com, rb) >= 1
         /\ RecordCount(g, cand, com, rb) <= 3 * N + Cardinality(Existing) + 4
<1>1. GlobalCount(g) \in 0 .. 3
  BY DEF GlobalCount, GlobalState
<1>2. N \in Nat
  BY TargetsAssumption
<1> QED BY <1>1, <1>2, CountedSets DEF RecordCount

\* The record a publication asks for counts at least one more than the last.
LEMMA PublicationCounts ==
  ASSUME IInv, JInv, pc \in PublishPc
  PROVE  records + 1 <= RecordCount(NextState.global, NextState.candidate,
                                    NextState.commit, NextState.rollback)
<1> DEFINE Next4 == RecordCount(NextState.global, NextState.candidate, NextState.commit, NextState.rollback)
           ready == Cardinality(ReadySet(candidate))
           backed == Cardinality(BackedUpSet(commit))
           installed == Cardinality(InstalledSet(commit))
           restored == Cardinality(RestoredSet(rollback))
<1>1. /\ TypeOK /\ PhaseInv /\ RecordInv /\ TreeInv /\ ShapeInv /\ ProgressInv /\ CountInv
      /\ records \in Nat /\ ti \in Targets /\ global \in GlobalState
      /\ candidate \in [Targets -> CandidateKind] /\ commit \in [Targets -> CommitKind]
      /\ rollback \in [Targets -> RollbackKind]
  BY DEF IInv, JInv, TypeOK
<1>2. Existing \subseteq Targets
  BY TargetsAssumption DEF Targets
<1>3. ready \in Nat /\ backed \in Nat /\ installed \in Nat /\ restored \in Nat
  BY CountedSets
<1>4. records <= 1 + ready + backed + installed + restored + GlobalCount(global)
  BY <1>1 DEF CountInv, RecordCount
<1>5. CASE pc = "pub_zero"
  <2>1. records = 0
    BY <1>1, <1>5 DEF TreeInv
  <2>2. NextState.global \in GlobalState
    BY <1>1, <1>5, NextStateFields DEF PublishPc
  <2>3. Next4 >= 1 /\ Next4 \in Nat
    BY <2>2, CountBound
  <2> QED BY <2>1, <2>3
<1>6. CASE pc = "pub_ready"
  <2>1. candidate[ti] # "Ready" /\ global = "Preparing"
    BY <1>1, <1>6, TargetsAssumption DEF ProgressInv, PhaseInv, Targets
  <2>2. ReadySet(NextState.candidate) = ReadySet(candidate) \cup {ti}
    BY <1>1, <1>6, NextStateFields DEF ReadySet
  <2>3. Cardinality(ReadySet(NextState.candidate)) = ready + 1
    BY <2>1, <2>2, OneMore, CountedSets DEF ReadySet
  <2>4. GlobalCount(NextState.global) = 0 /\ GlobalCount(global) = 0
    BY <1>1, <1>6, <2>1, NextStateFields DEF GlobalCount
  <2>5. NextState.commit = commit /\ NextState.rollback = rollback
    BY <1>1, <1>6, NextStateFields
  <2> QED BY <1>1, <1>3, <1>4, <2>3, <2>4, <2>5 DEF RecordCount
<1>7. CASE pc = "pub_committing"
  <2>1. GlobalCount(NextState.global) = 1 /\ GlobalCount(global) = 0
    BY <1>1, <1>7, NextStateFields DEF GlobalCount, ProgressInv
  <2>2. NextState.candidate = candidate /\ NextState.commit = commit /\ NextState.rollback = rollback
    BY <1>1, <1>7, NextStateFields
  <2> QED BY <1>1, <1>3, <1>4, <2>1, <2>2 DEF RecordCount
<1>8. CASE pc = "pub_backedup"
  <2>1. ti \in Existing /\ commit[ti] = "Untouched"
    BY <1>1, <1>8 DEF ProgressInv
  <2>2. BackedUpSet(NextState.commit) = BackedUpSet(commit) \cup {ti}
    BY <1>1, <1>2, <1>8, <2>1, NextStateFields DEF BackedUpSet
  <2>3. Cardinality(BackedUpSet(NextState.commit)) = backed + 1
    BY <2>1, <2>2, OneMore, CountedSets DEF BackedUpSet
  <2>4. InstalledSet(NextState.commit) = InstalledSet(commit)
    BY <1>1, <1>8, <2>1, NextStateFields DEF InstalledSet
  <2>5. GlobalCount(NextState.global) = 1 /\ GlobalCount(global) = 1
    BY <1>1, <1>8, NextStateFields DEF GlobalCount, PhaseInv, ForwardPc
  <2>6. NextState.candidate = candidate /\ NextState.rollback = rollback
    BY <1>1, <1>8, NextStateFields
  <2> QED BY <1>1, <1>3, <1>4, <2>3, <2>4, <2>5, <2>6 DEF RecordCount
<1>9. CASE pc = "pub_installed"
  <2>1. commit[ti] # "Installed"
    BY <1>1, <1>9 DEF ProgressInv
  <2>2. InstalledSet(NextState.commit) = InstalledSet(commit) \cup {ti}
    BY <1>1, <1>9, <2>1, NextStateFields DEF InstalledSet
  <2>3. Cardinality(InstalledSet(NextState.commit)) = installed + 1
    BY <2>1, <2>2, OneMore, CountedSets DEF InstalledSet
  <2>4. BackedUpSet(commit) \subseteq BackedUpSet(NextState.commit)
    BY <1>1, <1>2, <1>9, NextStateFields DEF BackedUpSet
  <2>5. /\ Cardinality(BackedUpSet(NextState.commit)) \in Nat
        /\ backed <= Cardinality(BackedUpSet(NextState.commit))
    BY <2>4, CountedSets, FS_Subset
  <2>6. GlobalCount(NextState.global) = 1 /\ GlobalCount(global) = 1
    BY <1>1, <1>9, NextStateFields DEF GlobalCount, PhaseInv, ForwardPc
  <2>7. NextState.candidate = candidate /\ NextState.rollback = rollback
    BY <1>1, <1>9, NextStateFields
  <2> QED BY <1>1, <1>3, <1>4, <2>3, <2>5, <2>6, <2>7 DEF RecordCount
<1>10. CASE pc = "pub_committed"
  <2>1. GlobalCount(NextState.global) = 2 /\ GlobalCount(global) = 1
    BY <1>1, <1>10, NextStateFields DEF GlobalCount, PhaseInv, ForwardPc
  <2>2. NextState.candidate = candidate /\ NextState.commit = commit /\ NextState.rollback = rollback
    BY <1>1, <1>10, NextStateFields
  <2> QED BY <1>1, <1>3, <1>4, <2>1, <2>2 DEF RecordCount
<1>11. CASE pc = "pub_rollingback"
  <2>1. GlobalCount(NextState.global) = 2 /\ GlobalCount(global) \in {0, 1}
    BY <1>1, <1>11, NextStateFields DEF GlobalCount, ProgressInv, GlobalState
  <2>2. NextState.candidate = candidate /\ NextState.commit = commit /\ NextState.rollback = rollback
    BY <1>1, <1>11, NextStateFields
  <2> QED BY <1>1, <1>3, <1>4, <2>1, <2>2 DEF RecordCount
<1>12. CASE pc = "pub_restored"
  <2>1. rollback[ti] = "None" /\ global = "RollingBack"
    BY <1>1, <1>12 DEF ProgressInv, RestorePc
  <2>2. RestoredSet(NextState.rollback) = RestoredSet(rollback) \cup {ti}
    BY <1>1, <1>12, <2>1, NextStateFields DEF RestoredSet, Restored, RestoredKind
  <2>3. Cardinality(RestoredSet(NextState.rollback)) = restored + 1
    BY <2>1, <2>2, OneMore, CountedSets DEF RestoredSet
  <2>4. GlobalCount(NextState.global) = 2 /\ GlobalCount(global) = 2
    BY <1>1, <1>12, <2>1, NextStateFields DEF GlobalCount
  <2>5. NextState.candidate = candidate /\ NextState.commit = commit
    BY <1>1, <1>12, NextStateFields
  <2> QED BY <1>1, <1>3, <1>4, <2>3, <2>4, <2>5 DEF RecordCount
<1>13. CASE pc = "pub_rolledback"
  <2>1. GlobalCount(NextState.global) = 3 /\ GlobalCount(global) = 2
    BY <1>1, <1>13, NextStateFields DEF GlobalCount, ProgressInv
  <2>2. NextState.candidate = candidate /\ NextState.commit = commit /\ NextState.rollback = rollback
    BY <1>1, <1>13, NextStateFields
  <2> QED BY <1>1, <1>3, <1>4, <2>1, <2>2 DEF RecordCount
<1> QED BY <1>5, <1>6, <1>7, <1>8, <1>9, <1>10, <1>11, <1>12, <1>13 DEF PublishPc

\* Every step leaves the chain no longer than its last record accounts for.
LEMMA CountStep == IInv /\ JInv /\ [Next]_vars => CountInv'
<1> SUFFICES ASSUME IInv, JInv, [Next]_vars PROVE CountInv' OBVIOUS
<1>0. TypeOK /\ TypeOK' /\ CountInv /\ records \in Nat
  BY StepType DEF IInv, JInv, TypeOK
<1>1. CASE PublishState
  <2>1. pc \in PublishPc /\ records' = records + 1
    BY <1>1 DEF PublishState
  <2>2. /\ global' = NextState.global /\ candidate' = NextState.candidate
        /\ commit' = NextState.commit /\ rollback' = NextState.rollback
    BY <1>1 DEF PublishState
  <2>3. records + 1 <= RecordCount(NextState.global, NextState.candidate,
                                   NextState.commit, NextState.rollback)
    BY <2>1, PublicationCounts
  <2>4. records' <= RecordCount(global', candidate', commit', rollback')
    BY <2>1, <2>2, <2>3
  <2> QED BY <2>4 DEF CountInv, RecordCount, ReadySet, BackedUpSet, InstalledSet, RestoredSet
<1>2. CASE ~PublishState
  <2>1. UNCHANGED <<global, candidate, commit, rollback>>
    BY <1>2, RecordFrozen
  <2>2. records' = records \/ records' = 0
    <3> USE DEF chain, vars
    <3>1. CASE StartCommit BY <3>1 DEF StartCommit
    <3>2. CASE \E m \in {"complete", "rollback", "gate"} : StartRecovery(m) BY <3>2 DEF StartRecovery
    <3>3. CASE Crash \/ IoError \/ \E t \in Targets : Edit(t) BY <3>3 DEF Crash, IoError, Edit
    <3>4. CASE PublishManifest \/ WriteTemporary \/ create_candidate \/ revalidate \/ classify_before_commit
      BY <3>4 DEF PublishManifest, WriteTemporary, create_candidate, revalidate, classify_before_commit
    <3>5. CASE complete_observe \/ backup_target \/ set_mode \/ install_candidate
               \/ verify_installed \/ final_verification
      BY <3>5 DEF complete_observe, backup_target, set_mode, install_candidate, verify_installed,
           final_verification
    <3>6. CASE scan_control \/ load_active_transaction \/ classify_before_rollback
      BY <3>6 DEF scan_control, load_active_transaction, classify_before_rollback
    <3>7. CASE remove_installed_candidate \/ restore_backup \/ remove_staged_candidate
               \/ verify_restored \/ classify_after_rollback
      BY <3>7 DEF remove_installed_candidate, restore_backup, remove_staged_candidate, verify_restored,
           classify_after_rollback
    <3>8. CASE finish_transaction \/ rollback_control_only
      BY <3>8 DEF finish_transaction, rollback_control_only
    <3>9. CASE cleanup_completed_directory BY <3>9 DEF cleanup_completed_directory
    <3> QED BY <1>2, <3>1, <3>2, <3>3, <3>4, <3>5, <3>6, <3>7, <3>8, <3>9 DEF Next, Step
  <2>3. /\ RecordCount(global, candidate, commit, rollback) \in Nat
        /\ records <= RecordCount(global, candidate, commit, rollback)
    BY <1>0, CountBound DEF CountInv, TypeOK
  <2>4. records' <= RecordCount(global, candidate, commit, rollback)
    BY <1>0, <2>2, <2>3
  <2>5. RecordCount(global, candidate, commit, rollback)' = RecordCount(global, candidate, commit, rollback)
    BY <2>1 DEF RecordCount, ReadySet, BackedUpSet, InstalledSet, RestoredSet
  <2> QED BY <2>4, <2>5 DEF CountInv
<1> QED BY <1>1, <1>2

-----------------------------------------------------------------------------
(***************************************************************************)
(* The invariant holds, and what it says of the journal.                   *)
(***************************************************************************)
LEMMA InitJournal == Init => JInv
<1> SUFFICES ASSUME Init PROVE JInv OBVIOUS
<1>1. TreeInv /\ ResultInv
  BY DEF Init, TreeInv, ResultInv
<1>2. ShapeInv
  BY DEF Init, ShapeInv
<1>3. ProgressInv
  BY DEF Init, ProgressInv, CompletePc, RestorePc
<1>4. records = 0 /\ RecordCount(global, candidate, commit, rollback) \in Nat
  BY CountBound DEF Init, GlobalState
<1>5. CountInv
  BY <1>4 DEF CountInv
<1> QED BY <1>1, <1>2, <1>3, <1>5 DEF JInv

LEMMA JournalInvariantHolds == Spec => [](IInv /\ JInv)
<1>1. Init => IInv /\ JInv
  BY InitInv, InitJournal
<1>2. (IInv /\ JInv) /\ [Next]_vars => (IInv /\ JInv)'
  <2> SUFFICES ASSUME IInv, JInv, [Next]_vars PROVE (IInv /\ JInv)'
    OBVIOUS
  <2>1. IInv'
    BY StepInv
  <2>2. TreeInv' /\ ResultInv' /\ ShapeInv' /\ ProgressInv'
    BY TreeStep, ShapeStep, ProgressStep DEF JInv
  <2>3. CountInv'
    BY CountStep
  <2> QED BY <2>1, <2>2, <2>3 DEF JInv
<1> QED BY <1>1, <1>2, PTL DEF Spec

\* The chain of state records stays within three per target, one per
\* existing target and four, hence within MAX_STATE_RECORDS, however often
\* the transaction is interrupted and resumed.
THEOREM ChainStaysBounded == Spec => []ChainBounded
<1>1. IInv /\ JInv => ChainBounded
  <2> SUFFICES ASSUME IInv, JInv PROVE ChainBounded
    OBVIOUS
  <2> DEFINE count == RecordCount(global, candidate, commit, rollback)
  <2>1. records \in Nat /\ global \in GlobalState /\ N \in Nat
    BY TargetsAssumption DEF IInv, TypeOK
  <2>2. count \in Nat /\ count <= 3 * N + Cardinality(Existing) + 4
    BY <2>1, CountBound
  <2>3. records <= count
    BY DEF JInv, CountInv
  <2>4. Cardinality(Existing) \in Nat
    BY CountedSets
  <2> HIDE DEF count
  <2> QED BY <2>1, <2>2, <2>3, <2>4 DEF ChainBounded
<1> QED BY <1>1, JournalInvariantHolds, PTL

\* A publication has room for its record.
LEMMA PublicationFits ==
  ASSUME IInv, JInv, pc \in PublishPc
  PROVE  records < MaxStateRecords
<1> DEFINE count == RecordCount(NextState.global, NextState.candidate, NextState.commit, NextState.rollback)
<1>1. TypeOK /\ records \in Nat /\ N \in Nat /\ MaxTargets \in Nat /\ N <= MaxTargets
      /\ MaxStateRecords \in Nat /\ 4 * MaxTargets + 4 <= MaxStateRecords
  BY TargetsAssumption, LimitsAssumption DEF IInv, TypeOK
<1>2. NextState.global \in GlobalState
  BY <1>1, NextStateFields DEF PublishPc, GlobalState, TypeOK
<1>3. count \in Nat /\ count <= 3 * N + Cardinality(Existing) + 4
  BY <1>2, CountBound
<1>4. records + 1 <= count
  BY PublicationCounts
<1>5. Cardinality(Existing) \in Nat /\ Cardinality(Existing) <= N
  BY CountedSets
<1> HIDE DEF count
<1> QED BY <1>1, <1>3, <1>4, <1>5

\* The same record, target by target.
LEMMA NextStateTargets ==
  ASSUME TypeOK, pc \in PublishPc, NEW t \in Targets
  PROVE  /\ NextState.candidate[t] = IF pc = "pub_ready" /\ t = ti THEN "Ready" ELSE candidate[t]
         /\ NextState.commit[t] = CASE pc = "pub_backedup" /\ t = ti  -> "BackedUp"
                                    [] pc = "pub_installed" /\ t = ti -> "Installed"
                                    [] OTHER                          -> commit[t]
         /\ NextState.rollback[t] = IF pc = "pub_restored" /\ t = ti THEN Restored(t) ELSE rollback[t]
<1>1. /\ candidate \in [Targets -> CandidateKind] /\ commit \in [Targets -> CommitKind]
      /\ rollback \in [Targets -> RollbackKind] /\ ti \in Targets
  BY DEF TypeOK
<1>2. NextState.candidate[t] = IF pc = "pub_ready" /\ t = ti THEN "Ready" ELSE candidate[t]
  BY <1>1, NextStateFields
<1>3. NextState.commit[t] = CASE pc = "pub_backedup" /\ t = ti  -> "BackedUp"
                              [] pc = "pub_installed" /\ t = ti -> "Installed"
                              [] OTHER                          -> commit[t]
  BY <1>1, NextStateFields
<1>4. NextState.rollback[t] = IF pc = "pub_restored" /\ t = ti THEN Restored(t) ELSE rollback[t]
  BY <1>1, NextStateFields
<1> QED BY <1>2, <1>3, <1>4

\* The journal's own validation accepts every record the engine asks it to
\* publish (publish_state), after any sequence of crashes, failures, edits
\* and recoveries: validation never turns a recoverable state into an error.
THEOREM JournalAlwaysAccepts == Spec => []JournalAccepts
<1>1. IInv /\ JInv => JournalAccepts
  <2> SUFFICES ASSUME IInv, JInv, pc \in PublishPc PROVE publish_state_accepts
    BY DEF JournalAccepts
  <2>0. /\ TypeOK /\ PhaseInv /\ RecordInv /\ TreeInv /\ ShapeInv /\ ProgressInv
        /\ records \in Nat /\ ti \in Targets /\ global \in GlobalState
        /\ candidate \in [Targets -> CandidateKind] /\ commit \in [Targets -> CommitKind]
        /\ rollback \in [Targets -> RollbackKind] /\ MaxStateRecords \in Nat
        /\ N \in Nat /\ Targets = 1 .. N
    BY TargetsAssumption DEF IInv, JInv, TypeOK, Targets
  <2>1. records < MaxStateRecords
    BY PublicationFits
  <2> DEFINE g == NextState.global
             cand == NextState.candidate
             com == NextState.commit
             rb == NextState.rollback
  <2>7. \A t \in Targets :
          /\ cand[t] = IF pc = "pub_ready" /\ t = ti THEN "Ready" ELSE candidate[t]
          /\ com[t] = CASE pc = "pub_backedup" /\ t = ti  -> "BackedUp"
                        [] pc = "pub_installed" /\ t = ti -> "Installed"
                        [] OTHER                          -> commit[t]
          /\ rb[t] = IF pc = "pub_restored" /\ t = ti THEN Restored(t) ELSE rollback[t]
    BY <2>0, NextStateTargets
  <2>8. g = CASE pc = "pub_zero"        -> global
              [] pc = "pub_ready"       -> IF ti = N THEN "Prepared" ELSE "Preparing"
              [] pc \in {"pub_committing", "pub_backedup", "pub_installed"} -> "Committing"
              [] pc = "pub_committed"   -> "Committed"
              [] pc \in {"pub_rollingback", "pub_restored"} -> "RollingBack"
              [] pc = "pub_rolledback"  -> "RolledBack"
    BY <2>0, NextStateFields
  <2> HIDE DEF g, cand, com, rb
  <2>2. validate_state_against_originals(NextState)
    <3>1. ASSUME NEW t \in Targets
          PROVE  /\ com[t] = "BackedUp" => t \in Existing
                 /\ rb[t] = "OriginalRestored" => t \in Existing
                 /\ rb[t] = "AbsenceRestored" => t \notin Existing
      <4>1. /\ commit[t] = "BackedUp" => t \in Existing
            /\ rollback[t] \in {"None", Restored(t)}
            /\ pc = "pub_backedup" => ti \in Existing
        BY <2>0 DEF ShapeInv, ProgressInv
      <4> QED BY <2>7, <4>1 DEF Restored, RestoredKind
    <3> QED BY <3>1 DEF validate_state_against_originals, com, rb
  <2>3. validate_global_constraints(NextState)
    <3>1. CASE pc \in {"pub_zero", "pub_ready"}
      <4>1. \A t \in Targets : com[t] = "Untouched" /\ rb[t] = "None"
        BY <2>0, <2>7, <3>1 DEF PhaseInv, RecordInv, ShapeInv
      <4>2. \/ g = "Preparing"
            \/ g = "Prepared" /\ \A t \in Targets : cand[t] = "Ready"
        BY <2>0, <2>7, <2>8, <3>1 DEF PhaseInv, ProgressInv
      <4> QED BY <4>1, <4>2 DEF validate_global_constraints, g, cand, com, rb
    <3>2. CASE pc \in {"pub_committing", "pub_backedup", "pub_installed", "pub_committed"}
      <4>1. global \in {"Prepared", "Committing"}
        BY <2>0, <3>2 DEF PhaseInv, ProgressInv, ForwardPc
      <4>2. \A t \in Targets : cand[t] = "Ready" /\ rb[t] = "None"
        BY <2>0, <2>7, <3>2, <4>1 DEF RecordInv, ShapeInv
      <4>3. \/ g = "Committing"
            \/ g = "Committed" /\ \A t \in Targets : com[t] = "Installed"
        BY <2>0, <2>7, <2>8, <3>2 DEF ProgressInv
      <4> QED BY <4>2, <4>3 DEF validate_global_constraints, g, cand, com, rb
    <3>3. CASE pc \in {"pub_rollingback", "pub_restored"}
      <4>1. g = "RollingBack"
        BY <2>8, <3>3
      <4>2. \A t \in Targets : commit[t] = "Untouched" \/ candidate[t] = "Ready"
        BY <2>0, <3>3 DEF ShapeInv, ProgressInv, RestorePc, GlobalState
      <4>3. \A t \in Targets : com[t] = "Untouched" \/ cand[t] = "Ready"
        BY <2>7, <3>3, <4>2
      <4> QED BY <4>1, <4>3 DEF validate_global_constraints, g, cand, com, rb
    <3>4. CASE pc = "pub_rolledback"
      <4>1. g = "RolledBack"
        BY <2>8, <3>4
      <4>2. \A t \in Targets : rb[t] # "None"
        BY <2>0, <2>7, <3>4 DEF ProgressInv
      <4> QED BY <4>1, <4>2 DEF validate_global_constraints, g, cand, com, rb
    <3> QED BY <3>1, <3>2, <3>3, <3>4 DEF PublishPc
  <2>4. validate_state_shape(NextState)
    BY <2>0, <2>1, <2>3, NextStateFields DEF validate_state_shape
  <2>5. CASE records = 0
    <3>1. pc = "pub_zero" /\ global = "Preparing"
      BY <2>0, <2>5 DEF TreeInv, PhaseInv, PublishPc
    <3> QED BY <2>0, <2>2, <2>4, <2>5, <3>1, NextStateFields DEF publish_state_accepts, validate_state_zero
  <2>6. CASE records # 0
    <3>1. pc # "pub_zero"
      BY <2>0, <2>6 DEF TreeInv
    <3>6. /\ LastState.sequence = records - 1 /\ LastState.global = global
          /\ LastState.candidate = candidate /\ LastState.commit = commit
          /\ LastState.rollback = rollback
      BY DEF LastState
    <3>2. validate_state_shape(LastState)
      <4>1. validate_global_constraints(LastState)
        <5>1. /\ global \in {"Preparing", "Prepared"} => \A t \in Targets : commit[t] = "Untouched"
              /\ global \in {"Prepared", "Committing", "Committed"} =>
                   \A t \in Targets : candidate[t] = "Ready"
              /\ global = "Committed" => \A t \in Targets : commit[t] = "Installed"
              /\ global = "RollingBack" =>
                   \A t \in Targets : commit[t] = "Untouched" \/ candidate[t] = "Ready"
          BY <2>0 DEF ShapeInv
        <5>2. /\ global \in {"Preparing", "Prepared", "Committing", "Committed"} =>
                   \A t \in Targets : rollback[t] = "None"
              /\ global = "RolledBack" => \A t \in Targets : rollback[t] # "None"
          BY <2>0 DEF RecordInv
        <5>3. global \in {"Preparing", "Prepared", "Committing", "Committed", "RollingBack", "RolledBack"}
          BY <2>0 DEF GlobalState
        <5> QED BY <3>6, <5>1, <5>2, <5>3 DEF validate_global_constraints
      <4> QED BY <2>0, <2>1, <3>6, <4>1 DEF validate_state_shape
    <3>3. NextState.sequence = LastState.sequence + 1
      BY <2>0, <3>6, NextStateFields
    <3>4. g \in GlobalSuccessors(global)
      BY <2>0, <2>8, <3>1 DEF GlobalSuccessors, PublishPc, PhaseInv, ProgressInv, ForwardPc, RestorePc,
           GlobalState
    <3>5. ASSUME NEW t \in Targets PROVE validate_target_progress(LastState, NextState, t)
      <4>1. \/ candidate[t] = cand[t]
            \/ candidate[t] = "Missing" /\ cand[t] = "Ready"
        BY <2>0, <2>7 DEF CandidateKind
      <4>2. g \notin {"RollingBack", "RolledBack"} => rollback[t] = rb[t]
        BY <2>7, <2>8 DEF PublishPc
      <4>3. g \in {"RollingBack", "RolledBack"} => commit[t] = com[t]
        BY <2>7, <2>8
      <4>4. rollback[t] # "None" => rollback[t] = rb[t]
        BY <2>0, <2>7 DEF ProgressInv
      <4>5. commit_rank(com[t]) >= commit_rank(commit[t])
        <5>1. \/ com[t] = commit[t]
              \/ com[t] = "BackedUp" /\ commit[t] = "Untouched"
              \/ com[t] = "Installed"
          BY <2>0, <2>7 DEF ProgressInv
        <5>2. commit[t] \in {"Untouched", "BackedUp", "Installed"}
          BY <2>0 DEF CommitKind
        <5> QED BY <5>1, <5>2 DEF commit_rank
      <4> QED BY <3>6, <4>1, <4>2, <4>3, <4>4, <4>5 DEF validate_target_progress, g, cand, com, rb
    <3> QED BY <2>2, <2>4, <2>6, <3>2, <3>3, <3>4, <3>5, <3>6
           DEF publish_state_accepts, validate_state_transition, g
  <2> QED BY <2>5, <2>6
<1> QED BY <1>1, JournalInvariantHolds, PTL

-----------------------------------------------------------------------------
(***************************************************************************)
(* What is on disk.  The layouts a target passes through: not touched,     *)
(* moved away (the same thing for a target that did not exist), replaced.  *)
(***************************************************************************)
AtRest(t) == target[t] = InitialFile(t) /\ backup[t] = "absent"
MovedAway(t) == target[t] = "absent" /\ backup[t] = InitialFile(t)
Replaced(t) == target[t] = "moded" /\ staged[t] = "absent" /\ backup[t] = InitialFile(t)

\* A candidate file against its record; nobody else touches it.
Candidate(t) ==
  /\ staged[t] \in {"absent", "partial", "staged", "moded"}
  /\ candidate[t] = "Ready" => staged[t] # "partial"
  /\ candidate[t] = "Ready" /\ global \in {"Preparing", "Prepared"} => staged[t] = "staged"
  /\ global = "Preparing" /\ records = 0 => staged[t] = "absent"

CandidateInv ==
  /\ \A t \in Targets : Candidate(t)
  /\ pc = "pub_ready" => staged[ti] = "staged"

\* The layouts of an unedited target that the last record allows.
Layout(t) ==
  /\ global \in {"Preparing", "Prepared"} => AtRest(t)
  /\ global = "Committing" =>
       \/ AtRest(t) /\ staged[t] \in CandidateFile
       \/ MovedAway(t) /\ staged[t] \in CandidateFile
       \/ Replaced(t)
  /\ global = "Committing" /\ commit[t] = "BackedUp" => backup[t] = "original"
  /\ global = "Committing" /\ commit[t] = "Installed" => Replaced(t)
  /\ global = "Committed" =>
       /\ target[t] = "moded" /\ staged[t] = "absent"
       /\ dir = "active" => backup[t] = InitialFile(t)
  /\ global = "RollingBack" => \/ AtRest(t)
                               \/ MovedAway(t) /\ staged[t] # "partial"
                               \/ Replaced(t) /\ candidate[t] = "Ready"
  /\ rollback[t] # "None" => AtRest(t) /\ staged[t] = "absent"
  /\ dir = "none" => staged[t] = "absent" /\ backup[t] = "absent"

LayoutInv == \A t \in Unedited : Layout(t)

\* The layout of the target that complete_target or rollback_target is at.
PointInv ==
  ti \in Unedited =>
    /\ pc = "backup" => AtRest(ti) /\ staged[ti] \in CandidateFile
    /\ pc = "mode" => MovedAway(ti) /\ staged[ti] \in CandidateFile
    /\ pc \in {"pub_backedup", "install"} => MovedAway(ti) /\ staged[ti] = "moded"
    /\ pc \in {"verify", "pub_installed"} => Replaced(ti)
    /\ pc = "rb_restore" => AtRest(ti) \/ MovedAway(ti)
    /\ pc = "rb_clean" => AtRest(ti)
    /\ pc \in {"rb_verify", "pub_restored"} => AtRest(ti) /\ staged[ti] = "absent"

OInv == CandidateInv /\ LayoutInv /\ PointInv

-----------------------------------------------------------------------------
(***************************************************************************)
(* What the steps do to the files.                                         *)
(***************************************************************************)
\* An original is a file or nothing.
LEMMA InitialFiles ==
  ASSUME NEW t \in Targets
  PROVE  /\ InitialFile(t) \in {"original", "absent"}
         /\ t \in Existing <=> InitialFile(t) = "original"
BY DEF InitialFile

\* The steps of the engine that move no file.
QuietStep ==
  \/ StartCommit \/ (\E m \in {"complete", "rollback", "gate"} : StartRecovery(m))
  \/ Crash \/ IoError
  \/ PublishManifest \/ WriteTemporary \/ PublishState
  \/ revalidate \/ classify_before_commit \/ complete_observe
  \/ verify_installed \/ final_verification
  \/ scan_control \/ load_active_transaction \/ classify_before_rollback
  \/ verify_restored \/ classify_after_rollback
  \/ finish_transaction \/ rollback_control_only

\* They leave targets, candidates and backups alone.
LEMMA QuietFiles == ASSUME QuietStep PROVE UNCHANGED <<target, staged, backup, edited>>
<1> USE DEF files, history
<1>1. CASE StartCommit BY <1>1 DEF StartCommit
<1>2. CASE \E m \in {"complete", "rollback", "gate"} : StartRecovery(m) BY <1>2 DEF StartRecovery
<1>3. CASE Crash \/ IoError BY <1>3 DEF Crash, IoError
<1>4. CASE PublishManifest \/ WriteTemporary \/ PublishState
  BY <1>4 DEF PublishManifest, WriteTemporary, PublishState
<1>5. CASE revalidate \/ classify_before_commit \/ complete_observe
  BY <1>5 DEF revalidate, classify_before_commit, complete_observe
<1>6. CASE verify_installed \/ final_verification BY <1>6 DEF verify_installed, final_verification
<1>7. CASE scan_control \/ load_active_transaction \/ classify_before_rollback
  BY <1>7 DEF scan_control, load_active_transaction, classify_before_rollback
<1>8. CASE verify_restored \/ classify_after_rollback BY <1>8 DEF verify_restored, classify_after_rollback
<1>9. CASE finish_transaction \/ rollback_control_only
  BY <1>9 DEF finish_transaction, rollback_control_only
<1> QED BY <1>1, <1>2, <1>3, <1>4, <1>5, <1>6, <1>7, <1>8, <1>9 DEF QuietStep

\* Every step is quiet or one of those that touch a file.
LEMMA StepKinds ==
  ASSUME [Next]_vars
  PROVE  \/ QuietStep \/ create_candidate \/ backup_target \/ set_mode \/ install_candidate
         \/ remove_installed_candidate \/ restore_backup \/ remove_staged_candidate
         \/ cleanup_completed_directory \/ (\E t \in Targets : Edit(t)) \/ UNCHANGED vars
BY DEF Next, Step, QuietStep

\* Where rollback and completion remove or read files, target by target.
LEMMA CleanupEffect ==
  ASSUME TypeOK, cleanup_completed_directory
  PROVE  /\ pc = "cleanup" /\ UNCHANGED <<target, global, candidate, commit, rollback, started, edited>>
         /\ \A t \in Targets : staged'[t] \in {staged[t], "absent"} /\ backup'[t] \in {backup[t], "absent"}
         /\ \/ UNCHANGED <<pc, ti, mode, dir>>
            \/ /\ pc' = "idle" /\ dir' = "none" /\ UNCHANGED files
               /\ \A t \in Targets : staged[t] = "absent" /\ backup[t] = "absent"
         /\ records' \in {records, 0}
<1>0. staged \in [Targets -> File] /\ backup \in [Targets -> File]
  BY DEF TypeOK
<1>1. pc = "cleanup" /\ UNCHANGED <<target, global, candidate, commit, rollback, started, edited>>
  BY DEF cleanup_completed_directory, files, history
<1>2. backup' = backup \/ \E t : backup' = [backup EXCEPT ![t] = "absent"]
  BY DEF cleanup_completed_directory, files
<1>3. staged' = staged \/ \E t : staged' = [staged EXCEPT ![t] = "absent"]
  BY DEF cleanup_completed_directory, files
<1>4. \A t \in Targets : staged'[t] \in {staged[t], "absent"} /\ backup'[t] \in {backup[t], "absent"}
  BY <1>0, <1>2, <1>3
<1>5. \/ UNCHANGED <<pc, ti, mode, dir>>
      \/ /\ pc' = "idle" /\ dir' = "none" /\ UNCHANGED files
         /\ \A t \in Targets : staged[t] = "absent" /\ backup[t] = "absent"
  BY DEF cleanup_completed_directory, Return, control, process
<1>6. records' \in {records, 0}
  BY DEF cleanup_completed_directory
<1> QED BY <1>1, <1>4, <1>5, <1>6
\* Quiet steps other than publications keep the record, and none but
\* create_candidate leads to the publication of a candidate.
LEMMA QuietFlow ==
  ASSUME TypeOK, QuietStep
  PROVE  /\ pc' = "pub_ready" => pc = "pub_ready" /\ ti' = ti
         /\ ~PublishState => UNCHANGED <<records, global, candidate, commit, rollback>>
<1> USE DEF chain
<1>1. CASE StartCommit BY <1>1 DEF StartCommit, PublishState, PublishPc
<1>2. CASE \E m \in {"complete", "rollback", "gate"} : StartRecovery(m) BY <1>2 DEF StartRecovery
<1>3. CASE Crash \/ IoError BY <1>3, AbortEffect DEF Crash, IoError, Return
<1>4. CASE PublishManifest BY <1>4 DEF PublishManifest, Goto, process
<1>5. CASE WriteTemporary BY <1>5, AbortEffect DEF WriteTemporary, process
<1>6. CASE PublishState BY <1>6, PublishEffect
<1>7. CASE revalidate BY <1>7, AbortEffect DEF revalidate, Goto
<1>8. CASE classify_before_commit BY <1>8, AbortEffect DEF classify_before_commit, Goto
<1>9. CASE complete_observe BY <1>9 DEF complete_observe, FirstStep, Goto
<1>10. CASE verify_installed BY <1>10, AbortEffect DEF verify_installed, Goto
<1>11. CASE final_verification BY <1>11, AbortEffect DEF final_verification, Goto
<1>12. CASE scan_control
  <2>1. Abort \/ Goto("cleanup", 1) \/ Goto("control", 1) \/ Goto("load", 1)
    BY <1>12 DEF scan_control
  <2> QED BY <1>12, <2>1, AbortEffect DEF scan_control, Goto
<1>13. CASE load_active_transaction
  BY <1>13, AbortEffect DEF load_active_transaction, recover_complete_active, recover_rollback_active, Goto
<1>14. CASE classify_before_rollback BY <1>14, AbortEffect DEF classify_before_rollback, Goto
<1>15. CASE verify_restored BY <1>15, AbortEffect DEF verify_restored, Goto
<1>16. CASE classify_after_rollback BY <1>16, AbortEffect DEF classify_after_rollback, Goto
<1>17. CASE finish_transaction BY <1>17 DEF finish_transaction, Goto
<1>18. CASE rollback_control_only BY <1>18 DEF rollback_control_only, Return, process
<1> QED BY <1>1, <1>2, <1>3, <1>4, <1>5, <1>6, <1>7, <1>8, <1>9, <1>10, <1>11, <1>12, <1>13, <1>14,
          <1>15, <1>16, <1>17, <1>18 DEF QuietStep

-----------------------------------------------------------------------------
(***************************************************************************)
(* The candidates.                                                         *)
(***************************************************************************)
\* No step breaks the agreement of candidate files with their records.
LEMMA CandidateStep ==
  IInv /\ JInv /\ CandidateInv /\ [Next]_vars => CandidateInv'
<1> SUFFICES ASSUME IInv, JInv, CandidateInv, [Next]_vars PROVE CandidateInv' OBVIOUS
<1> TypeOK /\ TypeOK' /\ PhaseInv /\ TreeInv /\ ShapeInv /\ ProgressInv
  BY StepType DEF IInv, JInv
<1> /\ staged \in [Targets -> File] /\ candidate \in [Targets -> CandidateKind] /\ ti \in Targets
    /\ records \in Nat /\ N \in Nat /\ Targets = 1 .. N
  BY TargetsAssumption DEF TypeOK, Targets
<1> USE DEF CandidateInv, Candidate, chain
<1>1. CASE QuietStep
  <2>1. UNCHANGED <<target, staged, backup, edited>>
    BY <1>1, QuietFiles
  <2>2. CASE ~PublishState
    BY <1>1, <2>1, <2>2, QuietFlow
  <2>3. CASE PublishState
    <3>1. records' = records + 1
      BY <2>3 DEF PublishState
    <3>2. pc' # "pub_ready"
      BY <2>3, PublishEffect
    <3>3. ASSUME NEW t \in Targets PROVE Candidate(t)'
      BY <2>1, <2>3, <3>1, PublishEffect DEF PhaseInv, ProgressInv
    <3> QED BY <3>2, <3>3
  <2> QED BY <2>2, <2>3
<1>2. CASE create_candidate
  <2>1. pc = "create" /\ records > 0 /\ global = "Preparing" /\ candidate[ti] # "Ready"
    BY <1>2 DEF create_candidate, TreeInv, PhaseInv, ProgressInv
  <2>2. UNCHANGED <<records, global, candidate>>
    BY <1>2 DEF create_candidate
  <2>3. \/ /\ \A t \in Targets : staged'[t] = IF t = ti THEN "partial" ELSE staged[t]
           /\ pc' = "create"
        \/ /\ \A t \in Targets : staged'[t] = IF t = ti THEN "staged" ELSE staged[t]
           /\ ti' = ti
    BY <1>2 DEF create_candidate, Goto, process
  <2> QED BY <2>1, <2>2, <2>3
<1>3. CASE backup_target
  BY <1>3, AbortEffect DEF backup_target, Goto, files
<1>4. CASE set_mode
  <2>1. pc = "mode" /\ global = "Committing" /\ UNCHANGED <<records, global, candidate>>
    BY <1>4 DEF set_mode, PhaseInv, ForwardPc
  <2>2. \A t \in Targets : staged'[t] = IF t = ti /\ staged[ti] # "absent" THEN "moded" ELSE staged[t]
    BY <1>4 DEF set_mode, WithFinalMode
  <2>3. pc' # "pub_ready"
    BY <1>4, AbortEffect DEF set_mode, Goto
  <2> QED BY <2>1, <2>2, <2>3
<1>5. CASE install_candidate
  <2>1. pc = "install" /\ global = "Committing" /\ UNCHANGED <<records, global, candidate>>
    BY <1>5 DEF install_candidate, PhaseInv, ForwardPc
  <2>2. \A t \in Targets : staged'[t] \in {staged[t], "absent"}
    BY <1>5 DEF install_candidate, files
  <2>3. pc' # "pub_ready"
    BY <1>5, AbortEffect DEF install_candidate, Goto
  <2> QED BY <2>1, <2>2, <2>3
<1>6. CASE remove_installed_candidate
  BY <1>6 DEF remove_installed_candidate, Goto
<1>7. CASE restore_backup
  BY <1>7, AbortEffect DEF restore_backup, Goto
<1>8. CASE remove_staged_candidate
  <2>1. pc = "rb_clean" /\ global = "RollingBack" /\ UNCHANGED <<records, global, candidate>>
    BY <1>8 DEF remove_staged_candidate, ProgressInv, RestorePc
  <2>2. \A t \in Targets : staged'[t] \in {staged[t], "absent"}
    BY <1>8 DEF remove_staged_candidate
  <2>3. pc' # "pub_ready"
    BY <1>8, AbortEffect DEF remove_staged_candidate, Goto
  <2> QED BY <2>1, <2>2, <2>3
<1>9. CASE cleanup_completed_directory
  <2>1. global \in {"Committed", "RolledBack"} /\ pc' \in {"cleanup", "idle"}
    BY <1>9, CleanupEffect DEF PhaseInv
  <2> QED BY <1>9, <2>1, CleanupEffect
<1>10. CASE \E t \in Targets : Edit(t)
  BY <1>10 DEF Edit, process
<1>11. CASE UNCHANGED vars
  BY <1>11 DEF vars
<1> QED BY <1>1, <1>2, <1>3, <1>4, <1>5, <1>6, <1>7, <1>8, <1>9, <1>10, <1>11, StepKinds
-----------------------------------------------------------------------------
(***************************************************************************)
(* The layout of the targets nobody else has edited.                       *)
(***************************************************************************)
\* A target that is unedited after a step was unedited before it, and a
\* transaction directory becomes active only with StartCommit; it goes
\* quietly only when no state record was published.
LEMMA EditedGrows ==
  ASSUME IInv, [Next]_vars
  PROVE  /\ Unedited' \subseteq Unedited /\ Unedited \subseteq Targets
         /\ dir' = "active" /\ dir # "active" => global = "Preparing"
         /\ dir' = "none" /\ dir # "none" => rollback_control_only \/ cleanup_completed_directory
<1> TypeOK /\ PhaseInv BY DEF IInv
<1>0. edited \in [Targets -> {"no", "wrote", "deleted"}]
  BY DEF TypeOK
<1> USE DEF Unedited, history, control, files
<1>1. CASE QuietStep
  <2>1. edited' = edited
    BY <1>1, QuietFiles
  <2>2. /\ dir' = "active" /\ dir # "active" => StartCommit
        /\ dir' = "none" /\ dir # "none" => rollback_control_only
    <3>1. CASE \E m \in {"complete", "rollback", "gate"} : StartRecovery(m) BY <3>1 DEF StartRecovery
    <3>2. CASE Crash \/ IoError BY <3>2 DEF Crash, IoError
    <3>3. CASE PublishManifest \/ WriteTemporary \/ PublishState
      BY <3>3 DEF PublishManifest, WriteTemporary, PublishState
    <3>4. CASE revalidate \/ classify_before_commit \/ complete_observe \/ verify_installed \/ final_verification
      BY <3>4 DEF revalidate, classify_before_commit, complete_observe, verify_installed, final_verification
    <3>5. CASE scan_control \/ load_active_transaction \/ classify_before_rollback
      BY <3>5 DEF scan_control, load_active_transaction, classify_before_rollback
    <3>6. CASE verify_restored \/ classify_after_rollback BY <3>6 DEF verify_restored, classify_after_rollback
    <3>7. CASE finish_transaction \/ rollback_control_only
      BY <3>7 DEF finish_transaction, rollback_control_only
    <3>8. CASE StartCommit BY <3>8 DEF StartCommit
    <3> QED BY <1>1, <3>1, <3>2, <3>3, <3>4, <3>5, <3>6, <3>7, <3>8 DEF QuietStep
  <2>3. StartCommit => global = "Preparing"
    BY DEF StartCommit, PhaseInv
  <2> QED BY <2>1, <2>2, <2>3
<1>2. CASE create_candidate \/ backup_target \/ set_mode \/ install_candidate
  BY <1>2 DEF create_candidate, backup_target, set_mode, install_candidate
<1>3. CASE remove_installed_candidate \/ restore_backup \/ remove_staged_candidate
  BY <1>3 DEF remove_installed_candidate, restore_backup, remove_staged_candidate
<1>4. CASE cleanup_completed_directory
  BY <1>4, CleanupEffect
<1>5. CASE \E t \in Targets : Edit(t)
  BY <1>0, <1>5 DEF Edit
<1>6. CASE UNCHANGED vars
  BY <1>6 DEF vars
<1> QED BY <1>1, <1>2, <1>3, <1>4, <1>5, <1>6, StepKinds

\* Every step takes an unedited target from a layout its record allows to
\* one that the record after the step allows.
LEMMA LayoutStep ==
  IInv /\ JInv /\ OInv /\ [Next]_vars => LayoutInv'
<1> SUFFICES ASSUME IInv, JInv, OInv, [Next]_vars, NEW t \in Unedited' PROVE Layout(t)'
  BY DEF LayoutInv
<1>0. t \in Unedited /\ t \in Targets /\ Layout(t) /\ Candidate(t)
  BY EditedGrows DEF OInv, LayoutInv, CandidateInv
<1>a. dir' = "active" /\ dir # "active" => global = "Preparing"
  BY EditedGrows
<1>e. dir' = "none" /\ dir # "none" => rollback_control_only \/ cleanup_completed_directory
  BY EditedGrows
<1>b. TypeOK /\ PhaseInv /\ RecordInv /\ TreeInv /\ ShapeInv /\ ProgressInv /\ CandidateInv /\ PointInv
  BY DEF IInv, JInv, OInv
<1>c. /\ target \in [Targets -> File] /\ staged \in [Targets -> File] /\ backup \in [Targets -> File]
      /\ candidate \in [Targets -> CandidateKind] /\ commit \in [Targets -> CommitKind]
      /\ rollback \in [Targets -> RollbackKind] /\ ti \in Targets /\ global \in GlobalState
  BY <1>b DEF TypeOK
<1>d. InitialFile(t) \in {"original", "absent"} /\ (t \in Existing <=> InitialFile(t) = "original")
  BY <1>0, InitialFiles
<1> USE DEF Layout, AtRest, MovedAway, Replaced, CandidateFile
<1>1. CASE QuietStep /\ ~cleanup_completed_directory
  <2>1. UNCHANGED <<target, staged, backup, edited>>
    BY <1>1, QuietFiles
  <2>2. CASE ~PublishState
    <3>1. UNCHANGED <<records, global, candidate, commit, rollback>>
      BY <1>1, <1>b, <2>2, QuietFlow
    <3>2. dir' = "none" /\ dir # "none" => rollback_control_only
      BY <1>1, <1>e
    <3>3. rollback_control_only => global = "Preparing" /\ records = 0
      BY <1>b DEF rollback_control_only, TreeInv
    <3> QED BY <1>0, <1>a, <2>1, <3>1, <3>2, <3>3 DEF InitialFile, Candidate
  <2>3. CASE PublishState
    <3>0. /\ target'[t] = target[t] /\ staged'[t] = staged[t] /\ backup'[t] = backup[t]
          /\ dir = "active" /\ dir' = dir /\ InitialFile(t)' = InitialFile(t)
      BY <1>b, <2>1, <2>3 DEF PublishState, control, InitialFile, TreeInv, PublishPc
    <3>1. CASE pc = "pub_zero"
      BY <1>0, <1>b, <2>3, <3>0, <3>1, PublishEffect
    <3>2. CASE pc = "pub_ready"
      BY <1>0, <1>b, <1>c, <2>3, <3>0, <3>2, PublishEffect DEF PhaseInv, RecordInv
    <3>3. CASE pc = "pub_committing"
      <4>1. /\ global = "Prepared" /\ candidate[t] = "Ready" /\ commit[t] = "Untouched"
            /\ rollback[t] = "None"
        BY <1>0, <1>b, <3>3 DEF ProgressInv, ShapeInv, RecordInv
      <4>2. global' = "Committing" /\ commit' = commit /\ rollback' = rollback
        BY <1>b, <2>3, <3>3, PublishEffect
      <4> QED BY <1>0, <3>0, <4>1, <4>2 DEF Candidate
    <3>4. CASE pc = "pub_backedup"
      <4>1. global = "Committing" /\ rollback[t] = "None" /\ ti \in Existing
        BY <1>0, <1>b, <3>4 DEF PhaseInv, ForwardPc, RecordInv, ProgressInv
      <4>2. /\ global' = "Committing" /\ rollback' = rollback
            /\ commit'[t] = IF t = ti THEN "BackedUp" ELSE commit[t]
        BY <1>0, <1>b, <1>c, <2>3, <3>4, PublishEffect
      <4>3. t = ti => backup[t] = "original"
        BY <1>0, <1>b, <1>d, <3>4, <4>1 DEF PointInv
      <4> QED BY <1>0, <3>0, <4>1, <4>2, <4>3
    <3>5. CASE pc = "pub_installed"
      <4>1. global = "Committing" /\ rollback[t] = "None"
        BY <1>0, <1>b, <3>5 DEF PhaseInv, ForwardPc, RecordInv
      <4>2. /\ global' = "Committing" /\ rollback' = rollback
            /\ commit'[t] = IF t = ti THEN "Installed" ELSE commit[t]
        BY <1>0, <1>b, <1>c, <2>3, <3>5, PublishEffect
      <4>3. t = ti => Replaced(t)
        BY <1>0, <1>b, <3>5 DEF PointInv
      <4> QED BY <1>0, <3>0, <4>1, <4>2, <4>3
    <3>6. CASE pc = "pub_committed"
      <4>1. global = "Committing" /\ rollback[t] = "None" /\ commit[t] = "Installed"
        BY <1>0, <1>b, <3>6 DEF PhaseInv, ForwardPc, RecordInv, ProgressInv
      <4>2. global' = "Committed" /\ rollback' = rollback /\ commit' = commit
        BY <1>b, <2>3, <3>6, PublishEffect
      <4> QED BY <1>0, <3>0, <4>1, <4>2
    <3>7. CASE pc = "pub_rollingback"
      <4>1. global \in {"Preparing", "Prepared", "Committing"} /\ rollback[t] = "None"
        BY <1>0, <1>b, <1>c, <3>7 DEF RecordInv, ProgressInv, GlobalState
      <4>2. global' = "RollingBack" /\ rollback' = rollback /\ candidate' = candidate
        BY <1>b, <2>3, <3>7, PublishEffect
      <4>3. global = "Committing" => candidate[t] = "Ready"
        BY <1>0, <1>b DEF ShapeInv
      <4> QED BY <1>0, <3>0, <4>1, <4>2, <4>3
    <3>8. CASE pc = "pub_restored"
      <4>1. global = "RollingBack"
        BY <1>b, <3>8 DEF ProgressInv, RestorePc
      <4>2. /\ global' = "RollingBack" /\ candidate' = candidate
            /\ t # ti => rollback'[t] = rollback[t]
        BY <1>0, <1>b, <1>c, <2>3, <3>8, PublishEffect
      <4>3. t = ti => AtRest(t) /\ staged[t] = "absent"
        BY <1>0, <1>b, <3>8 DEF PointInv
      <4> QED BY <1>0, <3>0, <4>1, <4>2, <4>3
    <3>9. CASE pc = "pub_rolledback"
      <4>1. rollback[t] # "None"
        BY <1>0, <1>b, <3>9 DEF ProgressInv
      <4>2. global' = "RolledBack"
        BY <1>b, <2>3, <3>9, PublishEffect
      <4> QED BY <1>0, <3>0, <4>1, <4>2
    <3> QED BY <2>3, <3>1, <3>2, <3>3, <3>4, <3>5, <3>6, <3>7, <3>8, <3>9 DEF PublishState, PublishPc
  <2> QED BY <2>2, <2>3
<1>2. CASE create_candidate
  <2>1. /\ global = "Preparing" /\ rollback[t] = "None" /\ dir = "active"
        /\ UNCHANGED <<target, backup, dir, global, candidate, commit, rollback>>
    BY <1>0, <1>2, <1>b DEF create_candidate, control, chain, PhaseInv, RecordInv, TreeInv
  <2> QED BY <1>0, <2>1 DEF InitialFile
<1>3. CASE backup_target
  <2>1. /\ pc = "backup" /\ global = "Committing" /\ rollback[t] = "None" /\ dir = "active"
        /\ UNCHANGED <<staged, dir, global, candidate, commit, rollback>>
        /\ InitialFile(t)' = InitialFile(t)
    BY <1>0, <1>3, <1>b DEF backup_target, files, control, chain, PhaseInv, ForwardPc, RecordInv,
         TreeInv, InitialFile
  <2>2. \/ UNCHANGED <<target, backup>>
        \/ t # ti /\ target'[t] = target[t] /\ backup'[t] = backup[t]
        \/ t = ti /\ target'[t] = "absent" /\ backup'[t] = target[t]
    BY <1>0, <1>3, <1>c DEF backup_target, files
  <2>3. t = ti => AtRest(t) /\ staged[t] \in CandidateFile
    BY <1>0, <1>b, <2>1 DEF PointInv
  <2>4. t = ti /\ commit[t] = "BackedUp" => backup[t] = "original"
    BY <1>0, <2>1
  <2> QED BY <1>0, <1>d, <2>1, <2>2, <2>3, <2>4
<1>4. CASE set_mode
  <2>1. /\ pc = "mode" /\ global = "Committing" /\ rollback[t] = "None" /\ dir = "active"
        /\ UNCHANGED <<target, backup, dir, global, candidate, commit, rollback>>
        /\ InitialFile(t)' = InitialFile(t)
    BY <1>0, <1>4, <1>b DEF set_mode, control, chain, PhaseInv, ForwardPc, RecordInv,
         TreeInv, InitialFile
  <2>2. \/ staged'[t] = staged[t]
        \/ t = ti /\ staged'[t] = "moded"
    BY <1>0, <1>4, <1>c DEF set_mode, WithFinalMode
  <2>3. t = ti => MovedAway(t) /\ staged[t] \in CandidateFile
    BY <1>0, <1>b, <2>1 DEF PointInv
  <2> QED BY <1>0, <1>d, <2>1, <2>2, <2>3
<1>5. CASE install_candidate
  <2>1. /\ pc = "install" /\ global = "Committing" /\ rollback[t] = "None" /\ dir = "active"
        /\ UNCHANGED <<backup, dir, global, candidate, commit, rollback>>
        /\ InitialFile(t)' = InitialFile(t)
    BY <1>0, <1>5, <1>b DEF install_candidate, files, control, chain, PhaseInv, ForwardPc, RecordInv,
         TreeInv, InitialFile
  <2>2. \/ UNCHANGED <<target, staged>>
        \/ t # ti /\ target'[t] = target[t] /\ staged'[t] = staged[t]
        \/ t = ti /\ target'[t] = staged[t] /\ staged'[t] = "absent"
    BY <1>0, <1>5, <1>c DEF install_candidate, files
  <2>3. t = ti => MovedAway(t) /\ staged[t] = "moded"
    BY <1>0, <1>b, <2>1 DEF PointInv
  <2> QED BY <1>0, <1>d, <2>1, <2>2, <2>3
<1>6. CASE remove_installed_candidate
  <2>1. /\ pc = "rb_remove" /\ global = "RollingBack" /\ dir = "active"
        /\ UNCHANGED <<staged, backup, dir, global, candidate, commit, rollback>>
        /\ InitialFile(t)' = InitialFile(t)
    BY <1>6, <1>b DEF remove_installed_candidate, control, chain, ProgressInv, RestorePc,
         TreeInv, InitialFile
  <2>2. \/ target'[t] = target[t]
        \/ /\ t = ti /\ target'[t] = "absent"
           /\ observe_target(t)[1] = "Candidate"
    BY <1>0, <1>6, <1>c DEF remove_installed_candidate
  <2>3. observe_target(t)[1] = "Candidate" => target[t] \in CandidateFile
    BY <1>0, <1>c DEF observe_target, classify_location, File
  <2> QED BY <1>0, <1>d, <2>1, <2>2, <2>3
<1>7. CASE restore_backup
  <2>1. /\ pc = "rb_restore" /\ global = "RollingBack" /\ dir = "active"
        /\ UNCHANGED <<staged, dir, global, candidate, commit, rollback>>
        /\ InitialFile(t)' = InitialFile(t)
    BY <1>7, <1>b DEF restore_backup, control, chain, ProgressInv, RestorePc,
         TreeInv, InitialFile
  <2>2. \/ UNCHANGED <<target, backup>>
        \/ t # ti /\ target'[t] = target[t] /\ backup'[t] = backup[t]
        \/ /\ t = ti /\ t \in Existing /\ backup[t] = "original"
           /\ target'[t] = "original" /\ backup'[t] = "absent"
    BY <1>0, <1>7, <1>c DEF restore_backup
  <2> QED BY <1>0, <1>d, <2>1, <2>2
<1>8. CASE remove_staged_candidate
  <2>1. /\ pc = "rb_clean" /\ global = "RollingBack" /\ dir = "active"
        /\ UNCHANGED <<target, backup, dir, global, candidate, commit, rollback>>
        /\ InitialFile(t)' = InitialFile(t)
    BY <1>8, <1>b DEF remove_staged_candidate, control, chain, ProgressInv, RestorePc,
         TreeInv, InitialFile
  <2>2. staged'[t] \in {staged[t], "absent"}
    BY <1>0, <1>8, <1>c DEF remove_staged_candidate
  <2> QED BY <1>0, <1>d, <2>1, <2>2
<1>9. CASE cleanup_completed_directory
  <2>1. /\ dir \in {"committed", "rolledback"} /\ global \in {"Committed", "RolledBack"}
        /\ dir' \in {dir, "none"}
        /\ dir' = "none" => staged'[t] = "absent" /\ backup'[t] = "absent"
    BY <1>0, <1>9, <1>b, CleanupEffect DEF PhaseInv, files
  <2>2. /\ UNCHANGED <<target, global, candidate, commit, rollback>>
        /\ staged'[t] \in {staged[t], "absent"} /\ backup'[t] \in {backup[t], "absent"}
        /\ InitialFile(t)' = InitialFile(t)
    BY <1>0, <1>9, <1>b, CleanupEffect DEF InitialFile
  <2> QED BY <1>0, <1>d, <2>1, <2>2
<1>10. CASE \E u \in Targets : Edit(u)
  <2> PICK u \in Targets : Edit(u)
    BY <1>10
  <2>1. u # t /\ target'[t] = target[t]
    <3>1. edited \in [Targets -> {"no", "wrote", "deleted"}]
      BY <1>b DEF TypeOK
    <3>2. edited'[u] # "no" /\ edited'[t] = "no"
      BY <3>1 DEF Edit, Unedited
    <3> QED BY <1>0, <1>c, <3>2 DEF Edit
  <2>2. UNCHANGED <<staged, backup, dir, global, candidate, commit, rollback>>
    BY DEF Edit, control, chain
  <2> QED BY <1>0, <2>1, <2>2 DEF InitialFile
<1>11. CASE UNCHANGED vars
  BY <1>0, <1>11 DEF vars, InitialFile
<1> QED BY <1>1, <1>2, <1>3, <1>4, <1>5, <1>6, <1>7, <1>8, <1>9, <1>10, <1>11, StepKinds
\* The program points whose target has a known layout.
PointPc == {"backup", "mode", "pub_backedup", "install", "verify", "pub_installed",
            "rb_restore", "rb_clean", "rb_verify", "pub_restored"}

\* The quiet steps that lead to one of them.
LEMMA QuietPoint ==
  ASSUME TypeOK, QuietStep, pc' \in PointPc
  PROVE  \/ UNCHANGED <<pc, ti>>
         \/ complete_observe \/ verify_installed \/ verify_restored
         \/ pc = "pub_backedup" /\ pc' = "install" /\ ti' = ti
<1> USE DEF PointPc
<1>1. CASE StartCommit BY <1>1 DEF StartCommit
<1>2. CASE \E m \in {"complete", "rollback", "gate"} : StartRecovery(m) BY <1>2 DEF StartRecovery
<1>3. CASE Crash \/ IoError BY <1>3, AbortEffect DEF Crash, IoError, Return
<1>4. CASE PublishManifest BY <1>4 DEF PublishManifest, Goto, process
<1>5. CASE WriteTemporary BY <1>5, AbortEffect DEF WriteTemporary, process
<1>6. CASE PublishState BY <1>6, PublishEffect
<1>7. CASE revalidate BY <1>7, AbortEffect DEF revalidate, Goto
<1>8. CASE classify_before_commit BY <1>8, AbortEffect DEF classify_before_commit, Goto
<1>9. CASE final_verification BY <1>9, AbortEffect DEF final_verification, Goto
<1>10. CASE scan_control
  <2>1. Abort \/ Goto("cleanup", 1) \/ Goto("control", 1) \/ Goto("load", 1)
    BY <1>10 DEF scan_control
  <2> QED BY <2>1, AbortEffect DEF Goto
<1>11. CASE load_active_transaction
  BY <1>11, AbortEffect DEF load_active_transaction, recover_complete_active, recover_rollback_active, Goto
<1>12. CASE classify_before_rollback BY <1>12, AbortEffect DEF classify_before_rollback, Goto
<1>13. CASE classify_after_rollback BY <1>13, AbortEffect DEF classify_after_rollback, Goto
<1>14. CASE finish_transaction BY <1>14 DEF finish_transaction, Goto
<1>15. CASE rollback_control_only BY <1>15 DEF rollback_control_only, Return, process
<1> QED BY <1>1, <1>2, <1>3, <1>4, <1>5, <1>6, <1>7, <1>8, <1>9, <1>10, <1>11, <1>12, <1>13, <1>14,
          <1>15 DEF QuietStep

\* The system calls of complete_target and rollback_target come in an order
\* in which each finds the layout it needs.
LEMMA PointStep ==
  IInv /\ JInv /\ OInv /\ [Next]_vars => PointInv'
<1> SUFFICES ASSUME IInv, JInv, OInv, [Next]_vars, (ti \in Unedited)', pc' \in PointPc PROVE PointInv'
  BY DEF PointInv, PointPc
<1>0. ti' \in Unedited /\ ti' \in Targets
  BY EditedGrows
<1>b. TypeOK /\ PhaseInv /\ ShapeInv /\ ProgressInv /\ CandidateInv /\ PointInv /\ LayoutInv
  BY DEF IInv, JInv, OInv
<1>c. /\ target \in [Targets -> File] /\ staged \in [Targets -> File] /\ backup \in [Targets -> File]
      /\ ti \in Targets
  BY <1>b DEF TypeOK
<1>d. /\ InitialFile(ti') \in {"original", "absent"} /\ (ti' \in Existing <=> InitialFile(ti') = "original")
      /\ InitialFile(ti)' = InitialFile(ti')
  BY <1>0, InitialFiles DEF InitialFile
<1> USE DEF AtRest, MovedAway, Replaced, CandidateFile
<1>1. CASE QuietStep
  <2>1. UNCHANGED <<target, staged, backup, edited>>
    BY <1>1, QuietFiles
  <2>2. CASE UNCHANGED <<pc, ti>>
    BY <1>0, <1>b, <1>d, <2>1, <2>2 DEF PointInv
  <2>3. CASE complete_observe
    <3>1. pc = "observe" /\ pc' = FirstStep(ti) /\ ti' = ti /\ global = "Committing"
      BY <1>b, <2>3 DEF complete_observe, Goto, PhaseInv, ForwardPc
    <3>2. candidate[ti] = "Ready"
      BY <1>b, <1>c, <3>1 DEF ShapeInv
    <3>3. \/ AtRest(ti) /\ staged[ti] \in CandidateFile
          \/ MovedAway(ti) /\ staged[ti] \in CandidateFile
          \/ Replaced(ti)
      BY <1>0, <1>b, <3>1 DEF LayoutInv, Layout
    <3>4. (observe_target(ti)[1] = "Candidate") <=> (target[ti] \in CandidateFile)
      BY <1>c, <3>1, <3>2 DEF observe_target, classify_location, File
    <3>5. ti \in Existing => ((observe_target(ti)[3] = "Original") <=> (backup[ti] = "original"))
      BY <1>c DEF observe_target, classify_backup, File
    <3>6. CASE target[ti] \in CandidateFile
      <4>1. pc' = "verify"
        BY <3>1, <3>4, <3>6 DEF FirstStep
      <4> QED BY <1>d, <2>1, <3>1, <3>3, <3>6, <4>1 DEF PointInv
    <3>7. CASE target[ti] \notin CandidateFile /\ ti \in Existing /\ backup[ti] # "original"
      <4>1. pc' = "backup"
        BY <3>1, <3>4, <3>5, <3>7 DEF FirstStep
      <4> QED BY <1>d, <2>1, <3>1, <3>3, <3>7, <4>1 DEF PointInv
    <3>8. CASE target[ti] \notin CandidateFile /\ ~(ti \in Existing /\ backup[ti] # "original")
      <4>1. pc' = "mode"
        BY <3>1, <3>4, <3>5, <3>8 DEF FirstStep
      <4> QED BY <1>d, <2>1, <3>1, <3>3, <3>8, <4>1 DEF PointInv
    <3> QED BY <3>6, <3>7, <3>8
  <2>4. CASE verify_installed
    <3>1. pc = "verify" /\ pc' = "pub_installed" /\ ti' = ti
      BY <2>4, AbortEffect DEF verify_installed, Goto, PointPc
    <3> QED BY <1>0, <1>b, <1>d, <2>1, <3>1 DEF PointInv
  <2>5. CASE verify_restored
    <3>1. pc = "rb_verify" /\ pc' = "pub_restored" /\ ti' = ti
      BY <2>5, AbortEffect DEF verify_restored, Goto, PointPc
    <3> QED BY <1>0, <1>b, <1>d, <2>1, <3>1 DEF PointInv
  <2>6. CASE pc = "pub_backedup" /\ pc' = "install" /\ ti' = ti
    BY <1>0, <1>b, <1>d, <2>1, <2>6 DEF PointInv
  <2> QED BY <1>1, <1>b, <2>2, <2>3, <2>4, <2>5, <2>6, QuietPoint
<1>2. CASE create_candidate
  BY <1>2 DEF create_candidate, Goto, process, PointPc
<1>3. CASE backup_target
  <2>1. pc = "backup" /\ no_replace_rename(target[ti], backup[ti]) /\ target[ti] = "original"
    BY <1>3, AbortEffect DEF backup_target, PointPc
  <2>2. pc' = "mode" /\ ti' = ti
    BY <1>3, <2>1 DEF backup_target, Goto
  <2>3. target'[ti] = "absent" /\ backup'[ti] = "original" /\ staged' = staged
    BY <1>3, <1>c, <2>1 DEF backup_target
  <2>4. AtRest(ti) /\ staged[ti] \in CandidateFile
    BY <1>0, <1>b, <2>1, <2>2 DEF PointInv
  <2> QED BY <1>d, <2>1, <2>2, <2>3, <2>4 DEF PointInv
<1>4. CASE set_mode
  <2>1. pc = "mode" /\ pc' \in {"pub_backedup", "install"} /\ ti' = ti /\ staged[ti] # "absent"
    BY <1>4, AbortEffect DEF set_mode, Goto, PointPc
  <2>2. staged'[ti] = "moded" /\ UNCHANGED <<target, backup>>
    BY <1>4, <1>c, <2>1 DEF set_mode, WithFinalMode
  <2>3. MovedAway(ti)
    BY <1>0, <1>b, <2>1 DEF PointInv
  <2> QED BY <1>d, <2>1, <2>2, <2>3 DEF PointInv
<1>5. CASE install_candidate
  <2>1. pc = "install" /\ pc' = "verify" /\ ti' = ti /\ no_replace_rename(staged[ti], target[ti])
    BY <1>5, AbortEffect DEF install_candidate, Goto, PointPc
  <2>2. target'[ti] = staged[ti] /\ staged'[ti] = "absent" /\ backup' = backup
    BY <1>5, <1>c, <2>1 DEF install_candidate
  <2>3. MovedAway(ti) /\ staged[ti] = "moded"
    BY <1>0, <1>b, <2>1 DEF PointInv
  <2> QED BY <1>d, <2>1, <2>2, <2>3 DEF PointInv
<1>6. CASE remove_installed_candidate
  <2>1. pc = "rb_remove" /\ pc' = "rb_restore" /\ ti' = ti /\ global = "RollingBack"
    BY <1>6, <1>b DEF remove_installed_candidate, Goto, ProgressInv, RestorePc
  <2>2. \/ AtRest(ti) \/ MovedAway(ti)
        \/ Replaced(ti) /\ candidate[ti] = "Ready"
    BY <1>0, <1>b, <2>1 DEF LayoutInv, Layout
  <2>3. target[ti] = "moded" /\ candidate[ti] = "Ready" => observe_target(ti)[1] = "Candidate"
    BY <1>c DEF observe_target, classify_location
  <2>4. observe_target(ti)[1] = "Candidate" => target[ti] \in CandidateFile
    BY <1>c DEF observe_target, classify_location, File
  <2>5. /\ target'[ti] = IF observe_target(ti)[1] = "Candidate" THEN "absent" ELSE target[ti]
        /\ UNCHANGED <<staged, backup>>
    BY <1>6, <1>c DEF remove_installed_candidate
  <2> QED BY <1>d, <2>1, <2>2, <2>3, <2>4, <2>5 DEF PointInv
<1>7. CASE restore_backup
  <2>1. pc = "rb_restore" /\ pc' = "rb_clean" /\ ti' = ti
    BY <1>7, AbortEffect DEF restore_backup, Goto, PointPc
  <2>2. AtRest(ti) \/ MovedAway(ti)
    BY <1>0, <1>b, <2>1 DEF PointInv
  <2>3. CASE ti \in Existing /\ backup[ti] # "absent"
    <3>1. target'[ti] = "original" /\ backup'[ti] = "absent"
      BY <1>7, <1>c, <2>1, <2>3, AbortEffect DEF restore_backup
    <3> QED BY <1>d, <2>1, <2>3, <3>1 DEF PointInv
  <2>4. CASE ~(ti \in Existing /\ backup[ti] # "absent")
    <3>1. UNCHANGED <<target, backup>>
      BY <1>7, <2>4 DEF restore_backup
    <3> QED BY <1>d, <2>1, <2>2, <2>4, <3>1 DEF PointInv
  <2> QED BY <2>3, <2>4
<1>8. CASE remove_staged_candidate
  <2>1. pc = "rb_clean" /\ pc' = "rb_verify" /\ ti' = ti
    BY <1>8, AbortEffect DEF remove_staged_candidate, Goto, PointPc
  <2>2. staged'[ti] = "absent" /\ UNCHANGED <<target, backup>>
    BY <1>8, <1>c, <2>1, AbortEffect DEF remove_staged_candidate
  <2>3. AtRest(ti)
    BY <1>0, <1>b, <2>1 DEF PointInv
  <2> QED BY <1>d, <2>1, <2>2, <2>3 DEF PointInv
<1>9. CASE cleanup_completed_directory
  BY <1>9, <1>b, CleanupEffect DEF PointPc
<1>10. CASE \E u \in Targets : Edit(u)
  <2> PICK u \in Targets : Edit(u)
    BY <1>10
  <2>1. UNCHANGED <<pc, ti, staged, backup>>
    BY DEF Edit, process
  <2>2. u # ti
    <3>1. edited \in [Targets -> {"no", "wrote", "deleted"}]
      BY <1>b DEF TypeOK
    <3>2. edited'[u] # "no" /\ edited'[ti] = "no"
      BY <2>1, <3>1 DEF Edit, Unedited
    <3> QED BY <3>2
  <2>3. target'[ti] = target[ti]
    BY <1>c, <2>2 DEF Edit
  <2> QED BY <1>0, <1>b, <1>d, <2>1, <2>3 DEF PointInv
<1>11. CASE UNCHANGED vars
  BY <1>0, <1>b, <1>d, <1>11 DEF vars, PointInv
<1> QED BY <1>1, <1>2, <1>3, <1>4, <1>5, <1>6, <1>7, <1>8, <1>9, <1>10, <1>11, StepKinds
-----------------------------------------------------------------------------
(***************************************************************************)
(* The invariant holds.                                                    *)
(***************************************************************************)
LEMMA InitOutcome == Init => OInv
<1> SUFFICES ASSUME Init PROVE OInv OBVIOUS
<1>1. CandidateInv
  BY DEF Init, CandidateInv, Candidate
<1>2. LayoutInv
  BY DEF Init, LayoutInv, Layout, AtRest, Unedited
<1>3. PointInv
  BY DEF Init, PointInv
<1> QED BY <1>1, <1>2, <1>3 DEF OInv

\* All the facts the theorems below rest on.
EngineInv == IInv /\ JInv /\ OInv

\* Every step keeps them.
LEMMA EngineStep == EngineInv /\ [Next]_vars => EngineInv'
<1> SUFFICES ASSUME EngineInv, [Next]_vars PROVE EngineInv' OBVIOUS
<1>0. IInv /\ JInv /\ OInv
  BY DEF EngineInv
<1>1. IInv'
  BY <1>0, StepInv
<1>2. JInv'
  <2>1. TreeInv' /\ ResultInv' /\ ShapeInv' /\ ProgressInv'
    BY <1>0, TreeStep, ShapeStep, ProgressStep DEF JInv
  <2> QED BY <1>0, <2>1, CountStep DEF JInv
<1>3. OInv'
  BY <1>0, CandidateStep, LayoutStep, PointStep DEF OInv
<1> QED BY <1>1, <1>2, <1>3 DEF EngineInv

LEMMA EngineInvHolds == Spec => []EngineInv
<1>1. Init => EngineInv
  BY InitInv, InitJournal, InitOutcome DEF EngineInv
<1>2. EngineInv /\ [Next]_vars => EngineInv'
  BY EngineStep
<1> QED BY <1>1, <1>2, PTL DEF Spec

-----------------------------------------------------------------------------
(***************************************************************************)
(* What it says.                                                           *)
(***************************************************************************)
\* docs/transaction-model.md: records "never claim a filesystem action
\* before it occurs".  Whatever the journal records of an unedited target
\* has happened on disk, at every point of every command.
THEOREM JournalIsNeverAhead == Spec => []JournalNeverAhead
<1>1. EngineInv => JournalNeverAhead
  <2> SUFFICES ASSUME EngineInv, NEW t \in Unedited
               PROVE  /\ candidate[t] = "Ready" /\ global \notin {"RollingBack", "RolledBack"} =>
                           staged[t] \in CandidateFile \/ target[t] \in CandidateFile
                      /\ commit[t] = "BackedUp" /\ global = "Committing" => backup[t] = "original"
                      /\ commit[t] = "Installed" /\ global \in {"Committing", "Committed"} => Planned(t)
                      /\ rollback[t] # "None" =>
                           Original(t) /\ staged[t] = "absent" /\ backup[t] = "absent"
    BY DEF JournalNeverAhead
  <2>1. t \in Targets /\ Layout(t) /\ Candidate(t) /\ global \in GlobalState
    BY DEF EngineInv, IInv, TypeOK, OInv, CandidateInv, LayoutInv, Unedited
  <2> QED BY <2>1 DEF Layout, Candidate, AtRest, MovedAway, Replaced, Planned, Original, CandidateFile,
            GlobalState
<1> QED BY <1>1, EngineInvHolds, PTL

\* What a record that says so makes true of an unedited target.
LEMMA SettledTargets ==
  ASSUME EngineInv, NEW t \in Unedited
  PROVE  /\ global \in {"Preparing", "Prepared", "RolledBack"} => Original(t)
         /\ global = "Committed" => Planned(t)
<1>1. t \in Targets /\ Layout(t) /\ RecordInv
  BY DEF EngineInv, IInv, OInv, LayoutInv, Unedited
<1> QED BY <1>1 DEF Layout, AtRest, Original, Planned, RecordInv

\* Once the transaction directory is gone every unedited target has its
\* original or every one has its planned bytes and mode, and nothing is left
\* behind in the control tree.
THEOREM CommitIsAllOrNothing == Spec => []AllOrNothing
<1>1. EngineInv => AllOrNothing
  <2> SUFFICES ASSUME EngineInv, dir = "none" PROVE AllOrNothing!2
    BY DEF AllOrNothing
  <2>1. /\ manifest = "none" /\ records = 0 /\ tmp = "none"
        /\ global \in {"Preparing", "Committed", "RolledBack"}
    BY DEF EngineInv, JInv, TreeInv
  <2>2. (\A t \in Unedited : Original(t)) \/ (\A t \in Unedited : Planned(t))
    BY <2>1, SettledTargets
  <2>3. \A t \in Unedited : staged[t] = "absent" /\ backup[t] = "absent"
    BY DEF EngineInv, OInv, LayoutInv, Layout
  <2> QED BY <2>1, <2>2, <2>3
<1> QED BY <1>1, EngineInvHolds, PTL

\* A command that reports success tells the truth about every target nobody
\* else has edited: Committed was published for all, or the rollback is
\* complete.
THEOREM ResultsAreHonest == Spec => []ResultHonest
<1>1. EngineInv => ResultHonest
  <2> SUFFICES ASSUME EngineInv PROVE ResultHonest
    OBVIOUS
  <2>1. /\ result = "committed" => global = "Committed"
        /\ result = "rolledback" => global \in {"RolledBack", "Preparing"}
    BY DEF EngineInv, JInv, ResultInv
  <2> QED BY <2>1, SettledTargets DEF ResultHonest
<1> QED BY <1>1, EngineInvHolds, PTL

\* What recover --list says of the visible files between two commands is
\* true, whichever command was interrupted and wherever.
THEOREM VisibilityIsHonest == Spec => []VisibilityHonest
<1>1. EngineInv => VisibilityHonest
  <2> SUFFICES ASSUME EngineInv, dir # "none"
               PROVE  /\ Visibility = "all_original" => \A t \in Unedited : Original(t)
                      /\ Visibility = "all_planned" => \A t \in Unedited : Planned(t)
    BY DEF VisibilityHonest
  <2>1. /\ dir \in {"none", "active", "committed", "rolledback"} /\ global \in GlobalState
        /\ records \in Nat
    BY DEF EngineInv, IInv, TypeOK
  <2>2. CASE RecoveryEntryKind = "Active"
    <3>1. Visibility = visibility_for_state
      BY <2>2 DEF Visibility
    <3> QED BY <2>1, <3>1, SettledTargets DEF visibility_for_state, GlobalState
  <2>3. CASE RecoveryEntryKind = "CleanupOnly"
    <3>1. /\ dir \in {"committed", "rolledback"}
          /\ dir = "committed" => global = "Committed"
          /\ dir = "rolledback" => global = "RolledBack"
      BY <2>1, <2>3 DEF RecoveryEntryKind, EngineInv, IInv, PhaseInv
    <3>2. Visibility = IF dir = "committed" THEN "all_planned" ELSE "all_original"
      BY <2>3 DEF Visibility
    <3> QED BY <3>1, <3>2, SettledTargets
  <2>4. CASE RecoveryEntryKind \notin {"Active", "CleanupOnly"}
    <3>1. Visibility = "all_original"
      BY <2>4 DEF Visibility
    <3>2. dir = "active" /\ (manifest # "rec" \/ records = 0)
      BY <2>1, <2>4 DEF RecoveryEntryKind
    <3>3. global = "Preparing"
      BY <2>1, <3>2 DEF EngineInv, JInv, TreeInv
    <3> QED BY <3>1, <3>3, SettledTargets
  <2> QED BY <2>2, <2>3, <2>4
<1> QED BY <1>1, EngineInvHolds, PTL

-----------------------------------------------------------------------------
(***************************************************************************)
(* Recovery is available.                                                  *)
(***************************************************************************)
\* The classifier sees the layout of an unedited target for what it is.
LEMMA Observations ==
  ASSUME TypeOK, NEW t \in Targets,
         staged[t] # "absent" => global = "Preparing" \/ candidate[t] = "Ready",
         staged[t] \in {"absent", "staged", "moded"} \/ global = "Preparing",
         staged[t] # "original"
  PROVE  /\ target[t] = "absent" => observe_target(t)[1] = "Absent"
         /\ target[t] = InitialFile(t) => observe_target(t)[1] = InitialTarget(t \in Existing)
         /\ target[t] = "moded" /\ candidate[t] = "Ready" => observe_target(t)[1] = "Candidate"
         /\ observe_target(t)[2] = IF staged[t] = "absent" THEN "Absent" ELSE "Candidate"
         /\ backup[t] = "absent" => observe_target(t)[3] = "Absent"
         /\ backup[t] = InitialFile(t) => observe_target(t)[3] = InitialTarget(t \in Existing)
         /\ observe_target(t) = <<observe_target(t)[1], observe_target(t)[2], observe_target(t)[3]>>
<1>0. target[t] \in File /\ staged[t] \in File /\ backup[t] \in File /\ candidate[t] \in CandidateKind
  BY DEF TypeOK
<1>1. observe_target(t)[1] = classify_location(target[t], t \in Existing, candidate[t], FALSE, global)
  BY DEF observe_target
<1>2. observe_target(t)[2] = classify_location(staged[t], t \in Existing, candidate[t], TRUE, global)
  BY DEF observe_target
<1>3. observe_target(t)[3] = classify_backup(backup[t], t \in Existing)
  BY DEF observe_target
<1>4. /\ target[t] = "absent" => observe_target(t)[1] = "Absent"
      /\ target[t] = InitialFile(t) => observe_target(t)[1] = InitialTarget(t \in Existing)
      /\ target[t] = "moded" /\ candidate[t] = "Ready" => observe_target(t)[1] = "Candidate"
  BY <1>0, <1>1 DEF classify_location, InitialFile, InitialTarget, CandidateFile
<1>5. observe_target(t)[2] = IF staged[t] = "absent" THEN "Absent" ELSE "Candidate"
  BY <1>0, <1>2 DEF classify_location, CandidateFile, File
<1>6. /\ backup[t] = "absent" => observe_target(t)[3] = "Absent"
      /\ backup[t] = InitialFile(t) => observe_target(t)[3] = InitialTarget(t \in Existing)
  BY <1>0, <1>3 DEF classify_backup, InitialFile, InitialTarget
<1>7. observe_target(t) = <<observe_target(t)[1], observe_target(t)[2], observe_target(t)[3]>>
  BY DEF observe_target
<1> QED BY <1>4, <1>5, <1>6, <1>7

\* Whatever command was interrupted and wherever, with the three
\* interruptions set apart that the code does not recover from, the scan
\* passes and every action that recover --list offers is permitted by the
\* classification of every target.
THEOREM RecoveryIsAvailable == Spec => []RecoveryAvailable
<1>1. EngineInv => RecoveryAvailable
  <2> SUFFICES ASSUME EngineInv, Interrupted, ~TornRecord, ~OrphanedTemporary, ~UnrecordedCandidate
               PROVE  Recoverable
    BY DEF RecoveryAvailable
  <2>0. /\ TypeOK /\ PhaseInv /\ RecordInv /\ TreeInv /\ ShapeInv /\ global \in GlobalState
        /\ dir \in {"none", "active", "committed", "rolledback"} /\ dir # "none"
        /\ manifest \in {"none", "torn", "tmp", "rec"} /\ records \in Nat
        /\ \A t \in Targets : Candidate(t) /\ Layout(t)
    BY DEF EngineInv, IInv, JInv, OInv, TypeOK, CandidateInv, LayoutInv, Interrupted
  <2>1. ScanOK
    <3>1. tmp # "torn" /\ manifest # "torn" /\ (manifest = "none" => tmp = "none")
      BY DEF TornRecord, OrphanedTemporary
    <3>2. dir = "active" /\ manifest # "rec" => tmp = "none"
      BY <2>0, <3>1 DEF TreeInv
    <3> QED BY <3>1, <3>2 DEF ScanOK, inspect_active_transaction, validate_completed_contents
  <2>2. ASSUME RecoveryEntryKind = "Active", NEW action \in actions_for_state, NEW t \in Targets
        PROVE  action \in Disposition(t)
    <3>0. dir = "active"
      BY <2>0, <2>2 DEF RecoveryEntryKind
    <3>1. /\ Candidate(t) /\ Layout(t)
          /\ InitialFile(t) \in {"original", "absent"}
          /\ t \in Existing <=> InitialFile(t) = "original"
          /\ candidate[t] \in {"Missing", "Ready"} /\ commit[t] \in {"Untouched", "BackedUp", "Installed"}
      BY <2>0, InitialFiles DEF TypeOK, CandidateKind, CommitKind
    <3>2. global \in {"Prepared", "Committing", "Committed"} => candidate[t] = "Ready"
      BY <2>0 DEF ShapeInv
    <3>3. staged[t] # "absent" => global = "Preparing" \/ candidate[t] = "Ready"
      <4>1. global = "RollingBack" => candidate[t] = "Ready" \/ staged[t] = "absent"
        BY <3>1 DEF UnrecordedCandidate
      <4>2. global = "RolledBack" => staged[t] = "absent"
        BY <2>0, <3>1 DEF RecordInv, Layout
      <4> QED BY <2>0, <3>2, <4>1, <4>2 DEF GlobalState
    <3>4. staged[t] \in {"absent", "staged", "moded"} \/ global = "Preparing"
      BY <3>1, <3>3 DEF Candidate
    <3>5. staged[t] # "original"
      BY <3>1 DEF Candidate
    <3> DEFINE a == observe_target(t)[1]
               b == observe_target(t)[2]
               c == observe_target(t)[3]
               existed == t \in Existing
    <3>6. /\ target[t] = "absent" => a = "Absent"
          /\ target[t] = InitialFile(t) => a = InitialTarget(existed)
          /\ target[t] = "moded" /\ candidate[t] = "Ready" => a = "Candidate"
          /\ b = IF staged[t] = "absent" THEN "Absent" ELSE "Candidate"
          /\ backup[t] = "absent" => c = "Absent"
          /\ backup[t] = InitialFile(t) => c = InitialTarget(existed)
          /\ observe_target(t) = <<a, b, c>>
      BY <2>0, <3>3, <3>4, <3>5, Observations
    <3>7. Disposition(t) = classify_recovery(global, existed, commit[t], rollback[t], <<a, b, c>>)
      BY <3>6 DEF Disposition
    <3>8. existed \in BOOLEAN /\ InitialTarget(existed) = IF t \in Existing THEN "Original" ELSE "Absent"
      BY DEF InitialTarget
    <3> HIDE DEF a, b, c, existed
    <3>9. CASE global = "Preparing"
      <4>1. a = InitialTarget(existed) /\ b \in {"Absent", "Candidate"} /\ c = "Absent"
        BY <3>1, <3>6, <3>9 DEF Layout, AtRest
      <4> QED BY <3>7, <3>8, <3>9, <4>1 DEF classify_recovery, classify_preparing, actions_for_state
    <3>10. CASE global = "Prepared"
      <4>1. a = InitialTarget(existed) /\ b = "Candidate" /\ c = "Absent"
        BY <3>1, <3>2, <3>6, <3>10 DEF Layout, AtRest, Candidate
      <4> QED BY <3>7, <3>8, <3>10, <4>1 DEF classify_recovery, classify_prepared, actions_for_state
    <3>11. CASE global = "Committing"
      <4>1. <<a, b, c>> \in CommittingObservations(existed, commit[t])
        <5>1. \/ a = InitialTarget(existed) /\ b = "Candidate" /\ c = "Absent"
              \/ a = "Absent" /\ b = "Candidate" /\ c = InitialTarget(existed)
              \/ a = "Candidate" /\ b = "Absent" /\ c = InitialTarget(existed)
          BY <3>1, <3>2, <3>6, <3>11 DEF Layout, AtRest, MovedAway, Replaced, CandidateFile
        <5>2. commit[t] = "Installed" => a = "Candidate" /\ b = "Absent" /\ c = InitialTarget(existed)
          BY <3>1, <3>2, <3>6, <3>11 DEF Layout, Replaced
        <5>3. commit[t] = "BackedUp" => t \in Existing /\ c = InitialTarget(existed)
          BY <2>0, <3>1, <3>6, <3>11 DEF Layout, ShapeInv
        <5>4. CASE t \in Existing
          BY <3>1, <3>8, <5>1, <5>2, <5>3, <5>4 DEF CommittingObservations, existed
        <5>5. CASE t \notin Existing
          BY <3>1, <3>8, <5>1, <5>2, <5>3, <5>5 DEF CommittingObservations, existed
        <5> QED BY <5>4, <5>5
      <4>2. a # "Unexpected" /\ b # "Unexpected" /\ c # "Unexpected"
        BY <3>1, <3>2, <3>6, <3>8, <3>11 DEF Layout, AtRest, MovedAway, Replaced
      <4> QED BY <3>7, <3>11, <4>1, <4>2 DEF classify_recovery, classify_committing, actions_for_state
    <3>12. CASE global = "Committed"
      <4>1. a = "Candidate" /\ b = "Absent" /\ c = InitialTarget(existed)
        BY <3>0, <3>1, <3>2, <3>6, <3>12 DEF Layout
      <4> QED BY <3>7, <3>8, <3>12, <4>1 DEF classify_recovery, classify_committed, actions_for_state
    <3>13. CASE global = "RollingBack"
      <4>1. CASE rollback[t] = "None"
        <5>1. \/ a = InitialTarget(existed) /\ c = "Absent"
              \/ a = "Absent" /\ c = InitialTarget(existed)
              \/ a = "Candidate" /\ b = "Absent" /\ c = InitialTarget(existed)
          BY <3>1, <3>6, <3>13 DEF Layout, AtRest, MovedAway, Replaced
        <5>2. b \in {"Absent", "Candidate"}
          BY <3>6
        <5>3. RestoredKind(existed) # "None"
          BY DEF RestoredKind
        <5>4. CASE t \in Existing
          BY <3>7, <3>8, <3>13, <4>1, <5>1, <5>2, <5>3, <5>4
             DEF classify_recovery, classify_rolling_back, actions_for_state, existed
        <5>5. CASE t \notin Existing
          BY <3>7, <3>8, <3>13, <4>1, <5>1, <5>2, <5>3, <5>5
             DEF classify_recovery, classify_rolling_back, actions_for_state, existed
        <5> QED BY <5>4, <5>5
      <4>2. CASE rollback[t] # "None"
        <5>1. rollback[t] = RestoredKind(existed)
          BY <2>0, <4>2 DEF ShapeInv, Restored, existed
        <5>2. a = InitialTarget(existed) /\ b = "Absent" /\ c = "Absent"
          BY <3>1, <3>6, <4>2 DEF Layout, AtRest
        <5>3. classify_rolling_back(existed, rollback[t], <<a, b, c>>)
                = classify_restored(existed, <<a, b, c>>, {"rollback"})
          BY <4>2, <5>1 DEF classify_rolling_back
        <5>4. classify_restored(existed, <<a, b, c>>, {"rollback"}) = {"rollback"}
          BY <5>2 DEF classify_restored
        <5>5. Disposition(t) = classify_rolling_back(existed, rollback[t], <<a, b, c>>)
          BY <3>7, <3>8, <3>13, <5>2 DEF classify_recovery
        <5> QED BY <3>13, <5>3, <5>4, <5>5 DEF actions_for_state
      <4> QED BY <4>1, <4>2
    <3>14. CASE global = "RolledBack"
      <4>1. rollback[t] # "None"
        BY <2>0, <3>14 DEF RecordInv
      <4>2. rollback[t] = RestoredKind(existed)
        BY <2>0, <4>1 DEF ShapeInv, Restored, existed
      <4>3. a = InitialTarget(existed) /\ b = "Absent" /\ c = "Absent"
        BY <3>1, <3>6, <4>1 DEF Layout, AtRest
      <4> QED BY <3>7, <3>8, <3>14, <4>2, <4>3
             DEF classify_recovery, classify_rolled_back, classify_restored, actions_for_state
    <3> QED BY <2>0, <3>9, <3>10, <3>11, <3>12, <3>13, <3>14 DEF GlobalState
  <2> QED BY <2>1, <2>2 DEF Recoverable
<1> QED BY <1>1, EngineInvHolds, PTL

-----------------------------------------------------------------------------
(***************************************************************************)
(* The transaction engine implements RecoverableCommit for every number of *)
(* targets, any set of existing ones and any number of crashes and I/O     *)
(* errors, in every behaviour in which nobody else edits a target.         *)
(***************************************************************************)
NoEdits == Unedited = Targets

\* What a reader sees at every target, and what is decided.
View == [t \in Targets |-> VisibleFile(t)]

-----------------------------------------------------------------------------
\* What a reader sees of each layout.
LEMMA VisibleLayouts ==
  ASSUME NEW t \in Targets
  PROVE  /\ target[t] = InitialFile(t) => VisibleFile(t) = "old"
         /\ target[t] = "moded" => VisibleFile(t) = "new"
         /\ target[t] = "absent" => VisibleFile(t) = IF t \in Existing THEN "missing" ELSE "old"
BY DEF VisibleFile, InitialFile

\* ... and after a step.
LEMMA VisibleLayoutsNext ==
  ASSUME NEW t \in Targets
  PROVE  /\ target'[t] = InitialFile(t) => VisibleFile(t)' = "old"
         /\ target'[t] = "moded" => VisibleFile(t)' = "new"
         /\ target'[t] = "absent" => VisibleFile(t)' = IF t \in Existing THEN "missing" ELSE "old"
         /\ target'[t] = target[t] => VisibleFile(t)' = VisibleFile(t)
BY DEF VisibleFile, InitialFile

\* A step that moves no target and publishes nothing is a stutter.
LEMMA Stutters ==
  ASSUME target' = target, global' = global
  PROVE  View' = View /\ Decision' = Decision
BY DEF View, VisibleFile, InitialFile, Decision

\* A step that changes one target changes the view there.
LEMMA ViewExcept ==
  ASSUME NEW u \in Targets, NEW v, VisibleFile(u)' = v,
         \A t \in Targets : t # u => target'[t] = target[t]
  PROVE  View' = [View EXCEPT ![u] = v]
<1>1. \A t \in Targets : VisibleFile(t)' = IF t = u THEN v ELSE VisibleFile(t)
  BY VisibleLayoutsNext
<1> QED BY <1>1 DEF View

\* The initial states are initial states of RecoverableCommit.
LEMMA RefinesInit == Init => Abstract!RCInit
<1> SUFFICES ASSUME Init PROVE Abstract!RCInit
  OBVIOUS
<1>1. \A t \in Targets : VisibleFile(t) = "old"
  BY VisibleLayouts DEF Init
<1>2. Decision = "open"
  BY DEF Init, Decision
<1> QED BY <1>1, <1>2 DEF Abstract!RCInit

\* Every step of the engine is a step of RecoverableCommit or a stutter.
LEMMA RefinesStep ==
  EngineInv /\ NoEdits /\ NoEdits' /\ [Next]_vars
    => [Abstract!RCNext]_<<View, Decision>>
<1> SUFFICES ASSUME EngineInv, NoEdits, NoEdits', [Next]_vars
             PROVE  \/ Abstract!RCNext
                    \/ View' = View /\ Decision' = Decision
  OBVIOUS
<1>0. /\ TypeOK /\ PhaseInv /\ RecordInv /\ TreeInv /\ ShapeInv /\ ProgressInv /\ PointInv
      /\ \A t \in Targets : Layout(t)
      /\ target \in [Targets -> File] /\ ti \in Targets /\ global \in GlobalState
      /\ staged \in [Targets -> File] /\ backup \in [Targets -> File]
  BY DEF EngineInv, IInv, JInv, OInv, NoEdits, LayoutInv, TypeOK
<1>a. /\ ti \in Unedited
      /\ InitialFile(ti) \in {"original", "absent"} /\ (ti \in Existing <=> InitialFile(ti) = "original")
  BY <1>0, InitialFiles DEF NoEdits
<1> USE DEF AtRest, MovedAway, Replaced
<1>1. CASE QuietStep
  <2>1. target' = target
    BY <1>1, QuietFiles
  <2>2. CASE ~PublishState
    BY <1>0, <1>1, <2>1, <2>2, QuietFlow, Stutters
  <2>3. CASE PublishState
    <3>1. View' = View
      BY <2>1, VisibleLayoutsNext DEF View
    <3>2. CASE pc \in {"pub_zero", "pub_ready"}
      <4>1. Decision = "open" /\ Decision' = "open"
        BY <1>0, <2>3, <3>2, PublishEffect DEF PhaseInv, Decision
      <4> QED BY <3>1, <4>1
    <3>3. CASE pc = "pub_committing"
      <4>1. Decision = "open" /\ Decision' = "committing"
        BY <1>0, <2>3, <3>3, PublishEffect DEF ProgressInv, Decision
      <4>2. Abstract!Begin
        BY <3>1, <4>1 DEF Abstract!Begin, View
      <4> QED BY <4>2 DEF Abstract!RCNext
    <3>4. CASE pc \in {"pub_backedup", "pub_installed"}
      <4>1. Decision = "committing" /\ Decision' = "committing"
        BY <1>0, <2>3, <3>4, PublishEffect DEF PhaseInv, ForwardPc, Decision
      <4> QED BY <3>1, <4>1
    <3>5. CASE pc = "pub_committed"
      <4>1. global = "Committing" /\ \A t \in Targets : commit[t] = "Installed"
        BY <1>0, <3>5 DEF PhaseInv, ForwardPc, ProgressInv
      <4>2. Decision = "committing" /\ Decision' = "committed"
        BY <1>0, <2>3, <3>5, <4>1, PublishEffect DEF Decision
      <4>3. \A t \in Targets : VisibleFile(t) = "new"
        BY <1>0, <4>1, VisibleLayouts DEF Layout
      <4>4. Abstract!Commit
        BY <3>1, <4>2, <4>3 DEF Abstract!Commit, View
      <4> QED BY <4>4 DEF Abstract!RCNext
    <3>6. CASE pc = "pub_rollingback"
      <4>1. global \in {"Preparing", "Prepared", "Committing"}
        BY <1>0, <3>6 DEF ProgressInv, GlobalState
      <4>2. Decision \in {"open", "committing"} /\ Decision' = "aborting"
        BY <1>0, <2>3, <3>6, <4>1, PublishEffect DEF Decision
      <4>3. Abstract!Abandon
        BY <3>1, <4>2 DEF Abstract!Abandon, View
      <4> QED BY <4>3 DEF Abstract!RCNext
    <3>7. CASE pc = "pub_restored"
      <4>1. Decision = "aborting" /\ Decision' = "aborting"
        BY <1>0, <2>3, <3>7, PublishEffect DEF ProgressInv, RestorePc, Decision
      <4> QED BY <3>1, <4>1
    <3>8. CASE pc = "pub_rolledback"
      <4>1. global = "RollingBack" /\ \A t \in Targets : rollback[t] # "None"
        BY <1>0, <3>8 DEF ProgressInv
      <4>2. Decision = "aborting" /\ Decision' = "aborted"
        BY <1>0, <2>3, <3>8, <4>1, PublishEffect DEF Decision
      <4>3. \A t \in Targets : VisibleFile(t) = "old"
        BY <1>0, <4>1, VisibleLayouts DEF Layout
      <4>4. Abstract!Rollback
        BY <3>1, <4>2, <4>3 DEF Abstract!Rollback, View
      <4> QED BY <4>4 DEF Abstract!RCNext
    <3> QED BY <2>3, <3>2, <3>3, <3>4, <3>5, <3>6, <3>7, <3>8 DEF PublishState, PublishPc
  <2> QED BY <2>2, <2>3
<1>2. CASE create_candidate \/ set_mode \/ remove_staged_candidate
  <2>1. target' = target /\ global' = global
    BY <1>2 DEF create_candidate, set_mode, remove_staged_candidate, chain
  <2> QED BY <2>1, Stutters
<1>3. CASE backup_target
  <2>1. pc = "backup" /\ global = "Committing" /\ global' = global
    BY <1>0, <1>3 DEF backup_target, chain, PhaseInv, ForwardPc
  <2>2. CASE ~no_replace_rename(target[ti], backup[ti])
    BY <1>3, <2>1, <2>2, Stutters DEF backup_target, files
  <2>3. CASE no_replace_rename(target[ti], backup[ti])
    <3>0. PICK u \in Targets : u = ti
      BY <1>0
    <3>1. target[ti] = "original" /\ ti \in Existing
      BY <1>0, <3>0, <1>a, <2>1, <2>3 DEF PointInv, no_replace_rename
    <3>2. /\ target'[u] = "absent"
          /\ \A t \in Targets : t # u => target'[t] = target[t]
      BY <1>0, <3>0, <1>3, <2>3 DEF backup_target
    <3>3. VisibleFile(u) = "old" /\ VisibleFile(u)' = "missing"
      BY <1>0, <3>0, <1>a, <3>1, <3>2, VisibleLayouts, VisibleLayoutsNext
    <3>4. View' = [View EXCEPT ![u] = "missing"]
      BY <1>0, <3>0, <3>2, <3>3, ViewExcept
    <3>5. Decision = "committing" /\ Decision' = Decision
      BY <2>1 DEF Decision
    <3>6. Abstract!Advance(u)
      BY <1>0, <3>0, <3>1, <3>3, <3>4, <3>5 DEF Abstract!Advance, Abstract!Forward, View
    <3> QED BY <1>0, <3>0, <3>6 DEF Abstract!RCNext
  <2> QED BY <2>2, <2>3
<1>4. CASE install_candidate
  <2>1. pc = "install" /\ global = "Committing" /\ global' = global
    BY <1>0, <1>4 DEF install_candidate, chain, PhaseInv, ForwardPc
  <2>2. CASE ~no_replace_rename(staged[ti], target[ti])
    BY <1>4, <2>1, <2>2, Stutters DEF install_candidate, files
  <2>3. CASE no_replace_rename(staged[ti], target[ti])
    <3>0. PICK u \in Targets : u = ti
      BY <1>0
    <3>1. target[ti] = "absent" /\ staged[ti] = "moded"
      BY <1>0, <3>0, <1>a, <2>1 DEF PointInv
    <3>2. /\ target'[u] = "moded"
          /\ \A t \in Targets : t # u => target'[t] = target[t]
      BY <1>0, <3>0, <1>4, <2>3, <3>1 DEF install_candidate
    <3>3. /\ VisibleFile(u) = IF u \in Existing THEN "missing" ELSE "old"
          /\ VisibleFile(u)' = "new"
      BY <1>0, <3>0, <3>1, <3>2, VisibleLayouts, VisibleLayoutsNext
    <3>4. View' = [View EXCEPT ![u] = "new"]
      BY <1>0, <3>0, <3>2, <3>3, ViewExcept
    <3>5. Decision = "committing" /\ Decision' = Decision
      BY <2>1 DEF Decision
    <3>6. Abstract!Advance(u)
      BY <1>0, <3>0, <3>3, <3>4, <3>5 DEF Abstract!Advance, Abstract!Forward, View
    <3> QED BY <1>0, <3>0, <3>6 DEF Abstract!RCNext
  <2> QED BY <2>2, <2>3
<1>5. CASE remove_installed_candidate
  <2>1. pc = "rb_remove" /\ global = "RollingBack" /\ global' = global
    BY <1>0, <1>5 DEF remove_installed_candidate, chain, ProgressInv, RestorePc
  <2>2. CASE observe_target(ti)[1] # "Candidate"
    BY <1>5, <2>1, <2>2, Stutters DEF remove_installed_candidate
  <2>3. CASE observe_target(ti)[1] = "Candidate"
    <3>0. PICK u \in Targets : u = ti
      BY <1>0
    <3>1. target[ti] \in CandidateFile
      BY <1>0, <3>0, <2>3 DEF observe_target, classify_location, File, CandidateFile
    <3>2. target[ti] = "moded"
      BY <1>0, <3>0, <1>a, <2>1, <3>1 DEF Layout, CandidateFile
    <3>3. /\ target'[u] = "absent"
          /\ \A t \in Targets : t # u => target'[t] = target[t]
      BY <1>0, <3>0, <1>5, <2>3 DEF remove_installed_candidate
    <3>4. /\ VisibleFile(u) = "new"
          /\ VisibleFile(u)' = IF u \in Existing THEN "missing" ELSE "old"
      BY <1>0, <3>0, <3>2, <3>3, VisibleLayouts, VisibleLayoutsNext
    <3>5. View' = [View EXCEPT ![u] = IF u \in Existing THEN "missing" ELSE "old"]
      BY <1>0, <3>0, <3>3, <3>4, ViewExcept
    <3>6. Decision = "aborting" /\ Decision' = Decision
      BY <2>1 DEF Decision
    <3>7. Abstract!Retreat(u)
      BY <1>0, <3>0, <3>4, <3>5, <3>6 DEF Abstract!Retreat, Abstract!Backward, View
    <3> QED BY <1>0, <3>0, <3>7 DEF Abstract!RCNext
  <2> QED BY <2>2, <2>3
<1>6. CASE restore_backup
  <2>1. pc = "rb_restore" /\ global = "RollingBack" /\ global' = global
    BY <1>0, <1>6 DEF restore_backup, chain, ProgressInv, RestorePc
  <2> DEFINE rename == /\ ti \in Existing /\ backup[ti] = "original"
                       /\ no_replace_rename(backup[ti], target[ti])
  <2>2. CASE ~rename
    BY <1>6, <2>1, <2>2, Stutters DEF restore_backup
  <2>3. CASE rename
    <3>0. PICK u \in Targets : u = ti
      BY <1>0
    <3>1. ti \in Existing /\ target[ti] = "absent"
      BY <2>3 DEF no_replace_rename
    <3>2. /\ target'[u] = "original"
          /\ \A t \in Targets : t # u => target'[t] = target[t]
      BY <1>0, <3>0, <1>6, <2>3 DEF restore_backup
    <3>3. VisibleFile(u) = "missing" /\ VisibleFile(u)' = "old"
      BY <1>0, <3>0, <1>a, <3>1, <3>2, VisibleLayouts, VisibleLayoutsNext
    <3>4. View' = [View EXCEPT ![u] = "old"]
      BY <1>0, <3>0, <3>2, <3>3, ViewExcept
    <3>5. Decision = "aborting" /\ Decision' = Decision
      BY <2>1 DEF Decision
    <3>6. Abstract!Retreat(u)
      BY <1>0, <3>0, <3>3, <3>4, <3>5 DEF Abstract!Retreat, Abstract!Backward, View
    <3> QED BY <1>0, <3>0, <3>6 DEF Abstract!RCNext
  <2> QED BY <2>2, <2>3
<1>7. CASE cleanup_completed_directory
  BY <1>0, <1>7, CleanupEffect, Stutters
<1>8. CASE \E t \in Targets : Edit(t)
  <2> PICK t \in Targets : Edit(t)
    BY <1>8
  <2>1. edited \in [Targets -> {"no", "wrote", "deleted"}]
    BY <1>0 DEF TypeOK
  <2>2. edited'[t] # "no" /\ edited'[t] = "no"
    BY <2>1 DEF Edit, NoEdits, Unedited
  <2> QED BY <2>2
<1>9. CASE UNCHANGED vars
  BY <1>9, Stutters DEF vars
<1> QED BY <1>1, <1>2, <1>3, <1>4, <1>5, <1>6, <1>7, <1>8, <1>9, StepKinds

\* README.md: "Multi-target commit is recoverable, not atomically visible".
\* In every behaviour in which nobody else edits a target, each step of
\* commit, recovery, cleanup, crash and failure is a step of
\* RecoverableCommit or leaves targets and decision alone.
THEOREM RefinesUnedited == Spec /\ []NoEdits => ImplementsRecoverableCommit
<1>1. Init => Abstract!RCInit
  BY RefinesInit
<1>2. EngineInv /\ NoEdits /\ NoEdits' /\ [Next]_vars => [Abstract!RCNext]_<<View, Decision>>
  BY RefinesStep
<1>3. Spec => []EngineInv
  BY EngineInvHolds
<1> QED BY <1>1, <1>2, <1>3, PTL DEF Spec, ImplementsRecoverableCommit, Abstract!RCSpec, View

\* With no edits allowed at all, the engine implements RecoverableCommit.
THEOREM RefinesRecoverableCommit ==
  ASSUME MaxEdits = 0
  PROVE  Spec => ImplementsRecoverableCommit
<1>1. Init => NoEdits
  BY DEF Init, NoEdits, Unedited
<1>2. TypeOK /\ NoEdits /\ [Next]_vars => NoEdits'
  <2> SUFFICES ASSUME TypeOK, NoEdits, [Next]_vars PROVE NoEdits'
    OBVIOUS
  <2>1. CASE \E t \in Targets : Edit(t)
    <3>1. PICK t \in Targets : Edit(t)
      BY <2>1
    <3> DEFINE E == {u \in Targets : edited[u] # "no"}
    <3>2. Cardinality(E) < 0
      BY <3>1 DEF Edit
    <3>3. IsFiniteSet(Targets)
      BY TargetsAssumption, FS_Interval DEF Targets
    <3>4. Cardinality(E) \in Nat
      BY <3>3, FS_Subset, FS_CardinalityType
    <3> HIDE DEF E
    <3> QED BY <3>2, <3>4
  <2>2. CASE ~(\E t \in Targets : Edit(t))
    <3>1. edited' = edited
      <4> USE DEF history
      <4>1. CASE QuietStep
        BY <4>1, QuietFiles
      <4>2. CASE create_candidate \/ backup_target \/ set_mode \/ install_candidate
        BY <4>2 DEF create_candidate, backup_target, set_mode, install_candidate
      <4>3. CASE remove_installed_candidate \/ restore_backup \/ remove_staged_candidate
        BY <4>3 DEF remove_installed_candidate, restore_backup, remove_staged_candidate
      <4>4. CASE cleanup_completed_directory
        BY <4>4, CleanupEffect
      <4>5. CASE UNCHANGED vars
        BY <4>5 DEF vars
      <4> QED BY <2>2, <4>1, <4>2, <4>3, <4>4, <4>5, StepKinds
    <3> QED BY <3>1 DEF NoEdits, Unedited
  <2> QED BY <2>1, <2>2
<1>3. Spec => []TypeOK
  BY TypeCorrect
<1>4. Spec => []NoEdits
  BY <1>1, <1>2, <1>3, PTL DEF Spec
<1> QED BY <1>4, RefinesUnedited, PTL
=============================================================================
