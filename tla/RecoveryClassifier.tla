------------------------- MODULE RecoveryClassifier -------------------------
(***************************************************************************)
(* The pure recovery classifier of crates/srcmv-fs (recovery_classifier.rs) *)
(* and the observation of one location that feeds it (transaction.rs).     *)
(*                                                                         *)
(* A disposition is the set of recovery actions the classifier permits:    *)
(* {} stands for FsError::RecoveryConflict.                                *)
(***************************************************************************)

GlobalState == {"Preparing", "Prepared", "Committing", "Committed",
                "RollingBack", "RolledBack"}
CandidateKind == {"Missing", "Ready"}
CommitKind == {"Untouched", "BackedUp", "Installed"}
RollbackKind == {"None", "OriginalRestored", "AbsenceRestored"}

(***************************************************************************)
(* What may be found at a location.  "partial" is a candidate whose bytes  *)
(* are not all written, "staged" one that is complete with mode 0600,      *)
(* "moded" a complete candidate that already has its final permission      *)
(* bits, "user" anything somebody else put there.                          *)
(***************************************************************************)
File == {"absent", "original", "partial", "staged", "moded", "user"}
CandidateFile == {"staged", "moded"}
LocationObservation == {"Absent", "Original", "Candidate", "Unexpected"}

Conflict == {}

(***************************************************************************)
(* classify_location: identity, length and digest decide.  The recorded    *)
(* candidate identity exists only once the record says Ready; an           *)
(* unrecorded file at the candidate location passes as a candidate only    *)
(* while the transaction is still Preparing.                               *)
(***************************************************************************)
classify_location(file, original_existed, kind, candidate_location, global) ==
  CASE file = "absent"                              -> "Absent"
    [] file = "original" /\ original_existed        -> "Original"
    [] file \in CandidateFile /\ kind = "Ready"     -> "Candidate"
    [] OTHER -> IF candidate_location /\ global = "Preparing"
                THEN "Candidate" ELSE "Unexpected"

classify_backup(file, original_existed) ==
  CASE file = "absent"                       -> "Absent"
    [] file = "original" /\ original_existed -> "Original"
    [] OTHER                                 -> "Unexpected"

-----------------------------------------------------------------------------
(***************************************************************************)
(* The tables.  An observation is <<target, candidate, backup>>.           *)
(***************************************************************************)
InitialTarget(original_existed) ==
  IF original_existed THEN "Original" ELSE "Absent"

classify_preparing(original_existed, obs) ==
  IF /\ obs[1] = InitialTarget(original_existed)
     /\ obs[2] \in {"Absent", "Candidate"}
     /\ obs[3] = "Absent"
  THEN {"rollback"} ELSE Conflict

classify_prepared(original_existed, obs) ==
  IF obs = <<InitialTarget(original_existed), "Candidate", "Absent">>
  THEN {"complete", "rollback"} ELSE Conflict

(***************************************************************************)
(* What a crash may leave behind a Committing record: the record is at     *)
(* most two renames behind the disk.                                       *)
(***************************************************************************)
\* Fault: the crash between the backup rename and its record is forgotten.
NoRenameAhead(original_existed, commit) ==
  IF original_existed
  THEN CASE commit = "Untouched" -> {<<"Original", "Candidate", "Absent">>}
         [] commit = "BackedUp"  -> {<<"Absent", "Candidate", "Original">>,
                                     <<"Candidate", "Absent", "Original">>}
         [] commit = "Installed" -> {<<"Candidate", "Absent", "Original">>}
  ELSE CASE commit = "Untouched" -> {<<"Absent", "Candidate", "Absent">>,
                                     <<"Candidate", "Absent", "Absent">>}
         [] commit = "BackedUp"  -> {}
         [] commit = "Installed" -> {<<"Candidate", "Absent", "Absent">>}

CommittingObservations(original_existed, commit) ==
  LET before    == <<"Original", "Candidate", "Absent">>
      backed_up == <<"Absent", "Candidate", "Original">>
      installed == <<"Candidate", "Absent", "Original">>
      absent    == <<"Absent", "Candidate", "Absent">>
      created   == <<"Candidate", "Absent", "Absent">>
  IN IF original_existed
     THEN CASE commit = "Untouched" -> {before, backed_up, installed}
            [] commit = "BackedUp"  -> {backed_up, installed}
            [] commit = "Installed" -> {installed}
     ELSE CASE commit = "Untouched" -> {absent, created}
            [] commit = "BackedUp"  -> {}
            [] commit = "Installed" -> {created}

classify_committing(original_existed, commit, obs) ==
  IF obs \in CommittingObservations(original_existed, commit)
  THEN {"complete", "rollback"} ELSE Conflict

classify_committed(original_existed, obs) ==
  IF obs = <<"Candidate", "Absent", InitialTarget(original_existed)>>
  THEN {"cleanup"} ELSE Conflict

\* classify_restored_original and classify_restored_absence.
classify_restored(original_existed, obs, disposition) ==
  IF obs = <<InitialTarget(original_existed), "Absent", "Absent">>
  THEN disposition ELSE Conflict

RestoredKind(original_existed) ==
  IF original_existed THEN "OriginalRestored" ELSE "AbsenceRestored"

classify_rolling_back(original_existed, rollback, obs) ==
  LET valid ==
        IF original_existed
        THEN \/ obs[1] = "Original" /\ obs[2] \in {"Absent", "Candidate"}
                  /\ obs[3] = "Absent"
             \/ obs[1] = "Absent" /\ obs[2] \in {"Absent", "Candidate"}
                  /\ obs[3] = "Original"
             \/ obs = <<"Candidate", "Absent", "Original">>
        ELSE \/ obs[1] = "Absent" /\ obs[2] \in {"Absent", "Candidate"}
                  /\ obs[3] = "Absent"
             \/ obs = <<"Candidate", "Absent", "Absent">>
  IN CASE rollback = RestoredKind(original_existed)
            -> classify_restored(original_existed, obs, {"rollback"})
       [] rollback = "None" -> IF valid THEN {"rollback"} ELSE Conflict
       [] OTHER -> Conflict

classify_rolled_back(original_existed, rollback, obs) ==
  IF rollback = RestoredKind(original_existed)
  THEN classify_restored(original_existed, obs, {"cleanup"}) ELSE Conflict

classify_recovery(global, original_existed, commit, rollback, obs) ==
  IF "Unexpected" \in {obs[1], obs[2], obs[3]} THEN Conflict
  ELSE CASE global = "Preparing"   -> classify_preparing(original_existed, obs)
         [] global = "Prepared"    -> classify_prepared(original_existed, obs)
         [] global = "Committing"  -> classify_committing(original_existed, commit, obs)
         [] global = "Committed"   -> classify_committed(original_existed, obs)
         [] global = "RollingBack" -> classify_rolling_back(original_existed, rollback, obs)
         [] global = "RolledBack"  -> classify_rolled_back(original_existed, rollback, obs)
=============================================================================
