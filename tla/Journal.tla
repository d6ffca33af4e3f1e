------------------------------- MODULE Journal -------------------------------
(***************************************************************************)
(* The rules crates/srcmv-fs/src/journal.rs applies to a state record      *)
(* before it is published and again whenever a journal is read back.       *)
(*                                                                         *)
(* A state snapshot is a record [sequence, global, candidate, commit,      *)
(* rollback]; the last three are functions from targets to kinds.  The     *)
(* recorded identities and modes are left out: a kind determines which of  *)
(* them are present (validate_target_fields).                              *)
(***************************************************************************)
EXTENDS Naturals, RecoveryClassifier

CONSTANTS N,                 \* number of changed targets
          Existing,          \* the targets whose original existed
          MaxStateRecords,   \* MAX_STATE_RECORDS
          MaxTargets         \* MAX_TRANSACTION_TARGETS

ASSUME TargetsAssumption ==
  /\ MaxTargets \in Nat
  /\ N \in 1 .. MaxTargets
  /\ Existing \subseteq 1 .. N
  /\ MaxStateRecords \in Nat

\* Four records per target and four for the transaction fit the limit
\* (journal.rs: 512 records, 100 targets).
ASSUME LimitsAssumption == 4 * MaxTargets + 4 <= MaxStateRecords

Targets == 1 .. N

commit_rank(kind) == CASE kind = "Untouched" -> 0
                       [] kind = "BackedUp"  -> 1
                       [] kind = "Installed" -> 2

validate_global_constraints(s) ==
  LET all_ready == \A t \in Targets : s.candidate[t] = "Ready"
      all_untouched == \A t \in Targets : s.commit[t] = "Untouched"
      none_rolled_back == \A t \in Targets : s.rollback[t] = "None"
  IN CASE s.global = "Preparing"   -> all_untouched /\ none_rolled_back
       [] s.global = "Prepared"    -> all_ready /\ all_untouched /\ none_rolled_back
       [] s.global = "Committing"  -> all_ready /\ none_rolled_back
       [] s.global = "Committed"   -> /\ all_ready /\ none_rolled_back
                                      /\ \A t \in Targets : s.commit[t] = "Installed"
       [] s.global = "RollingBack" -> \A t \in Targets : \/ s.rollback[t] # "None"
                                                         \/ s.commit[t] = "Untouched"
                                                         \/ s.candidate[t] = "Ready"
       [] s.global = "RolledBack"  -> \A t \in Targets : s.rollback[t] # "None"

validate_state_shape(s) ==
  /\ s.sequence < MaxStateRecords
  /\ validate_global_constraints(s)

validate_state_against_originals(s) ==
  \A t \in Targets :
    /\ s.commit[t] = "BackedUp" => t \in Existing
    /\ s.rollback[t] = "OriginalRestored" => t \in Existing
    /\ s.rollback[t] = "AbsenceRestored" => t \notin Existing

GlobalSuccessors(global) ==
  CASE global = "Preparing"   -> {"Preparing", "Prepared", "RollingBack"}
    [] global = "Prepared"    -> {"Prepared", "Committing", "RollingBack"}
    [] global = "Committing"  -> {"Committing", "Committed", "RollingBack"}
    [] global = "RollingBack" -> {"RollingBack", "RolledBack"}
    [] OTHER                  -> {}

validate_target_progress(before, after, t) ==
  LET rolling_back == after.global \in {"RollingBack", "RolledBack"}
  IN /\ \/ before.candidate[t] = after.candidate[t]
        \/ before.candidate[t] = "Missing" /\ after.candidate[t] = "Ready"
     /\ ~rolling_back => before.rollback[t] = after.rollback[t]
     /\ commit_rank(after.commit[t]) >= commit_rank(before.commit[t])
     /\ rolling_back => before.commit[t] = after.commit[t]
     /\ before.rollback[t] # "None" => before.rollback[t] = after.rollback[t]

validate_state_transition(before, after) ==
  /\ validate_state_shape(before) /\ validate_state_shape(after)
  /\ after.sequence = before.sequence + 1
  /\ after.global \in GlobalSuccessors(before.global)
  /\ \A t \in Targets : validate_target_progress(before, after, t)

\* The first record of a chain.
validate_state_zero(s) ==
  /\ s.sequence = 0 /\ s.global = "Preparing"
  /\ validate_state_shape(s)
=============================================================================
