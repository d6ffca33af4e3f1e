---------------------------- MODULE MCTransaction ----------------------------
(***************************************************************************)
(* The model of Transaction for TLC.  A command that runs takes its next   *)
(* step: nothing in the engine blocks.  No fairness is assumed of the user *)
(* who starts commands, of crashes, of I/O errors or of edits.             *)
(***************************************************************************)
EXTENDS TransactionRefinement

FairSpec == Spec /\ WF_vars(Step)

\* One uninterrupted recovery command is enough: once the last fault has
\* happened, an offered recovery of a recoverable transaction removes the
\* transaction directory (recover_locked to cleanup_completed_directory).
Offered ==
  \/ mode = "rollback" /\ "rollback" \in actions_for_state
  \/ mode = "rollback" /\ global = "RolledBack"
  \/ mode = "complete" /\ "complete" \in actions_for_state
  \/ mode = "complete" /\ global = "Committed"

RecoveryConverges ==
  ( /\ pc = "scan" /\ Offered /\ Recoverable
    /\ faults = MaxFaults /\ Unedited = Targets )
  ~> (dir = "none")
=============================================================================
