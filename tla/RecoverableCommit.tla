-------------------------- MODULE RecoverableCommit --------------------------
(***************************************************************************)
(* What a srcmv commit promises its workspace: "recoverable, not           *)
(* atomically visible".  Readers may see a mixture of old and new targets, *)
(* and an existing target that is briefly missing, but only between two    *)
(* decisions: nothing changes before the transaction starts committing,    *)
(* targets only move forward while it commits and only back once it is     *)
(* being rolled back, and each final decision is taken when every target   *)
(* agrees with it and is never revised.                                    *)
(***************************************************************************)
CONSTANTS Targets, Existing

VARIABLES visible,    \* what a reader finds at each target path
          decision

RCTypeOK ==
  /\ visible \in [Targets -> {"old", "missing", "new"}]
  /\ decision \in {"open", "committing", "committed", "aborting", "aborted"}

RCInit == visible = [t \in Targets |-> "old"] /\ decision = "open"

Begin == decision = "open" /\ decision' = "committing" /\ UNCHANGED visible

\* An existing target is moved away before its replacement is moved in.
Forward(t) == IF visible[t] = "old" /\ t \in Existing THEN "missing" ELSE "new"

Advance(t) ==
  /\ decision = "committing" /\ visible[t] # "new"
  /\ visible' = [visible EXCEPT ![t] = Forward(t)]
  /\ UNCHANGED decision

Commit ==
  /\ decision = "committing" /\ \A t \in Targets : visible[t] = "new"
  /\ decision' = "committed" /\ UNCHANGED visible

Abandon ==
  /\ decision \in {"open", "committing"}
  /\ decision' = "aborting" /\ UNCHANGED visible

Backward(t) == IF visible[t] = "new" /\ t \in Existing THEN "missing" ELSE "old"

Retreat(t) ==
  /\ decision = "aborting" /\ visible[t] # "old"
  /\ visible' = [visible EXCEPT ![t] = Backward(t)]
  /\ UNCHANGED decision

Rollback ==
  /\ decision = "aborting" /\ \A t \in Targets : visible[t] = "old"
  /\ decision' = "aborted" /\ UNCHANGED visible

RCNext ==
  \/ Begin \/ Commit \/ Abandon \/ Rollback
  \/ \E t \in Targets : Advance(t) \/ Retreat(t)

RCSpec == RCInit /\ [][RCNext]_<<visible, decision>>
=============================================================================
