------------------------ MODULE TransactionRefinement ------------------------
(***************************************************************************)
(* The transaction engine implements RecoverableCommit, as long as nobody  *)
(* else edits the targets.                                                 *)
(***************************************************************************)
EXTENDS Transaction

\* What a reader finds: only a candidate with its final mode counts as new.
VisibleFile(t) ==
  CASE target[t] = InitialFile(t)                  -> "old"
    [] target[t] = "moded"                         -> "new"
    [] target[t] = "absent" /\ t \in Existing      -> "missing"
    [] OTHER                                       -> "foreign"

\* The decision is the last published state record and nothing else.
Decision ==
  CASE global \in {"Preparing", "Prepared"} -> "open"
    [] global = "Committing"                -> "committing"
    [] global = "Committed"                 -> "committed"
    [] global = "RollingBack"               -> "aborting"
    [] global = "RolledBack"                -> "aborted"

Abstract == INSTANCE RecoverableCommit
              WITH visible <- [t \in Targets |-> VisibleFile(t)],
                   decision <- Decision

\* README.md: "Multi-target commit is recoverable, not atomically visible":
\* every step of commit, recovery, cleanup, crash and failure is a step of
\* RecoverableCommit or leaves targets and decision alone.
ImplementsRecoverableCommit == Abstract!RCSpec
=============================================================================
