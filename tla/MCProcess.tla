----------------------------- MODULE MCProcess -----------------------------
(***************************************************************************)
(* Instances of ManagedProcess for TLC, and its liveness.                  *)
(***************************************************************************)
EXTENDS ManagedProcess

\* What a thread does without the help of a child that is alive: a pipe whose
\* last other end is gone says so, and a worker that is cancelled gives up.
StdinThread ==
  \/ report("Stdin") \/ notify("Stdin") \/ input_recv
  \/ cancelling /\ input_written
  \/ ~GroupAlive /\ input_failed

StdoutThread ==
  \/ report("Stdout") \/ notify("Stdout") \/ stdout_send \/ stdout_send_closed
  \/ (cancelling \/ ~GroupAlive) /\ stdout_stop

StderrThread ==
  \/ report("Stderr") \/ notify("Stderr")
  \/ (cancelling \/ ~GroupAlive) /\ stderr_stop

StatusThread ==
  \/ report("Status") \/ notify("Status") \/ status_store
  \/ child # "running" /\ status_poll

InNextEvent == caller \in {"exit", "lower", "release", "wait"}
NextEventThread == deliver_exit \/ deliver_lower \/ release_chunk \/ wait_for_wake

\* The threads run and the kernel carries out SIGKILL.  Nothing is assumed of
\* a child that was not killed, of an operation the caller has not started, or
\* of deadlines.
Fairness ==
  /\ WF_vars(StdinThread) /\ WF_vars(StdoutThread)
  /\ WF_vars(StderrThread) /\ WF_vars(StatusThread)
  /\ WF_vars(NextEventThread)
  /\ WF_vars(killed /\ (ChildExit \/ DescendantsExit))

FairSpec == Spec /\ Fairness

\* A caller of next_event is told of an exit without waiting for its
\* deadline, even if descendants of the child hold every pipe open and even if
\* an earlier call took the completion and returned a resource fault: once the
\* child is gone and its status can be had, next_event returns.
ExitWakes ==
  (/\ caller = "wait" /\ child # "running" /\ exits = 0
   /\ worker["Status"] \in {"poll", "store", "Exited"} \/ faults = 0)
    ~> ~InNextEvent

\* From finish, abort or drop on, cleanup needs no more help: when any of
\* them has come to wait for the workers, every thread ends and the child and
\* its descendants go away, although nobody reads stdout any more and
\* descendants may ignore TERM.
CleanupConverges ==
  caller \in {"cleanup", "drop_cleanup"}
    ~> (WorkersFinished /\ child # "running" /\ ~descendants)
=============================================================================
