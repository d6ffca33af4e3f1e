--------------------------- MODULE ManagedProcess ---------------------------
(***************************************************************************)
(* Supervision of a language server (crates/srcmv-lsp/src/process.rs): the *)
(* child and its process group, the stdin, stdout, stderr and status       *)
(* worker threads, the bounded channels and byte budgets between them and  *)
(* the thread that owns the ManagedProcess (the caller).                   *)
(*                                                                         *)
(* Channels, atomics and mutexes are each one atomic step; a step of a     *)
(* thread touches one of them.  A deadline may expire at any wait.  Bytes  *)
(* are only counted.  The TERM signal has no step of its own: the child    *)
(* may exit or ignore it at any time.  Descendants are there from the      *)
(* start or never, and stay in the process group; try_wait fails only in   *)
(* the status worker.                                                      *)
(***************************************************************************)
EXTENDS ByteCount

CONSTANTS InboundEvents, InboundBytes,    \* ProcessLimits
          OutboundFrames, OutboundBytes,
          CompletionEvents,
          Sizes,        \* sizes of stdout chunks and stdin frames
          MaxChunks,    \* chunks the child writes in a behaviour
          MaxFrames,    \* frames the caller sends in a behaviour
          MaxFaults,    \* system calls that fail for no reason of the child's
          Endings       \* how the caller ends: finish, abort, drop

\* ProcessLimits::validate.
ASSUME ProcessLimitsAssumption ==
  /\ {InboundEvents, InboundBytes, OutboundFrames, OutboundBytes}
       \subseteq Nat \ {0}
  /\ CompletionEvents \in Nat /\ CompletionEvents >= 4

ASSUME BoundsAssumption ==
  /\ Sizes \subseteq Nat \ {0}
  /\ MaxChunks \in Nat /\ MaxFrames \in Nat /\ MaxFaults \in Nat
  /\ Endings \subseteq {"finish", "abort", "drop"}

VARIABLES
  \* the operating system: the direct child, other members of its process
  \* group, and whether the group was sent SIGKILL
  child, descendants, killed,
  \* shared by the threads
  observed_status, completions, wake, stdout_queue, inbound, input_queue,
  outbound, cancelling,
  \* the workers: program counter, and bytes in hand
  worker, held,
  \* the caller and the fields only it uses
  caller, input_sender, ready_exit, exit_event_delivered,
  pending_stdin_closed, pending_faults, in_flight, disconnected,
  \* history: the class of the best event that was ready when next_event last
  \* looked, whether it ever returned a lesser one, the number of exit events,
  \* the result of cleanup, what was written, sent and has failed
  owed, overtaken, exits, result, chunks, frames, faults

os == <<child, descendants, killed>>
inputs == <<input_queue, outbound>>
outputs == <<stdout_queue, inbound>>
signals == <<observed_status, completions, wake>>
workers == <<worker, held, chunks, faults>>
pending == <<ready_exit, exit_event_delivered, pending_stdin_closed, pending_faults>>
local == <<caller, input_sender, in_flight, disconnected, cancelling>>
history == <<owed, overtaken, exits, result, frames>>
vars == <<os, inputs, outputs, signals, workers, pending, local, history>>

Worker == {"Stdin", "Stdout", "Stderr", "Status"}
Completion == {"Exited", "StdinClosed", "Io", "Resource"}

\* A worker whose program counter is a completion is about to send it.
WorkerPc ==
  [ Stdin  |-> {"recv", "write", "StdinClosed", "Io", "last_notify", "done"},
    Stdout |-> {"read", "send", "notify", "send_closed", "Resource", "Io",
                "last_notify", "done"},
    Stderr |-> {"read", "Io", "last_notify", "done"},
    Status |-> {"poll", "store", "Exited", "Io", "last_notify", "done"} ]

CallerPc == {"idle", "exit", "lower", "release", "wait", "sending",
             "status", "group", "abort_group", "reap",
             "cleanup", "drop", "drop_cleanup", "gone"}

\* The end-of-file item of the stdout queue and the Close command of the
\* input queue; other items are sizes.
Closed == 0

TypeOK ==
  /\ child \in {"running", "zombie", "reaped"}
  /\ descendants \in BOOLEAN /\ killed \in BOOLEAN
  /\ observed_status \in BOOLEAN /\ wake \in BOOLEAN
  /\ completions \in Seq(Completion)
  /\ stdout_queue \in Seq(Sizes \cup {Closed})
  /\ input_queue \in Seq(Sizes \cup {Closed})
  /\ inbound \in 0 .. InboundBytes /\ outbound \in 0 .. OutboundBytes
  /\ cancelling \in BOOLEAN
  /\ \A w \in Worker : worker[w] \in WorkerPc[w]
  /\ held \in [Worker -> Sizes \cup {0}]
  /\ caller \in CallerPc
  /\ {input_sender, ready_exit, exit_event_delivered, pending_stdin_closed,
      disconnected} \subseteq BOOLEAN
  /\ pending_faults \in Seq({"Resource", "Io"})
  /\ in_flight \in Sizes \cup {0}
  /\ owed \in 1 .. 6 /\ overtaken \in BOOLEAN /\ exits \in Nat
  /\ result \in {"none", "ok", "deadline"}
  /\ chunks \in 0 .. MaxChunks /\ frames \in 0 .. MaxFrames
  /\ faults \in 0 .. MaxFaults

\* ManagedProcess::spawn.
Init ==
  /\ child = "running" /\ descendants \in BOOLEAN /\ killed = FALSE
  /\ observed_status = FALSE /\ completions = <<>> /\ wake = FALSE
  /\ stdout_queue = <<>> /\ inbound = 0
  /\ input_queue = <<>> /\ outbound = 0
  /\ cancelling = FALSE
  /\ worker = [Stdin |-> "recv", Stdout |-> "read", Stderr |-> "read",
               Status |-> "poll"]
  /\ held = [w \in Worker |-> 0]
  /\ caller = "idle" /\ input_sender = TRUE
  /\ ready_exit = FALSE /\ exit_event_delivered = FALSE
  /\ pending_stdin_closed = FALSE /\ pending_faults = <<>>
  /\ in_flight = 0 /\ disconnected = FALSE
  /\ owed = 6 /\ overtaken = FALSE /\ exits = 0 /\ result = "none"
  /\ chunks = 0 /\ frames = 0 /\ faults = 0

-----------------------------------------------------------------------------
(***************************************************************************)
(* The child's process group.  A member that is alive may hold the other   *)
(* ends of the pipes; a zombie still belongs to the group.                 *)
(***************************************************************************)
GroupAlive == child = "running" \/ descendants
process_group_has_exited == child = "reaped" /\ ~descendants

ChildExit ==
  /\ child = "running" /\ child' = "zombie"
  /\ UNCHANGED <<descendants, killed, inputs, outputs, signals, workers, pending,
                 local, history>>

DescendantsExit ==
  /\ descendants /\ descendants' = FALSE
  /\ UNCHANGED <<child, killed, inputs, outputs, signals, workers, pending,
                 local, history>>

-----------------------------------------------------------------------------
(***************************************************************************)
(* What every worker does.                                                 *)
(***************************************************************************)
WorkerDone(w) == worker[w] = "done"
WorkersFinished == \A w \in Worker : WorkerDone(w)

WorkerGoto(w, pc) == worker' = [worker EXCEPT ![w] = pc]

\* A read, a write or try_wait fails and the worker gives up.
IoFault(w) ==
  /\ faults < MaxFaults /\ faults' = faults + 1
  /\ WorkerGoto(w, "Io")

\* Fault: the status worker goes on polling after it reported an exit.
KeepPolling(w) == IF w = "Status" THEN "poll" ELSE "last_notify"

\* A completion is the last thing a worker has to say.
AfterReport(w) == "last_notify"

\* report_fault, report_resource_fault and the send of Exited: a send that
\* does not wait, and whose failure is ignored.
report(w) ==
  /\ worker[w] \in Completion
  /\ completions' = IF Len(completions) < CompletionEvents /\ caller # "gone"
                    THEN Append(completions, worker[w]) ELSE completions
  /\ WorkerGoto(w, AfterReport(w))
  /\ UNCHANGED <<os, inputs, outputs, observed_status, wake, held, chunks,
                 faults, pending, local, history>>

\* The wake channel holds one token; a second one is dropped.
notify(w) ==
  /\ worker[w] \in {"notify", "last_notify"}
  /\ wake' = TRUE
  /\ WorkerGoto(w, IF worker[w] = "notify" THEN "read" ELSE "done")
  /\ UNCHANGED <<os, inputs, outputs, observed_status, completions, held,
                 chunks, faults, pending, local, history>>

-----------------------------------------------------------------------------
(***************************************************************************)
(* ByteBudget.                                                             *)
(***************************************************************************)
\* Fault: the budget is checked before the bytes are added.
FitsBefore(used, bytes, capacity) == used <= capacity

Fits(used, bytes, capacity) == used + bytes <= capacity

\* Fault: the bytes stay reserved.
KeepReserved(used, bytes) == used

Release(used, bytes) == used - bytes

-----------------------------------------------------------------------------
(***************************************************************************)
(* spawn_input_worker.                                                     *)
(***************************************************************************)
InputUnchanged == UNCHANGED <<os, outputs, signals, chunks, pending, local, history>>

input_recv ==
  /\ worker["Stdin"] = "recv"
  /\ IF input_queue = <<>>
     THEN /\ ~input_sender
          /\ WorkerGoto("Stdin", "done") /\ UNCHANGED <<input_queue, held>>
     ELSE /\ input_queue' = Tail(input_queue)
          /\ held' = [held EXCEPT !["Stdin"] = Head(input_queue)]
          /\ WorkerGoto("Stdin", IF Head(input_queue) = Closed THEN "done" ELSE "write")
  /\ UNCHANGED <<outbound, faults>> /\ InputUnchanged

\* write_all_cancellable: the frame is written, or given up because the
\* pipe is full and the transport is being cancelled.
input_written ==
  /\ worker["Stdin"] = "write" /\ GroupAlive
  /\ outbound' = Release(outbound, held["Stdin"])
  /\ held' = [held EXCEPT !["Stdin"] = 0]
  /\ WorkerGoto("Stdin", "recv")
  /\ UNCHANGED <<input_queue, faults>> /\ InputUnchanged

\* The write fails, with one of the errors of is_terminal_stdin_error or
\* another one.  Frames still queued are dropped with the receiver.
input_failed ==
  /\ worker["Stdin"] = "write"
  /\ outbound' = Release(outbound, held["Stdin"])
  /\ held' = [held EXCEPT !["Stdin"] = 0]
  /\ \/ WorkerGoto("Stdin", "StdinClosed") /\ UNCHANGED faults
     \/ IoFault("Stdin")
  /\ UNCHANGED input_queue /\ InputUnchanged

-----------------------------------------------------------------------------
(***************************************************************************)
(* spawn_stdout_worker.                                                    *)
(***************************************************************************)
StdoutUnchanged == UNCHANGED <<os, inputs, signals, pending, local, history>>

\* A chunk is read; it must fit the byte budget.
stdout_read(n) ==
  /\ worker["Stdout"] = "read" /\ chunks < MaxChunks
  /\ chunks' = chunks + 1
  /\ IF Fits(inbound, n, InboundBytes)
     THEN /\ inbound' = inbound + n
          /\ held' = [held EXCEPT !["Stdout"] = n]
          /\ WorkerGoto("Stdout", "send")
     ELSE WorkerGoto("Stdout", "Resource") /\ UNCHANGED <<inbound, held>>
  /\ UNCHANGED <<stdout_queue, faults>> /\ StdoutUnchanged

\* End of file, an error, or nothing to read while being cancelled.
stdout_stop ==
  /\ worker["Stdout"] = "read"
  /\ \/ WorkerGoto("Stdout", "send_closed") /\ UNCHANGED faults
     \/ IoFault("Stdout")
     \/ GroupAlive /\ cancelling /\ WorkerGoto("Stdout", "done") /\ UNCHANGED faults
  /\ UNCHANGED <<stdout_queue, inbound, held, chunks>> /\ StdoutUnchanged

StdoutRoom == Len(stdout_queue) < InboundEvents /\ caller # "gone"
StdoutGivesUp == ~StdoutRoom /\ (cancelling \/ caller = "gone")

\* Fault: the caller is not woken for a chunk.
ReadWithoutNotify == "read"

AfterChunk == "notify"

stdout_send ==
  /\ worker["Stdout"] = "send"
  /\ \/ /\ StdoutRoom
        /\ stdout_queue' = Append(stdout_queue, held["Stdout"])
        /\ WorkerGoto("Stdout", AfterChunk) /\ UNCHANGED inbound
     \/ /\ StdoutGivesUp
        /\ inbound' = Release(inbound, held["Stdout"])
        /\ WorkerGoto("Stdout", "done") /\ UNCHANGED stdout_queue
  /\ held' = [held EXCEPT !["Stdout"] = 0]
  /\ UNCHANGED <<chunks, faults>> /\ StdoutUnchanged

stdout_send_closed ==
  /\ worker["Stdout"] = "send_closed"
  /\ \/ /\ StdoutRoom
        /\ stdout_queue' = Append(stdout_queue, Closed)
        /\ WorkerGoto("Stdout", "last_notify")
     \/ StdoutGivesUp /\ WorkerGoto("Stdout", "done") /\ UNCHANGED stdout_queue
  /\ UNCHANGED <<inbound, held, chunks, faults>> /\ StdoutUnchanged

-----------------------------------------------------------------------------
(***************************************************************************)
(* spawn_stderr_worker (the tail it keeps is not modelled) and             *)
(* spawn_status_worker.                                                    *)
(***************************************************************************)
stderr_stop ==
  /\ worker["Stderr"] = "read"
  /\ \/ WorkerGoto("Stderr", "done") /\ UNCHANGED faults
     \/ IoFault("Stderr")
  /\ UNCHANGED <<os, inputs, outputs, signals, held, chunks, pending, local,
                 history>>

\* try_wait reaps a child that has exited.
status_poll ==
  /\ worker["Status"] = "poll"
  /\ \/ /\ child # "running" /\ child' = "reaped"
        /\ WorkerGoto("Status", "store") /\ UNCHANGED faults
     \/ IoFault("Status") /\ UNCHANGED child
  /\ UNCHANGED <<descendants, killed, inputs, outputs, signals, held, chunks,
                 pending, local, history>>

\* Fault: an exit is only in the completion.
StatusNotStored ==
  /\ worker["Status"] = "store" /\ WorkerGoto("Status", "Exited")
  /\ UNCHANGED <<os, inputs, outputs, signals, held, chunks, faults, pending,
                 local, history>>

status_store ==
  /\ worker["Status"] = "store"
  /\ observed_status' = TRUE /\ WorkerGoto("Status", "Exited")
  /\ UNCHANGED <<os, inputs, outputs, completions, wake, held, chunks, faults,
                 pending, local, history>>

-----------------------------------------------------------------------------
(***************************************************************************)
(* The caller: next_event and try_next_event.                              *)
(***************************************************************************)
\* Classes of events, in the order next_event promises.
Class(e) == CASE e = "Resource"                      -> 1
              [] e = "Exited"                        -> 2
              [] e = "StdinClosed"                   -> 3
              [] e = "Io"                            -> 4
              [] e \in {"Stdout", "StdoutClosed"}    -> 5
              [] OTHER                               -> 6

InSeq(e, s) == \E i \in DOMAIN s : s[i] = e

ResourceReady == InSeq("Resource", completions) \/ InSeq("Resource", pending_faults)
StdinClosedReady == InSeq("StdinClosed", completions) \/ pending_stdin_closed
IoReady == InSeq("Io", completions) \/ InSeq("Io", pending_faults)
StdoutClosedReady == stdout_queue # <<>> /\ Head(stdout_queue) = Closed

\* An exit is ready once a thread has seen it, and also when it happened
\* unseen and another terminal event would be delivered.
ExitReady ==
  /\ ~exit_event_delivered
  /\ \/ observed_status \/ InSeq("Exited", completions)
     \/ /\ child # "running"
        /\ StdinClosedReady \/ IoReady \/ StdoutClosedReady

\* The classes of the events that are ready.
Ready == {6} \cup {c \in 1 .. 5 :
                     \/ c = 1 /\ ResourceReady
                     \/ c = 2 /\ ExitReady
                     \/ c = 3 /\ StdinClosedReady
                     \/ c = 4 /\ IoReady
                     \/ c = 5 /\ stdout_queue # <<>>}

BestReady == CHOOSE c \in Ready : \A d \in Ready : c <= d

CallerUnchanged == UNCHANGED <<descendants, killed, inputs, workers,
                               input_sender, cancelling, result, frames>>

\* The faults of one kind in the completion channel.  Resource faults are
\* pushed to the front of pending_faults and I/O faults to the back; two faults
\* of a kind are alike.
DrainedFaults(kind) ==
  [i \in 1 .. Cardinality({j \in DOMAIN completions : completions[j] = kind})
     |-> kind]

\* try_next_event first empties the completion channel.  The loop is one step,
\* its last: until then the workers only add to what it takes.
drain_completions(last) ==
  /\ caller' = "exit" /\ disconnected' = last
  /\ owed' = BestReady
  /\ completions' = <<>>
  /\ ready_exit' = InSeq("Exited", completions)
  /\ pending_stdin_closed' = StdinClosedReady
  /\ pending_faults' = DrainedFaults("Resource") \o pending_faults
                         \o DrainedFaults("Io")
  /\ UNCHANGED <<child, outputs, observed_status, in_flight, exit_event_delivered,
                 exits, overtaken>>
  /\ CallerUnchanged

\* next_event; try_next_event is the case whose deadline expires at once.
next_event ==
  /\ caller = "idle" /\ result = "none"
  /\ drain_completions(FALSE) /\ UNCHANGED wake

\* Fault: the exit event is not marked as delivered.
ExitNotMarked == exit_event_delivered

\* take_exit_event swaps the flag.
take_exit_event == TRUE

Deliver(e) ==
  /\ caller' = "idle" /\ in_flight' = 0
  /\ owed' = 6 /\ overtaken' = (overtaken \/ Class(e) > owed)
  /\ ready_exit' = FALSE /\ disconnected' = FALSE
  /\ IF e = "Exited"
     THEN exits' = exits + 1 /\ exit_event_delivered' = take_exit_event
     ELSE UNCHANGED <<exits, exit_event_delivered>>

ResourceFaultReady == pending_faults # <<>> /\ Head(pending_faults) = "Resource"

NothingDelivered == UNCHANGED <<in_flight, ready_exit, disconnected, owed,
                      overtaken, exits, exit_event_delivered>>

\* A resource fault, then a confirmed exit.
deliver_exit ==
  /\ caller = "exit"
  /\ IF ResourceFaultReady
     THEN pending_faults' = Tail(pending_faults) /\ Deliver("Resource")
     ELSE /\ UNCHANGED pending_faults
          /\ IF (ready_exit \/ observed_status) /\ ~exit_event_delivered
             THEN Deliver("Exited")
             ELSE caller' = "lower" /\ NothingDelivered
  /\ UNCHANGED <<child, outputs, signals, pending_stdin_closed>>
  /\ CallerUnchanged

\* refresh_child_status: the caller looks for itself, and reaps.
refresh_child_status ==
  /\ observed_status' = (observed_status \/ child # "running")
  /\ child' = IF child = "zombie" THEN "reaped" ELSE child

\* Fault: a pipe that closes hides the exit that closed it.
NoRefresh(e) == e

\* An exit that is confirmed by a refresh is delivered instead of the event
\* that was about to be.
Upgraded(e) ==
  IF (observed_status \/ child # "running") /\ ~exit_event_delivered
  THEN "Exited" ELSE e

\* Pipe closure, other faults, stdout.
deliver_lower ==
  /\ caller = "lower"
  /\ CASE pending_stdin_closed ->
            /\ refresh_child_status
            /\ Deliver(Upgraded("StdinClosed"))
            /\ pending_stdin_closed' = (Upgraded("StdinClosed") = "Exited")
            /\ UNCHANGED <<pending_faults, stdout_queue>>
       [] ~pending_stdin_closed /\ pending_faults # <<>> ->
            /\ refresh_child_status
            /\ Deliver(Upgraded("Io"))
            /\ pending_faults' = IF Upgraded("Io") = "Exited" THEN pending_faults
                                 ELSE Tail(pending_faults)
            /\ UNCHANGED <<pending_stdin_closed, stdout_queue>>
       [] ~pending_stdin_closed /\ pending_faults = <<>> /\ stdout_queue # <<>> ->
            /\ stdout_queue' = Tail(stdout_queue)
            /\ IF Head(stdout_queue) = Closed
               THEN refresh_child_status /\ Deliver(Upgraded("StdoutClosed"))
               ELSE /\ caller' = "release" /\ in_flight' = Head(stdout_queue)
                    /\ UNCHANGED <<child, observed_status, ready_exit, disconnected,
                                   owed, overtaken, exits, exit_event_delivered>>
            /\ UNCHANGED <<pending_stdin_closed, pending_faults>>
       [] OTHER ->
            /\ IF disconnected THEN Deliver("Disconnected")
               ELSE caller' = "wait" /\ NothingDelivered
            /\ UNCHANGED <<child, observed_status, stdout_queue,
                           pending_stdin_closed, pending_faults>>
  /\ UNCHANGED <<inbound, completions, wake>>
  /\ CallerUnchanged

release_chunk ==
  /\ caller = "release"
  /\ inbound' = Release(inbound, in_flight)
  /\ Deliver("Stdout")
  /\ UNCHANGED <<child, stdout_queue, signals, pending_stdin_closed,
                 pending_faults>>
  /\ CallerUnchanged

\* The wait on the wake channel: a token, every sender gone, or the deadline.
wait_for_wake ==
  /\ caller = "wait"
  /\ \/ wake /\ wake' = FALSE /\ drain_completions(FALSE)
     \/ ~wake /\ WorkersFinished /\ drain_completions(TRUE) /\ UNCHANGED wake

event_deadline ==
  /\ caller = "wait"
  /\ Deliver("Deadline")
  /\ UNCHANGED <<child, outputs, signals, pending_stdin_closed, pending_faults>>
  /\ CallerUnchanged

-----------------------------------------------------------------------------
(***************************************************************************)
(* The caller: send_frame.                                                 *)
(***************************************************************************)
SendUnchanged == UNCHANGED <<descendants, killed, outputs, completions, wake,
                   workers, pending, input_sender, disconnected,
                   cancelling, owed, overtaken, exits, result>>

send_frame(n) ==
  /\ caller = "idle" /\ result = "none" /\ frames < MaxFrames
  /\ frames' = frames + 1
  /\ IF Fits(outbound, n, OutboundBytes)
     THEN /\ outbound' = outbound + n /\ in_flight' = n
          /\ caller' = "sending"
     ELSE UNCHANGED <<outbound, in_flight, caller>>
  /\ UNCHANGED <<child, observed_status, input_queue>> /\ SendUnchanged

\* send_input: queued, refused at the deadline, or refused because the stdin
\* worker is gone; the error that explains the last case may reap the child.
send_input ==
  /\ caller = "sending"
  /\ \/ /\ ~WorkerDone("Stdin") /\ Len(input_queue) < OutboundFrames
        /\ input_queue' = Append(input_queue, in_flight)
        /\ UNCHANGED <<child, observed_status, outbound>>
     \/ /\ outbound' = Release(outbound, in_flight)
        /\ UNCHANGED <<child, observed_status, input_queue>>
     \/ /\ WorkerDone("Stdin") /\ refresh_child_status
        /\ outbound' = Release(outbound, in_flight)
        /\ UNCHANGED input_queue
  /\ caller' = "idle" /\ in_flight' = 0
  /\ UNCHANGED frames /\ SendUnchanged

-----------------------------------------------------------------------------
(***************************************************************************)
(* The caller: finish, abort and drop.                                     *)
(***************************************************************************)
CleanupUnchanged == UNCHANGED <<descendants, inputs, outputs, completions, wake,
                      workers, pending, in_flight, disconnected, owed,
                      overtaken, exits, frames>>

\* finish begins with close_stdin, which waits for room in the input queue;
\* the sender goes whether or not Close could be queued.
finish ==
  /\ caller = "idle" /\ "finish" \in Endings /\ result = "none"
  /\ caller' = "status" /\ input_sender' = FALSE
  /\ \/ /\ Len(input_queue) < OutboundFrames /\ ~WorkerDone("Stdin")
        /\ input_queue' = Append(input_queue, Closed)
        /\ UNCHANGED <<child, observed_status>>
     \/ UNCHANGED <<child, observed_status, input_queue>>
     \/ WorkerDone("Stdin") /\ refresh_child_status /\ UNCHANGED input_queue
  /\ UNCHANGED <<descendants, killed, outbound, outputs,
                 completions, wake, workers, pending, in_flight, disconnected,
                 cancelling, owed, overtaken, exits, result, frames>>

CancelTransport == input_sender' = FALSE /\ cancelling' = TRUE

\* wait_for_status, until the graceful deadline and then, after TERM, until
\* the term deadline; finalize_after_exit and SIGKILL end it.
wait_for_status ==
  /\ caller = "status" /\ CancelTransport
  /\ \/ observed_status /\ caller' = "group" /\ UNCHANGED killed
     \/ ~observed_status /\ caller' = "reap" /\ killed' = TRUE
  /\ UNCHANGED <<child, observed_status, result>> /\ CleanupUnchanged

abort ==
  /\ caller = "idle" /\ "abort" \in Endings /\ result # "ok"
  /\ caller' = "abort_group" /\ CancelTransport
  /\ UNCHANGED <<child, killed, observed_status, result>> /\ CleanupUnchanged

\* Fault: worker completion is taken for proof that the group is empty.
KillForWorkers == ~WorkersFinished /\ ~process_group_has_exited

KillNeeded == ~process_group_has_exited

\* wait_for_process_group_exit, then SIGKILL if the grace ran out.
wait_for_process_group_exit ==
  /\ caller \in {"group", "abort_group"}
  /\ killed' = (killed \/ KillNeeded)
  /\ caller' = IF caller = "group" THEN "cleanup" ELSE "reap"
  /\ UNCHANGED <<child, observed_status, input_sender, cancelling, result>>
  /\ CleanupUnchanged

reap_after_termination ==
  /\ caller = "reap"
  /\ \/ /\ observed_status \/ child # "running"
        /\ refresh_child_status
        /\ caller' = "cleanup" /\ UNCHANGED result
     \/ /\ ~observed_status /\ child = "running"
        /\ caller' = "idle" /\ result' = "deadline"
        /\ UNCHANGED <<child, observed_status>>
  /\ UNCHANGED <<killed, input_sender, cancelling>> /\ CleanupUnchanged

CleanupDone == WorkersFinished /\ process_group_has_exited

wait_for_cleanup ==
  /\ caller = "cleanup" /\ caller' = "idle"
  /\ \/ CleanupDone /\ result' = "ok"
     \/ ~CleanupDone /\ result' = "deadline"
  /\ UNCHANGED <<child, killed, observed_status, input_sender, cancelling>>
  /\ CleanupUnchanged

\* Drop does nothing once the workers are joined.
drop ==
  /\ caller = "idle" /\ "drop" \in Endings
  /\ IF result = "ok"
     THEN caller' = "gone" /\ UNCHANGED <<killed, input_sender, cancelling>>
     ELSE caller' = "drop" /\ killed' = TRUE /\ CancelTransport
  /\ UNCHANGED <<child, observed_status, result>> /\ CleanupUnchanged

\* reap_after_termination and wait_for_cleanup, each until its deadline; then
\* the receivers are dropped.
drop_wait ==
  /\ caller \in {"drop", "drop_cleanup"}
  /\ caller' = IF caller = "drop" THEN "drop_cleanup" ELSE "gone"
  /\ \/ caller = "drop" /\ refresh_child_status
     \/ caller = "drop_cleanup" /\ UNCHANGED <<child, observed_status>>
  /\ UNCHANGED <<killed, input_sender, cancelling, result>> /\ CleanupUnchanged

-----------------------------------------------------------------------------
WorkerStep ==
  \/ \E w \in Worker : report(w) \/ notify(w)
  \/ input_recv \/ input_written \/ input_failed
  \/ \E n \in Sizes : stdout_read(n)
  \/ stdout_stop \/ stdout_send \/ stdout_send_closed
  \/ stderr_stop \/ status_poll \/ status_store

CallerStep ==
  \/ next_event \/ deliver_exit \/ deliver_lower
  \/ release_chunk \/ wait_for_wake \/ event_deadline
  \/ \E n \in Sizes : send_frame(n)
  \/ send_input \/ finish \/ wait_for_status \/ abort
  \/ wait_for_process_group_exit \/ reap_after_termination \/ wait_for_cleanup
  \/ drop \/ drop_wait

Next == ChildExit \/ DescendantsExit \/ WorkerStep \/ CallerStep

Spec == Init /\ [][Next]_vars

-----------------------------------------------------------------------------
(***************************************************************************)
(* Properties.                                                             *)
(***************************************************************************)
\* No completion is lost.  report_fault, report_resource_fault and the
\* status worker ignore the result of try_send; the channel has room each
\* time they use it while the ManagedProcess lives, because the four workers
\* send at most one completion each and validate asks for four slots.
CompletionsNeverDropped ==
  \A w \in Worker :
    worker[w] \in Completion /\ caller # "gone"
      => Len(completions) < CompletionEvents

\* next_event never sleeps on an event: while it waits on the one-slot wake
\* channel, an unread completion or stdout item comes with a token or with a
\* worker that is about to send one, although tokens are coalesced and stale
\* ones are consumed.
NoLostWakeup ==
  caller = "wait" /\ (completions # <<>> \/ stdout_queue # <<>>)
    => wake \/ \E w \in Worker : worker[w] \in {"notify", "last_notify"}

\* What next_event returns is never less urgent than something that was ready
\* when it last looked, whatever the workers do while it looks: resource
\* fault, confirmed exit, stdin closure, I/O fault, stdout.  An exit that no
\* thread has seen yet still precedes the pipe closures and faults it causes.
PrecedenceHonoured == ~overtaken

\* The exit event is delivered at most once, and only for a child that was
\* reaped, although the completion channel, observed_status and
\* refresh_child_status each offer it.
ExitReportedOnce ==
  exits <= 1 /\ (exits = 1 => child = "reaped" /\ observed_status)

\* Both byte budgets count exactly the bytes in the queue and in the hands of
\* the threads, through full queues, deadlines, cancelled writes and workers
\* that die.  Frames left in the queue of a dead stdin worker stay counted.
BudgetsAccounted ==
  /\ inbound = Total(stdout_queue) + held["Stdout"]
                + IF caller = "release" THEN in_flight ELSE 0
  /\ outbound = Total(input_queue) + held["Stdin"]
                 + IF caller = "sending" THEN in_flight ELSE 0
=============================================================================
