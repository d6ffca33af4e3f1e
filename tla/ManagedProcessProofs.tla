------------------------ MODULE ManagedProcessProofs ------------------------
(***************************************************************************)
(* Safety of language server supervision, for every limit that validate    *)
(* accepts, every set of sizes and every number of chunks, frames and      *)
(* faults.                                                                 *)
(***************************************************************************)
EXTENDS ManagedProcess, SequenceLemmas

-----------------------------------------------------------------------------
(***************************************************************************)
(* The inductive invariant.                                                *)
(***************************************************************************)
\* TypeOK and the budgets, in parts: the flags;
FlagsOK ==
  /\ descendants \in BOOLEAN /\ killed \in BOOLEAN
  /\ observed_status \in BOOLEAN /\ wake \in BOOLEAN
  /\ cancelling \in BOOLEAN
  /\ {input_sender, ready_exit, exit_event_delivered, pending_stdin_closed,
      disconnected} \subseteq BOOLEAN
  /\ overtaken \in BOOLEAN

\* program counters and other enumerations;
PcsOK ==
  /\ child \in {"running", "zombie", "reaped"}
  /\ DOMAIN worker = Worker /\ \A w \in Worker : worker[w] \in WorkerPc[w]
  /\ caller \in CallerPc
  /\ result \in {"none", "ok", "deadline"}

\* the queues;
QueuesOK ==
  /\ completions \in Seq(Completion)
  /\ stdout_queue \in Seq(Sizes \cup {Closed})
  /\ input_queue \in Seq(Sizes \cup {Closed})
  /\ pending_faults \in Seq({"Resource", "Io"})

\* the counters;
CountsOK ==
  /\ owed \in 1 .. 6 /\ exits \in Nat
  /\ chunks \in 0 .. MaxChunks /\ frames \in 0 .. MaxFrames
  /\ faults \in 0 .. MaxFaults

\* the bytes in hand, which are those of a frame being written or of a chunk
\* being queued;
HandsOK ==
  /\ held \in [Worker -> Sizes \cup {0}]
  /\ worker["Stdin"] # "write" => held["Stdin"] = 0
  /\ worker["Stdout"] # "send" => held["Stdout"] = 0
  /\ in_flight \in Sizes \cup {0}

\* and the budgets, of which the caller carries what it took or is to queue.
Carried(pc) == IF caller = pc THEN in_flight ELSE 0

InboundOK ==
  /\ inbound \in 0 .. InboundBytes
  /\ inbound = Total(stdout_queue) + held["Stdout"] + Carried("release")

OutboundOK ==
  /\ outbound \in 0 .. OutboundBytes
  /\ outbound = Total(input_queue) + held["Stdin"] + Carried("sending")

DataOK == PcsOK /\ QueuesOK /\ CountsOK /\ HandsOK /\ InboundOK /\ OutboundOK

\* A worker has had its last word.
Spoken(w) == IF worker[w] \in {"last_notify", "done"} THEN 1 ELSE 0

\* Every completion in the channel is the last word of a worker of its own.
CompletionsInv ==
  Len(completions) <= Spoken("Stdin") + Spoken("Stdout")
                        + Spoken("Stderr") + Spoken("Status")

Notified == wake \/ \E w \in Worker : worker[w] \in {"notify", "last_notify"}

\* A completion that arrives after the channel was emptied, and a stdout item
\* that arrives after the queue was found empty, come with a wake-up.
WakeInv ==
  /\ caller \in {"exit", "lower", "wait"} /\ completions # <<>> => Notified
  /\ caller = "wait" /\ stdout_queue # <<>> => Notified

\* Whoever speaks of an exit speaks of a child that was reaped and whose
\* status is stored.
ExitInv ==
  /\ exits = IF exit_event_delivered THEN 1 ELSE 0
  /\ exit_event_delivered => observed_status
  /\ observed_status \/ worker["Status"] = "store" => child = "reaped"
  /\ worker["Status"] = "Exited" => observed_status
  /\ InSeq("Exited", completions) \/ ready_exit => observed_status

\* Resource faults are in front.
ResourcesFirst(q) ==
  \A i, j \in DOMAIN q : i < j /\ q[j] = "Resource" => q[i] = "Resource"

FaultsInv == ResourcesFirst(pending_faults)

\* What next_event owes is still there to be delivered, and the stage it has
\* reached has not passed it by.
OwedInv ==
  /\ caller \notin {"exit", "lower", "release", "wait"} => owed = 6
  /\ caller = "wait" => owed = 6
  /\ caller = "release" => owed >= 5
  /\ caller = "exit" /\ owed = 1 => ResourceFaultReady
  /\ caller = "lower" => owed >= 2
  /\ caller \in {"exit", "lower"} =>
       /\ owed = 2 =>
            /\ ~exit_event_delivered
            /\ \/ caller = "exit" /\ (ready_exit \/ observed_status)
               \/ /\ child # "running"
                  /\ pending_stdin_closed \/ pending_faults # <<>> \/ StdoutClosedReady
       /\ owed = 3 => pending_stdin_closed
       /\ owed = 4 => pending_faults # <<>>
       /\ owed = 5 => stdout_queue # <<>>

\* A component of the state each, from types to precedence.
PInv == /\ FlagsOK /\ DataOK /\ CompletionsInv /\ WakeInv /\ ExitInv
        /\ FaultsInv /\ OwedInv /\ PrecedenceHonoured

-----------------------------------------------------------------------------
(***************************************************************************)
(* Types and budgets.                                                      *)
(***************************************************************************)
\* What a step of either end does to the bytes of a queue.
LEMMA QueueBytes ==
  ASSUME NEW s \in Seq(Sizes \cup {Closed})
  PROVE  /\ Total(s) \in Nat
         /\ s # <<>> => /\ Head(s) \in Sizes \cup {Closed}
                        /\ Tail(s) \in Seq(Sizes \cup {Closed})
                        /\ Total(Tail(s)) \in Nat
                        /\ Total(s) = Head(s) + Total(Tail(s))
         /\ \A n \in Sizes \cup {Closed} :
              /\ Append(s, n) \in Seq(Sizes \cup {Closed})
              /\ Total(Append(s, n)) = Total(s) + n
<1>1. Sizes \cup {Closed} \subseteq Nat
  BY BoundsAssumption DEF Closed
<1>2. s \in Seq(Nat)
  BY <1>1
<1>3. s # <<>> => Head(s) \in Sizes \cup {Closed} /\ Tail(s) \in Seq(Sizes \cup {Closed})
  OBVIOUS
<1>4. s # <<>> => Tail(s) \in Seq(Nat)
  BY <1>2
<1>5. Total(s) \in Nat
  BY <1>2, BytesFinite
<1>6. s # <<>> => Total(Tail(s)) \in Nat /\ Total(s) = Head(s) + Total(Tail(s))
  BY <1>2, <1>4, BytesFinite, TotalTail
<1>7. \A n \in Sizes \cup {Closed} : Append(s, n) \in Seq(Sizes \cup {Closed})
  OBVIOUS
<1>8. \A n \in Sizes \cup {Closed} : Total(Append(s, n)) = Total(s) + n
  BY <1>1, <1>2, TotalAppend
<1> QED  BY <1>3, <1>5, <1>6, <1>7, <1>8

\* The faults taken out of the channel, of one kind.
LEMMA DrainedFaultsFacts ==
  ASSUME completions \in Seq(Completion), NEW kind \in {"Resource", "Io"}
  PROVE  /\ DrainedFaults(kind) \in Seq({"Resource", "Io"})
         /\ \A i \in DOMAIN DrainedFaults(kind) : DrainedFaults(kind)[i] = kind
         /\ InSeq(kind, completions) <=> DrainedFaults(kind) # <<>>
<1> DEFINE J == {j \in DOMAIN completions : completions[j] = kind}
<1>1. IsFiniteSet(DOMAIN completions)
  BY FS_Interval
<1>2. IsFiniteSet(J)
  BY <1>1, FS_Subset
<1>3. Cardinality(J) \in Nat /\ (Cardinality(J) = 0 <=> J = {})
  BY <1>2, FS_CardinalityType, FS_EmptySet
<1>4. InSeq(kind, completions) <=> J # {}
  BY DEF InSeq
<1>5. DrainedFaults(kind) = [i \in 1 .. Cardinality(J) |-> kind]
  BY DEF DrainedFaults
<1> HIDE DEF J
<1>6. DrainedFaults(kind) \in Seq({"Resource", "Io"}) /\ Len(DrainedFaults(kind)) = Cardinality(J)
  BY <1>3, <1>5
<1> QED  BY <1>3, <1>4, <1>5, <1>6

\* The best event that is ready is ready.
LEMMA BestIsReady == BestReady \in Ready /\ BestReady \in 1 .. 6
<1>1. 6 \in Ready /\ Ready \subseteq 1 .. 6
  BY DEF Ready
<1>2. ASSUME NEW S \in SUBSET (1 .. 6), 6 \in S
      PROVE  \E c \in S : \A d \in S : c <= d
  <2>1. CASE 1 \in S
    BY <1>2, <2>1
  <2>2. CASE 1 \notin S /\ 2 \in S
    BY <1>2, <2>2
  <2>3. CASE 1 \notin S /\ 2 \notin S /\ 3 \in S
    BY <1>2, <2>3
  <2>4. CASE 1 \notin S /\ 2 \notin S /\ 3 \notin S /\ 4 \in S
    BY <1>2, <2>4
  <2>5. CASE 1 \notin S /\ 2 \notin S /\ 3 \notin S /\ 4 \notin S
    BY <1>2, <2>5
  <2> QED  BY <2>1, <2>2, <2>3, <2>4, <2>5
<1>3. \E c \in Ready : \A d \in Ready : c <= d
  BY <1>1, <1>2
<1> QED  BY <1>1, <1>3 DEF BestReady

\* The parts make up TypeOK.
LEMMA TypeParts == FlagsOK /\ DataOK => TypeOK
BY DEF TypeOK, FlagsOK, DataOK, PcsOK, QueuesOK, CountsOK, HandsOK, InboundOK,
   OutboundOK

\* Every assignment to a flag is a truth value.
LEMMA FlagsStep ==
  ASSUME FlagsOK, Next
  PROVE  FlagsOK'
<1> DEFINE Goal == FlagsOK'
<1> USE DEF os, inputs, outputs, signals, workers, pending, local, history, FlagsOK
<1>1. CASE ChildExit
  BY <1>1, Zenon DEF ChildExit
<1>2. CASE DescendantsExit
  BY <1>2, Zenon DEF DescendantsExit
<1>3. ASSUME NEW w \in Worker, report(w)
      PROVE  Goal
  BY <1>3, Zenon DEF report, AfterReport
<1>4. ASSUME NEW w \in Worker, notify(w)
      PROVE  Goal
  BY <1>4, Zenon DEF notify
<1>5. CASE input_recv
  BY <1>5, Zenon DEF input_recv, InputUnchanged
<1>6. CASE input_written
  BY <1>6, Zenon DEF input_written, InputUnchanged, Release
<1>7. CASE input_failed
  BY <1>7, Zenon DEF input_failed, InputUnchanged, Release, IoFault
<1>8. ASSUME NEW n \in Sizes, stdout_read(n)
      PROVE  Goal
  BY <1>8, Zenon DEF stdout_read, StdoutUnchanged, Fits
<1>9. CASE stdout_stop
  BY <1>9, Zenon DEF stdout_stop, StdoutUnchanged, IoFault
<1>10. CASE stdout_send
  BY <1>10, Zenon DEF stdout_send, StdoutUnchanged, Release, AfterChunk
<1>11. CASE stdout_send_closed
  BY <1>11, Zenon DEF stdout_send_closed, StdoutUnchanged
<1>12. CASE stderr_stop
  BY <1>12, Zenon DEF stderr_stop, IoFault
<1>13. CASE status_poll
  BY <1>13, Zenon DEF status_poll, IoFault
<1>14. CASE status_store
  BY <1>14, Zenon DEF status_store
<1>15. CASE next_event
  BY <1>15, Zenon DEF next_event, drain_completions, CallerUnchanged,
     StdinClosedReady, InSeq
<1>16. CASE deliver_exit
  BY <1>16, Zenon DEF deliver_exit, Deliver, NothingDelivered, CallerUnchanged,
     take_exit_event
<1>17. CASE deliver_lower
  BY <1>17, Zenon DEF deliver_lower, Deliver, NothingDelivered, CallerUnchanged,
     take_exit_event, refresh_child_status, Upgraded
<1>18. CASE release_chunk
  BY <1>18, Zenon DEF release_chunk, Deliver, CallerUnchanged, Release
<1>19. CASE wait_for_wake
  BY <1>19, Zenon DEF wait_for_wake, drain_completions, CallerUnchanged,
     StdinClosedReady, InSeq
<1>20. CASE event_deadline
  BY <1>20, Zenon DEF event_deadline, Deliver, CallerUnchanged
<1>21. ASSUME NEW n \in Sizes, send_frame(n)
      PROVE  Goal
  BY <1>21, Zenon DEF send_frame, SendUnchanged, Fits
<1>22. CASE send_input
  BY <1>22, Zenon DEF send_input, SendUnchanged, Release, refresh_child_status
<1>23. CASE finish
  BY <1>23, Zenon DEF finish, refresh_child_status
<1>24. CASE wait_for_status
  BY <1>24, Zenon DEF wait_for_status, CancelTransport, CleanupUnchanged
<1>25. CASE abort
  BY <1>25, Zenon DEF abort, CancelTransport, CleanupUnchanged
<1>26. CASE wait_for_process_group_exit
  BY <1>26, Zenon DEF wait_for_process_group_exit, CleanupUnchanged
<1>27. CASE reap_after_termination
  BY <1>27, Zenon DEF reap_after_termination, refresh_child_status,
     CleanupUnchanged
<1>28. CASE wait_for_cleanup
  BY <1>28, Zenon DEF wait_for_cleanup, CleanupUnchanged
<1>29. CASE drop
  BY <1>29, Zenon DEF drop, CancelTransport, CleanupUnchanged
<1>30. CASE drop_wait
  BY <1>30, Zenon DEF drop_wait, refresh_child_status, CleanupUnchanged
<1> QED  BY <1>1, <1>2, <1>3, <1>4, <1>5, <1>6, <1>7, <1>8, <1>9, <1>10, <1>11,
            <1>12, <1>13, <1>14, <1>15, <1>16, <1>17, <1>18, <1>19,
            <1>20, <1>21, <1>22, <1>23, <1>24, <1>25, <1>26, <1>27,
            <1>28, <1>29, <1>30 DEF Next, WorkerStep, CallerStep

\* TypeOK, HandsInv and BudgetsAccounted are inductive together: a release
\* takes back bytes that are counted.
LEMMA TypeStep ==
  ASSUME DataOK, Next
  PROVE  DataOK'
<1> DEFINE Goal == DataOK'
<1>d. DrainedFaults("Resource") \o pending_faults \o DrainedFaults("Io") \in Seq({"Resource", "Io"})
  <2>1. completions \in Seq(Completion) /\ pending_faults \in Seq({"Resource", "Io"})
    BY DEF DataOK, QueuesOK
  <2>2. /\ DrainedFaults("Resource") \in Seq({"Resource", "Io"})
        /\ DrainedFaults("Io") \in Seq({"Resource", "Io"})
    BY <2>1, DrainedFaultsFacts
  <2> QED  BY <2>1, <2>2
<1>q. /\ Total(stdout_queue) \in Nat /\ Total(input_queue) \in Nat
      /\ stdout_queue # <<>> =>
           /\ Head(stdout_queue) \in Sizes \cup {Closed}
           /\ Tail(stdout_queue) \in Seq(Sizes \cup {Closed})
           /\ Total(Tail(stdout_queue)) \in Nat
           /\ Total(stdout_queue) = Head(stdout_queue) + Total(Tail(stdout_queue))
      /\ input_queue # <<>> =>
           /\ Head(input_queue) \in Sizes \cup {Closed}
           /\ Tail(input_queue) \in Seq(Sizes \cup {Closed})
           /\ Total(Tail(input_queue)) \in Nat
           /\ Total(input_queue) = Head(input_queue) + Total(Tail(input_queue))
      /\ \A n \in Sizes \cup {Closed} :
           /\ Append(stdout_queue, n) \in Seq(Sizes \cup {Closed})
           /\ Total(Append(stdout_queue, n)) = Total(stdout_queue) + n
           /\ Append(input_queue, n) \in Seq(Sizes \cup {Closed})
           /\ Total(Append(input_queue, n)) = Total(input_queue) + n
  BY QueueBytes DEF DataOK, QueuesOK
<1>h. /\ held \in [Worker -> Sizes \cup {0}] /\ Sizes \subseteq Nat
      /\ in_flight \in Sizes \cup {Closed} /\ in_flight \in Nat
      /\ held["Stdout"] \in Sizes \cup {Closed} /\ held["Stdout"] \in Nat
      /\ held["Stdin"] \in Sizes \cup {Closed} /\ held["Stdin"] \in Nat
  <2>1. Sizes \subseteq Nat
    BY BoundsAssumption
  <2>2. held \in [Worker -> Sizes \cup {0}] /\ in_flight \in Sizes \cup {0}
    BY DEF DataOK, HandsOK
  <2>3. {"Stdout", "Stdin"} \subseteq Worker
    BY DEF Worker
  <2>4. held["Stdout"] \in Sizes \cup {0} /\ held["Stdin"] \in Sizes \cup {0}
    BY <2>2, <2>3
  <2>5. Sizes \cup {0} = Sizes \cup {Closed}
    BY DEF Closed
  <2>6. \A n \in Sizes \cup {0} : n \in Nat
    BY <2>1
  <2> QED  BY <2>1, <2>2, <2>4, <2>5, <2>6
<1>l. InboundBytes \in Nat /\ OutboundBytes \in Nat
  BY ProcessLimitsAssumption
<1>a. /\ Total(Append(stdout_queue, Closed)) = Total(stdout_queue)
      /\ Total(Append(input_queue, Closed)) = Total(input_queue)
      /\ Total(Append(stdout_queue, held["Stdout"])) = Total(stdout_queue) + held["Stdout"]
      /\ Total(Append(input_queue, in_flight)) = Total(input_queue) + in_flight
  BY <1>q, <1>h DEF Closed
<1>c. Carried("release") \in Nat /\ Carried("sending") \in Nat
  BY <1>h DEF Carried
<1>i. /\ inbound \in Nat /\ inbound <= InboundBytes
      /\ inbound = Total(stdout_queue) + held["Stdout"] + Carried("release")
  BY <1>l DEF DataOK, InboundOK
<1>o. /\ outbound \in Nat /\ outbound <= OutboundBytes
      /\ outbound = Total(input_queue) + held["Stdin"] + Carried("sending")
  BY <1>l DEF DataOK, OutboundOK
<1>s. Total(stdout_queue) \in Nat /\ Total(input_queue) \in Nat
  BY <1>q
<1>t. /\ stdout_queue # <<>> =>
           /\ Head(stdout_queue) \in Nat /\ Total(Tail(stdout_queue)) \in Nat
           /\ Total(stdout_queue) = Head(stdout_queue) + Total(Tail(stdout_queue))
      /\ input_queue # <<>> =>
           /\ Head(input_queue) \in Nat /\ Total(Tail(input_queue)) \in Nat
           /\ Total(input_queue) = Head(input_queue) + Total(Tail(input_queue))
  <2>1. \A n \in Sizes \cup {Closed} : n \in Nat
    BY <1>h DEF Closed
  <2> QED  BY <1>q, <2>1
<1>p. pending_faults # <<>> => Tail(pending_faults) \in Seq({"Resource", "Io"})
  BY DEF DataOK, QueuesOK
<1> USE BoundsAssumption, ProcessLimitsAssumption
<1> USE DEF os, inputs, outputs, signals, workers, pending, local, history,
            DataOK, Worker
<1>1. CASE ChildExit
  BY <1>1 DEF ChildExit, PcsOK, WorkerGoto, WorkerPc, CallerPc, QueuesOK,
         HandsOK, CountsOK, InboundOK, Carried, OutboundOK
<1>2. CASE DescendantsExit
  BY <1>2 DEF DescendantsExit, PcsOK, WorkerGoto, WorkerPc, CallerPc,
         QueuesOK, HandsOK, CountsOK, InboundOK, Carried, OutboundOK
<1>3. ASSUME NEW w \in Worker, report(w)
      PROVE  Goal
  <2>1. PcsOK'
    BY <1>3 DEF report, AfterReport, Completion, PcsOK, WorkerGoto, WorkerPc, CallerPc
  <2>2. QueuesOK'
    BY <1>3 DEF report, AfterReport, Completion, QueuesOK, WorkerPc, PcsOK, HandsOK
  <2>3. CountsOK'
    BY <1>3 DEF report, AfterReport, Completion, CountsOK
  <2>4. HandsOK'
    BY <1>3 DEF report, AfterReport, Completion, HandsOK, WorkerGoto, PcsOK, QueuesOK
  <2>5. InboundOK'
    BY <1>3 DEF report, AfterReport, Completion, InboundOK, HandsOK, PcsOK, QueuesOK, Carried
  <2>6. OutboundOK'
    BY <1>3 DEF report, AfterReport, Completion, OutboundOK, HandsOK, PcsOK, QueuesOK, Carried
  <2> QED  BY <2>1, <2>2, <2>3, <2>4, <2>5, <2>6
<1>4. ASSUME NEW w \in Worker, notify(w)
      PROVE  Goal
  BY <1>4 DEF notify, PcsOK, WorkerGoto, WorkerPc, CallerPc, QueuesOK,
         HandsOK, CountsOK, InboundOK, Carried, OutboundOK
<1>5. CASE input_recv
  <2>1. PcsOK'
    BY <1>5, <1>q DEF input_recv, InputUnchanged, Closed, PcsOK, WorkerGoto,
           WorkerPc, CallerPc
  <2>2. QueuesOK'
    BY <1>5, <1>q DEF input_recv, InputUnchanged, Closed, QueuesOK,
           WorkerPc, PcsOK, HandsOK
  <2>3. CountsOK'
    BY <1>5, <1>q DEF input_recv, InputUnchanged, Closed, CountsOK
  <2>4. HandsOK'
    BY <1>5, <1>q DEF input_recv, InputUnchanged, Closed, HandsOK,
           WorkerGoto, PcsOK, QueuesOK
  <2>5. InboundOK'
    BY <1>5, <1>q DEF input_recv, InputUnchanged, Closed, InboundOK,
           HandsOK, PcsOK, QueuesOK, Carried
  <2>6. OutboundOK'
    <3>1. /\ outbound' = outbound /\ Carried("sending")' = Carried("sending")
          /\ held["Stdin"] = 0
      BY <1>5 DEF input_recv, InputUnchanged, HandsOK, Carried
    <3>2. \/ UNCHANGED <<input_queue, held>>
          \/ /\ input_queue # <<>> /\ input_queue' = Tail(input_queue)
             /\ held'["Stdin"] = Head(input_queue)
      BY <1>5, <1>h DEF input_recv
    <3>3. CASE UNCHANGED <<input_queue, held>>
      BY <3>1, <3>3, <1>o, <1>l DEF OutboundOK
    <3>4. CASE /\ input_queue # <<>> /\ input_queue' = Tail(input_queue)
               /\ held'["Stdin"] = Head(input_queue)
      <4>1. Total(input_queue') = Total(Tail(input_queue))
        BY <3>4
      <4>2. /\ Head(input_queue) \in Nat /\ Total(Tail(input_queue)) \in Nat
            /\ Total(input_queue) = Head(input_queue) + Total(Tail(input_queue))
        BY <3>4, <1>t
      <4> QED  BY <3>1, <3>4, <4>1, <4>2, <1>c, <1>o, <1>l DEF OutboundOK
    <3> QED  BY <3>2, <3>3, <3>4
  <2> QED  BY <2>1, <2>2, <2>3, <2>4, <2>5, <2>6
<1>6. CASE input_written
  <2>1. PcsOK' /\ QueuesOK' /\ CountsOK' /\ HandsOK' /\ InboundOK'
    <3>1. PcsOK'
      BY <1>6 DEF input_written, InputUnchanged, Release, PcsOK, WorkerGoto, WorkerPc, CallerPc
    <3>2. QueuesOK'
      BY <1>6 DEF input_written, InputUnchanged, Release, QueuesOK, WorkerPc, PcsOK, HandsOK
    <3>3. CountsOK'
      BY <1>6 DEF input_written, InputUnchanged, Release, CountsOK
    <3>4. HandsOK'
      BY <1>6 DEF input_written, InputUnchanged, Release, HandsOK, WorkerGoto, PcsOK, QueuesOK
    <3>5. InboundOK'
      BY <1>6 DEF input_written, InputUnchanged, Release, InboundOK, HandsOK, PcsOK, QueuesOK, Carried
    <3> QED  BY <3>1, <3>2, <3>3, <3>4, <3>5
  <2>2. OutboundOK'
    <3>1. /\ input_queue' = input_queue /\ Carried("sending")' = Carried("sending")
          /\ outbound' = outbound - held["Stdin"] /\ held'["Stdin"] = 0
      BY <1>6, <1>h DEF input_written, InputUnchanged, Release, Carried
    <3> QED  BY <3>1, <1>s, <1>h, <1>c, <1>o, <1>l DEF OutboundOK
  <2> QED  BY <2>1, <2>2
<1>7. CASE input_failed
  <2>1. PcsOK' /\ QueuesOK' /\ CountsOK' /\ HandsOK' /\ InboundOK'
    <3>1. PcsOK'
      BY <1>7 DEF input_failed, InputUnchanged, Release, IoFault, PcsOK, WorkerGoto, WorkerPc, CallerPc
    <3>2. QueuesOK'
      BY <1>7 DEF input_failed, InputUnchanged, Release, IoFault, QueuesOK, WorkerPc, PcsOK, HandsOK
    <3>3. CountsOK'
      BY <1>7 DEF input_failed, InputUnchanged, Release, IoFault, CountsOK
    <3>4. HandsOK'
      BY <1>7 DEF input_failed, InputUnchanged, Release, IoFault, HandsOK, WorkerGoto, PcsOK, QueuesOK
    <3>5. InboundOK'
      BY <1>7 DEF input_failed, InputUnchanged, Release, IoFault, InboundOK, HandsOK, PcsOK, QueuesOK, Carried
    <3> QED  BY <3>1, <3>2, <3>3, <3>4, <3>5
  <2>2. OutboundOK'
    <3>1. /\ input_queue' = input_queue /\ Carried("sending")' = Carried("sending")
          /\ outbound' = outbound - held["Stdin"] /\ held'["Stdin"] = 0
      BY <1>7, <1>h DEF input_failed, InputUnchanged, Release, Carried
    <3> QED  BY <3>1, <1>s, <1>h, <1>c, <1>o, <1>l DEF OutboundOK
  <2> QED  BY <2>1, <2>2
<1>8. ASSUME NEW n \in Sizes, stdout_read(n)
      PROVE  Goal
  <2>1. PcsOK'
    BY <1>8 DEF stdout_read, StdoutUnchanged, Fits, PcsOK, WorkerGoto,
           WorkerPc, CallerPc
  <2>2. QueuesOK'
    BY <1>8 DEF stdout_read, StdoutUnchanged, Fits, QueuesOK, WorkerPc,
           PcsOK, HandsOK
  <2>3. CountsOK'
    BY <1>8 DEF stdout_read, StdoutUnchanged, Fits, CountsOK
  <2>4. HandsOK'
    BY <1>8 DEF stdout_read, StdoutUnchanged, Fits, HandsOK, WorkerGoto,
           PcsOK, QueuesOK
  <2>5. OutboundOK'
    BY <1>8 DEF stdout_read, StdoutUnchanged, Fits, OutboundOK, HandsOK,
           PcsOK, QueuesOK, Carried
  <2>6. InboundOK'
    <3>1. UNCHANGED <<stdout_queue, caller, in_flight>> /\ held["Stdout"] = 0
      BY <1>8 DEF stdout_read, StdoutUnchanged, HandsOK
    <3>2. CASE Fits(inbound, n, InboundBytes)
      <4>1. inbound' = inbound + n /\ held'["Stdout"] = n
        BY <1>8, <3>2, <1>h DEF stdout_read
      <4>2. /\ inbound' \in 0 .. InboundBytes
            /\ Total(stdout_queue)' = Total(stdout_queue)
            /\ Carried("release")' = Carried("release")
        BY <3>1, <3>2, <4>1, <1>s, <1>l DEF Fits, InboundOK, Carried
      <4>3. /\ inbound = Total(stdout_queue) + held["Stdout"] + Carried("release")
            /\ inbound \in Nat /\ Carried("release") \in Nat /\ n \in Nat
        BY <1>8, <1>h, <1>c, <1>l DEF InboundOK
      <4>4. inbound' = Total(stdout_queue) + n + Carried("release")
        BY <3>1, <4>1, <4>3, <1>s
      <4> QED  BY <4>1, <4>2, <4>4 DEF InboundOK
    <3>3. CASE ~Fits(inbound, n, InboundBytes)
      <4>1. UNCHANGED <<inbound, held>>
        BY <1>8, <3>3 DEF stdout_read
      <4> QED  BY <3>1, <4>1 DEF InboundOK, Carried
    <3> QED  BY <3>2, <3>3
  <2> QED  BY <2>1, <2>2, <2>3, <2>4, <2>5, <2>6
<1>9. CASE stdout_stop
  <2>1. PcsOK'
    BY <1>9 DEF stdout_stop, StdoutUnchanged, IoFault, PcsOK, WorkerGoto,
           WorkerPc, CallerPc
  <2>2. QueuesOK'
    BY <1>9 DEF stdout_stop, StdoutUnchanged, IoFault, QueuesOK, WorkerPc,
           PcsOK, HandsOK
  <2>3. CountsOK'
    BY <1>9 DEF stdout_stop, StdoutUnchanged, IoFault, CountsOK
  <2>4. HandsOK'
    BY <1>9 DEF stdout_stop, StdoutUnchanged, IoFault, HandsOK, WorkerGoto,
           PcsOK, QueuesOK
  <2>5. InboundOK'
    BY <1>9 DEF stdout_stop, StdoutUnchanged, IoFault, InboundOK, HandsOK,
           PcsOK, QueuesOK, Carried
  <2>6. OutboundOK'
    BY <1>9 DEF stdout_stop, StdoutUnchanged, IoFault, OutboundOK, HandsOK,
           PcsOK, QueuesOK, Carried
  <2> QED  BY <2>1, <2>2, <2>3, <2>4, <2>5, <2>6
<1>10. CASE stdout_send
  <2>1. PcsOK' /\ CountsOK' /\ HandsOK' /\ OutboundOK'
    BY <1>10 DEF stdout_send, StdoutUnchanged, Release, AfterChunk, PcsOK,
           WorkerGoto, WorkerPc, CallerPc, CountsOK, HandsOK, QueuesOK,
           OutboundOK, Carried
  <2>2. QueuesOK'
    <3>1. UNCHANGED <<completions, input_queue, pending_faults>>
      BY <1>10 DEF stdout_send, StdoutUnchanged
    <3>2. stdout_queue' = stdout_queue \/ stdout_queue' = Append(stdout_queue, held["Stdout"])
      BY <1>10 DEF stdout_send, StdoutUnchanged
    <3> QED  BY <3>1, <3>2, <1>q, <1>h, <1>p DEF QueuesOK
  <2>3. InboundOK'
    <3>1. Carried("release")' = Carried("release") /\ held'["Stdout"] = 0
      BY <1>10, <1>h DEF stdout_send, StdoutUnchanged, Carried
    <3>2. \/ inbound' = inbound /\ stdout_queue' = Append(stdout_queue, held["Stdout"])
          \/ inbound' = inbound - held["Stdout"] /\ stdout_queue' = stdout_queue
      BY <1>10 DEF stdout_send, Release
    <3>3. CASE inbound' = inbound /\ stdout_queue' = Append(stdout_queue, held["Stdout"])
      <4>1. Total(stdout_queue') = Total(stdout_queue) + held["Stdout"]
        BY <3>3, <1>a
      <4> QED  BY <3>1, <3>3, <4>1, <1>h, <1>s, <1>c, <1>i, <1>l DEF InboundOK
    <3>4. CASE inbound' = inbound - held["Stdout"] /\ stdout_queue' = stdout_queue
      BY <3>1, <3>4, <1>h, <1>s, <1>c, <1>i, <1>l DEF InboundOK
    <3> QED  BY <3>2, <3>3, <3>4
  <2> QED  BY <2>1, <2>2, <2>3
<1>11. CASE stdout_send_closed
  <2>1. PcsOK' /\ CountsOK' /\ HandsOK' /\ OutboundOK'
    BY <1>11 DEF stdout_send_closed, StdoutUnchanged, Closed, PcsOK,
           WorkerGoto, WorkerPc, CallerPc, CountsOK, HandsOK, QueuesOK,
           OutboundOK, Carried
  <2>2. QueuesOK'
    <3>1. UNCHANGED <<completions, input_queue, pending_faults>>
      BY <1>11 DEF stdout_send_closed, StdoutUnchanged
    <3>2. stdout_queue' = stdout_queue \/ stdout_queue' = Append(stdout_queue, Closed)
      BY <1>11 DEF stdout_send_closed, StdoutUnchanged
    <3> QED  BY <3>1, <3>2, <1>q, <1>h, <1>p DEF QueuesOK
  <2>3. InboundOK'
    <3>1. UNCHANGED <<inbound, held, caller, in_flight>>
      BY <1>11 DEF stdout_send_closed, StdoutUnchanged
    <3>2. stdout_queue' = stdout_queue \/ stdout_queue' = Append(stdout_queue, Closed)
      BY <1>11 DEF stdout_send_closed
    <3>3. Total(stdout_queue') = Total(stdout_queue)
      BY <3>2, <1>a
    <3> QED  BY <3>1, <3>3 DEF InboundOK, Carried
  <2> QED  BY <2>1, <2>2, <2>3
<1>12. CASE stderr_stop
  <2>1. PcsOK'
    BY <1>12 DEF stderr_stop, IoFault, PcsOK, WorkerGoto, WorkerPc, CallerPc
  <2>2. QueuesOK'
    BY <1>12 DEF stderr_stop, IoFault, QueuesOK, WorkerPc, PcsOK, HandsOK
  <2>3. CountsOK'
    BY <1>12 DEF stderr_stop, IoFault, CountsOK
  <2>4. HandsOK'
    BY <1>12 DEF stderr_stop, IoFault, HandsOK, WorkerGoto, PcsOK, QueuesOK
  <2>5. InboundOK'
    BY <1>12 DEF stderr_stop, IoFault, InboundOK, HandsOK, PcsOK, QueuesOK, Carried
  <2>6. OutboundOK'
    BY <1>12 DEF stderr_stop, IoFault, OutboundOK, HandsOK, PcsOK, QueuesOK, Carried
  <2> QED  BY <2>1, <2>2, <2>3, <2>4, <2>5, <2>6
<1>13. CASE status_poll
  <2>1. PcsOK'
    BY <1>13 DEF status_poll, IoFault, PcsOK, WorkerGoto, WorkerPc, CallerPc
  <2>2. QueuesOK'
    BY <1>13 DEF status_poll, IoFault, QueuesOK, WorkerPc, PcsOK, HandsOK
  <2>3. CountsOK'
    BY <1>13 DEF status_poll, IoFault, CountsOK
  <2>4. HandsOK'
    BY <1>13 DEF status_poll, IoFault, HandsOK, WorkerGoto, PcsOK, QueuesOK
  <2>5. InboundOK'
    BY <1>13 DEF status_poll, IoFault, InboundOK, HandsOK, PcsOK, QueuesOK, Carried
  <2>6. OutboundOK'
    BY <1>13 DEF status_poll, IoFault, OutboundOK, HandsOK, PcsOK, QueuesOK, Carried
  <2> QED  BY <2>1, <2>2, <2>3, <2>4, <2>5, <2>6
<1>14. CASE status_store
  BY <1>14 DEF status_store, PcsOK, WorkerGoto, WorkerPc, CallerPc,
         QueuesOK, HandsOK, CountsOK, InboundOK, Carried, OutboundOK
<1>15. CASE next_event
  BY <1>15, <1>d, BestIsReady DEF next_event, drain_completions,
         CallerUnchanged, PcsOK, WorkerGoto, WorkerPc, CallerPc, QueuesOK,
         HandsOK, CountsOK, InboundOK, Carried, OutboundOK
<1>16. CASE deliver_exit
  <2>1. PcsOK'
    BY <1>16 DEF deliver_exit, Deliver, NothingDelivered, CallerUnchanged,
           take_exit_event, PcsOK, WorkerGoto, WorkerPc, CallerPc
  <2>2. CountsOK'
    BY <1>16 DEF deliver_exit, Deliver, NothingDelivered, CallerUnchanged,
           take_exit_event, CountsOK
  <2>3. HandsOK'
    BY <1>16 DEF deliver_exit, Deliver, NothingDelivered, CallerUnchanged,
           take_exit_event, HandsOK, WorkerGoto, PcsOK, QueuesOK
  <2>4. InboundOK'
    BY <1>16 DEF deliver_exit, Deliver, NothingDelivered, CallerUnchanged,
           take_exit_event, InboundOK, HandsOK, PcsOK, QueuesOK, Carried
  <2>5. OutboundOK'
    BY <1>16 DEF deliver_exit, Deliver, NothingDelivered, CallerUnchanged,
           take_exit_event, OutboundOK, HandsOK, PcsOK, QueuesOK, Carried
  <2>6. QueuesOK'
    <3>1. UNCHANGED <<completions, stdout_queue, input_queue>>
      BY <1>16 DEF deliver_exit, ResourceFaultReady, CallerUnchanged
    <3>2. \/ pending_faults' = pending_faults
          \/ pending_faults # <<>> /\ pending_faults' = Tail(pending_faults)
      BY <1>16 DEF deliver_exit, ResourceFaultReady, CallerUnchanged
    <3> QED  BY <3>1, <3>2, <1>q, <1>h, <1>p DEF QueuesOK
  <2> QED  BY <2>1, <2>2, <2>3, <2>4, <2>5, <2>6
<1>17. CASE deliver_lower
  <2>1. PcsOK' /\ OutboundOK'
    BY <1>17 DEF deliver_lower, Deliver, NothingDelivered, CallerUnchanged,
           take_exit_event, refresh_child_status, Upgraded, Closed, PcsOK,
           WorkerGoto, WorkerPc, CallerPc, OutboundOK, HandsOK, QueuesOK,
           Carried
  <2>2. QueuesOK'
    <3>1. UNCHANGED <<completions, input_queue>>
      BY <1>17 DEF deliver_lower, CallerUnchanged
    <3>2. /\ \/ pending_faults' = pending_faults
             \/ pending_faults # <<>> /\ pending_faults' = Tail(pending_faults)
          /\ \/ stdout_queue' = stdout_queue
             \/ stdout_queue # <<>> /\ stdout_queue' = Tail(stdout_queue)
      BY <1>17 DEF deliver_lower
    <3> QED  BY <3>1, <3>2, <1>q, <1>p DEF QueuesOK
  <2>3. CountsOK'
    <3>1. \/ owed' = owed /\ exits' = exits
          \/ owed' = 6 /\ exits' \in {exits, exits + 1}
      BY <1>17 DEF deliver_lower, Deliver, NothingDelivered
    <3>2. UNCHANGED <<chunks, frames, faults>>
      BY <1>17 DEF deliver_lower, CallerUnchanged
    <3> QED  BY <3>1, <3>2 DEF CountsOK
  <2>4. HandsOK'
    <3>1. UNCHANGED <<worker, held>>
      BY <1>17 DEF deliver_lower, CallerUnchanged
    <3>2. \/ in_flight' = in_flight \/ in_flight' = 0
          \/ stdout_queue # <<>> /\ in_flight' = Head(stdout_queue)
      BY <1>17 DEF deliver_lower, Deliver, NothingDelivered
    <3> QED  BY <3>1, <3>2, <1>q, <1>h DEF HandsOK, Closed
  <2>5. InboundOK'
    <3>1. UNCHANGED <<inbound, held>> /\ caller = "lower"
      BY <1>17 DEF deliver_lower, CallerUnchanged
    <3>2. \/ stdout_queue' = stdout_queue /\ caller' # "release"
          \/ /\ stdout_queue # <<>> /\ stdout_queue' = Tail(stdout_queue)
             /\ \/ Head(stdout_queue) = Closed /\ caller' # "release"
                \/ caller' = "release" /\ in_flight' = Head(stdout_queue)
      BY <1>17 DEF deliver_lower, Deliver
    <3>3. Carried("release") = 0
      BY <3>1 DEF Carried
    <3>4. /\ Total(stdout_queue) = Total(stdout_queue') + Carried("release")'
          /\ Total(stdout_queue') \in Nat /\ Carried("release")' \in Nat
      <4>1. CASE stdout_queue' = stdout_queue /\ caller' # "release"
        <5>1. Carried("release")' = 0 /\ Total(stdout_queue') = Total(stdout_queue)
          BY <4>1 DEF Carried
        <5> QED  BY <5>1, <1>s
      <4>2. CASE /\ stdout_queue # <<>> /\ stdout_queue' = Tail(stdout_queue)
                 /\ \/ Head(stdout_queue) = Closed /\ caller' # "release"
                    \/ caller' = "release" /\ in_flight' = Head(stdout_queue)
        <5>1. Carried("release")' = Head(stdout_queue)
          BY <4>2 DEF Carried, Closed
        <5>2. Total(stdout_queue') = Total(Tail(stdout_queue))
          BY <4>2
        <5>3. /\ Head(stdout_queue) \in Nat /\ Total(Tail(stdout_queue)) \in Nat
              /\ Total(stdout_queue) = Head(stdout_queue) + Total(Tail(stdout_queue))
          BY <4>2, <1>t
        <5> QED  BY <5>1, <5>2, <5>3
      <4> QED  BY <3>2, <4>1, <4>2
    <3>5. inbound' = Total(stdout_queue') + held["Stdout"] + Carried("release")'
      BY <3>1, <3>3, <3>4, <1>s, <1>h, <1>i
    <3> QED  BY <3>1, <3>5, <1>i, <1>l DEF InboundOK
  <2> QED  BY <2>1, <2>2, <2>3, <2>4, <2>5
<1>18. CASE release_chunk
  <2>1. PcsOK' /\ QueuesOK' /\ CountsOK' /\ HandsOK' /\ OutboundOK'
    BY <1>18 DEF release_chunk, Deliver, CallerUnchanged, Release, PcsOK,
           WorkerGoto, WorkerPc, CallerPc, QueuesOK, HandsOK, CountsOK,
           OutboundOK, Carried
  <2>2. InboundOK'
    <3>1. UNCHANGED <<stdout_queue, held>> /\ caller = "release"
      BY <1>18 DEF release_chunk, CallerUnchanged
    <3>2. inbound' = inbound - in_flight /\ caller' = "idle"
      BY <1>18 DEF release_chunk, Release, Deliver
    <3>3. Carried("release") = in_flight /\ Carried("release")' = 0
      BY <3>1, <3>2 DEF Carried
    <3> QED  BY <3>1, <3>2, <3>3, <1>s, <1>h, <1>i, <1>l DEF InboundOK
  <2> QED  BY <2>1, <2>2
<1>19. CASE wait_for_wake
  <2>1. PcsOK' /\ CountsOK' /\ HandsOK' /\ InboundOK' /\ OutboundOK'
    BY <1>19, <1>d, BestIsReady DEF wait_for_wake, drain_completions,
           CallerUnchanged, PcsOK, WorkerGoto, WorkerPc, CallerPc, CountsOK,
           HandsOK, QueuesOK, InboundOK, Carried, OutboundOK
  <2>2. QueuesOK'
    <3>1. /\ completions' = <<>> /\ UNCHANGED <<stdout_queue, input_queue>>
          /\ pending_faults' = DrainedFaults("Resource") \o pending_faults
                                 \o DrainedFaults("Io")
      BY <1>19 DEF wait_for_wake, drain_completions, CallerUnchanged
    <3> QED  BY <3>1, <1>d DEF QueuesOK
  <2> QED  BY <2>1, <2>2
<1>20. CASE event_deadline
  BY <1>20 DEF event_deadline, Deliver, CallerUnchanged, PcsOK,
         WorkerGoto, WorkerPc, CallerPc, QueuesOK, HandsOK, CountsOK,
         InboundOK, Carried, OutboundOK
<1>21. ASSUME NEW n \in Sizes, send_frame(n)
      PROVE  Goal
  <2>1. PcsOK' /\ QueuesOK' /\ CountsOK' /\ HandsOK' /\ InboundOK'
    BY <1>21 DEF send_frame, SendUnchanged, Fits, PcsOK, WorkerGoto,
           WorkerPc, CallerPc, QueuesOK, HandsOK, CountsOK, InboundOK,
           Carried
  <2>2. OutboundOK'
    <3>1. UNCHANGED <<input_queue, held>> /\ caller = "idle"
      BY <1>21 DEF send_frame, SendUnchanged
    <3>2. \/ UNCHANGED <<outbound, in_flight, caller>>
          \/ /\ Fits(outbound, n, OutboundBytes) /\ outbound' = outbound + n
             /\ in_flight' = n /\ caller' = "sending"
      BY <1>21 DEF send_frame
    <3> QED  BY <3>1, <3>2, <1>s, <1>a, <1>t, <1>h, <1>l DEF OutboundOK,
                Carried, Fits
  <2> QED  BY <2>1, <2>2
<1>22. CASE send_input
  <2>1. PcsOK' /\ CountsOK' /\ HandsOK' /\ InboundOK'
    BY <1>22 DEF send_input, SendUnchanged, Release, refresh_child_status,
           PcsOK, WorkerGoto, WorkerPc, CallerPc, CountsOK, HandsOK,
           QueuesOK, InboundOK, Carried
  <2>2. QueuesOK'
    <3>1. UNCHANGED <<completions, stdout_queue, pending_faults>>
      BY <1>22 DEF send_input, SendUnchanged
    <3>2. input_queue' = input_queue \/ input_queue' = Append(input_queue, in_flight)
      BY <1>22 DEF send_input, SendUnchanged
    <3> QED  BY <3>1, <3>2, <1>q, <1>h, <1>p DEF QueuesOK
  <2>3. OutboundOK'
    <3>1. UNCHANGED held /\ caller = "sending" /\ caller' = "idle"
      BY <1>22 DEF send_input, SendUnchanged
    <3>2. Carried("sending") = in_flight /\ Carried("sending")' = 0
      BY <3>1 DEF Carried
    <3>3. \/ outbound' = outbound /\ input_queue' = Append(input_queue, in_flight)
          \/ outbound' = outbound - in_flight /\ input_queue' = input_queue
      BY <1>22 DEF send_input, Release
    <3>4. CASE outbound' = outbound /\ input_queue' = Append(input_queue, in_flight)
      <4>1. Total(input_queue') = Total(input_queue) + in_flight
        BY <3>4, <1>a
      <4> QED  BY <3>1, <3>2, <3>4, <4>1, <1>s, <1>h, <1>o, <1>l DEF OutboundOK
    <3>5. CASE outbound' = outbound - in_flight /\ input_queue' = input_queue
      BY <3>1, <3>2, <3>5, <1>s, <1>h, <1>o, <1>l DEF OutboundOK
    <3> QED  BY <3>3, <3>4, <3>5
  <2> QED  BY <2>1, <2>2, <2>3
<1>23. CASE finish
  <2>1. PcsOK' /\ CountsOK' /\ HandsOK' /\ InboundOK'
    BY <1>23 DEF finish, refresh_child_status, Closed, PcsOK, WorkerGoto,
           WorkerPc, CallerPc, CountsOK, HandsOK, QueuesOK, InboundOK,
           Carried
  <2>2. QueuesOK'
    <3>1. UNCHANGED <<completions, stdout_queue, pending_faults>>
      BY <1>23 DEF finish
    <3>2. input_queue' = input_queue \/ input_queue' = Append(input_queue, Closed)
      BY <1>23 DEF finish
    <3> QED  BY <3>1, <3>2, <1>q, <1>h, <1>p DEF QueuesOK
  <2>3. OutboundOK'
    <3>1. UNCHANGED <<outbound, held>> /\ caller = "idle" /\ caller' = "status"
      BY <1>23 DEF finish
    <3>2. input_queue' = input_queue \/ input_queue' = Append(input_queue, Closed)
      BY <1>23 DEF finish
    <3>3. Total(input_queue') = Total(input_queue)
      BY <3>2, <1>a
    <3> QED  BY <3>1, <3>3 DEF OutboundOK, Carried
  <2> QED  BY <2>1, <2>2, <2>3
<1>24. CASE wait_for_status
  BY <1>24 DEF wait_for_status, CancelTransport, CleanupUnchanged, PcsOK,
         WorkerGoto, WorkerPc, CallerPc, QueuesOK, HandsOK, CountsOK,
         InboundOK, Carried, OutboundOK
<1>25. CASE abort
  BY <1>25 DEF abort, CancelTransport, CleanupUnchanged, PcsOK,
         WorkerGoto, WorkerPc, CallerPc, QueuesOK, HandsOK, CountsOK,
         InboundOK, Carried, OutboundOK
<1>26. CASE wait_for_process_group_exit
  BY <1>26 DEF wait_for_process_group_exit, CleanupUnchanged, PcsOK,
         WorkerGoto, WorkerPc, CallerPc, QueuesOK, HandsOK, CountsOK,
         InboundOK, Carried, OutboundOK
<1>27. CASE reap_after_termination
  BY <1>27 DEF reap_after_termination, refresh_child_status,
         CleanupUnchanged, PcsOK, WorkerGoto, WorkerPc, CallerPc,
         QueuesOK, HandsOK, CountsOK, InboundOK, Carried, OutboundOK
<1>28. CASE wait_for_cleanup
  BY <1>28 DEF wait_for_cleanup, CleanupUnchanged, PcsOK, WorkerGoto,
         WorkerPc, CallerPc, QueuesOK, HandsOK, CountsOK, InboundOK,
         Carried, OutboundOK
<1>29. CASE drop
  BY <1>29 DEF drop, CancelTransport, CleanupUnchanged, PcsOK, WorkerGoto,
         WorkerPc, CallerPc, QueuesOK, HandsOK, CountsOK, InboundOK,
         Carried, OutboundOK
<1>30. CASE drop_wait
  BY <1>30 DEF drop_wait, refresh_child_status, CleanupUnchanged, PcsOK,
         WorkerGoto, WorkerPc, CallerPc, QueuesOK, HandsOK, CountsOK,
         InboundOK, Carried, OutboundOK
<1> QED  BY <1>1, <1>2, <1>3, <1>4, <1>5, <1>6, <1>7, <1>8, <1>9, <1>10, <1>11,
            <1>12, <1>13, <1>14, <1>15, <1>16, <1>17, <1>18, <1>19,
            <1>20, <1>21, <1>22, <1>23, <1>24, <1>25, <1>26, <1>27,
            <1>28, <1>29, <1>30 DEF Next, WorkerStep, CallerStep

-----------------------------------------------------------------------------
(***************************************************************************)
(* Completions and wake-ups.                                               *)
(***************************************************************************)
\* Each worker speaks once.
LEMMA CompletionsStep ==
  ASSUME DataOK, CompletionsInv, Next
  PROVE  CompletionsInv'
<1> DEFINE Goal == CompletionsInv'
<1> USE DEF os, inputs, outputs, signals, workers, pending, local, history,
            Spoken, CompletionsInv, DataOK, PcsOK, QueuesOK, WorkerGoto, Worker
<1>1. CASE ChildExit
  BY <1>1 DEF ChildExit
<1>2. CASE DescendantsExit
  BY <1>2 DEF DescendantsExit
<1>3. ASSUME NEW w \in Worker, report(w)
      PROVE  Goal
  BY <1>3 DEF report, AfterReport, Completion, WorkerPc
<1>4. ASSUME NEW w \in Worker, notify(w)
      PROVE  Goal
  BY <1>4 DEF notify
<1>5. CASE input_recv
  BY <1>5 DEF input_recv, InputUnchanged
<1>6. CASE input_written
  BY <1>6 DEF input_written, InputUnchanged, Release
<1>7. CASE input_failed
  BY <1>7 DEF input_failed, InputUnchanged, Release, IoFault
<1>8. ASSUME NEW n \in Sizes, stdout_read(n)
      PROVE  Goal
  BY <1>8 DEF stdout_read, StdoutUnchanged, Fits
<1>9. CASE stdout_stop
  BY <1>9 DEF stdout_stop, StdoutUnchanged, IoFault
<1>10. CASE stdout_send
  BY <1>10 DEF stdout_send, StdoutUnchanged, Release, AfterChunk
<1>11. CASE stdout_send_closed
  BY <1>11 DEF stdout_send_closed, StdoutUnchanged
<1>12. CASE stderr_stop
  BY <1>12 DEF stderr_stop, IoFault
<1>13. CASE status_poll
  BY <1>13 DEF status_poll, IoFault
<1>14. CASE status_store
  BY <1>14 DEF status_store
<1>15. CASE next_event
  BY <1>15 DEF next_event, drain_completions, CallerUnchanged
<1>16. CASE deliver_exit
  BY <1>16 DEF deliver_exit, Deliver, NothingDelivered, CallerUnchanged,
         take_exit_event
<1>17. CASE deliver_lower
  BY <1>17 DEF deliver_lower, Deliver, NothingDelivered, CallerUnchanged,
         take_exit_event, refresh_child_status, Upgraded
<1>18. CASE release_chunk
  BY <1>18 DEF release_chunk, Deliver, CallerUnchanged, Release
<1>19. CASE wait_for_wake
  BY <1>19 DEF wait_for_wake, drain_completions, CallerUnchanged
<1>20. CASE event_deadline
  BY <1>20 DEF event_deadline, Deliver, CallerUnchanged
<1>21. ASSUME NEW n \in Sizes, send_frame(n)
      PROVE  Goal
  BY <1>21 DEF send_frame, SendUnchanged, Fits
<1>22. CASE send_input
  BY <1>22 DEF send_input, SendUnchanged, Release, refresh_child_status
<1>23. CASE finish
  BY <1>23 DEF finish, refresh_child_status
<1>24. CASE wait_for_status
  BY <1>24 DEF wait_for_status, CancelTransport, CleanupUnchanged
<1>25. CASE abort
  BY <1>25 DEF abort, CancelTransport, CleanupUnchanged
<1>26. CASE wait_for_process_group_exit
  BY <1>26 DEF wait_for_process_group_exit, CleanupUnchanged
<1>27. CASE reap_after_termination
  BY <1>27 DEF reap_after_termination, refresh_child_status,
         CleanupUnchanged
<1>28. CASE wait_for_cleanup
  BY <1>28 DEF wait_for_cleanup, CleanupUnchanged
<1>29. CASE drop
  BY <1>29 DEF drop, CancelTransport, CleanupUnchanged
<1>30. CASE drop_wait
  BY <1>30 DEF drop_wait, refresh_child_status, CleanupUnchanged
<1> QED  BY <1>1, <1>2, <1>3, <1>4, <1>5, <1>6, <1>7, <1>8, <1>9, <1>10,
          <1>11, <1>12, <1>13, <1>14, <1>15, <1>16, <1>17, <1>18,
          <1>19, <1>20, <1>21, <1>22, <1>23, <1>24, <1>25, <1>26,
          <1>27, <1>28, <1>29, <1>30 DEF Next, WorkerStep,
          CallerStep

\* Nothing arrives without a wake-up.
LEMMA WakeStep ==
  ASSUME DataOK, WakeInv, Next
  PROVE  WakeInv'
<1> DEFINE Goal == WakeInv'
<1> USE DEF os, inputs, outputs, signals, workers, pending, local, history,
            Notified, WakeInv, DataOK, PcsOK, QueuesOK, WorkerGoto, Worker
<1>1. CASE ChildExit
  BY <1>1 DEF ChildExit
<1>2. CASE DescendantsExit
  BY <1>2 DEF DescendantsExit
<1>3. ASSUME NEW w \in Worker, report(w)
      PROVE  Goal
  BY <1>3 DEF report, AfterReport
<1>4. ASSUME NEW w \in Worker, notify(w)
      PROVE  Goal
  BY <1>4 DEF notify
<1>5. CASE input_recv
  BY <1>5 DEF input_recv, InputUnchanged
<1>6. CASE input_written
  BY <1>6 DEF input_written, InputUnchanged, Release
<1>7. CASE input_failed
  BY <1>7 DEF input_failed, InputUnchanged, Release, IoFault
<1>8. ASSUME NEW n \in Sizes, stdout_read(n)
      PROVE  Goal
  BY <1>8 DEF stdout_read, StdoutUnchanged, Fits
<1>9. CASE stdout_stop
  BY <1>9 DEF stdout_stop, StdoutUnchanged, IoFault
<1>10. CASE stdout_send
  BY <1>10 DEF stdout_send, StdoutUnchanged, Release, AfterChunk
<1>11. CASE stdout_send_closed
  BY <1>11 DEF stdout_send_closed, StdoutUnchanged
<1>12. CASE stderr_stop
  BY <1>12 DEF stderr_stop, IoFault
<1>13. CASE status_poll
  BY <1>13 DEF status_poll, IoFault
<1>14. CASE status_store
  BY <1>14 DEF status_store
<1>15. CASE next_event
  BY <1>15 DEF next_event, drain_completions, CallerUnchanged
<1>16. CASE deliver_exit
  BY <1>16 DEF deliver_exit, Deliver, NothingDelivered, CallerUnchanged,
         take_exit_event
<1>17. CASE deliver_lower
  BY <1>17 DEF deliver_lower, Deliver, NothingDelivered, CallerUnchanged,
         take_exit_event, refresh_child_status, Upgraded
<1>18. CASE release_chunk
  BY <1>18 DEF release_chunk, Deliver, CallerUnchanged, Release
<1>19. CASE wait_for_wake
  BY <1>19 DEF wait_for_wake, drain_completions, CallerUnchanged
<1>20. CASE event_deadline
  BY <1>20 DEF event_deadline, Deliver, CallerUnchanged
<1>21. ASSUME NEW n \in Sizes, send_frame(n)
      PROVE  Goal
  BY <1>21 DEF send_frame, SendUnchanged, Fits
<1>22. CASE send_input
  BY <1>22 DEF send_input, SendUnchanged, Release, refresh_child_status
<1>23. CASE finish
  BY <1>23 DEF finish, refresh_child_status
<1>24. CASE wait_for_status
  BY <1>24 DEF wait_for_status, CancelTransport, CleanupUnchanged
<1>25. CASE abort
  BY <1>25 DEF abort, CancelTransport, CleanupUnchanged
<1>26. CASE wait_for_process_group_exit
  BY <1>26 DEF wait_for_process_group_exit, CleanupUnchanged
<1>27. CASE reap_after_termination
  BY <1>27 DEF reap_after_termination, refresh_child_status,
         CleanupUnchanged
<1>28. CASE wait_for_cleanup
  BY <1>28 DEF wait_for_cleanup, CleanupUnchanged
<1>29. CASE drop
  BY <1>29 DEF drop, CancelTransport, CleanupUnchanged
<1>30. CASE drop_wait
  BY <1>30 DEF drop_wait, refresh_child_status, CleanupUnchanged
<1> QED  BY <1>1, <1>2, <1>3, <1>4, <1>5, <1>6, <1>7, <1>8, <1>9, <1>10,
          <1>11, <1>12, <1>13, <1>14, <1>15, <1>16, <1>17, <1>18,
          <1>19, <1>20, <1>21, <1>22, <1>23, <1>24, <1>25, <1>26,
          <1>27, <1>28, <1>29, <1>30 DEF Next, WorkerStep,
          CallerStep

-----------------------------------------------------------------------------
(***************************************************************************)
(* The exit event.                                                         *)
(***************************************************************************)
\* What a refresh finds.
LEMMA RefreshEffect ==
  ASSUME DataOK, refresh_child_status, observed_status => child = "reaped"
  PROVE  /\ observed_status' <=> (observed_status \/ child # "running")
         /\ observed_status' => child' = "reaped"
         /\ child = "reaped" => child' = "reaped"
         /\ child # "running" => child' # "running"
<1>1. child \in {"running", "zombie", "reaped"}
  BY DEF DataOK, PcsOK
<1>2. observed_status' <=> (observed_status \/ child # "running")
  BY Zenon DEF refresh_child_status
<1>3. child' = IF child = "zombie" THEN "reaped" ELSE child
  BY DEF refresh_child_status
<1> QED  BY <1>1, <1>2, <1>3

\* What deliver_lower does about the exit.
LEMMA LowerExit ==
  ASSUME deliver_lower
  PROVE  /\ \/ refresh_child_status
            \/ UNCHANGED <<child, observed_status>>
         /\ \/ UNCHANGED <<exits, exit_event_delivered>>
            \/ /\ refresh_child_status
               /\ observed_status \/ child # "running"
               /\ ~exit_event_delivered
               /\ exits' = exits + 1 /\ exit_event_delivered' = TRUE
         /\ ready_exit' = ready_exit \/ ready_exit' = FALSE
         /\ UNCHANGED <<completions, worker, wake>>
<1> USE DEF deliver_lower, Deliver, NothingDelivered, CallerUnchanged, workers,
            take_exit_event, Upgraded
<1>1. CASE pending_stdin_closed
  BY <1>1
<1>2. CASE ~pending_stdin_closed /\ pending_faults # <<>>
  BY <1>2
<1>3. CASE ~pending_stdin_closed /\ pending_faults = <<>> /\ stdout_queue # <<>>
  BY <1>3
<1>4. CASE ~pending_stdin_closed /\ pending_faults = <<>> /\ stdout_queue = <<>>
  BY <1>4
<1> QED  BY <1>1, <1>2, <1>3, <1>4

\* The status is stored before anybody speaks of the exit.
LEMMA ExitStep ==
  ASSUME DataOK, ExitInv, Next
  PROVE  ExitInv'
<1> DEFINE Goal == ExitInv'
<1> USE DEF os, inputs, outputs, signals, workers, pending, local, history
<1>1. CASE ChildExit
  BY <1>1 DEF ChildExit, ExitInv, DataOK, PcsOK, QueuesOK, WorkerGoto,
         Worker, InSeq
<1>2. CASE DescendantsExit
  BY <1>2 DEF DescendantsExit, ExitInv, DataOK, PcsOK, QueuesOK,
         WorkerGoto, Worker, InSeq
<1>3. ASSUME NEW w \in Worker, report(w)
      PROVE  Goal
  BY <1>3 DEF report, AfterReport, ExitInv, DataOK, PcsOK, QueuesOK,
         WorkerGoto, Worker, InSeq, Completion, WorkerPc
<1>4. ASSUME NEW w \in Worker, notify(w)
      PROVE  Goal
  BY <1>4 DEF notify, ExitInv, DataOK, PcsOK, QueuesOK, WorkerGoto,
         Worker, InSeq
<1>5. CASE input_recv
  BY <1>5 DEF input_recv, InputUnchanged, ExitInv, DataOK, PcsOK,
         QueuesOK, WorkerGoto, Worker, InSeq
<1>6. CASE input_written
  BY <1>6 DEF input_written, InputUnchanged, Release, ExitInv, DataOK,
         PcsOK, QueuesOK, WorkerGoto, Worker, InSeq
<1>7. CASE input_failed
  BY <1>7 DEF input_failed, InputUnchanged, Release, IoFault, ExitInv,
         DataOK, PcsOK, QueuesOK, WorkerGoto, Worker, InSeq
<1>8. ASSUME NEW n \in Sizes, stdout_read(n)
      PROVE  Goal
  BY <1>8 DEF stdout_read, StdoutUnchanged, Fits, ExitInv, DataOK, PcsOK,
         QueuesOK, WorkerGoto, Worker, InSeq
<1>9. CASE stdout_stop
  BY <1>9 DEF stdout_stop, StdoutUnchanged, IoFault, ExitInv, DataOK,
         PcsOK, QueuesOK, WorkerGoto, Worker, InSeq
<1>10. CASE stdout_send
  BY <1>10 DEF stdout_send, StdoutUnchanged, Release, AfterChunk, ExitInv,
         DataOK, PcsOK, QueuesOK, WorkerGoto, Worker, InSeq
<1>11. CASE stdout_send_closed
  BY <1>11 DEF stdout_send_closed, StdoutUnchanged, ExitInv, DataOK,
         PcsOK, QueuesOK, WorkerGoto, Worker, InSeq
<1>12. CASE stderr_stop
  BY <1>12 DEF stderr_stop, IoFault, ExitInv, DataOK, PcsOK, QueuesOK,
         WorkerGoto, Worker, InSeq
<1>13. CASE status_poll
  BY <1>13 DEF status_poll, IoFault, ExitInv, DataOK, PcsOK, QueuesOK,
         WorkerGoto, Worker, InSeq
<1>14. CASE status_store
  BY <1>14 DEF status_store, ExitInv, DataOK, PcsOK, QueuesOK, WorkerGoto,
         Worker, InSeq
<1>15. CASE next_event
  <2>1. PICK last \in BOOLEAN : drain_completions(last)
    BY <1>15 DEF next_event
  <2>2. /\ UNCHANGED <<exits, exit_event_delivered, observed_status, child, worker>>
        /\ completions' = <<>> /\ ready_exit' = InSeq("Exited", completions)
    BY <2>1 DEF drain_completions, CallerUnchanged
  <2> QED  BY <2>2 DEF ExitInv, InSeq
<1>16. CASE deliver_exit
  BY <1>16 DEF deliver_exit, Deliver, NothingDelivered, CallerUnchanged,
         take_exit_event, ExitInv, DataOK, PcsOK, QueuesOK, WorkerGoto,
         Worker, InSeq
<1>17. CASE deliver_lower
  <2>1. observed_status => child = "reaped"
    BY DEF ExitInv
  <2>2. /\ observed_status => observed_status'
        /\ observed_status' => child' = "reaped"
        /\ child = "reaped" => child' = "reaped"
    <3>1. CASE refresh_child_status
      BY <2>1, <3>1, RefreshEffect
    <3>2. CASE UNCHANGED <<child, observed_status>>
      BY <2>1, <3>2
    <3> QED  BY <1>17, <3>1, <3>2, LowerExit
  <2>3. UNCHANGED <<completions, worker>> /\ (ready_exit' => ready_exit)
    <3>1. ready_exit' = ready_exit \/ ready_exit' = FALSE
      BY <1>17, LowerExit
    <3>2. ready_exit' => ready_exit
      BY <3>1, Zenon
    <3> QED  BY <1>17, <3>2, LowerExit
  <2>4. CASE UNCHANGED <<exits, exit_event_delivered>>
    BY <2>2, <2>3, <2>4 DEF ExitInv, InSeq
  <2>5. CASE /\ refresh_child_status
             /\ observed_status \/ child # "running"
             /\ ~exit_event_delivered
             /\ exits' = exits + 1 /\ exit_event_delivered' = TRUE
    <3>1. observed_status'
      BY <2>1, <2>5, RefreshEffect
    <3> QED  BY <2>2, <2>3, <2>5, <3>1 DEF ExitInv, InSeq
  <2> QED  BY <1>17, <2>4, <2>5, LowerExit
<1>18. CASE release_chunk
  BY <1>18 DEF release_chunk, Deliver, CallerUnchanged, Release, ExitInv,
         DataOK, PcsOK, QueuesOK, WorkerGoto, Worker, InSeq
<1>19. CASE wait_for_wake
  <2>1. PICK last \in BOOLEAN : drain_completions(last)
    BY <1>19 DEF wait_for_wake
  <2>2. /\ UNCHANGED <<exits, exit_event_delivered, observed_status, child, worker>>
        /\ completions' = <<>> /\ ready_exit' = InSeq("Exited", completions)
    BY <2>1 DEF drain_completions, CallerUnchanged
  <2> QED  BY <2>2 DEF ExitInv, InSeq
<1>20. CASE event_deadline
  BY <1>20 DEF event_deadline, Deliver, CallerUnchanged, ExitInv, DataOK,
         PcsOK, QueuesOK, WorkerGoto, Worker, InSeq
<1>21. ASSUME NEW n \in Sizes, send_frame(n)
      PROVE  Goal
  BY <1>21 DEF send_frame, SendUnchanged, Fits, ExitInv, DataOK, PcsOK,
         QueuesOK, WorkerGoto, Worker, InSeq
<1>22. CASE send_input
  <2>1. refresh_child_status \/ UNCHANGED <<child, observed_status>>
    BY <1>22 DEF send_input
  <2>2. UNCHANGED <<exits, exit_event_delivered, completions, ready_exit, worker>>
    BY <1>22 DEF send_input, SendUnchanged
  <2> QED  BY <2>1, <2>2, RefreshEffect DEF ExitInv, InSeq
<1>23. CASE finish
  <2>1. refresh_child_status \/ UNCHANGED <<child, observed_status>>
    BY <1>23 DEF finish
  <2>2. UNCHANGED <<exits, exit_event_delivered, completions, ready_exit, worker>>
    BY <1>23 DEF finish
  <2> QED  BY <2>1, <2>2, RefreshEffect DEF ExitInv, InSeq
<1>24. CASE wait_for_status
  BY <1>24 DEF wait_for_status, CancelTransport, CleanupUnchanged,
         ExitInv, DataOK, PcsOK, QueuesOK, WorkerGoto, Worker, InSeq
<1>25. CASE abort
  BY <1>25 DEF abort, CancelTransport, CleanupUnchanged, ExitInv, DataOK,
         PcsOK, QueuesOK, WorkerGoto, Worker, InSeq
<1>26. CASE wait_for_process_group_exit
  BY <1>26 DEF wait_for_process_group_exit, CleanupUnchanged, ExitInv,
         DataOK, PcsOK, QueuesOK, WorkerGoto, Worker, InSeq
<1>27. CASE reap_after_termination
  <2>1. refresh_child_status \/ UNCHANGED <<child, observed_status>>
    BY <1>27 DEF reap_after_termination
  <2>2. UNCHANGED <<exits, exit_event_delivered, completions, ready_exit, worker>>
    BY <1>27 DEF reap_after_termination, CleanupUnchanged
  <2> QED  BY <2>1, <2>2, RefreshEffect DEF ExitInv, InSeq
<1>28. CASE wait_for_cleanup
  BY <1>28 DEF wait_for_cleanup, CleanupUnchanged, ExitInv, DataOK, PcsOK,
         QueuesOK, WorkerGoto, Worker, InSeq
<1>29. CASE drop
  BY <1>29 DEF drop, CancelTransport, CleanupUnchanged, ExitInv, DataOK,
         PcsOK, QueuesOK, WorkerGoto, Worker, InSeq
<1>30. CASE drop_wait
  <2>1. refresh_child_status \/ UNCHANGED <<child, observed_status>>
    BY <1>30 DEF drop_wait
  <2>2. UNCHANGED <<exits, exit_event_delivered, completions, ready_exit, worker>>
    BY <1>30 DEF drop_wait, CleanupUnchanged
  <2> QED  BY <2>1, <2>2, RefreshEffect DEF ExitInv, InSeq
<1> QED  BY <1>1, <1>2, <1>3, <1>4, <1>5, <1>6, <1>7, <1>8, <1>9, <1>10,
          <1>11, <1>12, <1>13, <1>14, <1>15, <1>16, <1>17, <1>18,
          <1>19, <1>20, <1>21, <1>22, <1>23, <1>24, <1>25, <1>26,
          <1>27, <1>28, <1>29, <1>30 DEF Next, WorkerStep,
          CallerStep

-----------------------------------------------------------------------------
(***************************************************************************)
(* What next_event owes.                                                   *)
(***************************************************************************)
\* The channel is emptied into pending_faults: resource faults stay in front,
\* and no fault that was ready is lost.
LEMMA DrainedQueue ==
  ASSUME NEW K, NEW r \in Seq(K), NEW q \in Seq(K), NEW o \in Seq(K),
         \A i \in DOMAIN r : r[i] = "Resource", \A i \in DOMAIN o : o[i] = "Io",
         ResourcesFirst(q)
  PROVE  /\ ResourcesFirst(r \o q \o o)
         /\ r # <<>> \/ InSeq("Resource", q) =>
              r \o q \o o # <<>> /\ Head(r \o q \o o) = "Resource"
         /\ o # <<>> \/ q # <<>> => r \o q \o o # <<>>
<1> DEFINE s == r \o q \o o
<1>1. /\ s \in Seq(K) /\ Len(s) = Len(r) + Len(q) + Len(o)
      /\ Len(r) \in Nat /\ Len(q) \in Nat /\ Len(o) \in Nat
  OBVIOUS
<1>2. \A i \in DOMAIN s :
        s[i] = IF i <= Len(r) THEN r[i]
               ELSE IF i <= Len(r) + Len(q) THEN q[i - Len(r)]
               ELSE o[i - Len(r) - Len(q)]
  OBVIOUS
<1> HIDE DEF s
<1>3. ResourcesFirst(s)
  <2> SUFFICES ASSUME NEW i \in DOMAIN s, NEW j \in DOMAIN s, i < j,
                      s[j] = "Resource"
               PROVE  s[i] = "Resource"
    BY DEF ResourcesFirst
  <2>1. i \in 1 .. Len(s) /\ j \in 1 .. Len(s)
    BY <1>1
  <2>2. CASE i <= Len(r)
    BY <1>1, <1>2, <2>1, <2>2
  <2>3. CASE i > Len(r) /\ j <= Len(r) + Len(q)
    <3>1. i - Len(r) \in DOMAIN q /\ j - Len(r) \in DOMAIN q
      BY <1>1, <2>1, <2>3
    <3>2. s[i] = q[i - Len(r)] /\ s[j] = q[j - Len(r)]
      BY <1>1, <1>2, <2>1, <2>3
    <3>3. i - Len(r) < j - Len(r)
      BY <1>1, <2>1
    <3> QED  BY <3>1, <3>2, <3>3 DEF ResourcesFirst
  <2>4. CASE j > Len(r) + Len(q)
    <3>1. j - Len(r) - Len(q) \in DOMAIN o
      BY <1>1, <2>1, <2>4
    <3>2. s[j] = o[j - Len(r) - Len(q)]
      BY <1>1, <1>2, <2>1, <2>4
    <3> QED  BY <3>1, <3>2
  <2> QED  BY <1>1, <2>1, <2>2, <2>3, <2>4
<1>4. ASSUME r # <<>> \/ InSeq("Resource", q)
      PROVE  s # <<>> /\ Head(s) = "Resource"
  <2>1. CASE r # <<>>
    <3>1. 1 \in DOMAIN r /\ 1 \in DOMAIN s /\ 1 <= Len(r)
      BY <1>1, <2>1
    <3>2. s[1] = r[1]
      BY <3>1, <1>2
    <3> QED  BY <1>1, <3>1, <3>2
  <2>2. CASE r = <<>> /\ InSeq("Resource", q)
    <3>1. PICK i \in DOMAIN q : q[i] = "Resource"
      BY <2>2 DEF InSeq
    <3>2. 1 \in DOMAIN q /\ q[1] = "Resource"
      BY <3>1 DEF ResourcesFirst
    <3>3. Len(r) = 0
      BY <2>2
    <3>4. 1 \in DOMAIN s /\ s[1] = q[1]
      BY <1>1, <1>2, <3>2, <3>3
    <3> QED  BY <1>1, <3>2, <3>4
  <2> QED  BY <1>4, <2>1, <2>2
<1>5. o # <<>> \/ q # <<>> => s # <<>>
  BY <1>1
<1> QED  BY <1>3, <1>4, <1>5 DEF s

\* Taking the first fault leaves resource faults in front.
LEMMA TailResourcesFirst ==
  ASSUME NEW K, NEW q \in Seq(K), q # <<>>, ResourcesFirst(q)
  PROVE  ResourcesFirst(Tail(q))
<1> SUFFICES ASSUME NEW i \in DOMAIN Tail(q), NEW j \in DOMAIN Tail(q), i < j,
                    Tail(q)[j] = "Resource"
             PROVE  Tail(q)[i] = "Resource"
  BY DEF ResourcesFirst
<1>1. /\ i + 1 \in DOMAIN q /\ j + 1 \in DOMAIN q /\ i + 1 < j + 1
      /\ Tail(q)[i] = q[i + 1] /\ Tail(q)[j] = q[j + 1]
  OBVIOUS
<1> QED  BY <1>1 DEF ResourcesFirst

\* The channel is emptied: what is owed is now among what the caller looks at.
LEMMA DrainStep ==
  ASSUME DataOK, FaultsInv, PrecedenceHonoured, NEW last, drain_completions(last)
  PROVE  FaultsInv' /\ OwedInv' /\ PrecedenceHonoured'
<1> DEFINE r == DrainedFaults("Resource")
           o == DrainedFaults("Io")
           K == {"Resource", "Io"}
<1>1. completions \in Seq(Completion) /\ pending_faults \in Seq(K)
  BY DEF DataOK, QueuesOK
<1>2. /\ r \in Seq(K) /\ \A i \in DOMAIN r : r[i] = "Resource"
      /\ o \in Seq(K) /\ \A i \in DOMAIN o : o[i] = "Io"
      /\ InSeq("Resource", completions) <=> r # <<>>
      /\ InSeq("Io", completions) <=> o # <<>>
  BY <1>1, DrainedFaultsFacts
<1>3. /\ pending_faults' = r \o pending_faults \o o
      /\ caller' = "exit" /\ owed' = BestReady
      /\ UNCHANGED <<child, observed_status, exit_event_delivered, stdout_queue,
                     overtaken>>
  BY DEF drain_completions, outputs
<1>4. /\ ready_exit' <=> InSeq("Exited", completions)
      /\ pending_stdin_closed' <=> StdinClosedReady
  BY Zenon DEF drain_completions, InSeq, StdinClosedReady
<1> HIDE DEF r, o
<1>5. ResourcesFirst(pending_faults)
  BY DEF FaultsInv
<1>6. /\ ResourcesFirst(pending_faults')
      /\ ResourceReady => pending_faults' # <<>> /\ Head(pending_faults') = "Resource"
      /\ IoReady => pending_faults' # <<>>
  <2>1. InSeq("Io", pending_faults) => pending_faults # <<>>
    BY <1>1 DEF InSeq
  <2> HIDE DEF K
  <2> QED  BY <1>1, <1>2, <1>3, <1>5, <2>1, DrainedQueue DEF ResourceReady,
              IoReady
<1>7. /\ BestReady = 1 => ResourceReady
      /\ BestReady = 2 => ExitReady
      /\ BestReady = 3 => StdinClosedReady
      /\ BestReady = 4 => IoReady
      /\ BestReady = 5 => stdout_queue # <<>>
  BY BestIsReady DEF Ready
<1>8. StdoutClosedReady' <=> StdoutClosedReady
  BY <1>3 DEF StdoutClosedReady
<1>9. ExitReady =>
        /\ ~exit_event_delivered'
        /\ \/ ready_exit' \/ observed_status'
           \/ /\ child' # "running"
              /\ pending_stdin_closed' \/ pending_faults' # <<>> \/ StdoutClosedReady'
  BY <1>3, <1>4, <1>6, <1>8 DEF ExitReady
<1>10. FaultsInv'
  BY <1>6 DEF FaultsInv
<1>11. OwedInv'
  BY <1>3, <1>4, <1>6, <1>7, <1>9, BestIsReady DEF OwedInv, ResourceFaultReady
<1>12. PrecedenceHonoured'
  BY <1>3 DEF PrecedenceHonoured
<1> QED  BY <1>10, <1>11, <1>12

\* Until the caller looks again, the workers and the child only add to what is
\* owed.
LEMMA OwedKept ==
  ASSUME DataOK, OwedInv, PrecedenceHonoured,
         UNCHANGED <<caller, owed, overtaken, pending_faults, ready_exit,
                     pending_stdin_closed, exit_event_delivered>>,
         observed_status => observed_status',
         child # "running" => child' # "running",
         \/ stdout_queue' = stdout_queue
         \/ \E x : stdout_queue' = Append(stdout_queue, x)
  PROVE  OwedInv' /\ PrecedenceHonoured'
<1>1. stdout_queue \in Seq(Sizes \cup {Closed})
  BY DEF DataOK, QueuesOK
<1>2. stdout_queue # <<>> => stdout_queue' # <<>> /\ Head(stdout_queue') = Head(stdout_queue)
  <2>1. CASE stdout_queue' = stdout_queue
    BY <2>1
  <2>2. ASSUME NEW x, stdout_queue' = Append(stdout_queue, x), stdout_queue # <<>>
        PROVE  stdout_queue' # <<>> /\ Head(stdout_queue') = Head(stdout_queue)
    <3>1. Len(stdout_queue) >= 1
      BY <1>1, <2>2
    <3>2. /\ Len(Append(stdout_queue, x)) = Len(stdout_queue) + 1
          /\ Append(stdout_queue, x)[1] = stdout_queue[1]
      BY <1>1, <3>1
    <3> QED  BY <1>1, <2>2, <3>1, <3>2
  <2> QED  BY <2>1, <2>2
<1>3. StdoutClosedReady => StdoutClosedReady'
  BY <1>2 DEF StdoutClosedReady
<1>4. ResourceFaultReady => ResourceFaultReady'
  BY DEF ResourceFaultReady
<1>5. PrecedenceHonoured'
  BY DEF PrecedenceHonoured
<1>6. OwedInv'
  <2> HIDE DEF StdoutClosedReady, ResourceFaultReady
  <2> QED  BY <1>2, <1>3, <1>4 DEF OwedInv
<1> QED  BY <1>5, <1>6

\* A delivery that honours the debt settles it.
LEMMA OwedSettled ==
  ASSUME NEW e, Deliver(e), Class(e) <= owed, Class(e) \in Nat, DataOK, PrecedenceHonoured
  PROVE  OwedInv' /\ PrecedenceHonoured'
<1>1. caller' = "idle" /\ owed' = 6
  BY DEF Deliver
<1>2. overtaken' <=> (overtaken \/ Class(e) > owed)
  BY Zenon DEF Deliver
<1>3. ~(Class(e) > owed)
  BY DEF DataOK, CountsOK
<1>4. PrecedenceHonoured'
  BY <1>2, <1>3 DEF PrecedenceHonoured
<1> QED  BY <1>1, <1>4 DEF OwedInv

\* The classes of the events.
LEMMA Classes ==
  /\ Class("Resource") = 1 /\ Class("Exited") = 2 /\ Class("StdinClosed") = 3
  /\ Class("Io") = 4 /\ Class("Stdout") = 5 /\ Class("StdoutClosed") = 5
  /\ Class("Disconnected") = 6 /\ Class("Deadline") = 6
BY DEF Class

\* No stage of next_event passes by what it owes.
LEMMA OwedStep ==
  ASSUME DataOK, FaultsInv, OwedInv, PrecedenceHonoured, Next
  PROVE  FaultsInv' /\ OwedInv' /\ PrecedenceHonoured'
<1> DEFINE Goal == FaultsInv' /\ OwedInv' /\ PrecedenceHonoured'
<1> USE DEF os, inputs, outputs, signals, workers, pending, local, history
<1>1. CASE ChildExit
  <2>1. UNCHANGED <<caller, owed, overtaken, pending_faults, ready_exit,
                    pending_stdin_closed, exit_event_delivered>>
    BY <1>1 DEF ChildExit
  <2>2. observed_status => observed_status'
    BY <1>1 DEF ChildExit
  <2>3. child # "running" => child' # "running"
    BY <1>1 DEF ChildExit
  <2>4. stdout_queue' = stdout_queue \/ \E x : stdout_queue' = Append(stdout_queue, x)
    BY <1>1 DEF ChildExit
  <2> QED  BY <2>1, <2>2, <2>3, <2>4, OwedKept DEF FaultsInv
<1>2. CASE DescendantsExit
  <2>1. UNCHANGED <<caller, owed, overtaken, pending_faults, ready_exit,
                    pending_stdin_closed, exit_event_delivered>>
    BY <1>2 DEF DescendantsExit
  <2>2. observed_status => observed_status'
    BY <1>2 DEF DescendantsExit
  <2>3. child # "running" => child' # "running"
    BY <1>2 DEF DescendantsExit
  <2>4. stdout_queue' = stdout_queue \/ \E x : stdout_queue' = Append(stdout_queue, x)
    BY <1>2 DEF DescendantsExit
  <2> QED  BY <2>1, <2>2, <2>3, <2>4, OwedKept DEF FaultsInv
<1>3. ASSUME NEW w \in Worker, report(w)
      PROVE  Goal
  <2>1. UNCHANGED <<caller, owed, overtaken, pending_faults, ready_exit,
                    pending_stdin_closed, exit_event_delivered>>
    BY <1>3 DEF report
  <2>2. observed_status => observed_status'
    BY <1>3 DEF report
  <2>3. child # "running" => child' # "running"
    BY <1>3 DEF report
  <2>4. stdout_queue' = stdout_queue \/ \E x : stdout_queue' = Append(stdout_queue, x)
    BY <1>3 DEF report
  <2> QED  BY <2>1, <2>2, <2>3, <2>4, OwedKept DEF FaultsInv
<1>4. ASSUME NEW w \in Worker, notify(w)
      PROVE  Goal
  <2>1. UNCHANGED <<caller, owed, overtaken, pending_faults, ready_exit,
                    pending_stdin_closed, exit_event_delivered>>
    BY <1>4 DEF notify
  <2>2. observed_status => observed_status'
    BY <1>4 DEF notify
  <2>3. child # "running" => child' # "running"
    BY <1>4 DEF notify
  <2>4. stdout_queue' = stdout_queue \/ \E x : stdout_queue' = Append(stdout_queue, x)
    BY <1>4 DEF notify
  <2> QED  BY <2>1, <2>2, <2>3, <2>4, OwedKept DEF FaultsInv
<1>5. CASE input_recv
  <2>1. UNCHANGED <<caller, owed, overtaken, pending_faults, ready_exit,
                    pending_stdin_closed, exit_event_delivered>>
    BY <1>5 DEF input_recv, InputUnchanged
  <2>2. observed_status => observed_status'
    BY <1>5 DEF input_recv, InputUnchanged
  <2>3. child # "running" => child' # "running"
    BY <1>5 DEF input_recv, InputUnchanged
  <2>4. stdout_queue' = stdout_queue \/ \E x : stdout_queue' = Append(stdout_queue, x)
    BY <1>5 DEF input_recv, InputUnchanged
  <2> QED  BY <2>1, <2>2, <2>3, <2>4, OwedKept DEF FaultsInv
<1>6. CASE input_written
  <2>1. UNCHANGED <<caller, owed, overtaken, pending_faults, ready_exit,
                    pending_stdin_closed, exit_event_delivered>>
    BY <1>6 DEF input_written, InputUnchanged
  <2>2. observed_status => observed_status'
    BY <1>6 DEF input_written, InputUnchanged
  <2>3. child # "running" => child' # "running"
    BY <1>6 DEF input_written, InputUnchanged
  <2>4. stdout_queue' = stdout_queue \/ \E x : stdout_queue' = Append(stdout_queue, x)
    BY <1>6 DEF input_written, InputUnchanged
  <2> QED  BY <2>1, <2>2, <2>3, <2>4, OwedKept DEF FaultsInv
<1>7. CASE input_failed
  <2>1. UNCHANGED <<caller, owed, overtaken, pending_faults, ready_exit,
                    pending_stdin_closed, exit_event_delivered>>
    BY <1>7 DEF input_failed, InputUnchanged
  <2>2. observed_status => observed_status'
    BY <1>7 DEF input_failed, InputUnchanged
  <2>3. child # "running" => child' # "running"
    BY <1>7 DEF input_failed, InputUnchanged
  <2>4. stdout_queue' = stdout_queue \/ \E x : stdout_queue' = Append(stdout_queue, x)
    BY <1>7 DEF input_failed, InputUnchanged
  <2> QED  BY <2>1, <2>2, <2>3, <2>4, OwedKept DEF FaultsInv
<1>8. ASSUME NEW n \in Sizes, stdout_read(n)
      PROVE  Goal
  <2>1. UNCHANGED <<caller, owed, overtaken, pending_faults, ready_exit,
                    pending_stdin_closed, exit_event_delivered>>
    BY <1>8 DEF stdout_read, StdoutUnchanged
  <2>2. observed_status => observed_status'
    BY <1>8 DEF stdout_read, StdoutUnchanged
  <2>3. child # "running" => child' # "running"
    BY <1>8 DEF stdout_read, StdoutUnchanged
  <2>4. stdout_queue' = stdout_queue \/ \E x : stdout_queue' = Append(stdout_queue, x)
    BY <1>8 DEF stdout_read, StdoutUnchanged
  <2> QED  BY <2>1, <2>2, <2>3, <2>4, OwedKept DEF FaultsInv
<1>9. CASE stdout_stop
  <2>1. UNCHANGED <<caller, owed, overtaken, pending_faults, ready_exit,
                    pending_stdin_closed, exit_event_delivered>>
    BY <1>9 DEF stdout_stop, StdoutUnchanged
  <2>2. observed_status => observed_status'
    BY <1>9 DEF stdout_stop, StdoutUnchanged
  <2>3. child # "running" => child' # "running"
    BY <1>9 DEF stdout_stop, StdoutUnchanged
  <2>4. stdout_queue' = stdout_queue \/ \E x : stdout_queue' = Append(stdout_queue, x)
    BY <1>9 DEF stdout_stop, StdoutUnchanged
  <2> QED  BY <2>1, <2>2, <2>3, <2>4, OwedKept DEF FaultsInv
<1>10. CASE stdout_send
  <2>1. UNCHANGED <<caller, owed, overtaken, pending_faults, ready_exit,
                    pending_stdin_closed, exit_event_delivered>>
    BY <1>10 DEF stdout_send, StdoutUnchanged
  <2>2. observed_status => observed_status'
    BY <1>10 DEF stdout_send, StdoutUnchanged
  <2>3. child # "running" => child' # "running"
    BY <1>10 DEF stdout_send, StdoutUnchanged
  <2>4. stdout_queue' = stdout_queue \/ \E x : stdout_queue' = Append(stdout_queue, x)
    BY <1>10 DEF stdout_send, StdoutUnchanged
  <2> QED  BY <2>1, <2>2, <2>3, <2>4, OwedKept DEF FaultsInv
<1>11. CASE stdout_send_closed
  <2>1. UNCHANGED <<caller, owed, overtaken, pending_faults, ready_exit,
                    pending_stdin_closed, exit_event_delivered>>
    BY <1>11 DEF stdout_send_closed, StdoutUnchanged
  <2>2. observed_status => observed_status'
    BY <1>11 DEF stdout_send_closed, StdoutUnchanged
  <2>3. child # "running" => child' # "running"
    BY <1>11 DEF stdout_send_closed, StdoutUnchanged
  <2>4. stdout_queue' = stdout_queue \/ \E x : stdout_queue' = Append(stdout_queue, x)
    BY <1>11 DEF stdout_send_closed, StdoutUnchanged
  <2> QED  BY <2>1, <2>2, <2>3, <2>4, OwedKept DEF FaultsInv
<1>12. CASE stderr_stop
  <2>1. UNCHANGED <<caller, owed, overtaken, pending_faults, ready_exit,
                    pending_stdin_closed, exit_event_delivered>>
    BY <1>12 DEF stderr_stop
  <2>2. observed_status => observed_status'
    BY <1>12 DEF stderr_stop
  <2>3. child # "running" => child' # "running"
    BY <1>12 DEF stderr_stop
  <2>4. stdout_queue' = stdout_queue \/ \E x : stdout_queue' = Append(stdout_queue, x)
    BY <1>12 DEF stderr_stop
  <2> QED  BY <2>1, <2>2, <2>3, <2>4, OwedKept DEF FaultsInv
<1>13. CASE status_poll
  <2>1. UNCHANGED <<caller, owed, overtaken, pending_faults, ready_exit,
                    pending_stdin_closed, exit_event_delivered>>
    BY <1>13 DEF status_poll
  <2>2. observed_status => observed_status'
    BY <1>13 DEF status_poll
  <2>3. child # "running" => child' # "running"
    BY <1>13 DEF status_poll
  <2>4. stdout_queue' = stdout_queue \/ \E x : stdout_queue' = Append(stdout_queue, x)
    BY <1>13 DEF status_poll
  <2> QED  BY <2>1, <2>2, <2>3, <2>4, OwedKept DEF FaultsInv
<1>14. CASE status_store
  <2>1. UNCHANGED <<caller, owed, overtaken, pending_faults, ready_exit,
                    pending_stdin_closed, exit_event_delivered>>
    BY <1>14 DEF status_store
  <2>2. observed_status => observed_status'
    BY <1>14 DEF status_store
  <2>3. child # "running" => child' # "running"
    BY <1>14 DEF status_store
  <2>4. stdout_queue' = stdout_queue \/ \E x : stdout_queue' = Append(stdout_queue, x)
    BY <1>14 DEF status_store
  <2> QED  BY <2>1, <2>2, <2>3, <2>4, OwedKept DEF FaultsInv
<1>15. CASE next_event
  <2>1. PICK last \in BOOLEAN : drain_completions(last)
    BY <1>15 DEF next_event
  <2> QED  BY <2>1, DrainStep
<1>16. CASE deliver_exit
  <2>1. caller = "exit" /\ owed \in 1 .. 6
    BY <1>16 DEF deliver_exit, DataOK, CountsOK
  <2>2. CASE ResourceFaultReady
    <3>1. Deliver("Resource") /\ pending_faults' = Tail(pending_faults)
      BY <1>16, <2>2 DEF deliver_exit
    <3>2. pending_faults \in Seq({"Resource", "Io"}) /\ pending_faults # <<>>
      BY <2>2 DEF ResourceFaultReady, DataOK, QueuesOK
    <3>3. FaultsInv'
      BY <3>1, <3>2, TailResourcesFirst DEF FaultsInv
    <3> QED  BY <2>1, <3>1, <3>3, Classes, OwedSettled
  <2>3. CASE ~ResourceFaultReady /\ (ready_exit \/ observed_status) /\ ~exit_event_delivered
    <3>1. Deliver("Exited") /\ pending_faults' = pending_faults
      BY <1>16, <2>3 DEF deliver_exit
    <3>2. owed >= 2
      BY <2>1, <2>3 DEF OwedInv
    <3> QED  BY <2>1, <3>1, <3>2, Classes, OwedSettled DEF FaultsInv
  <2>4. CASE ~ResourceFaultReady /\ ~((ready_exit \/ observed_status) /\ ~exit_event_delivered)
    <3>1. /\ caller' = "lower"
          /\ UNCHANGED <<pending_faults, owed, overtaken, ready_exit, stdout_queue,
                         pending_stdin_closed, exit_event_delivered, child>>
      BY <1>16, <2>4 DEF deliver_exit, NothingDelivered
    <3>2. owed >= 2
      BY <2>1, <2>4 DEF OwedInv
    <3>3. StdoutClosedReady => StdoutClosedReady'
      BY <3>1 DEF StdoutClosedReady
    <3>4. OwedInv'
      <4> HIDE DEF StdoutClosedReady, ResourceFaultReady
      <4> QED  BY <2>1, <2>4, <3>1, <3>2, <3>3 DEF OwedInv
    <3> QED  BY <3>1, <3>4 DEF FaultsInv, PrecedenceHonoured
  <2> QED  BY <2>2, <2>3, <2>4
<1>17. CASE deliver_lower
  <2>1. caller = "lower" /\ owed \in 2 .. 6
    BY <1>17 DEF deliver_lower, DataOK, CountsOK, OwedInv
  <2>2. pending_faults \in Seq({"Resource", "Io"})
    BY DEF DataOK, QueuesOK
  <2>u. ASSUME NEW e
        PROVE  \/ Upgraded(e) = "Exited"
               \/ Upgraded(e) = e /\ (child = "running" \/ exit_event_delivered)
    BY DEF Upgraded
  <2>3. CASE pending_stdin_closed
    <3>1. Deliver(Upgraded("StdinClosed")) /\ pending_faults' = pending_faults
      BY <1>17, <2>3 DEF deliver_lower
    <3>2. Class(Upgraded("StdinClosed")) \in Nat /\ Class(Upgraded("StdinClosed")) <= owed
      BY <2>1, <2>u, Classes DEF OwedInv
    <3> QED  BY <3>1, <3>2, OwedSettled DEF FaultsInv
  <2>4. CASE ~pending_stdin_closed /\ pending_faults # <<>>
    <3>1. /\ Deliver(Upgraded("Io"))
          /\ pending_faults' = pending_faults \/ pending_faults' = Tail(pending_faults)
      BY <1>17, <2>4 DEF deliver_lower
    <3>2. Class(Upgraded("Io")) \in Nat /\ Class(Upgraded("Io")) <= owed
      BY <2>1, <2>4, <2>u, Classes DEF OwedInv
    <3>3. FaultsInv'
      BY <2>2, <2>4, <3>1, TailResourcesFirst DEF FaultsInv
    <3> QED  BY <3>1, <3>2, <3>3, OwedSettled
  <2>5. CASE ~pending_stdin_closed /\ pending_faults = <<>> /\ stdout_queue # <<>>
    <3>1. pending_faults' = pending_faults
      BY <1>17, <2>5 DEF deliver_lower
    <3>2. CASE Head(stdout_queue) = Closed
      <4>1. Deliver(Upgraded("StdoutClosed"))
        BY <1>17, <2>5, <3>2 DEF deliver_lower
      <4>2. /\ Class(Upgraded("StdoutClosed")) \in Nat
            /\ Class(Upgraded("StdoutClosed")) <= owed
        BY <2>1, <2>5, <2>u, Classes DEF OwedInv
      <4> QED  BY <3>1, <4>1, <4>2, OwedSettled DEF FaultsInv
    <3>3. CASE Head(stdout_queue) # Closed
      <4>1. caller' = "release" /\ UNCHANGED <<owed, overtaken>>
        BY <1>17, <2>5, <3>3 DEF deliver_lower
      <4>2. owed >= 5
        BY <2>1, <2>5, <3>3 DEF OwedInv, StdoutClosedReady
      <4> QED  BY <3>1, <4>1, <4>2 DEF OwedInv, FaultsInv, PrecedenceHonoured
    <3> QED  BY <3>2, <3>3
  <2>6. CASE ~pending_stdin_closed /\ pending_faults = <<>> /\ stdout_queue = <<>>
    <3>1. /\ pending_faults' = pending_faults
          /\ \/ Deliver("Disconnected")
             \/ caller' = "wait" /\ UNCHANGED <<owed, overtaken>>
      BY <1>17, <2>6 DEF deliver_lower, NothingDelivered
    <3>2. owed = 6
      BY <2>1, <2>6 DEF OwedInv, StdoutClosedReady
    <3>3. CASE Deliver("Disconnected")
      BY <3>1, <3>2, <3>3, Classes, OwedSettled DEF FaultsInv
    <3>4. CASE caller' = "wait" /\ UNCHANGED <<owed, overtaken>>
      BY <3>1, <3>2, <3>4 DEF OwedInv, FaultsInv, PrecedenceHonoured
    <3> QED  BY <3>1, <3>3, <3>4
  <2> QED  BY <2>3, <2>4, <2>5, <2>6
<1>18. CASE release_chunk
  <2>1. Deliver("Stdout") /\ UNCHANGED pending_faults
    BY <1>18 DEF release_chunk
  <2>2. Class("Stdout") <= owed
    BY <1>18, Classes DEF release_chunk, OwedInv, DataOK, CountsOK
  <2> QED  BY <2>1, <2>2, Classes, OwedSettled DEF FaultsInv
<1>19. CASE wait_for_wake
  <2>1. PICK last \in BOOLEAN : drain_completions(last)
    BY <1>19 DEF wait_for_wake
  <2> QED  BY <2>1, DrainStep
<1>20. CASE event_deadline
  <2>1. Deliver("Deadline") /\ UNCHANGED pending_faults
    BY <1>20 DEF event_deadline
  <2>2. Class("Deadline") <= owed
    BY <1>20, Classes DEF event_deadline, OwedInv, DataOK, CountsOK
  <2> QED  BY <2>1, <2>2, Classes, OwedSettled DEF FaultsInv
<1>21. ASSUME NEW n \in Sizes, send_frame(n)
      PROVE  Goal
  <2>1. /\ caller \notin {"exit", "lower", "release", "wait"}
        /\ caller' \notin {"exit", "lower", "release", "wait"}
        /\ UNCHANGED <<owed, overtaken, pending_faults>>
    BY <1>21 DEF send_frame, SendUnchanged
  <2> QED  BY <2>1 DEF OwedInv, FaultsInv, PrecedenceHonoured
<1>22. CASE send_input
  <2>1. /\ caller \notin {"exit", "lower", "release", "wait"}
        /\ caller' \notin {"exit", "lower", "release", "wait"}
        /\ UNCHANGED <<owed, overtaken, pending_faults>>
    BY <1>22 DEF send_input, SendUnchanged
  <2> QED  BY <2>1 DEF OwedInv, FaultsInv, PrecedenceHonoured
<1>23. CASE finish
  <2>1. /\ caller \notin {"exit", "lower", "release", "wait"}
        /\ caller' \notin {"exit", "lower", "release", "wait"}
        /\ UNCHANGED <<owed, overtaken, pending_faults>>
    BY <1>23 DEF finish
  <2> QED  BY <2>1 DEF OwedInv, FaultsInv, PrecedenceHonoured
<1>24. CASE wait_for_status
  <2>1. /\ caller \notin {"exit", "lower", "release", "wait"}
        /\ caller' \notin {"exit", "lower", "release", "wait"}
        /\ UNCHANGED <<owed, overtaken, pending_faults>>
    BY <1>24 DEF wait_for_status, CleanupUnchanged
  <2> QED  BY <2>1 DEF OwedInv, FaultsInv, PrecedenceHonoured
<1>25. CASE abort
  <2>1. /\ caller \notin {"exit", "lower", "release", "wait"}
        /\ caller' \notin {"exit", "lower", "release", "wait"}
        /\ UNCHANGED <<owed, overtaken, pending_faults>>
    BY <1>25 DEF abort, CleanupUnchanged
  <2> QED  BY <2>1 DEF OwedInv, FaultsInv, PrecedenceHonoured
<1>26. CASE wait_for_process_group_exit
  <2>1. /\ caller \notin {"exit", "lower", "release", "wait"}
        /\ caller' \notin {"exit", "lower", "release", "wait"}
        /\ UNCHANGED <<owed, overtaken, pending_faults>>
    BY <1>26 DEF wait_for_process_group_exit, CleanupUnchanged
  <2> QED  BY <2>1 DEF OwedInv, FaultsInv, PrecedenceHonoured
<1>27. CASE reap_after_termination
  <2>1. /\ caller \notin {"exit", "lower", "release", "wait"}
        /\ caller' \notin {"exit", "lower", "release", "wait"}
        /\ UNCHANGED <<owed, overtaken, pending_faults>>
    BY <1>27 DEF reap_after_termination, CleanupUnchanged
  <2> QED  BY <2>1 DEF OwedInv, FaultsInv, PrecedenceHonoured
<1>28. CASE wait_for_cleanup
  <2>1. /\ caller \notin {"exit", "lower", "release", "wait"}
        /\ caller' \notin {"exit", "lower", "release", "wait"}
        /\ UNCHANGED <<owed, overtaken, pending_faults>>
    BY <1>28 DEF wait_for_cleanup, CleanupUnchanged
  <2> QED  BY <2>1 DEF OwedInv, FaultsInv, PrecedenceHonoured
<1>29. CASE drop
  <2>1. /\ caller \notin {"exit", "lower", "release", "wait"}
        /\ caller' \notin {"exit", "lower", "release", "wait"}
        /\ UNCHANGED <<owed, overtaken, pending_faults>>
    BY <1>29 DEF drop, CleanupUnchanged
  <2> QED  BY <2>1 DEF OwedInv, FaultsInv, PrecedenceHonoured
<1>30. CASE drop_wait
  <2>1. /\ caller \notin {"exit", "lower", "release", "wait"}
        /\ caller' \notin {"exit", "lower", "release", "wait"}
        /\ UNCHANGED <<owed, overtaken, pending_faults>>
    BY <1>30 DEF drop_wait, CleanupUnchanged
  <2> QED  BY <2>1 DEF OwedInv, FaultsInv, PrecedenceHonoured
<1> QED  BY <1>1, <1>2, <1>3, <1>4, <1>5, <1>6, <1>7, <1>8, <1>9, <1>10,
          <1>11, <1>12, <1>13, <1>14, <1>15, <1>16, <1>17, <1>18,
          <1>19, <1>20, <1>21, <1>22, <1>23, <1>24, <1>25, <1>26,
          <1>27, <1>28, <1>29, <1>30 DEF Next, WorkerStep,
          CallerStep

-----------------------------------------------------------------------------
(***************************************************************************)
(* The theorems.                                                           *)
(***************************************************************************)
\* spawn leaves nothing queued, reserved, owed or reported.
LEMMA InitProcess == Init => PInv
<1> SUFFICES ASSUME Init
             PROVE  PInv
  OBVIOUS
<1>1. FlagsOK
  BY Zenon DEF Init, FlagsOK
<1>2. Total(stdout_queue) = 0 /\ Total(input_queue) = 0
  BY TotalEmpty DEF Init
<1>3. PcsOK
  BY DEF Init, PcsOK, Worker, WorkerPc, CallerPc
<1>4. QueuesOK
  BY DEF Init, QueuesOK
<1>5. CountsOK
  BY BoundsAssumption DEF Init, CountsOK
<1>6. HandsOK
  BY DEF Init, HandsOK, Worker
<1>7. InboundOK /\ OutboundOK
  BY <1>2, ProcessLimitsAssumption DEF Init, InboundOK, OutboundOK, Carried,
     Worker
<1>8. CompletionsInv
  BY DEF Init, CompletionsInv, Spoken
<1>9. WakeInv /\ ExitInv /\ FaultsInv
  BY DEF Init, WakeInv, ExitInv, FaultsInv, ResourcesFirst, InSeq
<1>10. OwedInv /\ PrecedenceHonoured
  BY DEF Init, OwedInv, PrecedenceHonoured
<1> QED  BY <1>1, <1>3, <1>4, <1>5, <1>6, <1>7, <1>8, <1>9, <1>10 DEF PInv, DataOK

\* A step that changes nothing.
LEMMA ProcessStutter ==
  ASSUME PInv, UNCHANGED vars
  PROVE  PInv'
<1> USE DEF vars, os, inputs, outputs, signals, workers, pending, local, history
<1>1. FlagsOK'
  BY Zenon DEF PInv, FlagsOK
<1>2. DataOK'
  BY DEF PInv, DataOK, PcsOK, QueuesOK, CountsOK, HandsOK, InboundOK, OutboundOK,
         Carried
<1>3. CompletionsInv' /\ WakeInv' /\ ExitInv' /\ FaultsInv'
  BY DEF PInv, CompletionsInv, Spoken, WakeInv, Notified, ExitInv, InSeq,
     FaultsInv
<1>4. OwedInv' /\ PrecedenceHonoured'
  BY DEF PInv, OwedInv, PrecedenceHonoured, ResourceFaultReady, StdoutClosedReady
<1> QED  BY <1>1, <1>2, <1>3, <1>4 DEF PInv

\* PInv is an invariant of every thread's steps.
LEMMA ProcessInvariantHolds == Spec => []PInv
<1>1. Init => PInv
  BY InitProcess
<1>2. PInv /\ [Next]_vars => PInv'
  <2>1. ASSUME PInv, Next
        PROVE  PInv'
    <3>1. FlagsOK' /\ DataOK'
      BY <2>1, FlagsStep, TypeStep DEF PInv
    <3>2. CompletionsInv' /\ WakeInv' /\ ExitInv'
      BY <2>1, CompletionsStep, WakeStep, ExitStep DEF PInv
    <3>3. FaultsInv' /\ OwedInv' /\ PrecedenceHonoured'
      BY <2>1, OwedStep DEF PInv
    <3> QED  BY <3>1, <3>2, <3>3 DEF PInv
  <2> QED  BY <2>1, ProcessStutter
<1> QED  BY <1>1, <1>2, PTL DEF Spec

\* The state of the supervisor keeps its type: no budget of ByteBudget goes
\* below zero or above its capacity, whatever the threads do.
THEOREM ProcessTypeCorrect == Spec => []TypeOK
<1>1. PInv => TypeOK
  BY TypeParts DEF PInv
<1> QED  BY <1>1, ProcessInvariantHolds, PTL

\* reserve and release of ByteBudget balance: the budgets count exactly the
\* bytes queued and in the hands of a thread, through full queues, deadlines,
\* cancelled writes and workers that die.
THEOREM BudgetsStayAccounted == Spec => []BudgetsAccounted
<1>1. PInv => BudgetsAccounted
  BY DEF PInv, DataOK, InboundOK, OutboundOK, Carried, BudgetsAccounted
<1> QED  BY <1>1, ProcessInvariantHolds, PTL

\* report_fault, report_resource_fault and the status worker may ignore the
\* result of try_send: with the four slots validate asks for, the completion
\* channel has room whenever one of them uses it.
THEOREM CompletionsAreNeverDropped == Spec => []CompletionsNeverDropped
<1>1. PInv => CompletionsNeverDropped
  <2> SUFFICES ASSUME PInv, NEW w \in Worker, worker[w] \in Completion
               PROVE  Len(completions) < CompletionEvents
    BY DEF CompletionsNeverDropped
  <2>1. Len(completions) \in Nat
    BY DEF PInv, DataOK, QueuesOK
  <2>2. Spoken(w) = 0
    BY DEF Spoken, Completion
  <2>3. \A v \in Worker : Spoken(v) \in {0, 1}
    BY DEF Spoken
  <2>4. Spoken("Stdin") + Spoken("Stdout") + Spoken("Stderr") + Spoken("Status") <= 3
    BY <2>2, <2>3 DEF Worker
  <2> QED  BY <2>1, <2>3, <2>4, ProcessLimitsAssumption
           DEF PInv, CompletionsInv, Worker
<1> QED  BY <1>1, ProcessInvariantHolds, PTL

\* next_event never sleeps on an event that has arrived, although the wake
\* channel has one slot and stale tokens are consumed.
THEOREM WakeupsAreNeverLost == Spec => []NoLostWakeup
<1>1. PInv => NoLostWakeup
  BY DEF PInv, WakeInv, Notified, NoLostWakeup
<1> QED  BY <1>1, ProcessInvariantHolds, PTL

\* Whatever reports the exit first, the completion channel, observed_status or
\* refresh_child_status, it is delivered once, for a child that was reaped.
THEOREM ExitIsReportedOnce == Spec => []ExitReportedOnce
<1>1. PInv => ExitReportedOnce
  BY DEF PInv, ExitInv, ExitReportedOnce
<1> QED  BY <1>1, ProcessInvariantHolds, PTL

\* try_next_event keeps the order it documents against workers that run while
\* it looks: what it returns is never less urgent than something that was ready
\* when it emptied the completion channel.
THEOREM PrecedenceIsHonoured == Spec => []PrecedenceHonoured
<1>1. PInv => PrecedenceHonoured
  BY DEF PInv
<1> QED  BY <1>1, ProcessInvariantHolds, PTL
=============================================================================
