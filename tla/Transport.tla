------------------------------ MODULE Transport ------------------------------
(***************************************************************************)
(* Transport of crates/srcmv-lsp (transport.rs): next_incoming collects    *)
(* the ready events of the supervised process into one batch, decodes      *)
(* stdout, and returns the next message or the error that takes            *)
(* precedence.                                                             *)
(*                                                                         *)
(* The process side is what ManagedProcess delivers: bytes the server      *)
(* wrote to stdout, cut into chunks anywhere, the end of stdout, and the   *)
(* conditions exit, fault (a worker failed), resource (a byte budget) and  *)
(* stdin (stdin closed).  Any of them may be delivered first.              *)
(***************************************************************************)
EXTENDS JsonRpc

CONSTANTS
  MaxReadyEvents,        \* TransportLimits
  MaxBufferedMessages,
  MaxBufferedBytes,
  Bodies,                \* bodies a server may write
  Faults,                \* conditions other than the exit
  Unframed,              \* byte sequences it may write that are no frame
  MaxOutstanding,        \* bound: messages written and not yet delivered
  MaxConditions          \* bound: process conditions at one wake boundary

\* What a server may write, byte by byte, besides whole frames.
WireByte ==
  {HeaderByte, BadByte}
  \cup {HeaderEnd(length) : length \in 0 .. MaxInboundBodyBytes + 1}
  \cup UNION {{BodyByte(body, k) : k \in 1 .. body.length} : body \in Bodies}

ASSUME TransportAssumption ==
  /\ {MaxReadyEvents, MaxBufferedMessages, MaxBufferedBytes} \subseteq Nat \ {0}
  /\ \A body \in Bodies : body.length \in Nat
  /\ Unframed \subseteq Seq(WireByte)
  /\ Faults \subseteq {"resource", "fault", "stdin"}

\* A header fits into its limit.  A body fits into its own, and an empty one
\* is no message; a longer one is refused at its header, like everything else
\* that is no frame.
ASSUME FramingAssumption ==
  /\ MaxHeaderBytes \in Nat \ {0, 1} /\ MaxInboundBodyBytes \in Nat
  /\ \A body \in Bodies : /\ body.length <= MaxInboundBodyBytes
                          /\ body.length = 0 => body.shape # "object"
  /\ \A bytes \in Unframed : /\ ~push(InHeader(0), bytes).ok
                             /\ push(InHeader(0), bytes).bodies = << >>

VARIABLES
  pc,          \* where next_incoming, and the session around it, is
  pipe,        \* bytes of stdout not yet taken by the transport
  stdout,      \* "open", "closed" by the server, "seen" by the transport
  conditions,  \* process conditions not yet delivered
  alive,       \* the server process runs
  expired,     \* the deadline of the running phase has passed
  decoder, correlator, incoming, buffered_bytes,
  ready,       \* the ReadyBatch: which of its conditions are set
  observed,    \* events of the running drain
  result,      \* what next_incoming returned
  outstanding  \* history: messages written and not yet delivered, in order

process_vars == <<pipe, stdout, conditions, alive>>
rpc_vars == <<decoder, correlator, incoming, buffered_bytes>>

Nothing == [kind |-> "none"]
Failure(error) == [kind |-> "error", error |-> error]

TransportInit ==
  /\ pipe = << >> /\ stdout = "open" /\ conditions = {} /\ alive = TRUE
  /\ expired = FALSE
  /\ decoder = InHeader(0) /\ correlator = NewCorrelator
  /\ incoming = << >> /\ buffered_bytes = 0
  /\ ready = {} /\ observed = 0 /\ result = Nothing /\ outstanding = << >>

-----------------------------------------------------------------------------
(* The server.  It is free: it answers what it likes, or nothing.          *)

\* The client looks at stdout only when it drains or waits; a write at
\* another moment is one it finds when it next does.
Reading == pc \in {"drain", "drain_more", "drain_last", "wait", "wait_more"}

ServerWrites ==
  /\ Reading /\ alive /\ stdout = "open" /\ Len(outstanding) < MaxOutstanding
  /\ \/ \E body \in Bodies :
          /\ pipe' = pipe \o Frame(body)
          /\ outstanding' = Append(outstanding, decode_body(body))
     \/ \E bytes \in Unframed :
          /\ pipe' = pipe \o bytes
          /\ outstanding' = Append(outstanding, Invalid)
  /\ UNCHANGED <<pc, stdout, conditions, alive, expired, rpc_vars, ready,
                 observed, result>>

ServerCloses ==
  /\ Reading /\ stdout = "open"
  /\ stdout' = "closed"
  /\ UNCHANGED <<pc, pipe, conditions, alive, expired, rpc_vars, ready,
                 observed, result, outstanding>>

ServerExits ==
  /\ alive /\ Cardinality(conditions) + Cardinality(ready) < MaxConditions
  /\ alive' = FALSE
  /\ stdout' = IF stdout = "open" THEN "closed" ELSE stdout
  /\ conditions' = conditions \cup {"exit"}
  /\ UNCHANGED <<pc, pipe, expired, rpc_vars, ready, observed, result,
                 outstanding>>

WorkerFails ==
  /\ alive /\ Cardinality(conditions) + Cardinality(ready) < MaxConditions
  /\ \E condition \in Faults \ conditions :
       conditions' = conditions \cup {condition}
  /\ UNCHANGED <<pc, pipe, stdout, alive, expired, rpc_vars, ready, observed,
                 result, outstanding>>

-----------------------------------------------------------------------------
(* One event of the process.                                               *)

ClearIncoming == incoming' = << >> /\ buffered_bytes' = 0

Overflowed(state) == [state EXCEPT !.incoming = << >>, !.bytes = 0,
                                 !.ready = @ \cup {"integration"}, !.stop = TRUE]

\* One body of decode_chunk: decode, correlate, account, buffer.
DecodeBody(state, body) ==
  LET message == decode_body(body)
      completed == complete(state.correlator, message.id)
      answered == message.kind = "response"
      bytes == state.bytes + body.length
      kept == [state EXCEPT
                 !.correlator = IF answered THEN completed.correlator ELSE @,
                 !.bytes = bytes,
                 !.incoming = Append(@, [message |-> message, bytes |-> body.length])]
  IN  IF state.stop THEN state
      ELSE IF message = Invalid \/ (answered /\ ~completed.ok)
      THEN [state EXCEPT !.ready = @ \cup {"protocol"}, !.stop = TRUE]
      ELSE IF bytes > MaxBufferedBytes \/ Len(kept.incoming) > MaxBufferedMessages
      THEN Overflowed(kept)
      ELSE kept

DecodeBodies(start, bodies) ==
  LET after[k \in 0 .. Len(bodies)] ==
        IF k = 0 THEN start ELSE DecodeBody(after[k - 1], bodies[k])
  IN  after[Len(bodies)]

decode_chunk(chunk) ==
  LET pushed == push(decoder, chunk)
      decoded == DecodeBodies([correlator |-> correlator, incoming |-> incoming,
                               bytes |-> buffered_bytes, ready |-> ready,
                               stop |-> FALSE], pushed.bodies)
  IN  IF "protocol" \in ready \/ stdout = "seen"
      THEN UNCHANGED <<rpc_vars, ready>>
      ELSE IF ~pushed.ok
      THEN /\ decoder' = pushed.decoder
           /\ ready' = ready \cup {"protocol"}
           /\ UNCHANGED <<correlator, incoming, buffered_bytes>>
      ELSE /\ decoder' = pushed.decoder
           /\ correlator' = decoded.correlator
           /\ incoming' = decoded.incoming
           /\ buffered_bytes' = decoded.bytes
           /\ ready' = decoded.ready

\* The end of stdout inside a frame is a protocol error.
observe_stdout_closed ==
  ready' = IF "protocol" \in ready THEN ready
           ELSE ready \cup {IF is_mid_frame(decoder) THEN "protocol" ELSE "terminal"}

ConditionClass(condition) ==
  CASE condition = "exit"     -> "exit"
    [] condition = "resource" -> "resource"
    [] condition = "fault"    -> "io"
    [] condition = "stdin"    -> "terminal"

EventReady == pipe # << >> \/ stdout = "closed" \/ conditions # {}

\* The process may have nothing to deliver yet: bytes that were written may
\* still be on their way, so a frame can stop arriving anywhere in it.
NothingYet == conditions = {} /\ ~(pipe = << >> /\ stdout = "closed")

observe ==
  \/ \E k \in 1 .. Len(pipe) :
       /\ pipe' = SubSeq(pipe, k + 1, Len(pipe))
       /\ decode_chunk(SubSeq(pipe, 1, k))
       /\ UNCHANGED <<stdout, conditions>>
  \/ /\ pipe = << >> /\ stdout = "closed"
     /\ stdout' = "seen"
     /\ observe_stdout_closed
     /\ UNCHANGED <<pipe, conditions, rpc_vars>>
  \/ \E condition \in conditions :
       /\ conditions' = conditions \ {condition}
       /\ ready' = ready \cup {ConditionClass(condition)}
       /\ UNCHANGED <<pipe, stdout, rpc_vars>>

-----------------------------------------------------------------------------
(* next_incoming: drain what is ready, block for one event, drain again.   *)

Draining == pc \in {"drain", "drain_more", "drain_last"}

AtEventLimit == observed = MaxReadyEvents

\* One turn of drain_ready.
drain_observe ==
  /\ Draining /\ ~AtEventLimit /\ EventReady
  /\ ~(expired /\ (ready # {} \/ incoming # << >>))
  /\ observe
  /\ observed' = IF observed < MaxReadyEvents THEN observed + 1 ELSE observed
  /\ UNCHANGED <<pc, alive, expired, result, outstanding>>

AfterDrain == CASE pc = "drain"      -> "decide"
                [] pc = "drain_more" -> "decide_more"
                [] pc = "drain_last" -> "decide_last"

drain_done ==
  /\ Draining /\ ~AtEventLimit
  /\ NothingYet \/ (expired /\ (ready # {} \/ incoming # << >>))
  /\ pc' = AfterDrain
  /\ UNCHANGED <<process_vars, expired, rpc_vars, ready, observed, result,
                 outstanding>>

\* probe_ready_event_overflow: one more event than the limit is taken, not
\* looked at, and reported.
probe_ready_event_overflow ==
  /\ Draining /\ AtEventLimit
  /\ \/ /\ NothingYet /\ UNCHANGED <<pipe, stdout, conditions, ready>>
     \/ /\ ready' = ready \cup {"integration"}
        /\ \/ /\ pipe # << >>
              /\ \E k \in 1 .. Len(pipe) : pipe' = SubSeq(pipe, k + 1, Len(pipe))
              /\ UNCHANGED <<stdout, conditions>>
           \/ /\ pipe = << >> /\ stdout = "closed" /\ stdout' = "seen"
              /\ UNCHANGED <<pipe, conditions>>
           \/ \E condition \in conditions :
                /\ conditions' = conditions \ {condition}
                /\ UNCHANGED <<pipe, stdout>>
  /\ pc' = AfterDrain
  /\ UNCHANGED <<alive, expired, rpc_vars, observed, result, outstanding>>

\* The order of choose.
Precedence == <<"protocol", "integration", "resource", "exit", "terminal", "io">>
choose == LET first == SelectInSeq(Precedence, LAMBDA c : c \in ready)
          IN  Failure(Precedence[first])

\* pop_incoming that forgets the bytes it gives back.
PopKeepingBytes ==
  /\ incoming' = Tail(incoming)
  /\ UNCHANGED buffered_bytes

pop_incoming ==
  /\ incoming' = Tail(incoming)
  /\ buffered_bytes' = buffered_bytes - Head(incoming).bytes

\* A batch from which a decoded message is returned first.
MessageFirst == ready # {} /\ incoming = << >>

FailureFirst == ready # {}

\* After a drain: a condition is an error and the buffered messages are
\* dropped; else the first message is returned.
decide ==
  /\ pc \in {"decide", "decide_more", "decide_last"}
  /\ \/ /\ FailureFirst
        /\ result' = choose /\ pc' = "returned"
        /\ ClearIncoming
        /\ UNCHANGED outstanding
     \/ /\ ~FailureFirst /\ incoming # << >>
        /\ result' = Head(incoming).message /\ pc' = "returned"
        /\ pop_incoming
        /\ outstanding' = Tail(outstanding)
     \/ /\ ~FailureFirst /\ incoming = << >>
        /\ CASE pc = "decide" -> pc' = "wait" /\ UNCHANGED result
             [] pc = "decide_more" ->
                  /\ pc' = IF is_mid_frame(decoder) /\ stdout # "seen" /\ ~expired
                           THEN "wait_more" ELSE "drain_last"
                  /\ UNCHANGED result
             [] pc = "decide_last" ->
                  pc' = "returned" /\ result' = Failure("deadline")
        /\ UNCHANGED <<incoming, buffered_bytes, outstanding>>
  /\ ready' = {} /\ observed' = 0
  /\ UNCHANGED <<process_vars, expired, decoder, correlator>>

\* ManagedProcess::next_event with an event, which is the first of the next
\* drain.
next_event ==
  /\ pc \in {"wait", "wait_more"}
  /\ EventReady
  /\ observe
  /\ pc' = "drain_more" /\ observed' = 1
  /\ UNCHANGED <<alive, expired, result, outstanding>>

next_event_deadline ==
  /\ pc \in {"wait", "wait_more"}
  /\ NothingYet /\ expired
  /\ pc' = IF pc = "wait" THEN "drain_more" ELSE "drain_last"
  /\ UNCHANGED <<process_vars, expired, rpc_vars, ready, observed, result,
                 outstanding>>

DeadlinePasses ==
  /\ ~expired /\ pc # "done"
  /\ expired' = TRUE
  /\ UNCHANGED <<pc, process_vars, rpc_vars, ready, observed, result,
                 outstanding>>

TransportStep ==
  \/ drain_observe \/ drain_done \/ probe_ready_event_overflow
  \/ decide \/ next_event \/ next_event_deadline

ServerStep == ServerWrites \/ ServerCloses \/ ServerExits \/ WorkerFails
=============================================================================
