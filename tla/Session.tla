------------------------------- MODULE Session -------------------------------
(***************************************************************************)
(* One read-only document-symbol session of crates/srcmv-lsp (session.rs,  *)
(* capabilities.rs) over the Transport: run_session walks through a fixed  *)
(* script of requests and notifications, answers the server's own requests *)
(* while it waits, and ends, successfully or with the first error.         *)
(***************************************************************************)
EXTENDS Transport, ByteCount

CONSTANTS
  Inputs,             \* inputs a caller may ask a session for
  ServerRequests,     \* SessionLimits
  Notifications,
  SourceBytes,
  OptionsBytes,
  SettingsBytes,
  ConfigurationItems,
  ConfigurationBytes,
  MaxOutboundBodyBytes

VARIABLES
  input,          \* source and options bytes, settings (a tree) or NoSettings
  step,           \* position in the script
  total_expired,  \* the deadline of the whole session has passed
  requests, notifications,  \* MessageCounters
  outcome         \* "running", "ok", or the error run_session returns

session_vars == <<input, step, total_expired, requests, notifications, outcome>>
vars == <<pc, process_vars, expired, rpc_vars, ready, observed, result,
          outstanding, session_vars>>

NoSettings == [bytes |-> 0]
Null == [kind |-> "null"]

-----------------------------------------------------------------------------
(* The script of run_active_session.  A phase starts with a new deadline,  *)
(* never later than the deadline of the session.                           *)

Ask(method, phase) == [do |-> "ask", method |-> method, phase |-> phase]
Tell(method, phase) == [do |-> "tell", method |-> method, phase |-> phase]

Script == <<Ask("initialize", 1), Tell("initialized", 1),
            Tell("didChangeConfiguration", 1),
            Tell("didOpen", 2), Ask("documentSymbol", 2), Tell("didClose", 2),
            Ask("shutdown", 3), Tell("exit", 3),
            [do |-> "finish", method |-> "finish", phase |-> 3]>>

Current == Script[step]

\* Settings are announced only when there are some.
AfterStep == IF Script[step + 1].method = "didChangeConfiguration"
                /\ input.settings = NoSettings
             THEN step + 2 ELSE step + 1

\* phase_deadline.
phase_deadline ==
  expired' = IF Script[AfterStep].phase # Current.phase THEN total_expired
             ELSE expired

Advance ==
  /\ step' = AfterStep /\ phase_deadline /\ pc' = "call"
  /\ UNCHANGED <<process_vars, outcome>>

Read == pc' = "drain" /\ UNCHANGED <<process_vars, expired, step, outcome>>

\* An error ends the session: run_session aborts the process, and its pipes
\* and the transport are dropped.
Abort(error) ==
  /\ outcome' = error /\ pc' = "done"
  /\ alive' = FALSE /\ pipe' = << >> /\ stdout' = "closed" /\ conditions' = {}
  /\ UNCHANGED <<step, expired>>

\* The transport after an action that leaves its buffers alone.
TransportKept ==
  /\ IF pc' = "done"
     THEN decoder' = InHeader(0) /\ ClearIncoming /\ outstanding' = << >>
     ELSE UNCHANGED <<decoder, incoming, buffered_bytes, outstanding>>
  /\ UNCHANGED <<ready, observed>>

-----------------------------------------------------------------------------
(* run_session: what is checked before a process exists.                   *)

serialized_len(value) == value.bytes

validate_input_limits(in) ==
  /\ in.source <= SourceBytes
  /\ in.options <= OptionsBytes
  /\ serialized_len(in.settings) <= SettingsBytes

\* Bytes of the didOpen message besides the source.
DidOpenOverhead == 1

\* The didOpen message carries the whole source and must fit in a frame.
preflight_did_open(in) == in.source + DidOpenOverhead <= MaxOutboundBodyBytes

run_session ==
  /\ pc = "start"
  /\ \/ /\ ~validate_input_limits(input)
        /\ Abort("ResourceLimit")
     \/ /\ validate_input_limits(input) /\ ~preflight_did_open(input)
        /\ Abort("Protocol")
     \/ /\ validate_input_limits(input) /\ preflight_did_open(input)
        /\ \/ pc' = "call" /\ UNCHANGED <<process_vars, expired, step, outcome>>
           \/ Abort("Process")
  /\ TransportKept
  /\ UNCHANGED <<input, total_expired, requests, notifications, correlator, result>>

-----------------------------------------------------------------------------
(* Sending.  The outbound byte budget is looked at first, then the         *)
(* deadline, then whether the stdin worker still takes frames.             *)

SendResults ==
  {"Process"} \cup
  IF expired THEN {"Timeout"}
  ELSE {"sent"} \cup (IF alive THEN {} ELSE {"Exited"})
       \cup (IF "stdin" \in conditions THEN {"StdinClosed"} ELSE {})

\* send_request: the identifier is pending before the frame is queued.
send_request ==
  /\ pc = "call" /\ Current.do = "ask"
  /\ correlator' = IF CanBegin(correlator) THEN begin_request(correlator)
                   ELSE correlator
  /\ \E sent \in IF CanBegin(correlator) THEN SendResults ELSE {"Protocol"} :
       IF sent = "sent"
       THEN Read
       ELSE Abort(sent)
  /\ TransportKept
  /\ UNCHANGED <<input, total_expired, requests, notifications, result>>

send_notification ==
  /\ pc = "call" /\ Current.do = "tell"
  /\ \E sent \in SendResults : IF sent = "sent" THEN Advance ELSE Abort(sent)
  /\ TransportKept
  /\ UNCHANGED <<input, total_expired, requests, notifications, correlator, result>>

\* Transport::finish, whose cleanup may fail.
finish ==
  /\ pc = "call" /\ Current.do = "finish"
  /\ \E end \in {"ok", "Process"} : Abort(end)
  /\ TransportKept
  /\ UNCHANGED <<input, total_expired, requests, notifications, correlator, result>>

-----------------------------------------------------------------------------
(* The server's requests.                                                  *)

\* configured_section: the settings an item names, NoSettings when there are none;
\* an item that names no section asks for all of them.
configured_section(item) ==
  FoldLeft(LAMBDA value, key :
             IF value # NoSettings /\ key \in DOMAIN value.members
             THEN value.members[key] ELSE NoSettings,
           input.settings, item.section)

\* The bytes of a configuration answer: brackets, commas, values or null.
AnswerBytes(items) ==
  FoldLeft(LAMBDA bytes, k :
             LET value == configured_section(items[k])
             IN  bytes + (IF k = 1 THEN 0 ELSE 1)
                 + (IF value = NoSettings THEN 4 ELSE serialized_len(value)),
           2, [k \in 1 .. Len(items) |-> k])

\* dispatch_server_request: the error it returns, or "reply".  Only
\* workspace/configuration can fail; an edit is refused and a method that is
\* not served is reported, both in a reply.
dispatch_server_request(request) ==
  LET items == request.body.items.list
  IN  IF request.method # "workspace/configuration" THEN "reply"
      ELSE IF ~request.body.items.array THEN "InvalidLspPayload"
      ELSE IF Len(items) > ConfigurationItems THEN "ResourceLimit"
      ELSE IF ConfigurationBytes < 2 THEN "ResourceLimit"
      ELSE LET bad == {k \in DOMAIN items :
                         \/ ~items[k].good
                         \/ AnswerBytes(SubSeq(items, 1, k)) > ConfigurationBytes}
               first == CHOOSE k \in bad : \A j \in bad : k <= j
           IN  IF bad = {} THEN "reply"
               ELSE IF ~items[first].good THEN "InvalidLspPayload"
               ELSE "ResourceLimit"

\* validate_initialize_result: symbols, open and close, a known encoding.
validate_initialize_result(value) ==
  /\ value.symbols
  /\ value.sync \in {"full", "incremental"}
  /\ value.encoding \in {"none", "utf-8", "utf-16", "utf-32"}

\* What becomes of the answer to the current request.
AnswerError(response) ==
  LET value == response.body.value
  IN  IF ~response.ok THEN "RequestFailed"
      ELSE IF Current.method = "initialize" /\ value.kind # "initialize"
           THEN "InvalidLspPayload"
      ELSE IF Current.method = "initialize" /\ ~validate_initialize_result(value)
           THEN "Capability"
      ELSE IF Current.method = "shutdown" /\ value # Null
           THEN "InvalidLspPayload"
      ELSE "none"

TransportErrorName(error) ==
  IF error = "deadline" THEN "Timeout" ELSE error

-----------------------------------------------------------------------------
(* await_response: one message, or the error of next_incoming.             *)

\* Awaiting without counting what the server sends unasked.
UnboundedNotification ==
  /\ result.kind = "notification"
  /\ Read /\ UNCHANGED <<requests, notifications>>

await_notification ==
  /\ result.kind = "notification"
  /\ notifications' = notifications + 1
  /\ IF notifications' > Notifications THEN Abort("ResourceLimit")
     ELSE Read
  /\ UNCHANGED requests

await_request ==
  /\ result.kind = "request"
  /\ requests' = requests + 1
  /\ LET dispatched == dispatch_server_request(result)
     IN  IF requests' > ServerRequests THEN Abort("ResourceLimit")
         ELSE IF dispatched # "reply" THEN Abort(dispatched)
         ELSE \E sent \in SendResults :
                IF sent = "sent"
                THEN Read
                ELSE Abort(sent)
  /\ UNCHANGED notifications

await_answer ==
  /\ result.kind = "response"
  /\ IF result.id # correlator.next_id - 1 THEN Abort("UnexpectedResponse")
     ELSE IF AnswerError(result) # "none" THEN Abort(AnswerError(result))
     ELSE Advance
  /\ UNCHANGED <<requests, notifications>>

await_error ==
  /\ result.kind = "error"
  /\ Abort(TransportErrorName(result.error))
  /\ UNCHANGED <<requests, notifications>>

await_response ==
  /\ pc = "returned"
  /\ await_notification \/ await_request \/ await_answer \/ await_error
  /\ result' = Nothing
  /\ TransportKept
  /\ UNCHANGED <<input, total_expired, correlator>>

-----------------------------------------------------------------------------
\* The deadline of the session is looked at only where a phase starts, after a
\* call that does not wait; passing earlier is passing there.
TotalDeadlinePasses ==
  /\ ~total_expired /\ pc = "call"
  /\ total_expired' = TRUE /\ expired' = TRUE
  /\ UNCHANGED <<pc, process_vars, rpc_vars, ready, observed, result,
                 outstanding, input, step, requests, notifications, outcome>>

Init ==
  /\ TransportInit /\ pc = "start"
  /\ input \in Inputs
  /\ step = 1 /\ total_expired = FALSE
  /\ requests = 0 /\ notifications = 0 /\ outcome = "running"

Client ==
  \/ run_session \/ send_request \/ send_notification \/ await_response \/ finish
  \/ TransportStep /\ UNCHANGED session_vars

Deadline == DeadlinePasses /\ UNCHANGED session_vars

\* The server acts while its process lives; the client never relies on it.
Server == pc \notin {"start", "done"} /\ ServerStep /\ UNCHANGED session_vars

Next == Client \/ Deadline \/ TotalDeadlinePasses \/ Server

Spec == Init /\ [][Next]_vars

\* Client is enabled: the thread blocks only in next_event.
ClientReady ==
  CASE pc = "done"                  -> FALSE
    [] pc \in {"wait", "wait_more"} -> EventReady \/ expired
    [] OTHER                        -> TRUE

\* The client is one thread that runs, and time passes: weak fairness of
\* Client and of Deadline.  It is written out because the client's steps, and
\* no others, change <<pc, observed>>, and Deadline is enabled exactly when
\* neither disjunct holds.
FairSpec ==
  /\ Spec
  /\ []<>~ClientReady \/ []<><<TRUE>>_<<pc, observed>>
  /\ []<>(expired \/ pc = "done")

-----------------------------------------------------------------------------
(***************************************************************************)
(* Properties.                                                             *)
(***************************************************************************)
Active == pc \notin {"start", "done"}
Awaited == correlator.next_id - 1
Messages == [k \in DOMAIN incoming |-> incoming[k].message]
Answers(messages) ==
  {k \in DOMAIN messages : messages[k].kind = "response" /\ messages[k].id = Awaited}

Lengths(entries) == [k \in DOMAIN entries |-> entries[k].bytes]

Failed == ready # {} \/ result.kind = "error"

\* What the server wrote is received as it was written, whatever chunks it
\* arrives in: the buffered messages are the oldest undelivered ones, in
\* order, unless the batch was given up for its size; none is missing once
\* all bytes were taken; and the stream is called broken only when it is, by
\* something malformed, an answer that is not awaited, or an end in the
\* middle (FrameDecoder::push, decode_chunk).
StreamPreserved ==
  Active =>
    /\ "integration" \notin ready => IsPrefix(Messages, outstanding)
    /\ pipe = << >> /\ ~is_mid_frame(decoder) /\ ~Failed => Messages = outstanding
    /\ "protocol" \in ready /\ stdout # "seen" =>
         \E k \in DOMAIN outstanding :
           \/ outstanding[k] = Invalid
           \/ /\ outstanding[k].kind = "response"
              /\ Answers(outstanding) # {k}

\* While the session waits for an answer, either the request is pending or
\* its one answer is buffered, never both and never neither; at any other
\* time nothing is pending, so the one slot of the correlator is free for the
\* next request (ResponseCorrelator::complete, send_request).
AnsweredOnce ==
  /\ Active /\ pc \notin {"call", "returned"} /\ ~Failed =>
       /\ correlator.pending \subseteq {Awaited}
       /\ Cardinality(Answers(Messages)) + Cardinality(correlator.pending) = 1
  /\ pc = "call" => correlator.pending = {}

\* The bytes accounted for the buffered messages are exactly theirs and stay
\* within the limit, so a limit is never hit by messages that were already
\* delivered (decode_chunk, pop_incoming, clear_incoming).
BufferAccounted ==
  /\ buffered_bytes = Total(Lengths(incoming))
  /\ buffered_bytes <= MaxBufferedBytes
  /\ Len(incoming) <= MaxBufferedMessages

\* An exit or the end of stdout, once taken from the process, is reported:
\* the session never goes on as if it had not happened, and an answer decoded
\* in the same batch does not hide it (ReadyBatch, choose).
FailureNotSwallowed ==
  Active /\ (stdout = "seen" \/ (~alive /\ "exit" \notin conditions)) => Failed

\* A timeout is reported only when a deadline has really passed: a frame that
\* arrives in pieces is waited for until then (next_incoming, is_mid_frame).
TimeoutGenuine ==
  result = Failure("deadline") \/ outcome = "Timeout" => expired

\* Every session ends, whatever the server does: it may fall silent, die, or
\* talk for ever (run_session).
SessionEnds == <>(pc = "done")
=============================================================================
