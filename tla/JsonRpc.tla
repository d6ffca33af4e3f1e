------------------------------- MODULE JsonRpc -------------------------------
(***************************************************************************)
(* Framing, envelope classification and response correlation of            *)
(* crates/srcmv-lsp (jsonrpc.rs).                                          *)
(*                                                                         *)
(* The bytes of a frame are tokens: a header byte, the end of a header     *)
(* with the Content-Length parse_header reads there, a header byte that    *)
(* parse_header or the ASCII check refuses, and the bytes of a body.  A    *)
(* body is a record of what classification tells apart:                    *)
(*   shape   "object", "array", "other", or "malformed" for a body that is *)
(*           too deep or no JSON                                           *)
(*   version the jsonrpc member is "2.0"                                   *)
(*   has     which of method, id, params, result, error it contains        *)
(*   good    which of them have the right type and size                    *)
(*   id, method, items  the values a client looks at                       *)
(***************************************************************************)
EXTENDS Integers, Sequences, FiniteSets, SequencesExt

CONSTANTS
  MaxHeaderBytes,        \* FramingLimits, in tokens
  MaxInboundBodyBytes,
  MaxPending             \* max_pending_requests

HeaderByte == [token |-> "header"]
BadByte == [token |-> "bad"]
HeaderEnd(length) == [token |-> "end", length |-> length]
BodyByte(body, k) == [token |-> "body", body |-> body, at |-> k]

\* A frame whose header is one byte and its end.
Frame(body) == <<HeaderByte, HeaderEnd(body.length)>>
               \o [k \in 1 .. body.length |-> BodyByte(body, k)]

-----------------------------------------------------------------------------
(* FrameDecoder.  The state is Header with the bytes seen, or Body with    *)
(* the bytes collected and the number expected.                            *)

InHeader(seen) == [in |-> "header", seen |-> seen, bytes |-> << >>, expected |-> 0]
InBody(bytes, expected) ==
  [in |-> "body", seen |-> 0, bytes |-> bytes, expected |-> expected]

\* A decoder that calls a frame begun only when its header is complete.
MidBody(decoder) == decoder.in = "body"

is_mid_frame(decoder) == decoder.in = "body" \/ decoder.seen > 0

EmptyBody == [shape |-> "malformed", length |-> 0]

\* The body whose bytes, complete and in order, were collected; anything else
\* does not decode.
BodyOf(bytes) ==
  IF bytes # << >> /\ \A k \in DOMAIN bytes :
       bytes[k].token = "body" /\ bytes[k] = BodyByte(bytes[1].body, k)
  THEN bytes[1].body ELSE EmptyBody

\* One byte of a header: the limit is checked before and after it.
HeaderStep(state, token) ==
  LET seen == state.decoder.seen + 1
  IN  IF \/ token.token \in {"bad", "body"}
         \/ token.token = "end" /\ token.length > MaxInboundBodyBytes
         \/ token.token # "end" /\ seen >= MaxHeaderBytes
      THEN [state EXCEPT !.ok = FALSE]
      ELSE IF token.token # "end"
      THEN [state EXCEPT !.decoder = InHeader(seen)]
      ELSE IF token.length = 0
      THEN [state EXCEPT !.decoder = InHeader(0), !.bodies = Append(@, EmptyBody)]
      ELSE [state EXCEPT !.decoder = InBody(<< >>, token.length)]

BodyStep(state, token) ==
  LET bytes == Append(state.decoder.bytes, token)
  IN  IF Len(bytes) = state.decoder.expected
      THEN [state EXCEPT !.decoder = InHeader(0),
                         !.bodies = Append(@, BodyOf(bytes))]
      ELSE [state EXCEPT !.decoder = InBody(bytes, state.decoder.expected)]

\* One byte, unless an earlier one was refused.
PushByte(state, token) ==
  IF ~state.ok THEN state
  ELSE IF state.decoder.in = "header" THEN HeaderStep(state, token)
  ELSE BodyStep(state, token)

\* A decoder that loses what it collected when a chunk ends inside a body.
PushForgetful(decoder, chunk) ==
  LET after[k \in 0 .. Len(chunk)] ==
        IF k = 0 THEN [ok |-> TRUE, bodies |-> << >>,
                       decoder |-> IF decoder.in = "body" THEN InHeader(0)
                                   ELSE decoder]
        ELSE PushByte(after[k - 1], chunk[k])
  IN  after[Len(chunk)]

\* push: the bodies a chunk completes, or an error that drops them.
push(decoder, chunk) ==
  LET after[k \in 0 .. Len(chunk)] ==
        IF k = 0 THEN [ok |-> TRUE, decoder |-> decoder, bodies |-> << >>]
        ELSE PushByte(after[k - 1], chunk[k])
  IN  after[Len(chunk)]

-----------------------------------------------------------------------------
Invalid == [kind |-> "invalid"]
Request(id, method, body) ==
  [kind |-> "request", id |-> id, method |-> method, body |-> body]
Notification(method) == [kind |-> "notification", method |-> method]
Response(id, ok, body) ==
  [kind |-> "response", id |-> id, ok |-> ok, body |-> body]

classify_request_or_notification(body) ==
  IF \/ body.has \cap {"result", "error"} # {}
     \/ "method" \notin body.good
     \/ {"params", "id"} \cap (body.has \ body.good) # {}
  THEN Invalid
  ELSE IF "id" \in body.has THEN Request(body.id, body.method, body)
  ELSE Notification(body.method)

classify_response(body) ==
  IF \/ "params" \in body.has
     \/ "id" \notin body.has \cap body.good
     \/ ("result" \in body.has) = ("error" \in body.has)
     \/ "error" \in body.has \ body.good
  THEN Invalid
  ELSE Response(body.id, "result" \in body.has, body)

\* decode_body and classify_message.
decode_body(body) ==
  IF body.shape # "object" \/ ~body.version THEN Invalid
  ELSE IF "method" \in body.has THEN classify_request_or_notification(body)
  ELSE classify_response(body)

-----------------------------------------------------------------------------
(* ResponseCorrelator: identifiers count up from one and are never reused. *)

NewCorrelator == [next_id |-> 1, pending |-> {}]

CanBegin(correlator) == Cardinality(correlator.pending) < MaxPending

begin_request(correlator) ==
  [next_id |-> correlator.next_id + 1,
   pending |-> correlator.pending \cup {correlator.next_id}]

\* An answer that stays pending.
CompleteKeeping(correlator, id) ==
  IF id \in correlator.pending THEN [ok |-> TRUE, correlator |-> correlator]
  ELSE [ok |-> FALSE, correlator |-> correlator]

\* complete: an answer that is not awaited is a duplicate or unknown, and
\* both are protocol errors.
complete(correlator, id) ==
  IF id \in correlator.pending
  THEN [ok |-> TRUE, correlator |-> [correlator EXCEPT !.pending = @ \ {id}]]
  ELSE [ok |-> FALSE, correlator |-> correlator]
=============================================================================
