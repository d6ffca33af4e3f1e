---------------------------- MODULE SessionProofs ----------------------------
(***************************************************************************)
(* Safety of a session over the transport, for all limits, all bodies a    *)
(* server may send, all inputs and all chunks the stream may arrive in.    *)
(***************************************************************************)
EXTENDS Session, SequenceLemmas

DrainPc == {"drain", "drain_more", "drain_last"}
DecidePc == {"decide", "decide_more", "decide_last"}
WaitPc == {"wait", "wait_more"}
AwaitPc == DrainPc \cup DecidePc \cup WaitPc
Class == {"protocol", "integration", "resource", "exit", "terminal", "io"}

\* What push takes and returns.
Token ==
  {HeaderByte, BadByte} \cup {HeaderEnd(length) : length \in Nat}
  \cup {BodyByte(body, k) : body \in Bodies, k \in Nat}
Decoder == [in : {"header", "body"}, seen : Nat, bytes : Seq(Token), expected : Nat]
AnyBody == Bodies \cup {EmptyBody}

\* What decode_chunk buffers.
Message == {decode_body(body) : body \in AnyBody} \ {Invalid}
Entry == [message : Message, bytes : Nat]
Correlator == [next_id : Nat, pending : SUBSET Nat]

-----------------------------------------------------------------------------
(***************************************************************************)
(* The inductive invariant.                                                *)
(***************************************************************************)
WireInv == pipe \in Seq(Token) /\ decoder \in Decoder

Accounted(entries, bytes) ==
  /\ bytes = Total(Lengths(entries))
  /\ bytes <= MaxBufferedBytes /\ Len(entries) <= MaxBufferedMessages

BufferInv ==
  incoming \in Seq(Entry) /\ buffered_bytes \in Nat /\ Accounted(incoming, buffered_bytes)

\* Conditions are collected while a batch is, and a result is there for the
\* session to look at.
BatchInv ==
  /\ pc \in {"start", "call", "returned", "done"} \cup AwaitPc
  /\ ready \subseteq Class /\ conditions \subseteq {"exit"} \cup Faults
  /\ ready # {} => pc \in DrainPc \cup DecidePc
  /\ result \in {Nothing} \cup {Failure(e) : e \in Class \cup {"deadline"}} \cup Message
  /\ pc # "returned" => result = Nothing

\* An exit or the end of stdout that was taken is in the batch, or returned.
Taken == stdout = "seen" \/ (~alive /\ "exit" \notin conditions)
TakenInv ==
  pc # "done" /\ Taken =>
    \/ pc \in DrainPc \cup DecidePc /\ ready # {}
    \/ pc = "returned" /\ result.kind = "error"

\* After an event that brought nothing a frame has begun, and the last drain
\* is the one after the deadline.
TimeInv ==
  /\ pc \in {"drain_more", "decide_more"} =>
       expired \/ ready # {} \/ incoming # << >> \/ is_mid_frame(decoder)
  /\ pc \in {"drain_last", "decide_last"} => expired
  /\ pc # "done" => outcome = "running"
  /\ result = Failure("deadline") \/ outcome = "Timeout" => expired

\* The awaited answer is pending, or buffered once; nothing else is either.
IsAnswer(entry) == entry.message.kind = "response"
NoAnswer(entries) == \A k \in DOMAIN entries : ~IsAnswer(entries[k])
OneAnswer(c, entries) ==
  \/ c.pending = {c.next_id - 1} /\ NoAnswer(entries)
  \/ /\ c.pending = {}
     /\ \E k \in DOMAIN entries :
          /\ IsAnswer(entries[k]) /\ entries[k].message.id = c.next_id - 1
          /\ \A j \in DOMAIN entries : IsAnswer(entries[j]) => j = k
NoneAwaited == correlator.pending = {} /\ NoAnswer(incoming)

AnswerInv ==
  /\ correlator \in Correlator
  /\ pc \in {"start", "call"} => NoneAwaited
  /\ pc \in AwaitPc /\ ready = {} => OneAnswer(correlator, incoming)
  /\ pc = "returned" /\ result.kind \in {"request", "notification"} =>
       OneAnswer(correlator, incoming)
  /\ pc = "returned" /\ result.kind = "response" => NoneAwaited

SInv == WireInv /\ BufferInv /\ BatchInv /\ TakenInv /\ TimeInv /\ AnswerInv

-----------------------------------------------------------------------------
(***************************************************************************)
(* Messages and tokens.                                                    *)
(***************************************************************************)
\* Every body classifies as one of the three kinds of message, or is invalid.
LEMMA MessageKinds ==
  ASSUME NEW body
  PROVE  \/ decode_body(body) = Invalid
         \/ decode_body(body).kind \in {"request", "notification", "response"}
<1>1. \/ classify_response(body) = Invalid
      \/ classify_response(body).kind = "response"
  BY DEF classify_response, Response
<1>2. \/ classify_request_or_notification(body) = Invalid
      \/ classify_request_or_notification(body).kind \in {"request", "notification"}
  BY DEF classify_request_or_notification, Request, Notification
<1> QED  BY <1>1, <1>2 DEF decode_body

\* What is buffered is no error and no mark of an empty result.
LEMMA BufferedKinds ==
  ASSUME NEW m \in Message
  PROVE  /\ m.kind \in {"request", "notification", "response"}
         /\ m # Nothing /\ \A e : m # Failure(e)
<1>1. PICK body \in AnyBody : m = decode_body(body) /\ m # Invalid
  BY DEF Message
<1>2. m.kind \in {"request", "notification", "response"}
  BY <1>1, MessageKinds
<1> QED  BY <1>2 DEF Nothing, Failure

LEMMA TokenFields ==
  ASSUME NEW t \in Token
  PROVE  /\ t.token \in {"header", "bad", "end", "body"}
         /\ t.token = "end" => t.length \in Nat
         /\ t.token = "body" => t.body \in Bodies
<1>1. CASE t \in {HeaderByte, BadByte}
  BY <1>1 DEF HeaderByte, BadByte
<1>2. CASE \E length \in Nat : t = HeaderEnd(length)
  BY <1>2 DEF HeaderEnd
<1>3. CASE \E body \in Bodies, k \in Nat : t = BodyByte(body, k)
  BY <1>3 DEF BodyByte
<1> QED  BY <1>1, <1>2, <1>3 DEF Token

LEMMA BodyOfType ==
  ASSUME NEW bytes \in Seq(Token)
  PROVE  BodyOf(bytes) \in AnyBody
<1>1. CASE bytes # << >> /\ bytes[1].token = "body"
  <2>1. bytes[1] \in Token
    BY <1>1
  <2>2. bytes[1].body \in Bodies
    BY <1>1, <2>1, TokenFields
  <2> QED  BY <2>2 DEF BodyOf, AnyBody
<1>2. CASE ~(bytes # << >> /\ bytes[1].token = "body")
  <2>1. BodyOf(bytes) = EmptyBody
    BY <1>2 DEF BodyOf
  <2> QED  BY <2>1 DEF AnyBody
<1> QED  BY <1>1, <1>2

\* What a server writes are tokens.
LEMMA WritesTokens ==
  /\ \A body \in Bodies : Frame(body) \in Seq(Token)
  /\ Unframed \subseteq Seq(Token)
<1>1. ASSUME NEW body \in Bodies
      PROVE  Frame(body) \in Seq(Token)
  <2>1. body.length \in Nat
    BY TransportAssumption
  <2>2. <<HeaderByte, HeaderEnd(body.length)>> \in Seq(Token)
    <3>1. HeaderByte \in Token /\ HeaderEnd(body.length) \in Token
      BY <2>1 DEF Token
    <3> QED  BY <3>1
  <2>3. \A k \in 1 .. body.length : BodyByte(body, k) \in Token
    BY DEF Token
  <2>4. [k \in 1 .. body.length |-> BodyByte(body, k)] \in Seq(Token)
    BY <2>1, <2>3
  <2> QED  BY <2>2, <2>4 DEF Frame
<1>2. WireByte \subseteq Token
  <2>1. ASSUME NEW t \in WireByte
        PROVE  t \in Token
    <3>1. CASE t \in {HeaderByte, BadByte}
      BY <3>1 DEF Token
    <3>2. CASE \E length \in 0 .. MaxInboundBodyBytes + 1 : t = HeaderEnd(length)
      <4>1. PICK length \in 0 .. MaxInboundBodyBytes + 1 : t = HeaderEnd(length)
        BY <3>2
      <4>2. length \in Nat
        OBVIOUS
      <4> QED  BY <4>1, <4>2 DEF Token
    <3>3. CASE \E body \in Bodies : \E k \in 1 .. body.length : t = BodyByte(body, k)
      BY <3>3 DEF Token
    <3> QED  BY <2>1, <3>1, <3>2, <3>3 DEF WireByte
  <2> QED  BY <2>1
<1>3. Unframed \subseteq Seq(Token)
  BY <1>2, TransportAssumption
<1> QED  BY <1>1, <1>3

-----------------------------------------------------------------------------
(***************************************************************************)
(* The frame decoder.                                                      *)
(***************************************************************************)
PushState == [ok : BOOLEAN, decoder : Decoder, bodies : Seq(AnyBody)]

\* Either a body is complete or a frame has begun.
Begun(state) == state.ok /\ state.bodies = << >> => is_mid_frame(state.decoder)

LEMMA DecoderTypes ==
  /\ \A seen \in Nat : InHeader(seen) \in Decoder
  /\ \A bytes \in Seq(Token), expected \in Nat : InBody(bytes, expected) \in Decoder
BY DEF InHeader, InBody, Decoder

LEMMA PushByteType ==
  ASSUME NEW s \in PushState, NEW t \in Token
  PROVE  PushByte(s, t) \in PushState /\ Begun(PushByte(s, t))
<1>1. CASE ~s.ok
  <2>1. PushByte(s, t) = s
    BY <1>1 DEF PushByte
  <2> QED  BY <1>1, <2>1 DEF Begun
<1>2. CASE s.ok /\ s.decoder.in = "header"
  <2> DEFINE seen == s.decoder.seen + 1
             done == [s EXCEPT !.decoder = InHeader(0), !.bodies = Append(@, EmptyBody)]
  <2>1. s.decoder \in Decoder /\ seen \in Nat /\ seen > 0 /\ s.bodies \in Seq(AnyBody)
    BY DEF PushState, Decoder
  <2>2. PushByte(s, t) = HeaderStep(s, t)
    BY <1>2 DEF PushByte
  <2>3. \/ HeaderStep(s, t) = [s EXCEPT !.ok = FALSE]
        \/ HeaderStep(s, t) = done
        \/ /\ t.token = "end"
           /\ HeaderStep(s, t) = [s EXCEPT !.decoder = InBody(<< >>, t.length)]
        \/ HeaderStep(s, t) = [s EXCEPT !.decoder = InHeader(seen)]
    BY DEF HeaderStep
  <2>4. CASE HeaderStep(s, t) = [s EXCEPT !.ok = FALSE]
    BY <2>2, <2>4 DEF PushState, Begun
  <2>5. CASE HeaderStep(s, t) = done
    <3>1. InHeader(0) \in Decoder
      BY DecoderTypes
    <3>2. Append(s.bodies, EmptyBody) \in Seq(AnyBody) /\ Append(s.bodies, EmptyBody) # << >>
      BY <2>1 DEF AnyBody
    <3>3. done \in PushState /\ done.bodies = Append(s.bodies, EmptyBody)
      BY <3>1, <3>2 DEF PushState
    <3> QED  BY <2>2, <2>5, <3>2, <3>3 DEF Begun
  <2>6. CASE /\ t.token = "end"
             /\ HeaderStep(s, t) = [s EXCEPT !.decoder = InBody(<< >>, t.length)]
    <3>1. t.length \in Nat
      BY <2>6, TokenFields
    <3>2. << >> \in Seq(Token)
      OBVIOUS
    <3>3. InBody(<< >>, t.length) \in Decoder
      BY <3>1, <3>2, DecoderTypes
    <3>4. InBody(<< >>, t.length).in = "body"
      BY DEF InBody
    <3> QED  BY <2>2, <2>6, <3>3, <3>4 DEF PushState, Begun, is_mid_frame
  <2>7. CASE HeaderStep(s, t) = [s EXCEPT !.decoder = InHeader(seen)]
    <3>1. InHeader(seen) \in Decoder /\ InHeader(seen).seen > 0
      BY <2>1, DecoderTypes DEF InHeader
    <3> QED  BY <2>2, <2>7, <3>1 DEF PushState, Begun, is_mid_frame
  <2> HIDE DEF seen, done
  <2> QED  BY <2>3, <2>4, <2>5, <2>6, <2>7
<1>3. CASE s.ok /\ s.decoder.in # "header"
  <2> DEFINE bytes == Append(s.decoder.bytes, t)
             body == BodyOf(bytes)
  <2>1. /\ s.decoder \in Decoder /\ s.decoder.expected \in Nat
        /\ bytes \in Seq(Token) /\ s.bodies \in Seq(AnyBody)
    BY DEF PushState, Decoder
  <2>2. PushByte(s, t) = BodyStep(s, t)
    BY <1>3 DEF PushByte
  <2>3. \/ BodyStep(s, t) = [s EXCEPT !.decoder = InHeader(0), !.bodies = Append(@, body)]
        \/ BodyStep(s, t) = [s EXCEPT !.decoder = InBody(bytes, s.decoder.expected)]
    BY DEF BodyStep
  <2>4. body \in AnyBody
    <3> HIDE DEF bytes
    <3> QED  BY <2>1, BodyOfType
  <2> HIDE DEF body, bytes
  <2>5. CASE BodyStep(s, t) = [s EXCEPT !.decoder = InHeader(0), !.bodies = Append(@, body)]
    <3>1. InHeader(0) \in Decoder
      BY DecoderTypes
    <3>2. s.bodies \in Seq(AnyBody) /\ body \in AnyBody
      BY <2>1, <2>4
    <3>3. Append(s.bodies, body) \in Seq(AnyBody)
      BY <3>2
    <3>4. Append(s.bodies, body) # << >>
      BY <3>2
    <3> QED  BY <2>2, <2>5, <3>1, <3>3, <3>4 DEF PushState, Begun
  <2>6. CASE BodyStep(s, t) = [s EXCEPT !.decoder = InBody(bytes, s.decoder.expected)]
    <3>1. /\ InBody(bytes, s.decoder.expected) \in Decoder
          /\ InBody(bytes, s.decoder.expected).in = "body"
      BY <2>1, DecoderTypes DEF InBody
    <3> QED  BY <2>2, <2>6, <3>1 DEF PushState, Begun, is_mid_frame
  <2> QED  BY <2>3, <2>5, <2>6
<1> QED  BY <1>1, <1>2, <1>3 DEF PushState

\* push as a run: the state after each byte.
PushRun(run, d, chunk) ==
  /\ run \in [0 .. Len(chunk) -> PushState]
  /\ run[0] = [ok |-> TRUE, decoder |-> d, bodies |-> << >>]
  /\ \A k \in 1 .. Len(chunk) : run[k] = PushByte(run[k - 1], chunk[k])

LEMMA PushRuns ==
  ASSUME NEW d \in Decoder, NEW chunk \in Seq(Token)
  PROVE  \E run : PushRun(run, d, chunk) /\ push(d, chunk) = run[Len(chunk)]
<1> DEFINE n == Len(chunk)
           start == [ok |-> TRUE, decoder |-> d, bodies |-> << >>]
           Eq(f) == f = [k \in 0 .. n |-> IF k = 0 THEN start
                                          ELSE PushByte(f[k - 1], chunk[k])]
           g == CHOOSE f : Eq(f)
           next == [p \in PushState \X (1 .. n) |-> PushByte(p[1], chunk[p[2]])]
<1>1. n \in Nat /\ \A k \in 1 .. n : chunk[k] \in Token
  OBVIOUS
<1>2. start \in PushState
  BY DEF PushState
<1>3. next \in [PushState \X (1 .. n) -> PushState]
  BY <1>1, PushByteType
<1>4. \A s \in PushState, k \in 1 .. n : next[<<s, k>>] = PushByte(s, chunk[k])
  OBVIOUS
<1>5. push(d, chunk) = g[n]
  BY Zenon DEF push
<1> HIDE DEF n, start, next
<1>6. PICK r \in [0 .. n -> PushState] : IsRun(r, start, next, n)
  <2>1. n \in Nat
    BY <1>1
  <2> HIDE DEF Eq, g
  <2> QED  BY <2>1, <1>2, <1>3, RunExists, Zenon
<1>7. Eq(r)
  <2>1. ASSUME NEW k \in 0 .. n
        PROVE  r[k] = IF k = 0 THEN start ELSE PushByte(r[k - 1], chunk[k])
    <3>1. CASE k = 0
      BY <3>1, <1>6 DEF IsRun
    <3>2. CASE k # 0
      <4>1. k \in 1 .. n /\ k - 1 \in 0 .. n
        BY <3>2, <1>1
      <4>2. r[k - 1] \in PushState
        BY <4>1
      <4> QED  BY <3>2, <4>1, <4>2, <1>4, <1>6 DEF IsRun
    <3> QED  BY <3>1, <3>2
  <2> QED  BY <2>1
<1>8. Eq(g)
  <2> HIDE DEF Eq
  <2> QED  BY <1>7, Zenon
<1> HIDE DEF g
<1>9. g[0] = start /\ \A k \in 1 .. n : g[k] = PushByte(g[k - 1], chunk[k])
  BY <1>1, <1>8
<1>10. \A k \in 1 .. n : g[k - 1] \in PushState => g[k] \in PushState
  BY <1>1, <1>9, PushByteType
<1>11. \A k \in 0 .. n : g[k] \in PushState
  BY <1>1, <1>2, <1>9, <1>10, RunStays
<1>12. g \in [0 .. n -> PushState]
  <2>1. \E h : g = [k \in 0 .. n |-> h[k]]
    BY <1>8
  <2> QED  BY <1>11, <2>1
<1>13. PushRun(g, d, chunk)
  BY <1>9, <1>12 DEF PushRun, n, start
<1> QED  BY <1>5, <1>13 DEF n

LEMMA PushStates ==
  ASSUME NEW d \in Decoder, NEW chunk \in Seq(Token)
  PROVE  push(d, chunk) \in PushState
<1>1. PICK run : PushRun(run, d, chunk) /\ push(d, chunk) = run[Len(chunk)]
  BY PushRuns
<1>2. Len(chunk) \in 0 .. Len(chunk)
  OBVIOUS
<1> QED  BY <1>1, <1>2 DEF PushRun

\* FrameDecoder::push, however the stream is cut into chunks.
LEMMA PushType ==
  ASSUME NEW d \in Decoder, NEW chunk \in Seq(Token), chunk # << >>
  PROVE  push(d, chunk) \in PushState /\ Begun(push(d, chunk))
<1> DEFINE n == Len(chunk)
<1>1. n \in 1 .. n /\ n - 1 \in 0 .. n /\ chunk[n] \in Token
  OBVIOUS
<1>2. PICK run : PushRun(run, d, chunk) /\ push(d, chunk) = run[n]
  BY PushRuns
<1> HIDE DEF n
<1>3. run[n - 1] \in PushState /\ run[n] = PushByte(run[n - 1], chunk[n])
  BY <1>1, <1>2 DEF PushRun, n
<1> QED  BY <1>1, <1>2, <1>3, PushByteType

-----------------------------------------------------------------------------
(***************************************************************************)
(* The buffer of messages.                                                 *)
(***************************************************************************)
LEMMA LengthsType ==
  ASSUME NEW entries \in Seq(Entry)
  PROVE  Lengths(entries) \in Seq(Nat) /\ Len(Lengths(entries)) = Len(entries)
<1>1. DOMAIN entries = 1 .. Len(entries) /\ Len(entries) \in Nat
  OBVIOUS
<1>2. \A k \in 1 .. Len(entries) : entries[k] \in Entry
  OBVIOUS
<1>3. \A k \in 1 .. Len(entries) : entries[k].bytes \in Nat
  BY <1>2 DEF Entry
<1>4. Lengths(entries) = [k \in 1 .. Len(entries) |-> entries[k].bytes]
  BY <1>1 DEF Lengths
<1> QED  BY <1>1, <1>3, <1>4

LEMMA EmptyAccounted == Accounted(<< >>, 0)
<1>1. Lengths(<< >>) = << >>
  BY DEF Lengths
<1>2. MaxBufferedBytes \in Nat /\ MaxBufferedMessages \in Nat
  BY TransportAssumption
<1> QED  BY <1>1, <1>2, TotalEmpty DEF Accounted

LEMMA AccountedAppend ==
  ASSUME NEW entries \in Seq(Entry), NEW bytes \in Nat, NEW entry \in Entry,
         Accounted(entries, bytes)
  PROVE  bytes + entry.bytes = Total(Lengths(Append(entries, entry)))
<1>1. Lengths(entries) \in Seq(Nat) /\ entry.bytes \in Nat
  BY LengthsType DEF Entry
<1>2. Lengths(Append(entries, entry)) = Append(Lengths(entries), entry.bytes)
  BY DEF Lengths
<1>3. Total(Append(Lengths(entries), entry.bytes)) = Total(Lengths(entries)) + entry.bytes
  BY <1>1, TotalAppend
<1> QED  BY <1>2, <1>3 DEF Accounted

LEMMA AccountedTail ==
  ASSUME NEW entries \in Seq(Entry), NEW bytes \in Nat, entries # << >>,
         Accounted(entries, bytes)
  PROVE  /\ Tail(entries) \in Seq(Entry)
         /\ bytes - Head(entries).bytes \in Nat
         /\ Accounted(Tail(entries), bytes - Head(entries).bytes)
<1> DEFINE sizes == Lengths(entries)
           rest == Total(Tail(sizes))
           head == Head(entries).bytes
<1>1. sizes \in Seq(Nat) /\ Len(sizes) = Len(entries) /\ sizes # << >>
  BY LengthsType
<1>2. Tail(entries) \in Seq(Entry) /\ Len(Tail(entries)) = Len(entries) - 1
      /\ \A k \in 1 .. Len(entries) - 1 : Tail(entries)[k] = entries[k + 1]
  OBVIOUS
<1>3. Head(sizes) = head /\ head \in Nat
  BY <1>1 DEF Lengths, Entry
<1>4. Lengths(Tail(entries)) = Tail(sizes)
  BY <1>1, <1>2 DEF Lengths
<1>5. Tail(sizes) \in Seq(Nat)
  BY <1>1
<1>6. rest \in Nat
  BY <1>5, BytesFinite
<1>7. bytes = head + rest
  <2>1. Total(sizes) = Head(sizes) + Total(Tail(sizes))
    BY <1>1, TotalTail
  <2> QED  BY <2>1, <1>3 DEF Accounted
<1>8. MaxBufferedBytes \in Nat /\ MaxBufferedMessages \in Nat
  BY TransportAssumption
<1>9. bytes <= MaxBufferedBytes /\ Len(entries) <= MaxBufferedMessages
  BY DEF Accounted
<1>10. Lengths(Tail(entries)) = Tail(sizes) /\ Total(Tail(sizes)) = rest
  BY <1>4
<1> HIDE DEF sizes, rest, head
<1>11. bytes - head = rest /\ rest <= MaxBufferedBytes
       /\ Len(Tail(entries)) <= MaxBufferedMessages
  BY <1>2, <1>3, <1>6, <1>7, <1>8, <1>9
<1>12. Accounted(Tail(entries), bytes - head)
  BY <1>10, <1>11 DEF Accounted
<1> QED  BY <1>2, <1>6, <1>11, <1>12 DEF head

-----------------------------------------------------------------------------
(***************************************************************************)
(* The awaited answer.                                                     *)
(***************************************************************************)
LEMMA OneAnswerKept ==
  ASSUME NEW c \in Correlator, NEW entries \in Seq(Entry), NEW entry \in Entry,
         OneAnswer(c, entries), ~IsAnswer(entry)
  PROVE  OneAnswer(c, Append(entries, entry))
<1> DEFINE more == Append(entries, entry)
<1>1. /\ DOMAIN more = 1 .. Len(entries) + 1 /\ DOMAIN entries = 1 .. Len(entries)
      /\ more[Len(entries) + 1] = entry
      /\ \A k \in 1 .. Len(entries) : more[k] = entries[k]
      /\ Len(entries) \in Nat
  OBVIOUS
<1>2. \A k \in DOMAIN more : IsAnswer(more[k]) => k \in DOMAIN entries /\ more[k] = entries[k]
  BY <1>1
<1> HIDE DEF more
<1>3. CASE c.pending = {c.next_id - 1} /\ NoAnswer(entries)
  BY <1>2, <1>3 DEF NoAnswer, OneAnswer, more
<1>4. CASE /\ c.pending = {}
           /\ \E k \in DOMAIN entries :
                /\ IsAnswer(entries[k]) /\ entries[k].message.id = c.next_id - 1
                /\ \A j \in DOMAIN entries : IsAnswer(entries[j]) => j = k
  <2>1. PICK k \in DOMAIN entries :
               /\ IsAnswer(entries[k]) /\ entries[k].message.id = c.next_id - 1
               /\ \A j \in DOMAIN entries : IsAnswer(entries[j]) => j = k
    BY <1>4
  <2>2. k \in DOMAIN more /\ more[k] = entries[k]
    BY <1>1
  <2>3. \A j \in DOMAIN more : IsAnswer(more[j]) => j = k
    BY <1>2, <2>1
  <2> QED  BY <1>4, <2>1, <2>2, <2>3 DEF OneAnswer, more
<1> QED  BY <1>3, <1>4 DEF OneAnswer

LEMMA OneAnswerArrives ==
  ASSUME NEW c \in Correlator, NEW entries \in Seq(Entry), NEW entry \in Entry,
         OneAnswer(c, entries), IsAnswer(entry), entry.message.id \in c.pending
  PROVE  OneAnswer([c EXCEPT !.pending = @ \ {entry.message.id}], Append(entries, entry))
<1> DEFINE more == Append(entries, entry)
           d == [c EXCEPT !.pending = @ \ {entry.message.id}]
<1>1. /\ DOMAIN more = 1 .. Len(entries) + 1 /\ DOMAIN entries = 1 .. Len(entries)
      /\ more[Len(entries) + 1] = entry
      /\ \A k \in 1 .. Len(entries) : more[k] = entries[k]
      /\ Len(entries) \in Nat
  OBVIOUS
<1>2. c.pending = {c.next_id - 1} /\ NoAnswer(entries)
  BY DEF OneAnswer
<1>3. entry.message.id = c.next_id - 1
  BY <1>2
<1>4. d.pending = {} /\ d.next_id = c.next_id
  BY <1>2, <1>3 DEF Correlator
<1>5. \A j \in DOMAIN more : IsAnswer(more[j]) => j = Len(entries) + 1
  BY <1>1, <1>2 DEF NoAnswer
<1>6. Len(entries) + 1 \in DOMAIN more
  BY <1>1
<1> HIDE DEF more, d
<1> QED  BY <1>1, <1>3, <1>4, <1>5, <1>6 DEF OneAnswer, more, d

\* A message that leaves the buffer.
LEMMA OneAnswerTail ==
  ASSUME NEW c \in Correlator, NEW entries \in Seq(Entry), entries # << >>,
         OneAnswer(c, entries)
  PROVE  IF IsAnswer(Head(entries))
         THEN /\ Head(entries).message.id = c.next_id - 1
              /\ c.pending = {} /\ NoAnswer(Tail(entries))
         ELSE OneAnswer(c, Tail(entries))
<1> DEFINE rest == Tail(entries)
<1>1. /\ DOMAIN rest = 1 .. Len(entries) - 1 /\ DOMAIN entries = 1 .. Len(entries)
      /\ Head(entries) = entries[1] /\ 1 \in DOMAIN entries
      /\ \A k \in 1 .. Len(entries) - 1 : rest[k] = entries[k + 1]
      /\ Len(entries) \in Nat
  OBVIOUS
<1>2. \A k \in DOMAIN rest : k + 1 \in DOMAIN entries /\ rest[k] = entries[k + 1]
  BY <1>1
<1> HIDE DEF rest
<1>3. CASE c.pending = {c.next_id - 1} /\ NoAnswer(entries)
  <2>1. ~IsAnswer(Head(entries)) /\ NoAnswer(rest)
    BY <1>1, <1>2, <1>3 DEF NoAnswer
  <2> QED  BY <1>3, <2>1 DEF OneAnswer, rest
<1>4. CASE /\ c.pending = {}
           /\ \E k \in DOMAIN entries :
                /\ IsAnswer(entries[k]) /\ entries[k].message.id = c.next_id - 1
                /\ \A j \in DOMAIN entries : IsAnswer(entries[j]) => j = k
  <2>1. PICK k \in DOMAIN entries :
               /\ IsAnswer(entries[k]) /\ entries[k].message.id = c.next_id - 1
               /\ \A j \in DOMAIN entries : IsAnswer(entries[j]) => j = k
    BY <1>4
  <2>2. CASE k = 1
    <3>1. \A j \in DOMAIN rest : ~IsAnswer(rest[j])
      <4> SUFFICES ASSUME NEW j \in DOMAIN rest, IsAnswer(rest[j])
                   PROVE  FALSE
        OBVIOUS
      <4>1. j + 1 \in DOMAIN entries /\ IsAnswer(entries[j + 1])
        BY <1>2
      <4>2. j + 1 = 1 /\ j \in Nat /\ j > 0
        BY <4>1, <2>1, <2>2, <1>1
      <4> QED  BY <4>2
    <3> QED  BY <1>1, <1>4, <2>1, <2>2, <3>1 DEF NoAnswer, rest
  <2>3. CASE k # 1
    <3>1. ~IsAnswer(Head(entries))
      BY <1>1, <2>1, <2>3
    <3>2. k - 1 \in DOMAIN rest /\ rest[k - 1] = entries[k]
      BY <1>1, <2>3
    <3>3. \A j \in DOMAIN rest : IsAnswer(rest[j]) => j = k - 1
      <4> SUFFICES ASSUME NEW j \in DOMAIN rest, IsAnswer(rest[j])
                   PROVE  j = k - 1
        OBVIOUS
      <4>1. j + 1 \in DOMAIN entries /\ IsAnswer(entries[j + 1])
        BY <1>2
      <4>2. j + 1 = k
        BY <4>1, <2>1
      <4>3. j \in Nat
        BY <1>1
      <4> QED  BY <4>2, <4>3
    <3>4. \E i \in DOMAIN rest :
            /\ IsAnswer(rest[i]) /\ rest[i].message.id = c.next_id - 1
            /\ \A j \in DOMAIN rest : IsAnswer(rest[j]) => j = i
      BY <3>2, <3>3, <2>1
    <3> QED  BY <1>4, <3>1, <3>4 DEF OneAnswer, rest
  <2> QED  BY <2>2, <2>3
<1> QED  BY <1>3, <1>4 DEF OneAnswer

-----------------------------------------------------------------------------
(***************************************************************************)
(* decode_chunk.                                                           *)
(***************************************************************************)
\* What holds while the bodies of a chunk are decoded, starting with the
\* conditions R.
DecodeRecord == [correlator : Correlator, incoming : Seq(Entry), bytes : Nat,
                 ready : SUBSET Class, stop : BOOLEAN]
DecodeState(R) ==
  {s \in DecodeRecord :
     /\ R \subseteq s.ready /\ (s.stop => s.ready # {})
     /\ Accounted(s.incoming, s.bytes)
     /\ s.ready = {} => OneAnswer(s.correlator, s.incoming)}

LEMMA OverflowedType ==
  ASSUME NEW s \in DecodeRecord
  PROVE  /\ Overflowed(s).incoming = << >> /\ Overflowed(s).bytes = 0
         /\ Overflowed(s).ready = s.ready \cup {"integration"}
         /\ Overflowed(s) \in DecodeRecord
<1>1. /\ Overflowed(s).incoming = << >> /\ Overflowed(s).bytes = 0
      /\ Overflowed(s).ready = s.ready \cup {"integration"}
  BY DEF Overflowed, DecodeRecord
<1>2. << >> \in Seq(Entry) /\ s.ready \cup {"integration"} \in SUBSET Class
  BY DEF DecodeRecord, Class
<1>3. ASSUME NEW i \in Seq(Entry), NEW c \in SUBSET Class
      PROVE  [s EXCEPT !.incoming = i, !.bytes = 0, !.ready = c, !.stop = TRUE]
               \in DecodeRecord
  BY DEF DecodeRecord
<1> QED  BY <1>1, <1>2, <1>3 DEF Overflowed

LEMMA DecodeBodyType ==
  ASSUME NEW R \in SUBSET Class, NEW s \in DecodeState(R), NEW body \in AnyBody
  PROVE  /\ DecodeBody(s, body) \in DecodeState(R)
         /\ DecodeBody(s, body).ready # {} \/ DecodeBody(s, body).incoming # << >>
<1> DEFINE message == decode_body(body)
           answered == message.kind = "response"
           completed == complete(s.correlator, message.id)
           entry == [message |-> message, bytes |-> body.length]
           kept == [s EXCEPT !.correlator = IF answered THEN completed.correlator ELSE @,
                             !.bytes = s.bytes + body.length,
                             !.incoming = Append(@, entry)]
           failed == [s EXCEPT !.ready = @ \cup {"protocol"}, !.stop = TRUE]
<1>1. /\ s.correlator \in Correlator /\ s.incoming \in Seq(Entry) /\ s.bytes \in Nat
      /\ s.ready \subseteq Class /\ R \subseteq s.ready
      /\ s.stop => s.ready # {}
      /\ Accounted(s.incoming, s.bytes)
      /\ s.ready = {} => OneAnswer(s.correlator, s.incoming)
  BY DEF DecodeState, DecodeRecord
<1>2. CASE s.stop
  <2>1. DecodeBody(s, body) = s
    BY <1>2 DEF DecodeBody
  <2> QED  BY <1>1, <1>2, <2>1
<1>3. CASE ~s.stop /\ (message = Invalid \/ (answered /\ ~completed.ok))
  <2>1. DecodeBody(s, body) = failed
    BY <1>3 DEF DecodeBody
  <2>2. /\ failed.correlator = s.correlator /\ failed.incoming = s.incoming
        /\ failed.bytes = s.bytes /\ failed.ready = s.ready \cup {"protocol"}
        /\ failed \in DecodeRecord
    BY DEF DecodeState, DecodeRecord, Class
  <2> HIDE DEF failed
  <2> QED  BY <1>1, <2>1, <2>2 DEF DecodeState
<1>4. CASE ~s.stop /\ message # Invalid /\ ~(answered /\ ~completed.ok)
  <2>1. body.length \in Nat
    BY TransportAssumption DEF AnyBody, EmptyBody
  <2>2. message \in Message
    BY <1>4 DEF Message
  <2>3. entry \in Entry /\ entry.bytes = body.length /\ entry.message = message
    BY <2>1, <2>2 DEF Entry
  <2>4. /\ kept.incoming = Append(s.incoming, entry) /\ kept.ready = s.ready
        /\ kept.stop = s.stop /\ kept.bytes = s.bytes + body.length
        /\ kept.correlator = IF answered THEN completed.correlator ELSE s.correlator
    BY DEF DecodeState, DecodeRecord
  <2>5. answered => /\ message.id \in s.correlator.pending
                    /\ completed.correlator
                         = [s.correlator EXCEPT !.pending = @ \ {message.id}]
    BY <1>4 DEF complete
  <2>6. kept.correlator \in Correlator
    BY <1>1, <2>4, <2>5 DEF Correlator
  <2>7. Append(s.incoming, entry) \in Seq(Entry) /\ Append(s.incoming, entry) # << >>
        /\ s.bytes + body.length \in Nat
    BY <1>1, <2>1, <2>3
  <2>8. kept \in DecodeRecord
    <3>1. ASSUME NEW c \in Correlator, NEW i \in Seq(Entry), NEW b \in Nat
          PROVE  [s EXCEPT !.correlator = c, !.bytes = b, !.incoming = i] \in DecodeRecord
      BY DEF DecodeState, DecodeRecord
    <3>2. (IF answered THEN completed.correlator ELSE s.correlator) \in Correlator
      BY <2>4, <2>6
    <3> HIDE DEF entry, answered, completed
    <3> QED  BY <2>7, <3>1, <3>2
  <2>9. s.bytes + body.length = Total(Lengths(Append(s.incoming, entry)))
    <3> HIDE DEF entry
    <3> QED  BY <1>1, <2>3, AccountedAppend
  <2>10. CASE \/ s.bytes + body.length > MaxBufferedBytes
              \/ Len(kept.incoming) > MaxBufferedMessages
    <3> DEFINE over == Overflowed(kept)
    <3>1. DecodeBody(s, body) = over
      BY <1>4, <2>10 DEF DecodeBody
    <3> HIDE DEF kept, entry, message, answered, completed
    <3>2. /\ over.incoming = << >> /\ over.bytes = 0
          /\ over.ready = s.ready \cup {"integration"}
          /\ over \in DecodeRecord
      BY <2>4, <2>8, OverflowedType
    <3> HIDE DEF over
    <3> QED  BY <1>1, <3>1, <3>2, EmptyAccounted DEF DecodeState
  <2>11. CASE ~(\/ s.bytes + body.length > MaxBufferedBytes
                \/ Len(kept.incoming) > MaxBufferedMessages)
    <3>1. DecodeBody(s, body) = kept
      BY <1>4, <2>11 DEF DecodeBody
    <3>2. Accounted(kept.incoming, kept.bytes)
      <4>1. MaxBufferedBytes \in Nat /\ MaxBufferedMessages \in Nat
        BY TransportAssumption
      <4>2. s.bytes + body.length <= MaxBufferedBytes
        BY <2>7, <2>11, <4>1
      <4>3. Len(Append(s.incoming, entry)) <= MaxBufferedMessages
        BY <2>4, <2>7, <2>11, <4>1
      <4> HIDE DEF kept, entry
      <4> QED  BY <2>4, <2>9, <4>2, <4>3 DEF Accounted
    <3>3. ASSUME s.ready = {}
          PROVE  OneAnswer(kept.correlator, kept.incoming)
      <4>1. OneAnswer(s.correlator, s.incoming)
        BY <1>1, <3>3
      <4>2. answered <=> IsAnswer(entry)
        BY <2>3 DEF IsAnswer
      <4> HIDE DEF kept, entry, message, answered, completed
      <4>3. CASE answered
        BY <1>1, <2>3, <2>4, <2>5, <4>1, <4>2, <4>3, OneAnswerArrives
      <4>4. CASE ~answered
        BY <1>1, <2>3, <2>4, <4>1, <4>2, <4>4, OneAnswerKept
      <4> QED  BY <4>3, <4>4
    <3> HIDE DEF kept, entry, message, answered, completed
    <3> QED  BY <1>1, <2>4, <2>7, <2>8, <3>1, <3>2, <3>3, <1>4 DEF DecodeState
  <2> QED  BY <2>10, <2>11
<1> QED  BY <1>2, <1>3, <1>4

\* decode_chunk as a run: the state after each body.
LEMMA DecodeRuns ==
  ASSUME NEW R \in SUBSET Class, NEW start \in DecodeState(R), NEW bodies \in Seq(AnyBody)
  PROVE  \E run : /\ run[0] = start /\ DecodeBodies(start, bodies) = run[Len(bodies)]
                  /\ \A k \in 1 .. Len(bodies) : run[k] = DecodeBody(run[k - 1], bodies[k])
                  /\ \A k \in 0 .. Len(bodies) : run[k] \in DecodeState(R)
<1> DEFINE S == DecodeState(R)
           n == Len(bodies)
           Eq(f) == f = [k \in 0 .. n |-> IF k = 0 THEN start
                                          ELSE DecodeBody(f[k - 1], bodies[k])]
           g == CHOOSE f : Eq(f)
           next == [p \in S \X (1 .. n) |-> DecodeBody(p[1], bodies[p[2]])]
<1>1. n \in Nat /\ \A k \in 1 .. n : bodies[k] \in AnyBody
  OBVIOUS
<1>2. start \in S
  OBVIOUS
<1>0. \A s \in S, body \in AnyBody : DecodeBody(s, body) \in S
  BY DecodeBodyType
<1>5. DecodeBodies(start, bodies) = g[n]
  BY Zenon DEF DecodeBodies
<1> HIDE DEF S
<1>3. next \in [S \X (1 .. n) -> S]
  BY <1>0, <1>1
<1>4. \A s \in S, k \in 1 .. n : next[<<s, k>>] = DecodeBody(s, bodies[k])
  OBVIOUS
<1> HIDE DEF n, next
<1>6. PICK r \in [0 .. n -> S] : IsRun(r, start, next, n)
  <2>1. n \in Nat
    BY <1>1
  <2> HIDE DEF Eq, g
  <2> QED  BY <2>1, <1>2, <1>3, RunExists, Zenon
<1>7. Eq(r)
  <2>1. ASSUME NEW k \in 0 .. n
        PROVE  r[k] = IF k = 0 THEN start ELSE DecodeBody(r[k - 1], bodies[k])
    <3>1. CASE k = 0
      BY <3>1, <1>6 DEF IsRun
    <3>2. CASE k # 0
      <4>1. k \in 1 .. n /\ k - 1 \in 0 .. n
        BY <3>2, <1>1
      <4>2. r[k - 1] \in S
        BY <4>1
      <4> QED  BY <3>2, <4>1, <4>2, <1>4, <1>6 DEF IsRun
    <3> QED  BY <3>1, <3>2
  <2> QED  BY <2>1
<1>8. Eq(g)
  <2> HIDE DEF Eq
  <2> QED  BY <1>7, Zenon
<1> HIDE DEF g
<1>9. g[0] = start /\ \A k \in 1 .. n : g[k] = DecodeBody(g[k - 1], bodies[k])
  BY <1>1, <1>8
<1>10. \A k \in 1 .. n : g[k - 1] \in S => g[k] \in S
  BY <1>0, <1>1, <1>9
<1>11. \A k \in 0 .. n : g[k] \in S
  BY <1>1, <1>2, <1>9, <1>10, RunStays
<1> QED  BY <1>5, <1>9, <1>11 DEF n, S

LEMMA DecodeBodiesType ==
  ASSUME NEW R \in SUBSET Class, NEW start \in DecodeState(R), NEW bodies \in Seq(AnyBody)
  PROVE  /\ DecodeBodies(start, bodies) \in DecodeState(R)
         /\ bodies # << >> => \/ DecodeBodies(start, bodies).ready # {}
                              \/ DecodeBodies(start, bodies).incoming # << >>
<1> DEFINE n == Len(bodies)
<1>1. n \in Nat /\ \A k \in 1 .. n : bodies[k] \in AnyBody
  OBVIOUS
<1>2. PICK run : /\ run[0] = start /\ DecodeBodies(start, bodies) = run[n]
                 /\ \A k \in 1 .. n : run[k] = DecodeBody(run[k - 1], bodies[k])
                 /\ \A k \in 0 .. n : run[k] \in DecodeState(R)
  BY DecodeRuns
<1>3. ASSUME bodies # << >>
      PROVE  run[n].ready # {} \/ run[n].incoming # << >>
  <2>1. n \in 1 .. n /\ n - 1 \in 0 .. n
    BY <1>1, <1>3
  <2>2. /\ run[n] = DecodeBody(run[n - 1], bodies[n]) /\ run[n - 1] \in DecodeState(R)
        /\ bodies[n] \in AnyBody
    BY <1>1, <1>2, <2>1
  <2> QED  BY <2>2, DecodeBodyType
<1>4. n \in 0 .. n
  BY <1>1
<1> QED  BY <1>2, <1>3, <1>4

\* What holds while a batch is collected, before an event and after it.
Collecting ==
  /\ WireInv /\ BufferInv /\ correlator \in Correlator
  /\ ready \subseteq Class /\ conditions \subseteq {"exit"} \cup Faults
  /\ ready = {} => OneAnswer(correlator, incoming)
  /\ Taken => ready # {}

\* An event leaves a trace: a condition, a message, or a frame that has begun.
Progress == ready # {} \/ incoming # << >> \/ is_mid_frame(decoder)

LEMMA DecodeChunkEffect ==
  ASSUME Collecting, NEW chunk \in Seq(Token), chunk # << >>, decode_chunk(chunk)
  PROVE  /\ decoder' \in Decoder /\ BufferInv' /\ correlator' \in Correlator
         /\ ready \subseteq ready' /\ ready' \subseteq Class
         /\ ready' = {} => OneAnswer(correlator, incoming)'
         /\ Progress'
<1> DEFINE pushed == push(decoder, chunk)
           start == [correlator |-> correlator, incoming |-> incoming,
                     bytes |-> buffered_bytes, ready |-> ready, stop |-> FALSE]
           decoded == DecodeBodies(start, pushed.bodies)
<1>1. /\ decoder \in Decoder /\ incoming \in Seq(Entry) /\ buffered_bytes \in Nat
      /\ Accounted(incoming, buffered_bytes) /\ correlator \in Correlator
      /\ ready \subseteq Class /\ (ready = {} => OneAnswer(correlator, incoming))
      /\ stdout = "seen" => ready # {}
  BY DEF Collecting, WireInv, BufferInv, Taken
<1>2. pushed \in PushState /\ Begun(pushed)
  BY <1>1, PushType
<1>3. pushed.decoder \in Decoder /\ pushed.bodies \in Seq(AnyBody)
  BY <1>2 DEF PushState
<1>4. CASE "protocol" \in ready \/ stdout = "seen"
  <2>1. UNCHANGED <<rpc_vars, ready>>
    BY <1>4 DEF decode_chunk
  <2>2. ready # {}
    BY <1>1, <1>4
  <2> QED  BY <1>1, <2>1, <2>2 DEF rpc_vars, BufferInv, Progress, Accounted
<1>5. CASE ~("protocol" \in ready \/ stdout = "seen") /\ ~pushed.ok
  <2>1. /\ decoder' = pushed.decoder /\ ready' = ready \cup {"protocol"}
        /\ UNCHANGED <<correlator, incoming, buffered_bytes>>
    BY <1>5 DEF decode_chunk
  <2>2. ready' \subseteq Class /\ ready' # {} /\ ready \subseteq ready'
    BY <1>1, <2>1 DEF Class
  <2> HIDE DEF pushed
  <2> QED  BY <1>1, <1>3, <2>1, <2>2 DEF BufferInv, Progress, Accounted
<1>6. CASE ~("protocol" \in ready \/ stdout = "seen") /\ pushed.ok
  <2>1. /\ decoder' = pushed.decoder /\ correlator' = decoded.correlator
        /\ incoming' = decoded.incoming /\ buffered_bytes' = decoded.bytes
        /\ ready' = decoded.ready
    BY <1>6 DEF decode_chunk
  <2>2. start \in DecodeRecord
    BY <1>1 DEF DecodeRecord
  <2>3. start \in DecodeState(ready)
    BY <1>1, <2>2 DEF DecodeState
  <2> HIDE DEF start, pushed
  <2>4. /\ decoded \in DecodeState(ready)
        /\ pushed.bodies # << >> => decoded.ready # {} \/ decoded.incoming # << >>
    BY <1>1, <1>3, <2>3, DecodeBodiesType
  <2> HIDE DEF decoded
  <2>5. /\ decoded.correlator \in Correlator /\ decoded.incoming \in Seq(Entry)
        /\ decoded.bytes \in Nat /\ decoded.ready \subseteq Class
        /\ ready \subseteq decoded.ready /\ Accounted(decoded.incoming, decoded.bytes)
        /\ decoded.ready = {} => OneAnswer(decoded.correlator, decoded.incoming)
    BY <2>4 DEF DecodeState, DecodeRecord
  <2>6. \/ decoded.ready # {} \/ decoded.incoming # << >>
        \/ is_mid_frame(pushed.decoder)
    BY <1>2, <1>6, <2>4 DEF Begun
  <2>7. BufferInv'
    BY <2>1, <2>5 DEF BufferInv, Accounted
  <2>8. Progress'
    BY <2>1, <2>6 DEF Progress
  <2>9. ready' = {} => OneAnswer(correlator, incoming)'
    BY <2>1, <2>5 DEF OneAnswer, NoAnswer
  <2> QED  BY <1>3, <2>1, <2>5, <2>7, <2>8, <2>9
<1> QED  BY <1>4, <1>5, <1>6

LEMMA Chunks ==
  ASSUME NEW s \in Seq(Token), NEW k \in 1 .. Len(s)
  PROVE  /\ SubSeq(s, 1, k) \in Seq(Token) /\ SubSeq(s, 1, k) # << >>
         /\ SubSeq(s, k + 1, Len(s)) \in Seq(Token)
<1>1. k \in Nat /\ k >= 1 /\ k <= Len(s) /\ Len(s) \in Nat
  OBVIOUS
<1>2. \A j \in 1 .. Len(s) : s[j] \in Token
  OBVIOUS
<1>3. SubSeq(s, 1, k) \in Seq(Token) /\ Len(SubSeq(s, 1, k)) = k
  BY <1>1, <1>2
<1>4. SubSeq(s, k + 1, Len(s)) \in Seq(Token)
  BY <1>1, <1>2
<1> QED  BY <1>1, <1>3, <1>4

LEMMA ConditionClasses ==
  ASSUME NEW condition \in {"exit"} \cup Faults
  PROVE  ConditionClass(condition) \in Class
<1>1. condition \in {"exit", "resource", "fault", "stdin"}
  BY TransportAssumption
<1> QED  BY <1>1 DEF ConditionClass, Class

\* One event of the process, whichever it is.
LEMMA ObserveEffect ==
  ASSUME Collecting, observe, alive' = alive
  PROVE  Collecting' /\ Progress'
<1>1. CASE \E k \in 1 .. Len(pipe) :
             /\ pipe' = SubSeq(pipe, k + 1, Len(pipe))
             /\ decode_chunk(SubSeq(pipe, 1, k))
             /\ UNCHANGED <<stdout, conditions>>
  <2>1. PICK k \in 1 .. Len(pipe) :
               /\ pipe' = SubSeq(pipe, k + 1, Len(pipe))
               /\ decode_chunk(SubSeq(pipe, 1, k))
               /\ UNCHANGED <<stdout, conditions>>
    BY <1>1
  <2>2. pipe \in Seq(Token)
    BY DEF Collecting, WireInv
  <2> DEFINE chunk == SubSeq(pipe, 1, k)
  <2>3. chunk \in Seq(Token) /\ chunk # << >> /\ pipe' \in Seq(Token)
    BY <2>1, <2>2, Chunks
  <2>4. decode_chunk(chunk)
    BY <2>1
  <2> HIDE DEF chunk
  <2>5. /\ decoder' \in Decoder /\ BufferInv' /\ correlator' \in Correlator
        /\ ready \subseteq ready' /\ ready' \subseteq Class
        /\ ready' = {} => OneAnswer(correlator, incoming)'
        /\ Progress'
    BY <2>3, <2>4, DecodeChunkEffect
  <2>6. Taken' => ready' # {}
    BY <2>1, <2>5 DEF Collecting, Taken
  <2>7. conditions' \subseteq {"exit"} \cup Faults
    BY <2>1 DEF Collecting
  <2>8. WireInv'
    BY <2>3, <2>5 DEF WireInv
  <2> QED  BY <2>5, <2>6, <2>7, <2>8 DEF Collecting
<1>2. CASE /\ pipe = << >> /\ stdout = "closed" /\ stdout' = "seen"
           /\ observe_stdout_closed
           /\ UNCHANGED <<pipe, conditions, rpc_vars>>
  <2>1. ready' \subseteq Class /\ ready' # {} /\ ready \subseteq ready'
    <3>1. \/ "protocol" \in ready /\ ready' = ready
          \/ ready' = ready \cup {"protocol"} \/ ready' = ready \cup {"terminal"}
      BY <1>2 DEF observe_stdout_closed
    <3> QED  BY <3>1 DEF Collecting, Class
  <2> QED  BY <1>2, <2>1 DEF Collecting, WireInv, BufferInv, Accounted, Progress, rpc_vars
<1>3. CASE \E condition \in conditions :
             /\ conditions' = conditions \ {condition}
             /\ ready' = ready \cup {ConditionClass(condition)}
             /\ UNCHANGED <<pipe, stdout, rpc_vars>>
  <2>1. PICK condition \in conditions :
               /\ conditions' = conditions \ {condition}
               /\ ready' = ready \cup {ConditionClass(condition)}
               /\ UNCHANGED <<pipe, stdout, rpc_vars>>
    BY <1>3
  <2>2. ConditionClass(condition) \in Class
    BY ConditionClasses DEF Collecting
  <2>3. ready' \subseteq Class /\ ready' # {} /\ ready \subseteq ready'
    BY <2>1, <2>2 DEF Collecting
  <2> QED  BY <2>1, <2>3 DEF Collecting, WireInv, BufferInv, Accounted, Progress, rpc_vars
<1> QED  BY <1>1, <1>2, <1>3 DEF observe

\* A batch with a condition is an error of one of the classes.
LEMMA ChooseType ==
  ASSUME ready \subseteq Class, ready # {}
  PROVE  \E e \in Class : choose = Failure(e)
<1> DEFINE I == {i \in 1 .. Len(Precedence) : Precedence[i] \in ready}
<1>1. I \subseteq 1 .. 6 /\ I # {}
  <2>1. Len(Precedence) = 6
    BY DEF Precedence
  <2>2. \A c \in Class : \E i \in 1 .. 6 : Precedence[i] = c
    BY DEF Precedence, Class
  <2>3. PICK c \in ready : TRUE
    OBVIOUS
  <2>4. PICK i \in 1 .. 6 : Precedence[i] = c
    BY <2>2
  <2> QED  BY <2>1, <2>3, <2>4
<1>2. \E x \in I : \A y \in I : x <= y
  <2>1. I \subseteq Nat
    BY <1>1
  <2> HIDE DEF I
  <2> QED  BY <1>1, <2>1, LeastMember
<1>3. Min(I) \in I
  <2> HIDE DEF I
  <2> QED  BY <1>2 DEF Min
<1>4. choose = Failure(Precedence[Min(I)])
  BY <1>1 DEF choose, SelectInSeq
<1>5. Precedence[Min(I)] \in Class
  <2>1. Min(I) \in 1 .. 6
    BY <1>1, <1>3
  <2> HIDE DEF I
  <2> QED  BY <2>1 DEF Precedence, Class
<1> QED  BY <1>4, <1>5

-----------------------------------------------------------------------------
(***************************************************************************)
(* The steps of the session.                                               *)
(***************************************************************************)
\* Where no batch is collected.
Outside == pc \in {"start", "call", "returned"}

LEMMA OutsideFacts ==
  ASSUME SInv, Outside
  PROVE  /\ ready = {} /\ outcome = "running"
         /\ pc # "returned" => result = Nothing
         /\ result.kind # "error" => ~Taken
         /\ pc # "returned" => ~Taken
<1>1. ready = {} /\ outcome = "running" /\ (pc # "returned" => result = Nothing)
  BY DEF SInv, BatchInv, TimeInv, Outside, DrainPc, DecidePc
<1>2. pc # "done"
  BY DEF Outside
<1>3. Taken => pc = "returned" /\ result.kind = "error"
  BY <1>1, <1>2 DEF SInv, TakenInv
<1> QED  BY <1>1, <1>3

\* The session ends.
LEMMA EndKeeps ==
  ASSUME SInv, Outside, NEW error, Abort(error), TransportKept,
         result' = Nothing, correlator' \in Correlator,
         error = "Timeout" => expired
  PROVE  SInv'
<1>1. /\ pc' = "done" /\ pipe' = << >> /\ decoder' = InHeader(0)
      /\ incoming' = << >> /\ buffered_bytes' = 0 /\ ready' = ready
      /\ conditions' = {} /\ outcome' = error /\ expired' = expired
  BY DEF Abort, TransportKept, ClearIncoming
<1>2. WireInv'
  <2>1. InHeader(0) \in Decoder
    BY DecoderTypes
  <2> QED  BY <1>1, <2>1 DEF WireInv
<1>3. BufferInv'
  BY <1>1, EmptyAccounted DEF BufferInv, Accounted
<1>4. BatchInv'
  BY <1>1, OutsideFacts DEF BatchInv
<1>5. TakenInv'
  BY <1>1 DEF TakenInv
<1>6. TimeInv'
  <2>1. ~(Nothing = Failure("deadline"))
    BY DEF Nothing, Failure
  <2>2. outcome' = "Timeout" => expired'
    BY <1>1
  <2> QED  BY <1>1, <2>1, <2>2 DEF TimeInv
<1>7. AnswerInv'
  BY <1>1 DEF AnswerInv, AwaitPc, DrainPc, DecidePc, WaitPc
<1> QED  BY <1>2, <1>3, <1>4, <1>5, <1>6, <1>7 DEF SInv

\* The session goes on to read, with a request that is not answered yet.
LEMMA ReadKeeps ==
  ASSUME SInv, Outside, result.kind # "error", Read, TransportKept,
         result' = Nothing, correlator' \in Correlator, OneAnswer(correlator, incoming)'
  PROVE  SInv'
<1>1. /\ pc' = "drain" /\ UNCHANGED <<pipe, stdout, conditions, alive, expired, outcome>>
      /\ UNCHANGED <<decoder, incoming, buffered_bytes, ready>>
  BY DEF Read, TransportKept, process_vars
<1>2. ready = {} /\ outcome = "running" /\ ~Taken
  BY OutsideFacts
<1>3. WireInv' /\ BufferInv'
  BY <1>1 DEF SInv, WireInv, BufferInv, Accounted
<1>4. BatchInv'
  BY <1>1, <1>2 DEF SInv, BatchInv, AwaitPc, DrainPc
<1>5. TakenInv'
  BY <1>1, <1>2 DEF TakenInv, Taken
<1>6. TimeInv'
  <2>1. ~(Nothing = Failure("deadline"))
    BY DEF Nothing, Failure
  <2> QED  BY <1>1, <1>2, <2>1 DEF TimeInv
<1>7. AnswerInv'
  BY <1>1 DEF AnswerInv
<1> QED  BY <1>3, <1>4, <1>5, <1>6, <1>7 DEF SInv

\* The session goes on to the next call of its script, with nothing awaited.
LEMMA CallKeeps ==
  ASSUME SInv, Outside, result.kind # "error",
         pc' = "call", UNCHANGED <<process_vars, outcome>>, TransportKept,
         result' = Nothing, correlator' = correlator, NoneAwaited
  PROVE  SInv'
<1>1. /\ UNCHANGED <<pipe, stdout, conditions, alive, outcome>>
      /\ UNCHANGED <<decoder, incoming, buffered_bytes, ready>>
  BY DEF TransportKept, process_vars
<1>2. ready = {} /\ outcome = "running" /\ ~Taken
  BY OutsideFacts
<1>3. WireInv' /\ BufferInv'
  BY <1>1 DEF SInv, WireInv, BufferInv, Accounted
<1>4. BatchInv'
  BY <1>1, <1>2 DEF SInv, BatchInv
<1>5. TakenInv'
  BY <1>1, <1>2 DEF TakenInv, Taken
<1>6. TimeInv'
  <2>1. ~(Nothing = Failure("deadline"))
    BY DEF Nothing, Failure
  <2> QED  BY <1>1, <1>2, <2>1 DEF TimeInv
<1>7. AnswerInv'
  BY <1>1 DEF SInv, AnswerInv, NoneAwaited, NoAnswer, AwaitPc, DrainPc, DecidePc, WaitPc
<1> QED  BY <1>3, <1>4, <1>5, <1>6, <1>7 DEF SInv

\* What sending, dispatching and an answer may fail with.
LEMMA SendTimeout == "Timeout" \in SendResults => expired
BY DEF SendResults

LEMMA DispatchResults ==
  ASSUME NEW request
  PROVE  dispatch_server_request(request) \in {"reply", "InvalidLspPayload", "ResourceLimit"}
<1> DEFINE items == request.body.items.list
           bad == {k \in DOMAIN items :
                     \/ ~items[k].good
                     \/ AnswerBytes(SubSeq(items, 1, k)) > ConfigurationBytes}
           first == CHOOSE k \in bad : \A j \in bad : k <= j
           rest == IF bad = {} THEN "reply"
                   ELSE IF ~items[first].good THEN "InvalidLspPayload"
                   ELSE "ResourceLimit"
<1>1. rest \in {"reply", "InvalidLspPayload", "ResourceLimit"}
  <2> HIDE DEF bad, first, items
  <2> QED  OBVIOUS
<1>2. dispatch_server_request(request)
        = IF request.method # "workspace/configuration" THEN "reply"
          ELSE IF ~request.body.items.array THEN "InvalidLspPayload"
          ELSE IF Len(items) > ConfigurationItems THEN "ResourceLimit"
          ELSE IF ConfigurationBytes < 2 THEN "ResourceLimit"
          ELSE rest
  BY Zenon DEF dispatch_server_request
<1> HIDE DEF rest, items
<1> QED  BY <1>1, <1>2

LEMMA AnswerErrors ==
  ASSUME NEW response
  PROVE  AnswerError(response)
           \in {"none", "RequestFailed", "InvalidLspPayload", "Capability"}
BY DEF AnswerError

LEMMA RunSessionKeeps ==
  ASSUME SInv, run_session
  PROVE  SInv'
<1>1. pc = "start" /\ Outside /\ correlator' = correlator /\ result' = result
  BY DEF run_session, Outside
<1>2. result = Nothing /\ result.kind # "error" /\ result' = Nothing
  BY <1>1, OutsideFacts DEF Nothing
<1>3. correlator \in Correlator /\ NoneAwaited
  BY <1>1 DEF SInv, AnswerInv
<1>4. TransportKept
  BY DEF run_session
<1>5. CASE \E error \in {"ResourceLimit", "Protocol", "Process"} : Abort(error)
  <2>1. PICK error \in {"ResourceLimit", "Protocol", "Process"} : Abort(error)
    BY <1>5
  <2> QED  BY <1>1, <1>2, <1>3, <1>4, <2>1, EndKeeps
<1>6. CASE pc' = "call" /\ UNCHANGED <<process_vars, expired, step, outcome>>
  BY <1>1, <1>2, <1>3, <1>4, <1>6, CallKeeps
<1> QED  BY <1>5, <1>6 DEF run_session

LEMMA SendRequestKeeps ==
  ASSUME SInv, send_request
  PROVE  SInv'
<1>1. pc = "call" /\ Outside /\ result' = result /\ TransportKept
  BY DEF send_request, Outside
<1>2. result = Nothing /\ result.kind # "error" /\ result' = Nothing
  BY <1>1, OutsideFacts DEF Nothing
<1>3. correlator \in Correlator /\ NoneAwaited
  BY <1>1 DEF SInv, AnswerInv
<1>4. /\ begin_request(correlator) \in Correlator
      /\ begin_request(correlator).pending = {correlator.next_id}
      /\ begin_request(correlator).next_id - 1 = correlator.next_id
  BY <1>3 DEF begin_request, Correlator, NoneAwaited
<1>5. correlator' \in Correlator
  BY <1>3, <1>4 DEF send_request
<1>6. CASE \E error \in SendResults \cup {"Protocol"} : Abort(error)
  <2>1. PICK error \in SendResults \cup {"Protocol"} : Abort(error)
    BY <1>6
  <2>2. error = "Timeout" => expired
    BY SendTimeout
  <2> QED  BY <1>1, <1>2, <1>5, <2>1, <2>2, EndKeeps
<1>7. CASE CanBegin(correlator) /\ Read
  <2>1. correlator' = begin_request(correlator)
    BY <1>7 DEF send_request
  <2>2. incoming' = incoming
    BY <1>1, <1>7 DEF Read, TransportKept
  <2>3. OneAnswer(correlator, incoming)'
    BY <1>3, <1>4, <2>1, <2>2 DEF OneAnswer, NoneAwaited, NoAnswer
  <2> QED  BY <1>1, <1>2, <1>5, <1>7, <2>3, ReadKeeps
<1> QED  BY <1>6, <1>7 DEF send_request

LEMMA SendNotificationKeeps ==
  ASSUME SInv, send_notification
  PROVE  SInv'
<1>1. /\ pc = "call" /\ Outside /\ result' = result /\ TransportKept
      /\ correlator' = correlator
  BY DEF send_notification, Outside
<1>2. result = Nothing /\ result.kind # "error" /\ result' = Nothing
  BY <1>1, OutsideFacts DEF Nothing
<1>3. correlator \in Correlator /\ NoneAwaited
  BY <1>1 DEF SInv, AnswerInv
<1>4. CASE \E error \in SendResults : Abort(error)
  <2>1. PICK error \in SendResults : Abort(error)
    BY <1>4
  <2>2. error = "Timeout" => expired
    BY SendTimeout
  <2> QED  BY <1>1, <1>2, <1>3, <2>1, <2>2, EndKeeps
<1>5. CASE Advance
  <2>1. pc' = "call" /\ UNCHANGED <<process_vars, outcome>>
    BY <1>5 DEF Advance
  <2> QED  BY <1>1, <1>2, <1>3, <2>1, CallKeeps
<1> QED  BY <1>4, <1>5 DEF send_notification

LEMMA FinishKeeps ==
  ASSUME SInv, finish
  PROVE  SInv'
<1>1. /\ pc = "call" /\ Outside /\ result' = result /\ TransportKept
      /\ correlator' = correlator
  BY DEF finish, Outside
<1>2. result' = Nothing
  BY <1>1, OutsideFacts
<1>3. correlator \in Correlator
  BY DEF SInv, AnswerInv
<1>4. PICK end \in {"ok", "Process"} : Abort(end)
  BY DEF finish
<1> QED  BY <1>1, <1>2, <1>3, <1>4, EndKeeps

LEMMA AwaitResponseKeeps ==
  ASSUME SInv, await_response
  PROVE  SInv'
<1>1. /\ pc = "returned" /\ Outside /\ result' = Nothing /\ TransportKept
      /\ correlator' = correlator /\ correlator \in Correlator
  BY DEF await_response, Outside, SInv, AnswerInv
<1>2. ASSUME NEW error, Abort(error), error = "Timeout" => expired
      PROVE  SInv'
  BY <1>1, <1>2, EndKeeps
<1>3. ASSUME Read, result.kind \in {"request", "notification"}
      PROVE  SInv'
  <2>1. OneAnswer(correlator, incoming) /\ result.kind # "error"
    BY <1>1, <1>3 DEF SInv, AnswerInv
  <2>2. incoming' = incoming
    BY <1>1, <1>3 DEF Read, TransportKept
  <2>3. OneAnswer(correlator, incoming)'
    BY <1>1, <2>1, <2>2 DEF OneAnswer, NoAnswer
  <2> QED  BY <1>1, <1>3, <2>1, <2>3, ReadKeeps
<1>4. CASE await_notification
  <2>1. \/ Abort("ResourceLimit")
        \/ Read /\ result.kind = "notification"
    BY <1>4 DEF await_notification
  <2> QED  BY <1>2, <1>3, <2>1
<1>5. CASE await_request
  <2>1. dispatch_server_request(result) # "Timeout"
    BY DispatchResults
  <2>2. \/ \E error \in {"ResourceLimit", dispatch_server_request(result)} \cup SendResults :
             Abort(error)
        \/ Read /\ result.kind = "request"
    BY <1>5, Zenon DEF await_request
  <2>3. \A error \in {"ResourceLimit", dispatch_server_request(result)} \cup SendResults :
          error = "Timeout" => expired
    BY <2>1, SendTimeout
  <2> QED  BY <1>2, <1>3, <2>2, <2>3
<1>6. CASE await_answer
  <2>1. result.kind = "response"
    BY <1>6 DEF await_answer
  <2>2. AnswerError(result) # "Timeout"
    BY AnswerErrors
  <2>3. \/ Abort("UnexpectedResponse") \/ Abort(AnswerError(result)) \/ Advance
    BY <1>6 DEF await_answer
  <2>4. CASE Advance
    <3>1. pc' = "call" /\ UNCHANGED <<process_vars, outcome>>
      BY <2>4 DEF Advance
    <3>2. NoneAwaited
      BY <1>1, <2>1 DEF SInv, AnswerInv
    <3> QED  BY <1>1, <2>1, <3>1, <3>2, CallKeeps
  <2> QED  BY <1>2, <2>2, <2>3, <2>4
<1>7. CASE await_error
  <2>1. result.kind = "error" /\ Abort(TransportErrorName(result.error))
    BY <1>7 DEF await_error
  <2>2. result \in {Nothing} \cup {Failure(e) : e \in Class \cup {"deadline"}} \cup Message
    BY DEF SInv, BatchInv
  <2>3. result # Nothing /\ result \notin Message
    BY <2>1, BufferedKinds DEF Nothing
  <2>4. PICK e \in Class \cup {"deadline"} : result = Failure(e)
    BY <2>2, <2>3
  <2>5. result.error = e
    BY <2>4 DEF Failure
  <2>6. TransportErrorName(e) = "Timeout" => e = "deadline"
    BY DEF TransportErrorName, Class
  <2>7. TransportErrorName(result.error) = "Timeout" => expired
    BY <2>4, <2>5, <2>6 DEF SInv, TimeInv
  <2> QED  BY <1>2, <2>1, <2>7
<1> QED  BY <1>4, <1>5, <1>6, <1>7 DEF await_response

-----------------------------------------------------------------------------
(***************************************************************************)
(* The steps of next_incoming.                                             *)
(***************************************************************************)
\* Where an event may be observed, a batch is collected.
LEMMA InvCollects ==
  ASSUME SInv, pc \in AwaitPc
  PROVE  /\ Collecting /\ result = Nothing /\ outcome = "running"
         /\ pc \in WaitPc => ready = {} /\ ~Taken
<1>1. pc \notin {"start", "call", "returned", "done"}
  BY DEF AwaitPc, DrainPc, DecidePc, WaitPc
<1>2. result = Nothing /\ outcome = "running"
  BY <1>1 DEF SInv, BatchInv, TimeInv
<1>3. Taken => ready # {} /\ pc \notin WaitPc
  BY <1>1 DEF SInv, TakenInv, DrainPc, DecidePc, WaitPc
<1>4. pc \in WaitPc => ready = {}
  BY DEF SInv, BatchInv, DrainPc, DecidePc, WaitPc
<1> QED  BY <1>2, <1>3, <1>4 DEF SInv, Collecting, BatchInv, AnswerInv

\* A batch that goes on being collected, or is decided next.
LEMMA CollectKeeps ==
  ASSUME Collecting', pc' \in AwaitPc, result' = Nothing, outcome' = "running",
         pc' \in WaitPc => ready' = {},
         pc' \in {"drain_more", "decide_more"} => expired' \/ Progress',
         pc' \in {"drain_last", "decide_last"} => expired'
  PROVE  SInv'
<1>1. WireInv' /\ BufferInv'
  BY DEF Collecting
<1>2. BatchInv'
  BY DEF Collecting, BatchInv, AwaitPc
<1>3. TakenInv'
  BY DEF Collecting, TakenInv, AwaitPc
<1>4. TimeInv'
  <2>1. ~(Nothing = Failure("deadline"))
    BY DEF Nothing, Failure
  <2> QED  BY <2>1 DEF TimeInv, Progress
<1>5. AnswerInv'
  BY DEF Collecting, AnswerInv, AwaitPc, DrainPc, DecidePc, WaitPc
<1> QED  BY <1>1, <1>2, <1>3, <1>4, <1>5 DEF SInv

LEMMA ObserveKeeps ==
  ASSUME SInv, drain_observe \/ next_event, UNCHANGED session_vars
  PROVE  SInv'
<1>1. /\ pc \in AwaitPc /\ observe /\ alive' = alive /\ result' = result
      /\ expired' = expired /\ outcome' = outcome
      /\ (pc' = pc /\ pc \in DrainPc) \/ pc' = "drain_more"
  BY DEF drain_observe, next_event, Draining, AwaitPc, DrainPc, WaitPc, session_vars
<1>2. Collecting /\ result = Nothing /\ outcome = "running"
  BY <1>1, InvCollects
<1>3. Collecting' /\ Progress'
  BY <1>1, <1>2, ObserveEffect
<1>4. pc' \in DrainPc
  BY <1>1 DEF DrainPc
<1>5. pc' \in {"drain_last", "decide_last"} => expired'
  BY <1>1 DEF SInv, TimeInv
<1>6. pc' \in AwaitPc /\ pc' \notin WaitPc
  BY <1>4 DEF AwaitPc, DrainPc, WaitPc
<1> QED  BY <1>1, <1>2, <1>3, <1>5, <1>6, CollectKeeps

\* The end of a drain, at its end or at the limit of events.
LEMMA DrainedFacts ==
  ASSUME SInv, pc \in DrainPc, pc' = AfterDrain
  PROVE  /\ pc' \in DecidePc /\ pc' \in AwaitPc /\ pc' \notin WaitPc
         /\ pc' = "decide_more" => pc = "drain_more"
         /\ pc' = "decide_last" => pc = "drain_last"
BY DEF DrainPc, AfterDrain, DecidePc, AwaitPc, WaitPc

LEMMA DrainDoneKeeps ==
  ASSUME SInv, drain_done, UNCHANGED session_vars
  PROVE  SInv'
<1>1. /\ pc \in DrainPc /\ pc' = AfterDrain
      /\ UNCHANGED <<pipe, stdout, conditions, alive, expired, decoder, correlator,
                     incoming, buffered_bytes, ready, result, outcome>>
  BY DEF drain_done, Draining, DrainPc, process_vars, rpc_vars, session_vars
<1>2. Collecting /\ result = Nothing /\ outcome = "running"
  BY <1>1, InvCollects DEF AwaitPc
<1>3. Collecting'
  BY <1>1, <1>2 DEF Collecting, WireInv, BufferInv, Accounted, OneAnswer, NoAnswer, Taken
<1>4. pc' \in {"drain_more", "decide_more"} => expired' \/ Progress'
  <2>1. ASSUME pc' \in {"drain_more", "decide_more"}
        PROVE  pc = "drain_more"
    BY <1>1, <2>1, DrainedFacts DEF DecidePc
  <2>2. pc = "drain_more" => expired \/ Progress
    BY DEF SInv, TimeInv, Progress
  <2>3. Progress => Progress'
    BY <1>1 DEF Progress
  <2> QED  BY <1>1, <2>1, <2>2, <2>3
<1>5. pc' \in {"drain_last", "decide_last"} => expired'
  <2>1. ASSUME pc' \in {"drain_last", "decide_last"}
        PROVE  pc = "drain_last"
    BY <1>1, <2>1, DrainedFacts DEF DecidePc
  <2>2. pc = "drain_last" => expired
    BY DEF SInv, TimeInv
  <2> QED  BY <1>1, <2>1, <2>2
<1> QED  BY <1>1, <1>2, <1>3, <1>4, <1>5, DrainedFacts, CollectKeeps

LEMMA ProbeKeeps ==
  ASSUME SInv, probe_ready_event_overflow, UNCHANGED session_vars
  PROVE  SInv'
<1>1. /\ pc \in DrainPc /\ pc' = AfterDrain
      /\ UNCHANGED <<alive, expired, decoder, correlator, incoming, buffered_bytes,
                     result, outcome>>
  BY DEF probe_ready_event_overflow, Draining, DrainPc, rpc_vars, session_vars
<1>2. Collecting /\ result = Nothing /\ outcome = "running"
  BY <1>1, InvCollects DEF AwaitPc
<1>3. /\ pipe' \in Seq(Token) /\ conditions' \subseteq conditions
      /\ \/ UNCHANGED <<stdout, conditions, ready>>
         \/ ready' = ready \cup {"integration"}
  <2>1. pipe \in Seq(Token)
    BY <1>2 DEF Collecting, WireInv
  <2>2. \/ UNCHANGED <<pipe, stdout, conditions, ready>>
        \/ /\ ready' = ready \cup {"integration"}
           /\ \/ /\ \E k \in 1 .. Len(pipe) : pipe' = SubSeq(pipe, k + 1, Len(pipe))
                 /\ conditions' = conditions
              \/ UNCHANGED <<pipe, conditions>>
              \/ \E condition \in conditions :
                   /\ conditions' = conditions \ {condition}
                   /\ pipe' = pipe
    BY DEF probe_ready_event_overflow
  <2>3. \A k \in 1 .. Len(pipe) : SubSeq(pipe, k + 1, Len(pipe)) \in Seq(Token)
    BY <2>1, Chunks
  <2> QED  BY <2>1, <2>2, <2>3
<1>4. /\ ready' \subseteq Class /\ ready \subseteq ready'
      /\ ready' = {} => ready = {} /\ UNCHANGED <<stdout, conditions>>
  BY <1>2, <1>3 DEF Collecting, Class
<1>5. Collecting'
  <2>1. WireInv' /\ BufferInv' /\ correlator' \in Correlator
    BY <1>1, <1>2, <1>3 DEF Collecting, WireInv, BufferInv, Accounted
  <2>2. conditions' \subseteq {"exit"} \cup Faults
    BY <1>2, <1>3 DEF Collecting
  <2>3. ready' = {} => OneAnswer(correlator, incoming)'
    BY <1>1, <1>2, <1>4 DEF Collecting, OneAnswer, NoAnswer
  <2>4. Taken' => ready' # {}
    BY <1>1, <1>2, <1>4 DEF Collecting, Taken
  <2> QED  BY <1>4, <2>1, <2>2, <2>3, <2>4 DEF Collecting
<1>6. pc' \in {"drain_more", "decide_more"} => expired' \/ Progress'
  <2>1. ASSUME pc' \in {"drain_more", "decide_more"}
        PROVE  pc = "drain_more"
    BY <1>1, <2>1, DrainedFacts DEF DecidePc
  <2>2. pc = "drain_more" => expired \/ Progress
    BY DEF SInv, TimeInv, Progress
  <2>3. Progress => Progress'
    BY <1>1, <1>4 DEF Progress
  <2> QED  BY <1>1, <2>1, <2>2, <2>3
<1>7. pc' \in {"drain_last", "decide_last"} => expired'
  <2>1. ASSUME pc' \in {"drain_last", "decide_last"}
        PROVE  pc = "drain_last"
    BY <1>1, <2>1, DrainedFacts DEF DecidePc
  <2>2. pc = "drain_last" => expired
    BY DEF SInv, TimeInv
  <2> QED  BY <1>1, <2>1, <2>2
<1> QED  BY <1>1, <1>2, <1>5, <1>6, <1>7, DrainedFacts, CollectKeeps

LEMMA DeadlineEventKeeps ==
  ASSUME SInv, next_event_deadline, UNCHANGED session_vars
  PROVE  SInv'
<1>1. /\ pc \in WaitPc /\ pc' \in {"drain_more", "drain_last"} /\ expired /\ expired'
      /\ UNCHANGED <<pipe, stdout, conditions, alive, decoder, correlator,
                     incoming, buffered_bytes, ready, result, outcome>>
  BY DEF next_event_deadline, WaitPc, process_vars, rpc_vars, session_vars
<1>2. Collecting /\ result = Nothing /\ outcome = "running"
  BY <1>1, InvCollects DEF AwaitPc
<1>3. Collecting'
  BY <1>1, <1>2 DEF Collecting, WireInv, BufferInv, Accounted, OneAnswer, NoAnswer, Taken
<1>4. pc' \in AwaitPc /\ pc' \notin WaitPc
  BY <1>1 DEF AwaitPc, DrainPc, WaitPc
<1> QED  BY <1>1, <1>2, <1>3, <1>4, CollectKeeps

\* What next_incoming returns.
LEMMA ReturnKeeps ==
  ASSUME SInv, WireInv', BufferInv', correlator' = correlator, ready' = {},
         conditions' = conditions, outcome' = "running", pc' = "returned",
         \/ \E e \in Class : result' = Failure(e)
         \/ result' = Failure("deadline") /\ expired' /\ ~Taken'
         \/ /\ result' \in Message /\ ~Taken'
            /\ result'.kind \in {"request", "notification"} => OneAnswer(correlator, incoming)'
            /\ result'.kind = "response" => NoneAwaited'
  PROVE  SInv'
<1>1. /\ result' \in {Nothing} \cup {Failure(e) : e \in Class \cup {"deadline"}} \cup Message
      /\ Taken' => result'.kind = "error"
      /\ result' = Failure("deadline") => expired'
      /\ result'.kind \in {"request", "notification"} => OneAnswer(correlator, incoming)'
      /\ result'.kind = "response" => NoneAwaited'
  <2>1. CASE \E e \in Class : result' = Failure(e)
    <3>1. PICK e \in Class : result' = Failure(e)
      BY <2>1
    <3>2. result'.kind = "error" /\ result'.error = e /\ e # "deadline"
      BY <3>1 DEF Failure, Class
    <3>3. result' # Failure("deadline")
      BY <3>2 DEF Failure
    <3> QED  BY <3>1, <3>2, <3>3
  <2>2. CASE result' = Failure("deadline") /\ expired' /\ ~Taken'
    <3>1. result'.kind = "error"
      BY <2>2 DEF Failure
    <3> QED  BY <2>2, <3>1
  <2>3. CASE /\ result' \in Message /\ ~Taken'
             /\ result'.kind \in {"request", "notification"} => OneAnswer(correlator, incoming)'
             /\ result'.kind = "response" => NoneAwaited'
    <3>1. result' # Failure("deadline")
      BY <2>3, BufferedKinds
    <3> QED  BY <2>3, <3>1
  <2> QED  BY <2>1, <2>2, <2>3
<1>2. BatchInv'
  BY <1>1 DEF SInv, BatchInv
<1>3. TakenInv'
  BY <1>1 DEF TakenInv
<1>4. TimeInv'
  BY <1>1 DEF TimeInv
<1>5. AnswerInv'
  BY <1>1 DEF SInv, AnswerInv, AwaitPc, DrainPc, DecidePc, WaitPc
<1> QED  BY <1>2, <1>3, <1>4, <1>5 DEF SInv

LEMMA DecideKeeps ==
  ASSUME SInv, decide, UNCHANGED session_vars
  PROVE  SInv'
<1>1. /\ pc \in DecidePc /\ ready' = {}
      /\ UNCHANGED <<pipe, stdout, conditions, alive, expired, decoder, correlator, outcome>>
  BY DEF decide, DecidePc, process_vars, session_vars
<1>2. Collecting /\ result = Nothing /\ outcome = "running"
  BY <1>1, InvCollects DEF AwaitPc
<1>3. WireInv'
  BY <1>1, <1>2 DEF Collecting, WireInv
<1>4. /\ incoming \in Seq(Entry) /\ buffered_bytes \in Nat
      /\ Accounted(incoming, buffered_bytes) /\ correlator \in Correlator
  BY <1>2 DEF Collecting, BufferInv
<1>5. CASE FailureFirst /\ result' = choose /\ pc' = "returned" /\ ClearIncoming
  <2>1. \E e \in Class : result' = Failure(e)
    BY <1>2, <1>5, ChooseType DEF Collecting, FailureFirst
  <2>2. BufferInv'
    BY <1>5, EmptyAccounted DEF ClearIncoming, BufferInv, Accounted
  <2> QED  BY <1>1, <1>2, <1>3, <1>5, <2>1, <2>2, ReturnKeeps
<1>6. ASSUME ready = {}
      PROVE  OneAnswer(correlator, incoming) /\ ~Taken /\ ~Taken'
  BY <1>1, <1>2, <1>6 DEF Collecting, Taken
<1>7. CASE /\ ~FailureFirst /\ incoming # << >>
           /\ result' = Head(incoming).message /\ pc' = "returned" /\ pop_incoming
  <2>1. ready = {} /\ incoming' = Tail(incoming)
        /\ buffered_bytes' = buffered_bytes - Head(incoming).bytes
    BY <1>7 DEF FailureFirst, pop_incoming
  <2>2. BufferInv'
    <3>1. /\ Tail(incoming) \in Seq(Entry)
          /\ buffered_bytes - Head(incoming).bytes \in Nat
          /\ Accounted(Tail(incoming), buffered_bytes - Head(incoming).bytes)
      BY <1>4, <1>7, AccountedTail
    <3> QED  BY <2>1, <3>1 DEF BufferInv, Accounted
  <2>3. result' \in Message
    <3>1. Head(incoming) \in Entry
      BY <1>4, <1>7
    <3>2. Head(incoming).message \in Message
      BY <3>1 DEF Entry
    <3> QED  BY <1>7, <3>2
  <2>4. result'.kind \in {"request", "notification"} => OneAnswer(correlator, incoming)'
    <3>1. ASSUME ~IsAnswer(Head(incoming))
          PROVE  OneAnswer(correlator, Tail(incoming))
      BY <1>4, <1>6, <1>7, <2>1, <3>1, OneAnswerTail
    <3> QED  BY <1>1, <1>7, <2>1, <3>1 DEF IsAnswer, OneAnswer, NoAnswer
  <2>5. result'.kind = "response" => NoneAwaited'
    <3>1. ASSUME IsAnswer(Head(incoming))
          PROVE  correlator.pending = {} /\ NoAnswer(Tail(incoming))
      BY <1>4, <1>6, <1>7, <2>1, <3>1, OneAnswerTail
    <3> QED  BY <1>1, <1>7, <2>1, <3>1 DEF IsAnswer, NoneAwaited, NoAnswer
  <2> QED  BY <1>1, <1>2, <1>3, <1>6, <1>7, <2>1, <2>2, <2>3, <2>4, <2>5, ReturnKeeps
<1>8. CASE /\ ~FailureFirst /\ incoming = << >>
           /\ CASE pc = "decide" -> pc' = "wait" /\ UNCHANGED result
                [] pc = "decide_more" ->
                     /\ pc' = IF is_mid_frame(decoder) /\ stdout # "seen" /\ ~expired
                              THEN "wait_more" ELSE "drain_last"
                     /\ UNCHANGED result
                [] pc = "decide_last" ->
                     pc' = "returned" /\ result' = Failure("deadline")
           /\ UNCHANGED <<incoming, buffered_bytes, outstanding>>
  <2>1. ready = {}
    BY <1>8 DEF FailureFirst
  <2>2. BufferInv'
    BY <1>4, <1>8 DEF BufferInv, Accounted
  <2>3. Collecting'
    <3>1. OneAnswer(correlator, incoming)'
      BY <1>1, <1>6, <1>8, <2>1 DEF OneAnswer, NoAnswer
    <3>2. correlator' \in Correlator /\ conditions' \subseteq {"exit"} \cup Faults
      BY <1>1, <1>2 DEF Collecting
    <3> QED  BY <1>1, <1>3, <1>6, <2>1, <2>2, <3>1, <3>2 DEF Collecting
  <2>4. CASE pc = "decide"
    <3>1. pc' = "wait" /\ result' = result
      BY <1>8, <2>4
    <3>2. pc' \in AwaitPc
      BY <3>1 DEF AwaitPc, WaitPc
    <3> QED  BY <1>1, <1>2, <2>3, <3>1, <3>2, CollectKeeps
  <2>5. CASE pc = "decide_more"
    <3>1. /\ result' = result
          /\ \/ pc' = "wait_more"
             \/ pc' = "drain_last" /\ ~(is_mid_frame(decoder) /\ stdout # "seen" /\ ~expired)
      BY <1>8, <2>5
    <3>2. pc' \in AwaitPc
      BY <3>1 DEF AwaitPc, WaitPc, DrainPc
    <3>3. expired \/ is_mid_frame(decoder)
      BY <1>8, <2>1, <2>5 DEF SInv, TimeInv
    <3>4. stdout # "seen"
      BY <1>6, <2>1 DEF Taken
    <3>5. pc' = "drain_last" => expired'
      BY <1>1, <3>1, <3>3, <3>4
    <3> QED  BY <1>1, <1>2, <2>3, <3>1, <3>2, <3>5, CollectKeeps
  <2>6. CASE pc = "decide_last"
    <3>1. pc' = "returned" /\ result' = Failure("deadline")
      BY <1>8, <2>6
    <3>2. expired'
      BY <1>1, <2>6 DEF SInv, TimeInv
    <3> QED  BY <1>1, <1>2, <1>3, <1>6, <2>1, <2>2, <3>1, <3>2, ReturnKeeps
  <2> QED  BY <1>1, <2>4, <2>5, <2>6 DEF DecidePc
<1> QED  BY <1>5, <1>7, <1>8 DEF decide

-----------------------------------------------------------------------------
(***************************************************************************)
(* Time and the server.                                                    *)
(***************************************************************************)
LEMMA DeadlineKeeps ==
  ASSUME SInv, Deadline \/ TotalDeadlinePasses
  PROVE  SInv'
<1>1. /\ expired'
      /\ UNCHANGED <<pc, pipe, stdout, conditions, alive, decoder, correlator,
                     incoming, buffered_bytes, ready, result, outcome>>
  BY DEF Deadline, DeadlinePasses, TotalDeadlinePasses, process_vars, rpc_vars, session_vars
<1>2. WireInv' /\ BufferInv' /\ BatchInv'
  BY <1>1 DEF SInv, WireInv, BufferInv, Accounted, BatchInv
<1>3. TakenInv' /\ TimeInv'
  BY <1>1 DEF SInv, TakenInv, Taken, TimeInv
<1>4. AnswerInv'
  BY <1>1 DEF SInv, AnswerInv, NoneAwaited, OneAnswer, NoAnswer
<1> QED  BY <1>2, <1>3, <1>4 DEF SInv

LEMMA ServerKeeps ==
  ASSUME SInv, Server
  PROVE  SInv'
<1>1. UNCHANGED <<pc, expired, decoder, correlator, incoming, buffered_bytes, ready,
                  result, outcome>>
  BY DEF Server, ServerStep, ServerWrites, ServerCloses, ServerExits, WorkerFails,
         rpc_vars, session_vars
<1>2. pipe \in Seq(Token) /\ decoder \in Decoder
  BY DEF SInv, WireInv
<1>3. pipe' \in Seq(Token)
  <2>1. CASE ServerWrites
    <3>1. PICK bytes \in Seq(Token) : pipe' = pipe \o bytes
      BY <2>1, WritesTokens DEF ServerWrites
    <3> QED  BY <1>2, <3>1
  <2>2. CASE ServerCloses \/ ServerExits \/ WorkerFails
    BY <1>2, <2>2 DEF ServerCloses, ServerExits, WorkerFails
  <2> QED  BY <2>1, <2>2 DEF Server, ServerStep
<1>4. conditions' \subseteq {"exit"} \cup Faults
  <2>1. conditions \subseteq {"exit"} \cup Faults
    BY DEF SInv, BatchInv
  <2>2. CASE ServerWrites \/ ServerCloses
    BY <2>1, <2>2 DEF ServerWrites, ServerCloses
  <2>3. CASE ServerExits
    BY <2>1, <2>3 DEF ServerExits
  <2>4. CASE WorkerFails
    BY <2>1, <2>4 DEF WorkerFails
  <2> QED  BY <2>2, <2>3, <2>4 DEF Server, ServerStep
<1>5. Taken' => Taken
  <2>1. CASE ServerWrites
    BY <2>1 DEF ServerWrites, Taken
  <2>2. CASE ServerCloses
    BY <2>2 DEF ServerCloses, Taken
  <2>3. CASE ServerExits
    <3>1. "exit" \in conditions' /\ (stdout' = "seen" => stdout = "seen")
      BY <2>3 DEF ServerExits
    <3> QED  BY <3>1 DEF Taken
  <2>4. CASE WorkerFails
    <3>1. alive' = alive /\ stdout' = stdout /\ conditions \subseteq conditions'
      BY <2>4 DEF WorkerFails
    <3> QED  BY <3>1 DEF Taken
  <2> QED  BY <2>1, <2>2, <2>3, <2>4 DEF Server, ServerStep
<1>6. WireInv' /\ BufferInv' /\ BatchInv'
  BY <1>1, <1>2, <1>3, <1>4 DEF SInv, WireInv, BufferInv, Accounted, BatchInv
<1>7. TakenInv' /\ TimeInv'
  BY <1>1, <1>5 DEF SInv, TakenInv, TimeInv
<1>8. AnswerInv'
  BY <1>1 DEF SInv, AnswerInv, NoneAwaited, OneAnswer, NoAnswer
<1> QED  BY <1>6, <1>7, <1>8 DEF SInv

-----------------------------------------------------------------------------
(***************************************************************************)
(* Theorems.                                                               *)
(***************************************************************************)
LEMMA InitSInv == Init => SInv
<1> SUFFICES ASSUME Init
             PROVE  SInv
  OBVIOUS
<1>1. /\ pc = "start" /\ pipe = << >> /\ stdout = "open" /\ conditions = {} /\ alive = TRUE
      /\ decoder = InHeader(0) /\ correlator = NewCorrelator
      /\ incoming = << >> /\ buffered_bytes = 0 /\ ready = {} /\ result = Nothing
      /\ outcome = "running"
  BY DEF Init, TransportInit
<1>2. WireInv
  BY <1>1, DecoderTypes DEF WireInv
<1>3. BufferInv
  BY <1>1, EmptyAccounted DEF BufferInv
<1>4. BatchInv
  BY <1>1 DEF BatchInv
<1>5. TakenInv
  BY <1>1 DEF TakenInv, Taken
<1>6. TimeInv
  BY <1>1 DEF TimeInv, Nothing, Failure
<1>7. AnswerInv
  BY <1>1 DEF AnswerInv, NewCorrelator, Correlator, NoneAwaited, NoAnswer,
              AwaitPc, DrainPc, DecidePc, WaitPc
<1> QED  BY <1>2, <1>3, <1>4, <1>5, <1>6, <1>7 DEF SInv

LEMMA NextSInv == SInv /\ [Next]_vars => SInv'
<1> SUFFICES ASSUME SInv, [Next]_vars
             PROVE  SInv'
  OBVIOUS
<1>1. CASE run_session
  BY <1>1, RunSessionKeeps
<1>2. CASE send_request
  BY <1>2, SendRequestKeeps
<1>3. CASE send_notification
  BY <1>3, SendNotificationKeeps
<1>4. CASE await_response
  BY <1>4, AwaitResponseKeeps
<1>5. CASE finish
  BY <1>5, FinishKeeps
<1>6. CASE (drain_observe \/ next_event) /\ UNCHANGED session_vars
  BY <1>6, ObserveKeeps
<1>7. CASE drain_done /\ UNCHANGED session_vars
  BY <1>7, DrainDoneKeeps
<1>8. CASE probe_ready_event_overflow /\ UNCHANGED session_vars
  BY <1>8, ProbeKeeps
<1>9. CASE decide /\ UNCHANGED session_vars
  BY <1>9, DecideKeeps
<1>10. CASE next_event_deadline /\ UNCHANGED session_vars
  BY <1>10, DeadlineEventKeeps
<1>11. CASE Deadline \/ TotalDeadlinePasses
  BY <1>11, DeadlineKeeps
<1>12. CASE Server
  BY <1>12, ServerKeeps
<1>13. CASE UNCHANGED vars
  <2>1. UNCHANGED <<pc, pipe, stdout, conditions, alive, expired, decoder, correlator,
                    incoming, buffered_bytes, ready, result, outcome>>
    BY <1>13 DEF vars, process_vars, rpc_vars, session_vars
  <2>2. WireInv' /\ BufferInv' /\ BatchInv'
    BY <2>1 DEF SInv, WireInv, BufferInv, Accounted, BatchInv
  <2>3. TakenInv' /\ TimeInv'
    BY <2>1 DEF SInv, TakenInv, Taken, TimeInv
  <2>4. AnswerInv'
    BY <2>1 DEF SInv, AnswerInv, NoneAwaited, OneAnswer, NoAnswer
  <2> QED  BY <2>2, <2>3, <2>4 DEF SInv
<1> QED  BY <1>1, <1>2, <1>3, <1>4, <1>5, <1>6, <1>7, <1>8, <1>9, <1>10, <1>11,
            <1>12, <1>13 DEF Next, Client, TransportStep

\* The inductive invariant holds in every reachable state.
THEOREM SessionInvariant == Spec => []SInv
<1>1. Init => SInv
  BY InitSInv
<1>2. SInv /\ [Next]_vars => SInv'
  BY NextSInv
<1> QED  BY <1>1, <1>2, PTL DEF Spec

\* The bytes accounted for the buffered messages are exactly theirs, and they
\* and the messages stay within their limits, whatever the limits are and
\* however the stream is cut into chunks (decode_chunk, pop_incoming,
\* clear_incoming).
THEOREM BufferIsAccounted == Spec => []BufferAccounted
<1>1. SInv => BufferAccounted
  BY DEF SInv, BufferInv, Accounted, BufferAccounted
<1> QED  BY <1>1, SessionInvariant, PTL

\* An exit or the end of stdout that the transport has taken is in the batch
\* or is the error it returned: no answer decoded beside it hides it
\* (ReadyBatch, choose).
THEOREM FailureIsReported == Spec => []FailureNotSwallowed
<1>1. SInv => FailureNotSwallowed
  <2> SUFFICES ASSUME SInv, Active, Taken
               PROVE  Failed
    BY DEF FailureNotSwallowed, Taken
  <2> QED  BY DEF SInv, TakenInv, Active, Failed
<1> QED  BY <1>1, SessionInvariant, PTL

\* The session fails with a timeout only when a deadline has passed: an event
\* that brings no message has begun a frame, which is waited for
\* (next_incoming, is_mid_frame).
THEOREM TimeoutIsGenuine == Spec => []TimeoutGenuine
<1>1. SInv => TimeoutGenuine
  BY DEF SInv, TimeInv, TimeoutGenuine
<1> QED  BY <1>1, SessionInvariant, PTL

\* While an answer is awaited the request is pending or its one answer is
\* buffered, and between requests the correlator is free (send_request,
\* ResponseCorrelator::complete).
THEOREM AwaitedIsAnsweredOnce == Spec => []AnsweredOnce
<1>1. ASSUME SInv, Active, pc \notin {"call", "returned"}, ~Failed
      PROVE  /\ correlator.pending \subseteq {Awaited}
             /\ Cardinality(Answers(Messages)) + Cardinality(correlator.pending) = 1
  <2>1. ready = {} /\ pc \in AwaitPc
    BY <1>1 DEF SInv, BatchInv, Active, Failed
  <2>2. OneAnswer(correlator, incoming)
    BY <1>1, <2>1 DEF SInv, AnswerInv
  <2>3. /\ DOMAIN Messages = DOMAIN incoming
        /\ \A k \in DOMAIN incoming : Messages[k] = incoming[k].message
    BY DEF Messages
  <2>4. CASE correlator.pending = {correlator.next_id - 1} /\ NoAnswer(incoming)
    <3>1. Answers(Messages) = {}
      BY <2>3, <2>4 DEF Answers, NoAnswer, IsAnswer
    <3>2. correlator.pending = {Awaited}
      BY <2>4 DEF Awaited
    <3>3. Cardinality(Answers(Messages)) = 0
      BY <3>1, FS_EmptySet
    <3>4. Cardinality(correlator.pending) = 1
      BY <3>2, FS_Singleton
    <3> QED  BY <3>2, <3>3, <3>4
  <2>5. CASE /\ correlator.pending = {}
             /\ \E k \in DOMAIN incoming :
                  /\ IsAnswer(incoming[k])
                  /\ incoming[k].message.id = correlator.next_id - 1
                  /\ \A j \in DOMAIN incoming : IsAnswer(incoming[j]) => j = k
    <3>1. PICK k \in DOMAIN incoming :
                 /\ IsAnswer(incoming[k])
                 /\ incoming[k].message.id = correlator.next_id - 1
                 /\ \A j \in DOMAIN incoming : IsAnswer(incoming[j]) => j = k
      BY <2>5
    <3>2. Answers(Messages) = {k}
      BY <2>3, <3>1 DEF Answers, Awaited, IsAnswer
    <3>3. Cardinality(Answers(Messages)) = 1
      BY <3>2, FS_Singleton
    <3>4. Cardinality(correlator.pending) = 0
      BY <2>5, FS_EmptySet
    <3> QED  BY <2>5, <3>3, <3>4
  <2> QED  BY <2>2, <2>4, <2>5 DEF OneAnswer
<1>2. SInv /\ pc = "call" => correlator.pending = {}
  BY DEF SInv, AnswerInv, NoneAwaited
<1>3. SInv => AnsweredOnce
  BY <1>1, <1>2 DEF AnsweredOnce
<1> QED  BY <1>3, SessionInvariant, PTL

-----------------------------------------------------------------------------
(***************************************************************************)
(* The frame decoder does not depend on where the stream is cut.           *)
(***************************************************************************)
\* A state of the decoder with bodies that were complete before.
Prefixed(bodies, s) ==
  [ok |-> s.ok, decoder |-> s.decoder, bodies |-> bodies \o s.bodies]

\* What push does to the bytes that follow.
After(s, bytes) ==
  IF s.ok THEN Prefixed(s.bodies, push(s.decoder, bytes)) ELSE s

LEMMA PrefixedType ==
  ASSUME NEW B \in Seq(AnyBody), NEW s \in PushState
  PROVE  Prefixed(B, s) \in PushState
<1>1. s.ok \in BOOLEAN /\ s.decoder \in Decoder /\ s.bodies \in Seq(AnyBody)
  BY DEF PushState
<1>2. B \o s.bodies \in Seq(AnyBody)
  BY <1>1
<1> QED  BY <1>1, <1>2 DEF Prefixed, PushState

\* A state by its fields.
State(ok, d, bodies) == [ok |-> ok, decoder |-> d, bodies |-> bodies]

LEMMA StateFields ==
  /\ \A s \in PushState : s = State(s.ok, s.decoder, s.bodies)
  /\ \A d, B : State(TRUE, d, B).ok = TRUE /\ State(TRUE, d, B).decoder = d
BY DEF State, PushState

\* The changes PushByte makes to a state.
Refused(s) == [s EXCEPT !.ok = FALSE]
Moved(s, e) == [s EXCEPT !.decoder = e]
Completed(s, e, body) == [s EXCEPT !.decoder = e, !.bodies = Append(@, body)]

\* A state after each kind of change.
LEMMA StateRefused ==
  ASSUME NEW d \in Decoder, NEW B \in Seq(AnyBody)
  PROVE  Refused(State(TRUE, d, B)) = State(FALSE, d, B)
<1> DEFINE s == Refused(State(TRUE, d, B))
<1>1. s \in PushState
  BY DEF State, PushState, Refused, Moved, Completed
<1>2. s.ok = FALSE /\ s.decoder = d /\ s.bodies = B
  BY DEF State, Refused, Moved, Completed
<1> HIDE DEF s
<1>3. s = State(FALSE, d, B)
  BY <1>1, <1>2, StateFields
<1> QED  BY <1>3 DEF s

LEMMA StateMoved ==
  ASSUME NEW d \in Decoder, NEW e \in Decoder, NEW B \in Seq(AnyBody)
  PROVE  Moved(State(TRUE, d, B), e) = State(TRUE, e, B)
<1> DEFINE s == Moved(State(TRUE, d, B), e)
<1>1. s \in PushState
  BY DEF State, PushState, Refused, Moved, Completed
<1>2. s.ok = TRUE /\ s.decoder = e /\ s.bodies = B
  BY DEF State, Refused, Moved, Completed
<1> HIDE DEF s
<1>3. s = State(TRUE, e, B)
  BY <1>1, <1>2, StateFields
<1> QED  BY <1>3 DEF s

LEMMA StateComplete ==
  ASSUME NEW d \in Decoder, NEW e \in Decoder, NEW B \in Seq(AnyBody), NEW body \in AnyBody
  PROVE  Completed(State(TRUE, d, B), e, body)
           = State(TRUE, e, Append(B, body))
<1> DEFINE s == Completed(State(TRUE, d, B), e, body)
           C == Append(B, body)
<1>1. s \in PushState
  <2>1. C \in Seq(AnyBody)
    OBVIOUS
  <2>2. s = [State(TRUE, d, B) EXCEPT !.decoder = e, !.bodies = C]
    BY DEF State, Refused, Moved, Completed
  <2> HIDE DEF C
  <2>3. [State(TRUE, d, B) EXCEPT !.decoder = e, !.bodies = C] \in PushState
    BY <2>1 DEF State, PushState
  <2> HIDE DEF s
  <2> QED  BY <2>2, <2>3
<1>2. s.ok = TRUE /\ s.decoder = e /\ s.bodies = C
  BY DEF State, Refused, Moved, Completed
<1> HIDE DEF s, C
<1>3. s = State(TRUE, e, C)
  BY <1>1, <1>2, StateFields
<1> QED  BY <1>3 DEF s, C

\* The cases of a header byte.
Bad(seen, t) ==
  \/ t.token \in {"bad", "body"}
  \/ t.token = "end" /\ t.length > MaxInboundBodyBytes
  \/ t.token # "end" /\ seen >= MaxHeaderBytes

\* What HeaderStep does in each case.
LEMMA HeaderCases ==
  ASSUME NEW s, NEW t, NEW seen, seen = s.decoder.seen + 1
  PROVE  /\ Bad(seen, t) => HeaderStep(s, t) = Refused(s)
         /\ ~Bad(seen, t) /\ t.token = "end" /\ t.length = 0 =>
              HeaderStep(s, t) = Completed(s, InHeader(0), EmptyBody)
         /\ ~Bad(seen, t) /\ t.token = "end" /\ t.length # 0 =>
              HeaderStep(s, t) = Moved(s, InBody(<< >>, t.length))
         /\ ~Bad(seen, t) /\ t.token # "end" => HeaderStep(s, t) = Moved(s, InHeader(seen))
BY DEF HeaderStep, Bad, Refused, Moved, Completed

\* What a byte does depends on the decoder alone.
LEMMA StepShape ==
  ASSUME NEW d \in Decoder, NEW t \in Token
  PROVE  \E ok \in BOOLEAN, e \in Decoder, X \in Seq(AnyBody) :
           \A B \in Seq(AnyBody) : PushByte(State(TRUE, d, B), t) = State(ok, e, B \o X)
<1> DEFINE Shape(ok, e, X) ==
             \A B \in Seq(AnyBody) : PushByte(State(TRUE, d, B), t) = State(ok, e, B \o X)
           seen == d.seen + 1
           bytes == Append(d.bytes, t)
<1>1. \A B \in Seq(AnyBody) : B \o << >> = B
  OBVIOUS
<1>2. \A B \in Seq(AnyBody), body \in AnyBody : B \o <<body>> = Append(B, body)
  OBVIOUS
<1>3. << >> \in Seq(AnyBody) /\ \A body \in AnyBody : <<body>> \in Seq(AnyBody)
  OBVIOUS
<1>5. EmptyBody \in AnyBody /\ InHeader(0) \in Decoder
  BY DecoderTypes DEF AnyBody
<1>6. CASE d.in = "header"
  <2>1. ASSUME NEW B
        PROVE  PushByte(State(TRUE, d, B), t) = HeaderStep(State(TRUE, d, B), t)
    BY <1>6, StateFields DEF PushByte
  <2>2. seen \in Nat
    BY DEF Decoder
  <2>3. CASE Bad(seen, t)
    <3>1. ASSUME NEW B \in Seq(AnyBody)
          PROVE  PushByte(State(TRUE, d, B), t) = State(FALSE, d, B \o << >>)
      <4>1. HeaderStep(State(TRUE, d, B), t) = Refused(State(TRUE, d, B))
        BY <2>3, StateFields, HeaderCases
      <4> QED  BY <1>1, <2>1, <4>1, StateRefused
    <3>2. Shape(FALSE, d, << >>)
      BY <3>1
    <3> HIDE DEF Shape
    <3>3. \E ok \in BOOLEAN, e \in Decoder, X \in Seq(AnyBody) : Shape(ok, e, X)
      BY <1>3, <3>2
    <3> QED  BY <3>3 DEF Shape
  <2>4. CASE ~Bad(seen, t)
    <3>1. CASE t.token = "end" /\ t.length = 0
      <4>1. ASSUME NEW B \in Seq(AnyBody)
            PROVE  PushByte(State(TRUE, d, B), t) = State(TRUE, InHeader(0), B \o <<EmptyBody>>)
        <5>1. HeaderStep(State(TRUE, d, B), t)
                = Completed(State(TRUE, d, B), InHeader(0), EmptyBody)
          BY <2>4, <3>1, StateFields, HeaderCases
        <5>2. Completed(State(TRUE, d, B), InHeader(0), EmptyBody)
                = State(TRUE, InHeader(0), Append(B, EmptyBody))
          BY <1>5, StateComplete
        <5> QED  BY <1>2, <1>5, <2>1, <5>1, <5>2
      <4>2. Shape(TRUE, InHeader(0), <<EmptyBody>>)
        BY <4>1
      <4> HIDE DEF Shape
      <4>3. \E ok \in BOOLEAN, e \in Decoder, X \in Seq(AnyBody) : Shape(ok, e, X)
        BY <1>3, <1>5, <4>2
      <4> QED  BY <4>3 DEF Shape
    <3>2. CASE t.token = "end" /\ t.length # 0
      <4> DEFINE e == InBody(<< >>, t.length)
      <4>1. e \in Decoder
        <5>1. t.length \in Nat /\ << >> \in Seq(Token)
          BY <3>2, TokenFields
        <5> QED  BY <5>1, DecoderTypes
      <4>2. ASSUME NEW B \in Seq(AnyBody)
            PROVE  PushByte(State(TRUE, d, B), t) = State(TRUE, e, B \o << >>)
        <5>1. HeaderStep(State(TRUE, d, B), t) = Moved(State(TRUE, d, B), e)
          <6>1. seen = State(TRUE, d, B).decoder.seen + 1
            BY StateFields
          <6> HIDE DEF seen
          <6> QED  BY <2>4, <3>2, <6>1, HeaderCases
        <5> HIDE DEF e
        <5> QED  BY <1>1, <2>1, <4>1, <5>1, StateMoved
      <4> HIDE DEF e
      <4>3. Shape(TRUE, e, << >>)
        BY <4>2
      <4> HIDE DEF Shape
      <4>4. \E ok \in BOOLEAN, x \in Decoder, X \in Seq(AnyBody) : Shape(ok, x, X)
        BY <1>3, <4>1, <4>3
      <4> QED  BY <4>4 DEF Shape
    <3>3. CASE t.token # "end"
      <4> DEFINE e == InHeader(seen)
      <4>1. e \in Decoder
        BY <2>2, DecoderTypes
      <4>2. ASSUME NEW B \in Seq(AnyBody)
            PROVE  PushByte(State(TRUE, d, B), t) = State(TRUE, e, B \o << >>)
        <5>1. HeaderStep(State(TRUE, d, B), t) = Moved(State(TRUE, d, B), e)
          <6>1. seen = State(TRUE, d, B).decoder.seen + 1
            BY StateFields
          <6> HIDE DEF seen
          <6> QED  BY <2>4, <3>3, <6>1, HeaderCases
        <5> HIDE DEF e
        <5> QED  BY <1>1, <2>1, <4>1, <5>1, StateMoved
      <4> HIDE DEF e
      <4>3. Shape(TRUE, e, << >>)
        BY <4>2
      <4> HIDE DEF Shape
      <4>4. \E ok \in BOOLEAN, x \in Decoder, X \in Seq(AnyBody) : Shape(ok, x, X)
        BY <1>3, <4>1, <4>3
      <4> QED  BY <4>4 DEF Shape
    <3> QED  BY <3>1, <3>2, <3>3
  <2> QED  BY <2>3, <2>4
<1>7. CASE d.in # "header"
  <2> DEFINE body == BodyOf(bytes)
             e == InBody(bytes, d.expected)
  <2>1. ASSUME NEW B
        PROVE  PushByte(State(TRUE, d, B), t) = BodyStep(State(TRUE, d, B), t)
    BY <1>7, StateFields DEF PushByte
  <2>2. bytes \in Seq(Token) /\ d.expected \in Nat
    BY DEF Decoder
  <2>3. body \in AnyBody /\ e \in Decoder
    <3> HIDE DEF bytes
    <3> QED  BY <2>2, BodyOfType, DecoderTypes
  <2>4. CASE Len(bytes) = d.expected
    <3>1. ASSUME NEW B \in Seq(AnyBody)
          PROVE  PushByte(State(TRUE, d, B), t) = State(TRUE, InHeader(0), B \o <<body>>)
      <4>1. BodyStep(State(TRUE, d, B), t)
              = Completed(State(TRUE, d, B), InHeader(0), body)
        BY <2>4, StateFields, Zenon DEF BodyStep, Moved, Completed
      <4> HIDE DEF body
      <4>2. Completed(State(TRUE, d, B), InHeader(0), body)
              = State(TRUE, InHeader(0), Append(B, body))
        BY <1>5, <2>3, StateComplete
      <4> QED  BY <1>2, <2>1, <2>3, <4>1, <4>2
    <3> HIDE DEF body
    <3>2. Shape(TRUE, InHeader(0), <<body>>)
      BY <3>1
    <3> HIDE DEF Shape
    <3>3. \E ok \in BOOLEAN, x \in Decoder, X \in Seq(AnyBody) : Shape(ok, x, X)
      BY <1>3, <1>5, <2>3, <3>2
    <3> QED  BY <3>3 DEF Shape
  <2>5. CASE Len(bytes) # d.expected
    <3>1. ASSUME NEW B \in Seq(AnyBody)
          PROVE  PushByte(State(TRUE, d, B), t) = State(TRUE, e, B \o << >>)
      <4>1. BodyStep(State(TRUE, d, B), t) = Moved(State(TRUE, d, B), e)
        BY <2>5, StateFields, Zenon DEF BodyStep, Moved, Completed
      <4> HIDE DEF e
      <4> QED  BY <1>1, <2>1, <2>3, <4>1, StateMoved
    <3> HIDE DEF e
    <3>2. Shape(TRUE, e, << >>)
      BY <3>1
    <3> HIDE DEF Shape
    <3>3. \E ok \in BOOLEAN, x \in Decoder, X \in Seq(AnyBody) : Shape(ok, x, X)
      BY <1>3, <2>3, <3>2
    <3> QED  BY <3>3 DEF Shape
  <2> QED  BY <2>4, <2>5
<1> QED  BY <1>6, <1>7

\* A byte does the same whatever bodies were complete before.
LEMMA PrefixedByte ==
  ASSUME NEW B \in Seq(AnyBody), NEW s \in PushState, NEW t \in Token
  PROVE  PushByte(Prefixed(B, s), t) = Prefixed(B, PushByte(s, t))
<1>1. /\ s = State(s.ok, s.decoder, s.bodies)
      /\ s.ok \in BOOLEAN /\ s.decoder \in Decoder /\ s.bodies \in Seq(AnyBody)
  BY DEF PushState, State
<1>2. Prefixed(B, s) = State(s.ok, s.decoder, B \o s.bodies)
  BY DEF Prefixed, State
<1>3. CASE ~s.ok
  <2>1. ~Prefixed(B, s).ok
    BY <1>3 DEF Prefixed
  <2> QED  BY <1>3, <2>1 DEF PushByte
<1>4. CASE s.ok
  <2>1. PICK ok \in BOOLEAN, e \in Decoder, X \in Seq(AnyBody) :
               \A C \in Seq(AnyBody) :
                 PushByte(State(TRUE, s.decoder, C), t) = State(ok, e, C \o X)
    BY <1>1, StepShape
  <2>2. B \o s.bodies \in Seq(AnyBody) /\ (B \o s.bodies) \o X = B \o (s.bodies \o X)
    <3>1. \A U, V, W \in Seq(AnyBody) : U \o V \in Seq(AnyBody) /\ (U \o V) \o W = U \o (V \o W)
      OBVIOUS
    <3> QED  BY <1>1, <3>1
  <2>3. PushByte(s, t) = State(ok, e, s.bodies \o X)
    BY <1>1, <1>4, <2>1
  <2>4. PushByte(Prefixed(B, s), t) = State(ok, e, B \o (s.bodies \o X))
    BY <1>1, <1>2, <1>4, <2>1, <2>2
  <2> QED  BY <2>3, <2>4 DEF Prefixed, State
<1> QED  BY <1>1, <1>3, <1>4

\* The decoder run from any state.
LEMMA RunAfter ==
  ASSUME NEW s \in PushState, NEW chunk \in Seq(Token), NEW f, f[0] = s,
         \A k \in 1 .. Len(chunk) : f[k] = PushByte(f[k - 1], chunk[k])
  PROVE  f[Len(chunk)] = After(s, chunk)
<1> DEFINE n == Len(chunk)
<1>1. n \in Nat /\ \A k \in 1 .. n : chunk[k] \in Token
  OBVIOUS
<1>2. s.decoder \in Decoder /\ s.bodies \in Seq(AnyBody)
      /\ s = [ok |-> s.ok, decoder |-> s.decoder, bodies |-> s.bodies]
  BY DEF PushState
<1>3. PICK run : PushRun(run, s.decoder, chunk) /\ push(s.decoder, chunk) = run[n]
  BY <1>2, PushRuns
<1>4. CASE ~s.ok
  <2> DEFINE S == {s}
  <2>1. f[0] \in S /\ n \in Nat
    BY <1>1
  <2>2. \A k \in 1 .. n : f[k - 1] \in S => f[k] \in S
    BY <1>4 DEF PushByte
  <2>3. \A k \in 0 .. n : f[k] \in S
    <3> HIDE DEF S, n
    <3> QED  BY <2>1, <2>2, RunStays
  <2> QED  BY <1>1, <1>4, <2>3 DEF After
<1>5. CASE s.ok
  <2> DEFINE P == {k \in Nat : k <= n => f[k] = Prefixed(s.bodies, run[k])}
  <2>1. 0 \in P
    <3>1. run[0] = [ok |-> TRUE, decoder |-> s.decoder, bodies |-> << >>]
      BY <1>3 DEF PushRun
    <3>2. s.bodies \o << >> = s.bodies /\ s.ok = TRUE
      BY <1>2, <1>5 DEF PushState
    <3>3. Prefixed(s.bodies, run[0]) = s
      BY <1>2, <3>1, <3>2 DEF Prefixed
    <3> QED  BY <3>3
  <2>2. ASSUME NEW k \in Nat, k \in P
        PROVE  k + 1 \in P
    <3> SUFFICES ASSUME k + 1 <= n
                 PROVE  f[k + 1] = Prefixed(s.bodies, run[k + 1])
      OBVIOUS
    <3>1. k + 1 \in 1 .. n /\ k \in 0 .. n /\ (k + 1) - 1 = k
      BY <1>1
    <3>2. f[k + 1] = PushByte(f[k], chunk[k + 1]) /\ chunk[k + 1] \in Token
      BY <1>1, <3>1
    <3>3. run[k + 1] = PushByte(run[k], chunk[k + 1]) /\ run[k] \in PushState
      BY <1>3, <3>1 DEF PushRun
    <3>4. f[k] = Prefixed(s.bodies, run[k])
      BY <1>1, <2>2, <3>1
    <3> QED  BY <1>2, <3>2, <3>3, <3>4, PrefixedByte
  <2>3. n \in P
    <3> HIDE DEF P
    <3> QED  BY <1>1, <2>1, <2>2, SetInduction
  <2> QED  BY <1>1, <1>3, <1>5, <2>3 DEF After
<1> QED  BY <1>4, <1>5 DEF PushState

\* However a stream is cut into chunks, the decoder makes the same of it.
LEMMA PushConcat ==
  ASSUME NEW d \in Decoder, NEW a \in Seq(Token), NEW b \in Seq(Token)
  PROVE  push(d, a \o b) = After(push(d, a), b)
<1> DEFINE all == a \o b
           start == [ok |-> TRUE, decoder |-> d, bodies |-> << >>]
<1>1. /\ all \in Seq(Token) /\ Len(all) = Len(a) + Len(b)
      /\ Len(a) \in Nat /\ Len(b) \in Nat
      /\ \A k \in 1 .. Len(a) : all[k] = a[k]
      /\ \A k \in 1 .. Len(b) : all[Len(a) + k] = b[k]
  OBVIOUS
<1> HIDE DEF all
<1>2. PICK run : PushRun(run, d, all) /\ push(d, all) = run[Len(all)]
  BY <1>1, PushRuns
<1>3. start \in PushState
  BY DEF PushState
<1>4. run[Len(a)] = push(d, a)
  <2>1. run[0] = start /\ \A k \in 1 .. Len(a) : run[k] = PushByte(run[k - 1], a[k])
    BY <1>1, <1>2 DEF PushRun
  <2>2. run[Len(a)] = After(start, a)
    <3> HIDE DEF start
    <3> QED  BY <1>3, <2>1, RunAfter
  <2>3. PICK r : PushRun(r, d, a) /\ push(d, a) = r[Len(a)]
    BY PushRuns
  <2>4. push(d, a) \in PushState
    <3>1. r \in [0 .. Len(a) -> PushState] /\ Len(a) \in 0 .. Len(a)
      BY <1>1, <2>3 DEF PushRun
    <3> QED  BY <2>3, <3>1
  <2>5. After(start, a) = Prefixed(<< >>, push(d, a))
    BY DEF After
  <2>6. \A s \in PushState : Prefixed(<< >>, s) = s
    BY DEF PushState, Prefixed
  <2> QED  BY <2>2, <2>4, <2>5, <2>6
<1>5. run[Len(a)] \in PushState
  BY <1>1, <1>2 DEF PushRun
<1> DEFINE f == [k \in 0 .. Len(b) |-> run[Len(a) + k]]
<1>6. f[0] = run[Len(a)] /\ f[Len(b)] = run[Len(all)]
  BY <1>1
<1>7. ASSUME NEW k \in 1 .. Len(b)
      PROVE  f[k] = PushByte(f[k - 1], b[k])
  <2>1. /\ Len(a) + k \in 1 .. Len(all) /\ k \in 0 .. Len(b) /\ k - 1 \in 0 .. Len(b)
        /\ (Len(a) + k) - 1 = Len(a) + (k - 1)
    BY <1>1
  <2>2. run[Len(a) + k] = PushByte(run[(Len(a) + k) - 1], all[Len(a) + k])
    BY <1>2, <2>1 DEF PushRun
  <2> QED  BY <1>1, <2>1, <2>2
<1> HIDE DEF f
<1>8. f[Len(b)] = After(run[Len(a)], b)
  BY <1>5, <1>6, <1>7, RunAfter
<1> QED  BY <1>2, <1>4, <1>6, <1>8 DEF all

-----------------------------------------------------------------------------
(***************************************************************************)
(* A frame is one body.                                                    *)
(***************************************************************************)
\* The bytes of a body up to one of them.
BodyPart(body, k) == [i \in 1 .. k |-> BodyByte(body, i)]

\* The bytes of a body, one by one, make up that body.
LEMMA BodyParts ==
  ASSUME NEW body \in Bodies, NEW k \in Nat
  PROVE  /\ BodyPart(body, k) \in Seq(Token) /\ Len(BodyPart(body, k)) = k
         /\ Append(BodyPart(body, k), BodyByte(body, k + 1)) = BodyPart(body, k + 1)
         /\ k > 0 => BodyOf(BodyPart(body, k)) = body
<1>1. \A i \in Nat : BodyByte(body, i) \in Token
  BY DEF Token
<1>2. BodyPart(body, k) \in Seq(Token) /\ Len(BodyPart(body, k)) = k
  BY <1>1 DEF BodyPart
<1>3. Append(BodyPart(body, k), BodyByte(body, k + 1)) = BodyPart(body, k + 1)
  <2> DEFINE p == BodyPart(body, k)
             q == BodyPart(body, k + 1)
  <2>1. q \in Seq(Token) /\ Len(q) = k + 1
    BY <1>1 DEF BodyPart
  <2>2. Append(p, BodyByte(body, k + 1)) \in Seq(Token)
        /\ Len(Append(p, BodyByte(body, k + 1))) = k + 1
    BY <1>1, <1>2
  <2>3. \A i \in 1 .. k + 1 : Append(p, BodyByte(body, k + 1))[i] = q[i]
    BY <1>1, <1>2 DEF BodyPart
  <2> HIDE DEF p, q
  <2>4. Append(p, BodyByte(body, k + 1)) = q
    BY <2>1, <2>2, <2>3
  <2> QED  BY <2>4 DEF p, q
<1>4. ASSUME k > 0
      PROVE  BodyOf(BodyPart(body, k)) = body
  <2> DEFINE p == BodyPart(body, k)
  <2>1. DOMAIN p = 1 .. k /\ p # << >> /\ 1 \in 1 .. k
    BY <1>2, <1>4 DEF BodyPart
  <2>2. \A i \in 1 .. k : p[i] = BodyByte(body, i)
    BY DEF BodyPart
  <2>3. p[1].body = body
    BY <2>1, <2>2 DEF BodyByte
  <2>4. \A i \in DOMAIN p : p[i].token = "body" /\ p[i] = BodyByte(p[1].body, i)
    BY <2>1, <2>2, <2>3 DEF BodyByte
  <2> HIDE DEF p
  <2>5. BodyOf(p) = body
    BY <2>1, <2>3, <2>4 DEF BodyOf
  <2> QED  BY <2>5 DEF p
<1> QED  BY <1>2, <1>3, <1>4

\* The bytes of a body after its header are that body.
LEMMA BodyPushed ==
  ASSUME NEW body \in Bodies, NEW n \in Nat, n > 0
  PROVE  push(InBody(<< >>, n), BodyPart(body, n)) = State(TRUE, InHeader(0), <<body>>)
<1> DEFINE start == InBody(<< >>, n)
           chunk == BodyPart(body, n)
<1>1. /\ chunk \in Seq(Token) /\ Len(chunk) = n
      /\ \A k \in 1 .. n : chunk[k] = BodyByte(body, k)
  BY BodyParts DEF BodyPart
<1>2. start \in Decoder
  <2>1. << >> \in Seq(Token)
    OBVIOUS
  <2> QED  BY <2>1, DecoderTypes
<1>3. PICK run : PushRun(run, start, chunk) /\ push(start, chunk) = run[n]
  <2> HIDE DEF start, chunk
  <2> QED  BY <1>1, <1>2, PushRuns
<1>4. /\ run[0] = State(TRUE, start, << >>)
      /\ \A k \in 1 .. n : run[k] = PushByte(run[k - 1], BodyByte(body, k))
  <2> HIDE DEF chunk, start
  <2>1. run[0] = State(TRUE, start, << >>)
    BY <1>3 DEF PushRun, State
  <2>2. ASSUME NEW k \in 1 .. n
        PROVE  run[k] = PushByte(run[k - 1], BodyByte(body, k))
    BY <1>1, <1>3 DEF PushRun
  <2> QED  BY <2>1, <2>2
<1> HIDE DEF chunk
<1>5. ASSUME NEW k \in Nat
      PROVE  /\ InBody(BodyPart(body, k), n) \in Decoder
             /\ PushByte(State(TRUE, InBody(BodyPart(body, k), n), << >>), BodyByte(body, k + 1))
                  = IF k + 1 = n
                    THEN State(TRUE, InHeader(0), <<BodyOf(BodyPart(body, k + 1))>>)
                    ELSE State(TRUE, InBody(BodyPart(body, k + 1), n), << >>)
  <2> DEFINE d == InBody(BodyPart(body, k), n)
             s == State(TRUE, d, << >>)
             t == BodyByte(body, k + 1)
             more == BodyPart(body, k + 1)
  <2>1. /\ d \in Decoder /\ d.in = "body" /\ d.expected = n /\ d.bytes = BodyPart(body, k)
    BY BodyParts, DecoderTypes DEF InBody
  <2>2. Append(d.bytes, t) = more
    BY <2>1, BodyParts
  <2>3. /\ k + 1 \in Nat /\ more \in Seq(Token) /\ Len(more) = k + 1
    BY BodyParts
  <2>4. /\ InBody(more, n) \in Decoder /\ InHeader(0) \in Decoder /\ BodyOf(more) \in AnyBody
        /\ << >> \in Seq(AnyBody)
    <3> HIDE DEF more
    <3> QED  BY <2>3, DecoderTypes, BodyOfType
  <2>5. s.ok = TRUE /\ s.decoder = d
    BY StateFields
  <2>6. PushByte(s, t) = BodyStep(s, t)
    BY <2>1, <2>5 DEF PushByte
  <2>7. BodyStep(s, t) = IF k + 1 = n THEN Completed(s, InHeader(0), BodyOf(more))
                         ELSE Moved(s, InBody(more, n))
    <3> HIDE DEF more, s, t, d
    <3> QED  BY <2>1, <2>2, <2>3, <2>5 DEF BodyStep, Completed, Moved
  <2> HIDE DEF more, d
  <2>8. Completed(s, InHeader(0), BodyOf(more)) = State(TRUE, InHeader(0), Append(<< >>, BodyOf(more)))
    BY <2>1, <2>4, StateComplete
  <2>9. Moved(s, InBody(more, n)) = State(TRUE, InBody(more, n), << >>)
    BY <2>1, <2>4, StateMoved
  <2>10. Append(<< >>, BodyOf(more)) = <<BodyOf(more)>>
    BY <2>4
  <2> QED  BY <2>1, <2>6, <2>7, <2>8, <2>9, <2>10 DEF d, more
<1> DEFINE Is(k) == k < n => run[k] = State(TRUE, InBody(BodyPart(body, k), n), << >>)
           P == {k \in Nat : Is(k)}
<1>6. 0 \in P
  <2>1. BodyPart(body, 0) = << >>
    <3>1. BodyPart(body, 0) \in Seq(Token) /\ Len(BodyPart(body, 0)) = 0
      BY BodyParts
    <3> QED  BY <3>1
  <2> QED  BY <1>4, <2>1
<1>7. ASSUME NEW k \in Nat, k \in P
      PROVE  k + 1 \in P
  <2> SUFFICES ASSUME k + 1 < n
               PROVE  run[k + 1] = State(TRUE, InBody(BodyPart(body, k + 1), n), << >>)
    <3>1. k + 1 \in Nat /\ (k + 1 < n => run[k + 1] = State(TRUE, InBody(BodyPart(body, k + 1), n), << >>))
            => k + 1 \in P
      BY Zenon
    <3>2. k + 1 \in Nat
      OBVIOUS
    <3> HIDE DEF P, start
    <3> QED  BY <3>1, <3>2
  <2>1. k < n /\ k + 1 \in 1 .. n /\ (k + 1) - 1 = k /\ k + 1 # n
    <3> HIDE DEF P, start
    <3> QED  OBVIOUS
  <2>2. run[k + 1] = PushByte(run[k], BodyByte(body, k + 1))
    BY <1>4, <2>1
  <2>3. run[k] = State(TRUE, InBody(BodyPart(body, k), n), << >>)
    BY <1>7, <2>1
  <2> QED  BY <1>5, <2>1, <2>2, <2>3
<1>8. Nat \subseteq P
  <2> HIDE DEF P
  <2> QED  BY <1>6, <1>7, SetInduction
<1>9. PICK m \in Nat : n = m + 1
  <2>1. n - 1 \in Nat /\ n = (n - 1) + 1
    OBVIOUS
  <2> QED  BY <2>1
<1>10. run[m] = State(TRUE, InBody(BodyPart(body, m), n), << >>)
  <2>1. m < n /\ m \in P
    <3> HIDE DEF P
    <3> QED  BY <1>8, <1>9
  <2> QED  BY <2>1
<1>11. run[n] = PushByte(run[m], BodyByte(body, m + 1))
  <2>1. n \in 1 .. n /\ n - 1 = m
    BY <1>9
  <2> QED  BY <1>4, <1>9, <2>1
<1>12. run[n] = State(TRUE, InHeader(0), <<BodyOf(BodyPart(body, m + 1))>>)
  BY <1>5, <1>9, <1>10, <1>11
<1>13. BodyOf(BodyPart(body, n)) = body
  BY BodyParts
<1> QED  BY <1>3, <1>9, <1>12, <1>13 DEF chunk

\* A header is followed by the bytes of its body, if it has some.
LEMMA HeaderPushed ==
  ASSUME NEW length \in Nat, length <= MaxInboundBodyBytes
  PROVE  push(InHeader(0), <<HeaderByte, HeaderEnd(length)>>)
           = IF length = 0 THEN State(TRUE, InHeader(0), <<EmptyBody>>)
             ELSE State(TRUE, InBody(<< >>, length), << >>)
<1> DEFINE chunk == <<HeaderByte, HeaderEnd(length)>>
           first == State(TRUE, InHeader(0), << >>)
           second == State(TRUE, InHeader(1), << >>)
<1>1. /\ HeaderByte \in Token /\ HeaderEnd(length) \in Token
      /\ HeaderByte.token = "header" /\ HeaderEnd(length).token = "end"
      /\ HeaderEnd(length).length = length
  BY DEF Token, HeaderByte, HeaderEnd
<1>2. /\ chunk \in Seq(Token) /\ Len(chunk) = 2
      /\ chunk[1] = HeaderByte /\ chunk[2] = HeaderEnd(length)
  <2> HIDE DEF HeaderByte, HeaderEnd
  <2> QED  BY <1>1
<1>3. /\ InHeader(0) \in Decoder /\ InHeader(1) \in Decoder /\ << >> \in Seq(Token)
      /\ << >> \in Seq(AnyBody) /\ EmptyBody \in AnyBody
  BY DecoderTypes DEF AnyBody
<1>4. InBody(<< >>, length) \in Decoder
  BY <1>3, DecoderTypes
<1>5. /\ InHeader(0).in = "header" /\ InHeader(0).seen = 0
      /\ InHeader(1).in = "header" /\ InHeader(1).seen = 1
  BY DEF InHeader
<1>6. /\ first.ok = TRUE /\ first.decoder = InHeader(0)
      /\ second.ok = TRUE /\ second.decoder = InHeader(1)
  BY StateFields
<1>7. PICK run : PushRun(run, InHeader(0), chunk) /\ push(InHeader(0), chunk) = run[2]
  <2> HIDE DEF chunk
  <2> QED  BY <1>2, <1>3, PushRuns
<1>8. /\ run[0] = first /\ run[1] = PushByte(run[0], HeaderByte)
      /\ run[2] = PushByte(run[1], HeaderEnd(length))
  <2> HIDE DEF chunk
  <2>1. run[0] = first
    BY <1>7 DEF PushRun, State
  <2>2. \A k \in 1 .. 2 : run[k] = PushByte(run[k - 1], chunk[k])
    BY <1>2, <1>7 DEF PushRun
  <2>3. 1 \in 1 .. 2 /\ 2 \in 1 .. 2 /\ 1 - 1 = 0 /\ 2 - 1 = 1
    OBVIOUS
  <2>4. run[1] = PushByte(run[0], chunk[1]) /\ run[2] = PushByte(run[1], chunk[2])
    BY <2>2, <2>3
  <2> QED  BY <1>2, <2>1, <2>4
<1>9. run[1] = second
  <2>1. PushByte(first, HeaderByte) = HeaderStep(first, HeaderByte)
    BY <1>5, <1>6 DEF PushByte
  <2>2. 1 = first.decoder.seen + 1 /\ ~Bad(1, HeaderByte) /\ HeaderByte.token # "end"
    <3>1. MaxHeaderBytes \in Nat /\ MaxHeaderBytes > 1
      BY FramingAssumption
    <3> HIDE DEF first
    <3> QED  BY <1>1, <1>5, <1>6, <3>1 DEF Bad
  <2> HIDE DEF first
  <2>3. HeaderStep(first, HeaderByte) = Moved(first, InHeader(1))
    BY <2>2, HeaderCases
  <2> QED  BY <1>3, <1>8, <2>1, <2>3, StateMoved DEF first
<1>10. PushByte(second, HeaderEnd(length)) = HeaderStep(second, HeaderEnd(length))
  BY <1>5, <1>6 DEF PushByte
<1>11. 2 = second.decoder.seen + 1 /\ ~Bad(2, HeaderEnd(length))
  <2>1. MaxInboundBodyBytes \in Nat
    BY FramingAssumption
  <2> HIDE DEF second
  <2> QED  BY <1>1, <1>5, <1>6, <2>1 DEF Bad
<1>12. CASE length = 0
  <2>1. HeaderStep(second, HeaderEnd(length)) = Completed(second, InHeader(0), EmptyBody)
    <3> HIDE DEF second
    <3> QED  BY <1>1, <1>11, <1>12, HeaderCases
  <2>2. Completed(second, InHeader(0), EmptyBody)
          = State(TRUE, InHeader(0), Append(<< >>, EmptyBody))
    BY <1>3, StateComplete
  <2>3. Append(<< >>, EmptyBody) = <<EmptyBody>>
    OBVIOUS
  <2> QED  BY <1>7, <1>8, <1>9, <1>10, <1>12, <2>1, <2>2, <2>3
<1>13. CASE length # 0
  <2>1. HeaderStep(second, HeaderEnd(length)) = Moved(second, InBody(<< >>, length))
    <3> HIDE DEF second
    <3> QED  BY <1>1, <1>11, <1>13, HeaderCases
  <2>2. Moved(second, InBody(<< >>, length)) = State(TRUE, InBody(<< >>, length), << >>)
    BY <1>3, <1>4, StateMoved
  <2> QED  BY <1>7, <1>8, <1>9, <1>10, <1>13, <2>1, <2>2
<1> QED  BY <1>12, <1>13

\* No byte, no change.
LEMMA NothingPushed ==
  ASSUME NEW d \in Decoder
  PROVE  push(d, << >>) = State(TRUE, d, << >>)
<1>1. << >> \in Seq(Token) /\ Len(<< >>) = 0
  OBVIOUS
<1>2. PICK run : PushRun(run, d, << >>) /\ push(d, << >>) = run[Len(<< >>)]
  BY <1>1, PushRuns
<1> QED  BY <1>1, <1>2 DEF PushRun, State

\* A state in which nothing was refused.
Going(d, bodies) == State(TRUE, d, bodies)

LEMMA AfterState ==
  ASSUME NEW d, NEW X, NEW chunk, NEW e, NEW Y, push(d, chunk) = Going(e, Y)
  PROVE  After(Going(d, X), chunk) = Going(e, X \o Y)
<1>1. /\ Going(d, X).ok = TRUE /\ Going(d, X).decoder = d
      /\ Going(d, X).bodies = X
      /\ Going(e, Y).ok = TRUE /\ Going(e, Y).decoder = e
      /\ Going(e, Y).bodies = Y
  BY DEF State, Going
<1>2. After(Going(d, X), chunk) = Prefixed(X, Going(e, Y))
  BY <1>1 DEF After
<1>3. Prefixed(X, Going(e, Y)) = Going(e, X \o Y)
  BY <1>1, Zenon DEF Prefixed, State, Going
<1> QED  BY <1>2, <1>3

\* A whole frame is one body, which classifies as the one that was written.
LEMMA FramePushed ==
  ASSUME NEW body \in Bodies
  PROVE  \E b \in AnyBody : /\ push(InHeader(0), Frame(body)) = Going(InHeader(0), <<b>>)
                            /\ decode_body(b) = decode_body(body)
<1> DEFINE n == body.length
           head == <<HeaderByte, HeaderEnd(n)>>
           d == InHeader(0)
<1>1. n \in Nat /\ n <= MaxInboundBodyBytes /\ (n = 0 => body.shape # "object")
  BY TransportAssumption, FramingAssumption
<1>2. /\ head \in Seq(Token) /\ BodyPart(body, n) \in Seq(Token) /\ d \in Decoder
  <2>1. HeaderByte \in Token /\ HeaderEnd(n) \in Token
    BY <1>1 DEF Token
  <2> QED  BY <1>1, <2>1, BodyParts, DecoderTypes
<1>3. Frame(body) = head \o BodyPart(body, n)
  BY DEF Frame, BodyPart
<1>4. push(d, head) = IF n = 0 THEN Going(d, <<EmptyBody>>)
                      ELSE Going(InBody(<< >>, n), << >>)
  BY <1>1, HeaderPushed DEF Going
<1> HIDE DEF n, head, d
<1>5. push(d, Frame(body)) = After(push(d, head), BodyPart(body, n))
  BY <1>2, <1>3, PushConcat
<1>6. CASE n = 0
  <2>1. push(d, head) = Going(d, <<EmptyBody>>)
    BY <1>4, <1>6
  <2>2. BodyPart(body, n) = << >>
    <3>1. Len(BodyPart(body, n)) = 0
      BY <1>1, <1>6, BodyParts
    <3> QED  BY <1>2, <3>1
  <2>3. push(d, << >>) = Going(d, << >>)
    BY <1>2, NothingPushed DEF Going
  <2>4. <<EmptyBody>> \o << >> = <<EmptyBody>>
    OBVIOUS
  <2>5. push(d, Frame(body)) = Going(d, <<EmptyBody>>)
    <3> DEFINE X == <<EmptyBody>>
               Y == << >>
    <3>1. /\ push(d, head) = Going(d, X)
          /\ push(d, BodyPart(body, n)) = Going(d, Y)
      BY <2>1, <2>2, <2>3
    <3>4. X \o Y = X
      BY <2>4
    <3> HIDE DEF X, Y
    <3>2. After(Going(d, X), BodyPart(body, n)) = Going(d, X \o Y)
      BY <3>1, AfterState
    <3>3. push(d, Frame(body)) = Going(d, X)
      BY <1>5, <3>1, <3>2, <3>4
    <3> QED  BY <3>3 DEF X
  <2>6. decode_body(EmptyBody) = Invalid
    BY DEF decode_body, EmptyBody
  <2>7. decode_body(body) = Invalid
    BY <1>1, <1>6 DEF decode_body
  <2> QED  BY <2>5, <2>6, <2>7 DEF AnyBody, d
<1>7. CASE n # 0
  <2> DEFINE e == InBody(<< >>, n)
  <2>1. push(d, head) = Going(e, << >>)
    BY <1>4, <1>7
  <2>2. push(e, BodyPart(body, n)) = Going(d, <<body>>)
    <3>1. n > 0
      BY <1>1, <1>7
    <3> QED  BY <1>1, <3>1, BodyPushed DEF d, Going
  <2>3. << >> \o <<body>> = <<body>>
    OBVIOUS
  <2> HIDE DEF e
  <2>4. push(d, Frame(body)) = Going(d, <<body>>)
    <3> DEFINE X == << >>
               Y == <<body>>
    <3>1. /\ push(d, head) = Going(e, X)
          /\ push(e, BodyPart(body, n)) = Going(d, Y)
      BY <2>1, <2>2
    <3>4. X \o Y = Y
      BY <2>3
    <3> HIDE DEF X, Y
    <3>2. After(Going(e, X), BodyPart(body, n)) = Going(d, X \o Y)
      BY <3>1, AfterState
    <3>3. push(d, Frame(body)) = Going(d, Y)
      BY <1>5, <3>1, <3>2, <3>4
    <3> QED  BY <3>3 DEF Y
  <2> QED  BY <2>4 DEF AnyBody, d
<1> QED  BY <1>6, <1>7

-----------------------------------------------------------------------------
(***************************************************************************)
(* The stream: what the server wrote, what is buffered, and what the       *)
(* decoder will make of the bytes that are still in the pipe.              *)
(***************************************************************************)
Heard == Message \cup {Invalid}

\* What push will make of the bytes in the pipe.
Ahead == push(decoder, pipe)

\* The first n messages written were taken from the pipe; the bytes in it are
\* the others, whole or up to one that is refused.
Remaining(ahead, n, log) ==
  /\ n + Len(ahead.bodies) <= Len(log)
  /\ \A k \in 1 .. Len(ahead.bodies) : decode_body(ahead.bodies[k]) = log[n + k]
  /\ ahead.ok => n + Len(ahead.bodies) = Len(log) /\ ahead.decoder = InHeader(0)
  /\ ~ahead.ok => /\ n + Len(ahead.bodies) < Len(log)
                  /\ log[n + Len(ahead.bodies) + 1] = Invalid

MessagesOf(entries) == [k \in DOMAIN entries |-> entries[k].message]

\* The awaited answer is pending unless it is among the first n messages.
IsAwaited(message, id) == message.kind = "response" /\ message.id = id
AnsweredBy(c, n, id, log) ==
  /\ c.next_id - 1 = id /\ c.pending \subseteq {id}
  /\ c.pending = {} => \E k \in 1 .. n : IsAwaited(log[k], id)

\* Why a stream may be called broken.
BrokenBy(log, id) ==
  \E k \in DOMAIN log :
    \/ log[k] = Invalid
    \/ /\ log[k].kind = "response"
       /\ {j \in DOMAIN log : IsAwaited(log[j], id)} # {k}

Awaiting ==
  pc \in AwaitPc \/ (pc = "returned" /\ result.kind \in {"request", "notification"})

\* The session has not ended, and no error is certain to end it.
Intact ==
  /\ pc # "done" /\ stdout # "seen" /\ result.kind # "error"
  /\ "protocol" \notin ready /\ ~("integration" \in ready /\ pc \in DecidePc)

Matches(n) ==
  /\ Remaining(Ahead, n, outstanding)
  /\ "integration" \notin ready => MessagesOf(incoming) = SubSeq(outstanding, 1, n)
  /\ Awaiting => AnsweredBy(correlator, n, correlator.next_id - 1, outstanding)

StreamInv ==
  /\ outstanding \in Seq(Heard)
  /\ Intact => \E n \in 0 .. Len(outstanding) : Matches(n)
  /\ pc # "done" /\ "integration" \notin ready =>
       \E n \in 0 .. Len(outstanding) : MessagesOf(incoming) = SubSeq(outstanding, 1, n)
  /\ pc # "done" /\ "protocol" \in ready /\ stdout # "seen" =>
       BrokenBy(outstanding, correlator.next_id - 1)

-----------------------------------------------------------------------------
\* What holds of the bodies of a chunk while they are decoded: the first m
\* messages written have been looked at.
Follows(s, m, id, log) ==
  /\ "protocol" \in s.ready =>
       /\ s.stop /\ BrokenBy(log, id) /\ s.correlator.next_id - 1 = id
       /\ "integration" \notin s.ready =>
            \E n \in 0 .. Len(log) : MessagesOf(s.incoming) = SubSeq(log, 1, n)
  /\ "protocol" \notin s.ready =>
       /\ AnsweredBy(s.correlator, m, id, log)
       /\ "integration" \notin s.ready =>
            ~s.stop /\ MessagesOf(s.incoming) = SubSeq(log, 1, m)

\* An interval from 1 is known by its end.
LEMMA IntervalEnd ==
  ASSUME NEW a \in Nat, NEW b \in Nat, 1 .. a = 1 .. b
  PROVE  a = b
<1>1. \A c \in Nat : c > 0 => c \in 1 .. c
  OBVIOUS
<1>2. a > 0 => a \in 1 .. b
  BY <1>1
<1>3. b > 0 => b \in 1 .. a
  BY <1>1
<1>4. a > 0 => a <= b
  BY <1>2
<1>5. b > 0 => b <= a
  BY <1>3
<1> QED  BY <1>4, <1>5

\* One more message is buffered.
LEMMA MessagesAppend ==
  ASSUME NEW entries \in Seq(Entry), NEW entry \in Entry, NEW log \in Seq(Heard),
         NEW m \in Nat, m < Len(log), MessagesOf(entries) = SubSeq(log, 1, m),
         entry.message = log[m + 1]
  PROVE  MessagesOf(Append(entries, entry)) = SubSeq(log, 1, m + 1)
<1> DEFINE more == Append(entries, entry)
<1>1. /\ Len(entries) \in Nat /\ DOMAIN more = 1 .. Len(entries) + 1
      /\ DOMAIN entries = 1 .. Len(entries)
      /\ more[Len(entries) + 1] = entry
      /\ \A k \in 1 .. Len(entries) : more[k] = entries[k]
  OBVIOUS
<1>2. /\ Len(log) \in Nat /\ SubSeq(log, 1, m + 1) = [k \in 1 .. m + 1 |-> log[k]]
      /\ SubSeq(log, 1, m) = [k \in 1 .. m |-> log[k]]
  OBVIOUS
<1> HIDE DEF more
<1>3. Len(entries) = m /\ \A k \in 1 .. m : entries[k].message = log[k]
  <2>1. [k \in 1 .. Len(entries) |-> entries[k].message] = [k \in 1 .. m |-> log[k]]
    BY <1>1, <1>2 DEF MessagesOf
  <2>2. 1 .. Len(entries) = 1 .. m
    BY <2>1
  <2>3. Len(entries) = m
    BY <1>1, <2>2, IntervalEnd
  <2> QED  BY <2>1, <2>3
<1>4. MessagesOf(more) = [k \in 1 .. m + 1 |-> more[k].message]
  BY <1>1, <1>3 DEF MessagesOf
<1>5. ASSUME NEW k \in 1 .. m + 1
      PROVE  more[k].message = log[k]
  <2>1. k \in 1 .. m \/ k = m + 1
    OBVIOUS
  <2> QED  BY <1>1, <1>3, <2>1
<1> QED  BY <1>2, <1>4, <1>5 DEF more

\* DecodeBody looks at one more message.
LEMMA FollowsBody ==
  ASSUME NEW s \in DecodeRecord, NEW body \in AnyBody, NEW id, NEW log \in Seq(Heard),
         NEW m \in Nat, m < Len(log), decode_body(body) = log[m + 1], Follows(s, m, id, log)
  PROVE  Follows(DecodeBody(s, body), m + 1, id, log)
<1> DEFINE message == decode_body(body)
           answered == message.kind = "response"
           completed == complete(s.correlator, message.id)
           entry == [message |-> message, bytes |-> body.length]
           kept == [s EXCEPT !.correlator = IF answered THEN completed.correlator ELSE @,
                             !.bytes = s.bytes + body.length,
                             !.incoming = Append(@, entry)]
           failed == [s EXCEPT !.ready = @ \cup {"protocol"}, !.stop = TRUE]
<1>1. /\ s.correlator \in Correlator /\ s.incoming \in Seq(Entry) /\ s.bytes \in Nat
      /\ s.ready \subseteq Class
  BY DEF DecodeRecord
<1>2. ASSUME NEW c, AnsweredBy(c, m, id, log)
      PROVE  AnsweredBy(c, m + 1, id, log)
  <2>1. 1 .. m \subseteq 1 .. m + 1
    OBVIOUS
  <2> QED  BY <1>2, <2>1 DEF AnsweredBy
<1>3. CASE s.stop
  <2>1. DecodeBody(s, body) = s
    BY <1>3 DEF DecodeBody
  <2> QED  BY <1>2, <1>3, <2>1 DEF Follows
<1>4. ASSUME ~s.stop
      PROVE  /\ "protocol" \notin s.ready
             /\ AnsweredBy(s.correlator, m, id, log)
             /\ "integration" \notin s.ready => MessagesOf(s.incoming) = SubSeq(log, 1, m)
  BY <1>4 DEF Follows
<1>5. m + 1 \in DOMAIN log /\ 1 .. m \subseteq DOMAIN log /\ m \in 0 .. Len(log)
  OBVIOUS
<1>6. CASE ~s.stop /\ (message = Invalid \/ (answered /\ ~completed.ok))
  <2>1. DecodeBody(s, body) = failed
    BY <1>6 DEF DecodeBody
  <2>2. /\ failed.correlator = s.correlator /\ failed.incoming = s.incoming
        /\ failed.ready = s.ready \cup {"protocol"} /\ failed.stop
    BY DEF DecodeRecord
  <2>3. BrokenBy(log, id)
    <3>1. CASE message = Invalid
      BY <1>5, <3>1 DEF BrokenBy
    <3>2. CASE answered /\ ~completed.ok
      <4>1. message.id \notin s.correlator.pending
        BY <3>2 DEF complete
      <4>2. {j \in DOMAIN log : IsAwaited(log[j], id)} # {m + 1}
        <5>1. CASE message.id = id
          <6>1. s.correlator.pending = {}
            BY <1>4, <1>6, <4>1, <5>1 DEF AnsweredBy
          <6>2. PICK k \in 1 .. m : IsAwaited(log[k], id)
            BY <1>4, <1>6, <6>1 DEF AnsweredBy
          <6>3. k \in DOMAIN log /\ k # m + 1
            BY <1>5
          <6> QED  BY <6>2, <6>3
        <5>2. CASE message.id # id
          BY <5>2 DEF IsAwaited
        <5> QED  BY <5>1, <5>2
      <4> QED  BY <1>5, <3>2, <4>2 DEF BrokenBy
    <3> QED  BY <1>6, <3>1, <3>2
  <2>4. s.correlator.next_id - 1 = id
    BY <1>4, <1>6 DEF AnsweredBy
  <2> HIDE DEF failed
  <2> QED  BY <1>4, <1>5, <1>6, <2>1, <2>2, <2>3, <2>4 DEF Follows
<1>7. CASE ~s.stop /\ message # Invalid /\ ~(answered /\ ~completed.ok)
  <2>1. body.length \in Nat
    BY TransportAssumption DEF AnyBody, EmptyBody
  <2>2. message \in Message
    BY <1>7 DEF Message
  <2>3. entry \in Entry /\ entry.message = message
    BY <2>1, <2>2 DEF Entry
  <2>4. /\ kept.incoming = Append(s.incoming, entry) /\ kept.ready = s.ready
        /\ kept.stop = s.stop
        /\ kept.correlator = IF answered THEN completed.correlator ELSE s.correlator
    BY DEF DecodeRecord
  <2>5. AnsweredBy(kept.correlator, m + 1, id, log)
    <3>1. CASE ~answered
      BY <1>2, <1>4, <1>7, <2>4, <3>1
    <3>2. CASE answered
      <4>1. message.id \in s.correlator.pending
            /\ completed.correlator = [s.correlator EXCEPT !.pending = @ \ {message.id}]
        BY <1>7, <3>2 DEF complete
      <4>2. /\ kept.correlator.next_id = s.correlator.next_id
            /\ kept.correlator.pending = s.correlator.pending \ {message.id}
        BY <1>1, <2>4, <3>2, <4>1 DEF Correlator
      <4>3. s.correlator.pending \subseteq {id} /\ s.correlator.next_id - 1 = id
        BY <1>4, <1>7 DEF AnsweredBy
      <4>4. message.id = id
        BY <4>1, <4>3
      <4>5. IsAwaited(log[m + 1], id) /\ m + 1 \in 1 .. m + 1
        BY <3>2, <4>4 DEF IsAwaited
      <4> HIDE DEF kept, message
      <4> QED  BY <4>2, <4>3, <4>5 DEF AnsweredBy
    <3> QED  BY <3>1, <3>2
  <2>6. CASE \/ s.bytes + body.length > MaxBufferedBytes
             \/ Len(kept.incoming) > MaxBufferedMessages
    <3> DEFINE over == Overflowed(kept)
    <3>1. DecodeBody(s, body) = over
      BY <1>7, <2>6 DEF DecodeBody
    <3>2. over.correlator = kept.correlator /\ over.ready = s.ready \cup {"integration"}
      BY DEF Overflowed, DecodeRecord
    <3> HIDE DEF over, kept
    <3> QED  BY <1>4, <1>7, <2>5, <3>1, <3>2 DEF Follows
  <2>7. CASE ~(\/ s.bytes + body.length > MaxBufferedBytes
               \/ Len(kept.incoming) > MaxBufferedMessages)
    <3>1. DecodeBody(s, body) = kept
      BY <1>7, <2>7 DEF DecodeBody
    <3>2. "integration" \notin s.ready => MessagesOf(kept.incoming) = SubSeq(log, 1, m + 1)
      <4> HIDE DEF entry, kept
      <4> QED  BY <1>1, <1>4, <1>7, <2>3, <2>4, MessagesAppend
    <3> HIDE DEF kept
    <3> QED  BY <1>4, <1>7, <2>4, <2>5, <3>1, <3>2 DEF Follows
  <2> QED  BY <2>6, <2>7
<1> QED  BY <1>3, <1>6, <1>7

\* decode_chunk looks at as many messages as there are bodies.
LEMMA FollowsBodies ==
  ASSUME NEW R \in SUBSET Class, NEW start \in DecodeState(R), NEW bodies \in Seq(AnyBody),
         NEW id, NEW log \in Seq(Heard), NEW m \in Nat, m + Len(bodies) <= Len(log),
         \A k \in 1 .. Len(bodies) : decode_body(bodies[k]) = log[m + k],
         Follows(start, m, id, log)
  PROVE  Follows(DecodeBodies(start, bodies), m + Len(bodies), id, log)
<1> DEFINE n == Len(bodies)
<1>1. n \in Nat /\ \A k \in 1 .. n : bodies[k] \in AnyBody
  OBVIOUS
<1>2. PICK run : /\ run[0] = start /\ DecodeBodies(start, bodies) = run[n]
                 /\ \A k \in 1 .. n : run[k] = DecodeBody(run[k - 1], bodies[k])
                 /\ \A k \in 0 .. n : run[k] \in DecodeState(R)
  BY DecodeRuns
<1>3. \A k \in 0 .. n : run[k] \in DecodeRecord
  BY <1>2 DEF DecodeState
<1>4. /\ m + n <= Len(log) /\ Len(log) \in Nat
      /\ \A k \in 1 .. n : decode_body(bodies[k]) = log[m + k]
  OBVIOUS
<1> DEFINE Is(k) == k <= n => Follows(run[k], m + k, id, log)
           P == {k \in Nat : Is(k)}
<1> HIDE DEF n
<1>5. 0 \in P
  BY <1>2
<1>6. ASSUME NEW k \in Nat, Is(k)
      PROVE  Is(k + 1)
  <2> SUFFICES ASSUME k + 1 <= n
               PROVE  Follows(run[k + 1], m + (k + 1), id, log)
    OBVIOUS
  <2>1. /\ k <= n /\ k \in 0 .. n /\ k + 1 \in 1 .. n /\ (k + 1) - 1 = k
        /\ m + k \in Nat /\ m + k < Len(log) /\ m + (k + 1) = (m + k) + 1
    BY <1>1, <1>4
  <2>2. run[k + 1] = DecodeBody(run[k], bodies[k + 1]) /\ bodies[k + 1] \in AnyBody
        /\ run[k] \in DecodeRecord
    BY <1>1, <1>2, <1>3, <2>1
  <2>3. decode_body(bodies[k + 1]) = log[(m + k) + 1]
    BY <1>4, <2>1
  <2>4. Follows(run[k], m + k, id, log)
    BY <1>6, <2>1
  <2>5. Follows(DecodeBody(run[k], bodies[k + 1]), (m + k) + 1, id, log)
    <3> HIDE DEF Is
    <3> QED  BY <2>1, <2>2, <2>3, <2>4, FollowsBody
  <2> QED  BY <2>1, <2>2, <2>5
<1>7. Nat \subseteq P
  <2>1. \A k \in Nat : k \in P => k + 1 \in P
    BY <1>6
  <2> HIDE DEF P
  <2> QED  BY <1>5, <2>1, SetInduction
<1>8. Is(n)
  BY <1>1, <1>7
<1> QED  BY <1>1, <1>2, <1>8 DEF n

-----------------------------------------------------------------------------
(***************************************************************************)
(* What is written is appended, what is taken is a prefix.                 *)
(***************************************************************************)
\* Once a chunk is taken, the bytes in the pipe are the messages after it.
LEMMA RemainingRest ==
  ASSUME NEW B \in Seq(AnyBody), NEW rest \in PushState, NEW log \in Seq(Heard),
         NEW n \in Nat, Remaining(Prefixed(B, rest), n, log)
  PROVE  /\ n + Len(B) \in 0 .. Len(log)
         /\ \A k \in 1 .. Len(B) : decode_body(B[k]) = log[n + k]
         /\ Remaining(rest, n + Len(B), log)
<1> DEFINE X == rest.bodies
           both == B \o X
           ahead == Prefixed(B, rest)
<1>1. X \in Seq(AnyBody) /\ rest.ok \in BOOLEAN
  BY DEF PushState
<1>2. ahead.ok = rest.ok /\ ahead.decoder = rest.decoder /\ ahead.bodies = both
  BY DEF Prefixed
<1>3. /\ Len(both) = Len(B) + Len(X) /\ Len(B) \in Nat /\ Len(X) \in Nat /\ Len(log) \in Nat
      /\ \A k \in 1 .. Len(B) : both[k] = B[k]
      /\ \A k \in 1 .. Len(X) : both[Len(B) + k] = X[k]
  <2> HIDE DEF X
  <2> QED  BY <1>1
<1> HIDE DEF both, ahead, X
<1>4. /\ n + Len(both) <= Len(log)
      /\ \A k \in 1 .. Len(both) : decode_body(both[k]) = log[n + k]
      /\ rest.ok => n + Len(both) = Len(log) /\ rest.decoder = InHeader(0)
      /\ ~rest.ok => n + Len(both) < Len(log) /\ log[n + Len(both) + 1] = Invalid
  BY <1>2 DEF Remaining, ahead
<1>5. ASSUME NEW k \in 1 .. Len(B)
      PROVE  decode_body(B[k]) = log[n + k]
  <2>1. k \in 1 .. Len(both)
    BY <1>3
  <2> QED  BY <1>3, <1>4, <2>1
<1>6. ASSUME NEW k \in 1 .. Len(X)
      PROVE  decode_body(X[k]) = log[(n + Len(B)) + k]
  <2>1. Len(B) + k \in 1 .. Len(both) /\ n + (Len(B) + k) = (n + Len(B)) + k
    BY <1>3
  <2> QED  BY <1>3, <1>4, <2>1
<1>7. n + Len(both) = (n + Len(B)) + Len(X) /\ n + Len(B) \in 0 .. Len(log)
  BY <1>3, <1>4
<1>8. Remaining(rest, n + Len(B), log)
  BY <1>1, <1>4, <1>6, <1>7 DEF Remaining, X
<1> QED  BY <1>5, <1>7, <1>8

\* One more message is written behind the bytes in the pipe.
LEMMA RemainingWritten ==
  ASSUME NEW ahead \in PushState, NEW more \in PushState, NEW log \in Seq(Heard),
         NEW message \in Heard, NEW n \in Nat, Remaining(ahead, n, log),
         \/ ahead.ok /\ ~more.ok /\ more.bodies = << >> /\ message = Invalid
         \/ /\ ahead.ok /\ more.ok /\ more.decoder = InHeader(0)
            /\ \E b \in AnyBody : more.bodies = <<b>> /\ decode_body(b) = message
         \/ ~ahead.ok
  PROVE  Remaining(IF ahead.ok THEN Prefixed(ahead.bodies, more) ELSE ahead,
                   n, Append(log, message))
<1> DEFINE B == ahead.bodies
           X == more.bodies
           log2 == Append(log, message)
           both == B \o X
           next == Prefixed(B, more)
<1>1. B \in Seq(AnyBody) /\ X \in Seq(AnyBody) /\ ahead.ok \in BOOLEAN
  BY DEF PushState
<1>2. /\ Len(log) \in Nat /\ Len(log2) = Len(log) + 1 /\ log2[Len(log) + 1] = message
      /\ \A k \in 1 .. Len(log) : log2[k] = log[k]
  OBVIOUS
<1>3. /\ Len(B) \in Nat /\ n + Len(B) <= Len(log)
      /\ \A k \in 1 .. Len(B) : decode_body(B[k]) = log[n + k]
      /\ ahead.ok => n + Len(B) = Len(log)
      /\ ~ahead.ok => n + Len(B) < Len(log) /\ log[n + Len(B) + 1] = Invalid
  BY <1>1 DEF Remaining
<1>4. /\ Len(both) = Len(B) + Len(X) /\ Len(X) \in Nat
      /\ \A k \in 1 .. Len(B) : both[k] = B[k]
      /\ \A k \in 1 .. Len(X) : both[Len(B) + k] = X[k]
  <2> HIDE DEF B, X
  <2> QED  BY <1>1
<1>5. next.ok = more.ok /\ next.decoder = more.decoder /\ next.bodies = both
  BY DEF Prefixed
<1> HIDE DEF log2, both, next
<1>6. \A k \in 1 .. Len(B) : decode_body(B[k]) = log2[n + k]
  <2>1. \A k \in 1 .. Len(B) : n + k \in 1 .. Len(log)
    BY <1>2, <1>3
  <2> QED  BY <1>2, <1>3, <2>1
<1>7. CASE ~ahead.ok
  <2>1. n + Len(B) + 1 \in 1 .. Len(log)
    BY <1>2, <1>3, <1>7
  <2>2. Remaining(ahead, n, log2)
    BY <1>2, <1>3, <1>6, <1>7, <2>1 DEF Remaining
  <2> QED  BY <1>7, <2>2 DEF log2
<1>8. CASE ahead.ok /\ ~more.ok /\ more.bodies = << >> /\ message = Invalid
  <2>1. Len(both) = Len(B) /\ n + Len(both) + 1 = Len(log) + 1
    <3>1. Len(<< >>) = 0
      OBVIOUS
    <3> QED  BY <1>3, <1>4, <1>8, <3>1
  <2>2. Remaining(next, n, log2)
    BY <1>2, <1>3, <1>4, <1>5, <1>6, <1>8, <2>1 DEF Remaining
  <2> QED  BY <1>8, <2>2 DEF next, log2
<1>9. CASE /\ ahead.ok /\ more.ok /\ more.decoder = InHeader(0)
           /\ \E b \in AnyBody : more.bodies = <<b>> /\ decode_body(b) = message
  <2>1. PICK b \in AnyBody : X = <<b>> /\ decode_body(b) = message
    BY <1>9
  <2>2. /\ Len(X) = 1 /\ X[1] = b /\ Len(both) = Len(B) + 1
        /\ n + Len(both) = Len(log) + 1 /\ both[Len(B) + 1] = b
    <3>1. Len(<<b>>) = 1 /\ <<b>>[1] = b /\ 1 \in 1 .. 1
      OBVIOUS
    <3>2. Len(X) = 1 /\ X[1] = b
      BY <2>1, <3>1
    <3>3. both[Len(B) + 1] = X[1]
      BY <1>4, <3>1, <3>2
    <3> QED  BY <1>3, <1>4, <1>9, <3>2, <3>3
  <2>3. ASSUME NEW k \in 1 .. Len(both)
        PROVE  decode_body(both[k]) = log2[n + k]
    <3>1. k \in 1 .. Len(B) \/ k = Len(B) + 1
      BY <1>3, <2>2
    <3>2. n + (Len(B) + 1) = Len(log) + 1
      BY <1>3, <2>2
    <3> QED  BY <1>2, <1>4, <1>6, <2>1, <2>2, <3>1, <3>2
  <2>4. Remaining(next, n, log2)
    BY <1>2, <1>5, <1>9, <2>2, <2>3 DEF Remaining
  <2> QED  BY <1>9, <2>4 DEF next, log2
<1> QED  BY <1>7, <1>8, <1>9

\* Nothing of a stream is buffered first.
LEMMA NoneBuffered ==
  ASSUME NEW log \in Seq(Heard)
  PROVE  MessagesOf(<< >>) = SubSeq(log, 1, 0) /\ 0 \in 0 .. Len(log)
<1>1. /\ SubSeq(log, 1, 0) = << >> /\ 0 \in 0 .. Len(log)
  OBVIOUS
<1>2. MessagesOf(<< >>) = << >>
  BY DEF MessagesOf
<1> QED  BY <1>1, <1>2

-----------------------------------------------------------------------------
(***************************************************************************)
(* The steps.                                                              *)
(***************************************************************************)
\* A step that leaves the pipe, the buffer and the messages written alone.
LEMMA StreamKept ==
  ASSUME StreamInv, pc # "done", UNCHANGED <<incoming, outstanding>>,
         "integration" \in ready => "integration" \in ready',
         Intact' => /\ Intact /\ UNCHANGED <<pipe, decoder>>
                    /\ Awaiting' => \/ Awaiting /\ correlator' = correlator
                                    \/ correlator'.pending = {correlator'.next_id - 1},
         pc' # "done" /\ "protocol" \in ready' /\ stdout' # "seen" =>
           "protocol" \in ready /\ stdout # "seen" /\ correlator' = correlator
  PROVE  StreamInv'
<1>1. outstanding' \in Seq(Heard)
  BY DEF StreamInv
<1>2. ASSUME Intact'
      PROVE  \E n \in 0 .. Len(outstanding') : Matches(n)'
  <2>1. PICK n \in 0 .. Len(outstanding) : Matches(n)
    BY <1>2 DEF StreamInv
  <2>2. Ahead' = Ahead
    BY <1>2 DEF Ahead
  <2>3. Remaining(Ahead', n, outstanding')
    BY <2>1, <2>2 DEF Matches
  <2>4. "integration" \notin ready' => MessagesOf(incoming') = SubSeq(outstanding', 1, n)
    BY <2>1 DEF Matches
  <2>5. Awaiting' => AnsweredBy(correlator', n, correlator'.next_id - 1, outstanding')
    <3>1. CASE Awaiting /\ correlator' = correlator
      BY <2>1, <3>1 DEF Matches
    <3>2. CASE correlator'.pending = {correlator'.next_id - 1}
      BY <3>2 DEF AnsweredBy
    <3> QED  BY <1>2, <3>1, <3>2
  <2> QED  BY <2>1, <2>3, <2>4, <2>5 DEF Matches
<1>3. ASSUME pc' # "done", "integration" \notin ready'
      PROVE  \E n \in 0 .. Len(outstanding') : MessagesOf(incoming') = SubSeq(outstanding', 1, n)
  BY <1>3 DEF StreamInv
<1>4. ASSUME pc' # "done", "protocol" \in ready', stdout' # "seen"
      PROVE  BrokenBy(outstanding', correlator'.next_id - 1)
  BY <1>4 DEF StreamInv
<1> QED  BY <1>1, <1>2, <1>3, <1>4 DEF StreamInv

\* The session ends.
LEMMA StreamEnds ==
  ASSUME pc' = "done", TransportKept
  PROVE  StreamInv'
<1>1. outstanding' = << >>
  BY DEF TransportKept
<1>2. << >> \in Seq(Heard)
  OBVIOUS
<1> QED  BY <1>1, <1>2 DEF StreamInv, Intact

\* The actions of the session, which leave the stream alone or end it.
LEMMA CallStream ==
  ASSUME SInv, StreamInv, run_session \/ send_request \/ send_notification \/ finish
  PROVE  StreamInv'
<1>1. /\ pc \in {"start", "call"} /\ TransportKept /\ result' = result
      /\ pc' \in {"done", "call", "drain"}
      /\ pc' # "done" => /\ UNCHANGED process_vars
                         /\ pc' = "drain" => /\ CanBegin(correlator)
                                             /\ correlator' = begin_request(correlator)
  <2>1. CASE run_session
    BY <2>1 DEF run_session, Abort
  <2>2. CASE send_request
    BY <2>2 DEF send_request, Abort, Read
  <2>3. CASE send_notification
    BY <2>3 DEF send_notification, Abort, Advance
  <2>4. CASE finish
    BY <2>4 DEF finish, Abort
  <2> QED  BY <2>1, <2>2, <2>3, <2>4
<1>2. CASE pc' = "done"
  BY <1>1, <1>2, StreamEnds
<1>3. CASE pc' # "done"
  <2>1. UNCHANGED <<incoming, outstanding, ready, decoder, pipe, stdout>>
    BY <1>1, <1>3 DEF TransportKept, process_vars
  <2>2. ready = {} /\ Outside
    BY <1>1, OutsideFacts DEF Outside
  <2>3. Intact' => Intact
    BY <1>1, <2>1, <2>2 DEF Intact
  <2>4. Awaiting' => correlator'.pending = {correlator'.next_id - 1}
    <3>1. ASSUME Awaiting'
          PROVE  pc' = "drain"
      BY <1>1, <1>3, <3>1 DEF Awaiting, AwaitPc, DrainPc, DecidePc, WaitPc
    <3>2. correlator \in Correlator /\ correlator.pending = {}
      BY <1>1 DEF SInv, AnswerInv, NoneAwaited
    <3>3. ASSUME pc' = "drain"
          PROVE  correlator'.pending = {correlator'.next_id - 1}
      BY <1>1, <3>2, <3>3 DEF begin_request, Correlator
    <3> QED  BY <3>1, <3>3
  <2> QED  BY <1>1, <2>1, <2>2, <2>3, <2>4, StreamKept
<1> QED  BY <1>2, <1>3

\* The session looks at what next_incoming returned.
LEMMA AwaitStream ==
  ASSUME SInv, StreamInv, await_response
  PROVE  StreamInv'
<1>1. /\ pc = "returned" /\ TransportKept /\ result' = Nothing /\ correlator' = correlator
  BY DEF await_response
<1>2. \/ pc' = "done"
      \/ /\ pc' = "drain" /\ result.kind \in {"request", "notification"}
         /\ UNCHANGED process_vars
      \/ /\ pc' = "call" /\ result.kind = "response" /\ UNCHANGED process_vars
  <2>1. CASE await_notification
    BY <2>1 DEF await_notification, Abort, Read
  <2>2. CASE await_request
    BY <2>2, Zenon DEF await_request, Abort, Read
  <2>3. CASE await_answer
    BY <2>3 DEF await_answer, Abort, Advance
  <2>4. CASE await_error
    BY <2>4 DEF await_error, Abort
  <2> QED  BY <2>1, <2>2, <2>3, <2>4 DEF await_response
<1>3. CASE pc' = "done"
  BY <1>1, <1>3, StreamEnds
<1>4. CASE pc' # "done"
  <2>1. UNCHANGED <<incoming, outstanding, ready, decoder, pipe, stdout>>
    BY <1>1, <1>2, <1>4 DEF TransportKept, process_vars
  <2>2. ready = {}
    BY <1>1, OutsideFacts DEF Outside
  <2>3. Intact' => Intact
    BY <1>1, <1>2, <1>4, <2>1, <2>2 DEF Intact
  <2>4. Awaiting' => Awaiting
    BY <1>1, <1>2, <1>4 DEF Awaiting, AwaitPc, DrainPc, DecidePc, WaitPc
  <2> QED  BY <1>1, <2>1, <2>2, <2>3, <2>4, StreamKept
<1> QED  BY <1>3, <1>4

\* A chunk: its bodies are the next messages written, and what is left in the
\* pipe are the others; or an error is certain.
LEMMA ChunkStream ==
  ASSUME SInv, StreamInv, Intact, pc \in AwaitPc,
         NEW chunk \in Seq(Token), NEW rest \in Seq(Token), pipe = chunk \o rest,
         pipe' = rest, decode_chunk(chunk),
         UNCHANGED <<stdout, outstanding, result>>, pc' \in AwaitPc
  PROVE  StreamInv'
<1> DEFINE pushed == push(decoder, chunk)
           start == [correlator |-> correlator, incoming |-> incoming,
                     bytes |-> buffered_bytes, ready |-> ready, stop |-> FALSE]
           decoded == DecodeBodies(start, pushed.bodies)
           id == correlator.next_id - 1
           log == outstanding
<1>1. /\ decoder \in Decoder /\ Collecting /\ result = Nothing /\ pc # "done"
      /\ "protocol" \notin ready /\ stdout # "seen" /\ log \in Seq(Heard)
      /\ ready \in SUBSET Class /\ Awaiting
  BY InvCollects DEF SInv, WireInv, BatchInv, Intact, StreamInv, Awaiting
<1>2. pushed \in PushState
  BY <1>1, PushStates
<1>3. pushed.decoder \in Decoder /\ pushed.bodies \in Seq(AnyBody) /\ pushed.ok \in BOOLEAN
  BY <1>2 DEF PushState
<1>4. Ahead = After(pushed, rest)
  BY <1>1, PushConcat DEF Ahead
<1>5. PICK n \in 0 .. Len(log) : Matches(n)
  BY DEF StreamInv
<1>6. /\ Remaining(Ahead, n, log) /\ AnsweredBy(correlator, n, id, log)
      /\ "integration" \notin ready => MessagesOf(incoming) = SubSeq(log, 1, n)
  BY <1>1, <1>5 DEF Matches
<1> HIDE DEF pushed
<1>7. n \in Nat /\ Len(log) \in Nat
  BY <1>1
<1>8. CASE ~pushed.ok
  <2>1. /\ ready' = ready \cup {"protocol"}
        /\ UNCHANGED <<correlator, incoming>>
    BY <1>1, <1>8 DEF decode_chunk, pushed
  <2>2. BrokenBy(log, id)
    <3>1. Ahead = pushed
      BY <1>4, <1>8 DEF After
    <3>2. /\ n + Len(pushed.bodies) < Len(log) /\ log[n + Len(pushed.bodies) + 1] = Invalid
          /\ Len(pushed.bodies) \in Nat
      BY <1>3, <1>6, <1>8, <3>1 DEF Remaining
    <3>3. n + Len(pushed.bodies) + 1 \in DOMAIN log
      BY <1>1, <1>7, <3>2
    <3> QED  BY <3>2, <3>3 DEF BrokenBy
  <2>3. ~Intact'
    BY <2>1 DEF Intact
  <2> HIDE DEF log, id
  <2> QED  BY <1>1, <1>5, <1>6, <2>1, <2>2, <2>3 DEF StreamInv, log, id
<1>9. CASE pushed.ok
  <2> DEFINE B == pushed.bodies
             ahead == push(pushed.decoder, rest)
  <2>1. /\ decoder' = pushed.decoder /\ correlator' = decoded.correlator
        /\ incoming' = decoded.incoming /\ ready' = decoded.ready
    BY <1>1, <1>9 DEF decode_chunk, pushed
  <2>2. ahead \in PushState
    BY <1>3, PushStates
  <2>3. Ahead = Prefixed(B, ahead)
    BY <1>4, <1>9 DEF After
  <2> HIDE DEF ahead, B
  <2>4. B \in Seq(AnyBody)
    BY <1>3 DEF B
  <2>5. PICK m \in 0 .. Len(log) :
               /\ m = n + Len(B) /\ Remaining(ahead, m, log)
               /\ \A k \in 1 .. Len(B) : decode_body(B[k]) = log[n + k]
    BY <1>1, <1>6, <1>7, <2>2, <2>3, <2>4, RemainingRest
  <2>6. start \in DecodeState(ready)
    <3>1. /\ incoming \in Seq(Entry) /\ buffered_bytes \in Nat
          /\ Accounted(incoming, buffered_bytes) /\ correlator \in Correlator
          /\ ready = {} => OneAnswer(correlator, incoming)
      BY <1>1 DEF Collecting, BufferInv
    <3>2. start \in DecodeRecord
      BY <1>1, <3>1 DEF DecodeRecord
    <3> QED  BY <3>1, <3>2 DEF DecodeState
  <2>7. Follows(start, n, id, log)
    BY <1>1, <1>6 DEF Follows
  <2>8. Follows(decoded, m, id, log)
    <3> HIDE DEF start, id, log
    <3>1. m <= Len(log)
      BY <1>7, <2>5
    <3> QED  BY <1>1, <1>7, <2>4, <2>5, <2>6, <2>7, <3>1, FollowsBodies DEF B
  <2>9. Ahead' = ahead
    BY <2>1 DEF Ahead, ahead
  <2> HIDE DEF decoded, id, log
  <2>10. CASE "protocol" \in ready'
    <3>1. /\ BrokenBy(log, id) /\ correlator'.next_id - 1 = id
          /\ "integration" \notin ready' =>
               \E k \in 0 .. Len(log) : MessagesOf(incoming') = SubSeq(log, 1, k)
      BY <2>1, <2>8, <2>10 DEF Follows
    <3>2. ~Intact'
      BY <2>10 DEF Intact
    <3> QED  BY <1>1, <3>1, <3>2 DEF StreamInv, log
  <2>11. CASE "protocol" \notin ready'
    <3>1. /\ AnsweredBy(correlator', m, id, log)
          /\ "integration" \notin ready' => MessagesOf(incoming') = SubSeq(log, 1, m)
      BY <2>1, <2>8, <2>11 DEF Follows
    <3>2. correlator'.next_id - 1 = id
      BY <3>1 DEF AnsweredBy
    <3>3. Matches(m)'
      BY <2>5, <2>9, <3>1, <3>2 DEF Matches, log
    <3> QED  BY <1>1, <2>5, <2>11, <3>1, <3>3 DEF StreamInv, log
  <2> QED  BY <2>10, <2>11
<1> QED  BY <1>3, <1>8, <1>9

\* A chunk that is taken when an error is certain already.
LEMMA ChunkIgnored ==
  ASSUME SInv, StreamInv, ~Intact, pc \in DrainPc \cup WaitPc, NEW chunk,
         decode_chunk(chunk), UNCHANGED <<stdout, outstanding, result>>,
         pc' \in AwaitPc
  PROVE  StreamInv'
<1>1. pc \in AwaitPc /\ pc \notin DecidePc /\ pc # "done"
  BY DEF AwaitPc, DrainPc, DecidePc, WaitPc
<1>2. result = Nothing /\ result.kind # "error"
  BY <1>1, InvCollects DEF Nothing
<1>3. "protocol" \in ready \/ stdout = "seen"
  BY <1>1, <1>2 DEF Intact
<1>4. UNCHANGED <<rpc_vars, ready>>
  BY <1>3 DEF decode_chunk
<1>5. ~Intact'
  BY <1>3, <1>4 DEF Intact
<1> QED  BY <1>1, <1>4, <1>5, StreamKept DEF rpc_vars

\* A chunk is cut off the front of the pipe.
LEMMA SplitPipe ==
  ASSUME NEW s \in Seq(Token), NEW k \in 1 .. Len(s)
  PROVE  s = SubSeq(s, 1, k) \o SubSeq(s, k + 1, Len(s))
OBVIOUS

\* One event of the process.
LEMMA ObserveStream ==
  ASSUME SInv, StreamInv, drain_observe \/ next_event
  PROVE  StreamInv'
<1>1. /\ pc \in DrainPc \cup WaitPc /\ observe
      /\ UNCHANGED <<result, outstanding>>
      /\ pc' \in DrainPc
  BY DEF drain_observe, next_event, Draining, DrainPc, WaitPc
<1>2. pc \in AwaitPc /\ pc' \in AwaitPc /\ pc # "done" /\ pc \notin DecidePc
  BY <1>1 DEF AwaitPc, DrainPc, DecidePc, WaitPc
<1>3. pipe \in Seq(Token)
  BY DEF SInv, WireInv
<1>4. CASE \E k \in 1 .. Len(pipe) :
             /\ pipe' = SubSeq(pipe, k + 1, Len(pipe))
             /\ decode_chunk(SubSeq(pipe, 1, k))
             /\ UNCHANGED <<stdout, conditions>>
  <2>1. PICK k \in 1 .. Len(pipe) :
               /\ pipe' = SubSeq(pipe, k + 1, Len(pipe))
               /\ decode_chunk(SubSeq(pipe, 1, k))
               /\ UNCHANGED <<stdout, conditions>>
    BY <1>4
  <2> DEFINE chunk == SubSeq(pipe, 1, k)
             rest == SubSeq(pipe, k + 1, Len(pipe))
  <2>2. /\ chunk \in Seq(Token) /\ rest \in Seq(Token) /\ pipe = chunk \o rest
        /\ decode_chunk(chunk) /\ pipe' = rest /\ stdout' = stdout
    BY <1>3, <2>1, Chunks, SplitPipe
  <2> HIDE DEF chunk, rest
  <2> QED  BY <1>1, <1>2, <2>2, ChunkStream, ChunkIgnored
<1>5. CASE /\ pipe = << >> /\ stdout = "closed" /\ stdout' = "seen"
           /\ observe_stdout_closed
           /\ UNCHANGED <<pipe, conditions, rpc_vars>>
  <2>1. ready \subseteq ready'
    BY <1>5 DEF observe_stdout_closed
  <2>2. ~Intact'
    BY <1>5 DEF Intact
  <2> QED  BY <1>1, <1>2, <1>5, <2>1, <2>2, StreamKept DEF rpc_vars
<1>6. CASE \E condition \in conditions :
             /\ conditions' = conditions \ {condition}
             /\ ready' = ready \cup {ConditionClass(condition)}
             /\ UNCHANGED <<pipe, stdout, rpc_vars>>
  <2>1. PICK condition \in conditions :
               /\ ready' = ready \cup {ConditionClass(condition)}
               /\ UNCHANGED <<pipe, stdout, rpc_vars>>
    BY <1>6
  <2>2. condition \in {"exit", "resource", "fault", "stdin"}
    BY TransportAssumption DEF SInv, BatchInv
  <2>3. ConditionClass(condition) \notin {"protocol", "integration"}
    BY <2>2 DEF ConditionClass
  <2>4. Intact' => Intact
    BY <1>1, <1>2, <2>1, <2>3 DEF Intact
  <2>5. Awaiting
    BY <1>2 DEF Awaiting
  <2> QED  BY <1>1, <1>2, <2>1, <2>3, <2>4, <2>5, StreamKept DEF rpc_vars
<1> QED  BY <1>1, <1>4, <1>5, <1>6 DEF observe

\* The end of a drain, and of a wait that brought no event.
LEMMA DrainedStream ==
  ASSUME SInv, StreamInv, drain_done \/ probe_ready_event_overflow \/ next_event_deadline
  PROVE  StreamInv'
<1>1. /\ pc \in DrainPc \cup WaitPc /\ pc' \in DrainPc \cup DecidePc
      /\ UNCHANGED <<result, outstanding, decoder, correlator, incoming>>
      /\ \/ UNCHANGED <<pipe, stdout, ready>>
         \/ ready' = ready \cup {"integration"} /\ pc' \in DecidePc
            /\ (stdout' # "seen" => stdout # "seen")
  <2>1. CASE drain_done
    BY <2>1 DEF drain_done, Draining, AfterDrain, process_vars, rpc_vars, DrainPc, DecidePc
  <2>2. CASE next_event_deadline
    BY <2>2 DEF next_event_deadline, process_vars, rpc_vars, DrainPc, WaitPc
  <2>3. CASE probe_ready_event_overflow
    <3>1. /\ pc \in DrainPc /\ pc' \in DecidePc
          /\ UNCHANGED <<result, outstanding, decoder, correlator, incoming>>
      BY <2>3 DEF probe_ready_event_overflow, Draining, AfterDrain, rpc_vars, DrainPc, DecidePc
    <3>2. \/ UNCHANGED <<pipe, stdout, ready>>
          \/ /\ ready' = ready \cup {"integration"}
             /\ stdout' = stdout \/ stdout' = "seen"
      BY <2>3 DEF probe_ready_event_overflow
    <3> QED  BY <3>1, <3>2
  <2> QED  BY <2>1, <2>2, <2>3
<1>2. /\ pc # "done" /\ pc \notin DecidePc /\ pc \in AwaitPc
  BY <1>1 DEF AwaitPc, DrainPc, DecidePc, WaitPc
<1>3. Awaiting
  BY <1>2 DEF Awaiting
<1>4. CASE UNCHANGED <<pipe, stdout, ready>>
  <2>1. Intact' => Intact
    BY <1>1, <1>2, <1>4 DEF Intact
  <2> QED  BY <1>1, <1>2, <1>3, <1>4, <2>1, StreamKept
<1>5. CASE /\ ready' = ready \cup {"integration"} /\ pc' \in DecidePc
           /\ stdout' # "seen" => stdout # "seen"
  <2>1. ~Intact'
    BY <1>5 DEF Intact
  <2> QED  BY <1>1, <1>2, <1>5, <2>1, StreamKept
<1> QED  BY <1>1, <1>4, <1>5

\* The first buffered message is returned.
LEMMA ReturnedTail ==
  ASSUME NEW entries \in Seq(Entry), NEW log \in Seq(Heard), NEW n \in 0 .. Len(log),
         entries # << >>, MessagesOf(entries) = SubSeq(log, 1, n)
  PROVE  /\ n - 1 \in 0 .. Len(Tail(log)) /\ Tail(log) \in Seq(Heard)
         /\ MessagesOf(Tail(entries)) = SubSeq(Tail(log), 1, n - 1)
         /\ Head(entries).message = log[1] /\ n >= 1
<1>1. /\ Len(entries) \in Nat /\ Len(entries) > 0 /\ DOMAIN entries = 1 .. Len(entries)
      /\ Head(entries) = entries[1]
      /\ DOMAIN Tail(entries) = 1 .. Len(entries) - 1
      /\ \A k \in 1 .. Len(entries) - 1 : Tail(entries)[k] = entries[k + 1]
  OBVIOUS
<1>2. n \in Nat /\ n <= Len(log) /\ Len(log) \in Nat /\ SubSeq(log, 1, n) = [k \in 1 .. n |-> log[k]]
  OBVIOUS
<1>3. Len(entries) = n /\ \A k \in 1 .. n : entries[k].message = log[k]
  <2>1. [k \in 1 .. Len(entries) |-> entries[k].message] = [k \in 1 .. n |-> log[k]]
    BY <1>1, <1>2 DEF MessagesOf
  <2>2. 1 .. Len(entries) = 1 .. n
    BY <2>1
  <2>3. Len(entries) = n
    BY <1>1, <1>2, <2>2, IntervalEnd
  <2> QED  BY <2>1, <2>3
<1>4. /\ Tail(log) \in Seq(Heard) /\ Len(Tail(log)) = Len(log) - 1
      /\ \A k \in 1 .. Len(log) - 1 : Tail(log)[k] = log[k + 1]
      /\ SubSeq(Tail(log), 1, n - 1) = [k \in 1 .. n - 1 |-> Tail(log)[k]]
  <2>1. log # << >>
    BY <1>1, <1>2, <1>3
  <2> QED  BY <1>1, <1>2, <1>3, <2>1
<1>5. \A k \in 1 .. n - 1 : Tail(entries)[k].message = Tail(log)[k]
  <2>1. \A k \in 1 .. n - 1 : k + 1 \in 1 .. n /\ k \in 1 .. Len(log) - 1
    BY <1>2
  <2> QED  BY <1>1, <1>3, <1>4, <2>1
<1>6. MessagesOf(Tail(entries)) = [k \in 1 .. n - 1 |-> Tail(entries)[k].message]
  BY <1>1, <1>3 DEF MessagesOf
<1>7. 1 \in 1 .. n /\ n - 1 \in 0 .. Len(log) - 1 /\ n >= 1
  BY <1>1, <1>2, <1>3
<1> QED  BY <1>1, <1>3, <1>4, <1>5, <1>6, <1>7

\* A batch is decided.
LEMMA DecideStream ==
  ASSUME SInv, StreamInv, decide
  PROVE  StreamInv'
<1>1. /\ pc \in DecidePc /\ pc \in AwaitPc /\ pc # "done"
      /\ UNCHANGED <<pipe, stdout, decoder, correlator>> /\ ready' = {}
  BY DEF decide, DecidePc, AwaitPc, process_vars, DrainPc, WaitPc
<1>2. /\ Collecting /\ result = Nothing /\ result.kind # "error"
      /\ outstanding \in Seq(Heard) /\ Awaiting
  BY <1>1, InvCollects DEF Nothing, StreamInv, Awaiting
<1>3. ready = {} => Intact
  <2>1. ready = {} => ~Taken
    BY <1>2 DEF Collecting
  <2> QED  BY <1>1, <1>2, <2>1 DEF Taken, Intact
<1>4. CASE FailureFirst /\ result' = choose /\ ClearIncoming /\ UNCHANGED outstanding
  <2>1. PICK e \in Class : result' = Failure(e)
    BY <1>2, <1>4, ChooseType DEF Collecting, FailureFirst
  <2>2. ~Intact'
    BY <2>1 DEF Intact, Failure
  <2>3. MessagesOf(incoming') = SubSeq(outstanding', 1, 0) /\ 0 \in 0 .. Len(outstanding')
    BY <1>2, <1>4, NoneBuffered DEF ClearIncoming
  <2> QED  BY <1>1, <1>2, <1>4, <2>2, <2>3 DEF StreamInv
<1>5. CASE /\ ~FailureFirst /\ incoming # << >>
           /\ result' = Head(incoming).message /\ pc' = "returned"
           /\ pop_incoming /\ outstanding' = Tail(outstanding)
  <2>1. ready = {} /\ incoming' = Tail(incoming) /\ incoming \in Seq(Entry)
    BY <1>2, <1>5 DEF FailureFirst, pop_incoming, Collecting, BufferInv
  <2>2. PICK n \in 0 .. Len(outstanding) : Matches(n)
    BY <1>3, <2>1 DEF StreamInv
  <2>3. /\ Remaining(Ahead, n, outstanding) /\ MessagesOf(incoming) = SubSeq(outstanding, 1, n)
        /\ AnsweredBy(correlator, n, correlator.next_id - 1, outstanding)
    BY <1>2, <2>1, <2>2 DEF Matches
  <2> DEFINE log == Tail(outstanding)
  <2>4. /\ n - 1 \in 0 .. Len(log) /\ log \in Seq(Heard) /\ n >= 1
        /\ MessagesOf(incoming') = SubSeq(log, 1, n - 1)
        /\ result' = outstanding[1]
    BY <1>2, <1>5, <2>1, <2>3, ReturnedTail
  <2>5. /\ n \in Nat /\ Len(outstanding) \in Nat /\ Len(log) = Len(outstanding) - 1
        /\ \A k \in 1 .. Len(outstanding) - 1 : log[k] = outstanding[k + 1]
    <3>1. outstanding # << >>
      BY <2>4
    <3> QED  BY <1>2, <2>4, <3>1
  <2> HIDE DEF log
  <2>6. Ahead \in PushState
    BY PushStates DEF Ahead, SInv, WireInv
  <2>7. Remaining(Ahead, n - 1, log)
    <3> DEFINE B == Ahead.bodies
               ahead == Ahead
    <3>1. B \in Seq(AnyBody) /\ Len(B) \in Nat
      BY <2>6 DEF PushState
    <3> HIDE DEF B
    <3>2. /\ n + Len(B) <= Len(outstanding)
          /\ \A k \in 1 .. Len(B) : decode_body(B[k]) = outstanding[n + k]
          /\ ahead.ok => n + Len(B) = Len(outstanding) /\ ahead.decoder = InHeader(0)
          /\ ~ahead.ok => n + Len(B) < Len(outstanding)
                          /\ outstanding[n + Len(B) + 1] = Invalid
      BY <2>3 DEF Remaining, B
    <3>3. ASSUME NEW k \in 1 .. Len(B)
          PROVE  decode_body(B[k]) = log[(n - 1) + k]
      <4>1. (n - 1) + k \in 1 .. Len(outstanding) - 1 /\ ((n - 1) + k) + 1 = n + k
        BY <2>4, <2>5, <3>1, <3>2
      <4> QED  BY <2>5, <3>2, <4>1
    <3>4. ~ahead.ok => log[(n - 1) + Len(B) + 1] = Invalid
      <4>1. ~ahead.ok => /\ (n - 1) + Len(B) + 1 \in 1 .. Len(outstanding) - 1
                         /\ ((n - 1) + Len(B) + 1) + 1 = n + Len(B) + 1
        BY <2>4, <2>5, <3>1, <3>2
      <4> QED  BY <2>5, <3>2, <4>1
    <3>5. /\ (n - 1) + Len(B) <= Len(log)
          /\ ahead.ok => (n - 1) + Len(B) = Len(log)
          /\ ~ahead.ok => (n - 1) + Len(B) < Len(log)
      BY <2>4, <2>5, <3>1, <3>2
    <3> QED  BY <3>2, <3>3, <3>4, <3>5 DEF Remaining, B
  <2>8. Ahead' = Ahead
    BY <1>1 DEF Ahead
  <2>9. Awaiting' => AnsweredBy(correlator, n - 1, correlator.next_id - 1, log)
    <3> SUFFICES ASSUME result'.kind \in {"request", "notification"}
                 PROVE  AnsweredBy(correlator, n - 1, correlator.next_id - 1, log)
      BY <1>5 DEF Awaiting, AwaitPc, DrainPc, DecidePc, WaitPc
    <3>1. ASSUME correlator.pending = {}
          PROVE  \E k \in 1 .. n - 1 : IsAwaited(log[k], correlator.next_id - 1)
      <4>1. PICK k \in 1 .. n : IsAwaited(outstanding[k], correlator.next_id - 1)
        BY <2>3, <3>1 DEF AnsweredBy
      <4>2. k # 1
        BY <2>4, <4>1 DEF IsAwaited
      <4>3. k - 1 \in 1 .. n - 1 /\ k - 1 \in 1 .. Len(outstanding) - 1 /\ (k - 1) + 1 = k
        BY <2>5, <4>2
      <4>4. log[k - 1] = outstanding[k]
        BY <2>5, <4>3
      <4> QED  BY <4>1, <4>3, <4>4
    <3> QED  BY <2>3, <3>1 DEF AnsweredBy
  <2>10. outstanding' = log
    BY <1>5 DEF log
  <2>11. PICK m \in 0 .. Len(log) : m = n - 1
    BY <2>4
  <2>12. Matches(m)'
    BY <1>1, <2>4, <2>7, <2>8, <2>9, <2>10, <2>11 DEF Matches
  <2> QED  BY <1>1, <2>4, <2>10, <2>11, <2>12 DEF StreamInv
<1>6. CASE ~FailureFirst /\ incoming = << >> /\ UNCHANGED <<incoming, outstanding>>
  <2>1. ready = {}
    BY <1>6 DEF FailureFirst
  <2> QED  BY <1>1, <1>2, <1>3, <1>6, <2>1, StreamKept
<1> QED  BY <1>4, <1>5, <1>6 DEF decide

LEMMA WrittenType ==
  ASSUME NEW body \in Bodies
  PROVE  decode_body(body) \in Heard
BY DEF Heard, Message, AnyBody

\* What the server writes, in a frame or not, reaches the decoder as it was
\* written.
LEMMA WritesStream ==
  ASSUME SInv, StreamInv, ServerWrites
  PROVE  StreamInv'
<1>1. /\ pc' = pc /\ pc \in AwaitPc /\ pc # "done"
      /\ UNCHANGED <<stdout, decoder, correlator, incoming, ready, result>>
  BY DEF ServerWrites, Reading, AwaitPc, DrainPc, WaitPc, rpc_vars
<1>2. /\ pipe \in Seq(Token) /\ decoder \in Decoder /\ outstanding \in Seq(Heard)
  BY DEF SInv, WireInv, StreamInv
<1>3. PICK bytes \in Seq(Token), message \in Heard :
             /\ pipe' = pipe \o bytes /\ outstanding' = Append(outstanding, message)
             /\ LET more == push(InHeader(0), bytes)
                IN  \/ ~more.ok /\ more.bodies = << >> /\ message = Invalid
                    \/ /\ more.ok /\ more.decoder = InHeader(0)
                       /\ \E b \in AnyBody :
                            more.bodies = <<b>> /\ decode_body(b) = message
  <2>1. CASE \E body \in Bodies :
               /\ pipe' = pipe \o Frame(body)
               /\ outstanding' = Append(outstanding, decode_body(body))
    <3>1. PICK body \in Bodies :
                 /\ pipe' = pipe \o Frame(body)
                 /\ outstanding' = Append(outstanding, decode_body(body))
      BY <2>1
    <3>2. PICK b \in AnyBody : /\ push(InHeader(0), Frame(body)) = Going(InHeader(0), <<b>>)
                               /\ decode_body(b) = decode_body(body)
      BY FramePushed
    <3>3. /\ Going(InHeader(0), <<b>>).ok /\ Going(InHeader(0), <<b>>).decoder = InHeader(0)
          /\ Going(InHeader(0), <<b>>).bodies = <<b>>
      BY DEF Going, State
    <3>4. Frame(body) \in Seq(Token)
      BY WritesTokens
    <3> QED  BY <3>1, <3>2, <3>3, <3>4, WrittenType
  <2>2. CASE \E bytes \in Unframed :
               /\ pipe' = pipe \o bytes
               /\ outstanding' = Append(outstanding, Invalid)
    <3>1. PICK bytes \in Unframed :
                 /\ pipe' = pipe \o bytes
                 /\ outstanding' = Append(outstanding, Invalid)
      BY <2>2
    <3>2. ~push(InHeader(0), bytes).ok /\ push(InHeader(0), bytes).bodies = << >>
      BY FramingAssumption
    <3>3. bytes \in Seq(Token) /\ Invalid \in Heard
      BY WritesTokens DEF Heard
    <3> QED  BY <3>1, <3>2, <3>3
  <2> QED  BY <2>1, <2>2 DEF ServerWrites
<1> DEFINE log == outstanding
           more == push(InHeader(0), bytes)
           new == IF Ahead.ok THEN Prefixed(Ahead.bodies, more) ELSE Ahead
<1>4. more \in PushState /\ Ahead \in PushState
  BY <1>2, PushStates, DecoderTypes DEF Ahead
<1>5. Len(log) \in Nat /\ outstanding' \in Seq(Heard) /\ Len(outstanding') = Len(log) + 1
      /\ \A k \in 1 .. Len(log) : outstanding'[k] = log[k]
  BY <1>2, <1>3
<1>6. Ahead' = After(Ahead, bytes)
  <2>1. Ahead' = push(decoder, pipe \o bytes)
    BY <1>1, <1>3 DEF Ahead
  <2> QED  BY <1>2, <2>1, PushConcat DEF Ahead
<1>7. ASSUME NEW n \in 0 .. Len(log)
      PROVE  /\ n \in 0 .. Len(outstanding') /\ n \in Nat
             /\ SubSeq(outstanding', 1, n) = SubSeq(log, 1, n)
  BY <1>2, <1>3, <1>5
<1>8. ASSUME Intact'
      PROVE  \E n \in 0 .. Len(outstanding') : Matches(n)'
  <2>1. Intact
    BY <1>1, <1>8 DEF Intact
  <2>2. PICK n \in 0 .. Len(log) : Matches(n)
    BY <2>1 DEF StreamInv
  <2>3. Remaining(Ahead, n, log)
    BY <2>2 DEF Matches
  <2>4. n \in Nat
    BY <1>7
  <2>5. Remaining(new, n, outstanding')
    <3> HIDE DEF more
    <3>1. \/ ~Ahead.ok
          \/ Ahead.ok /\ ~more.ok /\ more.bodies = << >> /\ message = Invalid
          \/ /\ Ahead.ok /\ more.ok /\ more.decoder = InHeader(0)
             /\ \E b \in AnyBody : more.bodies = <<b>> /\ decode_body(b) = message
      BY <1>3 DEF more
    <3> HIDE DEF log
    <3> QED  BY <1>2, <1>3, <1>4, <2>3, <2>4, <3>1, RemainingWritten DEF log
  <2>6. Ahead' = new
    <3>1. Ahead.ok => Ahead.decoder = InHeader(0)
      BY <2>3 DEF Remaining
    <3> QED  BY <1>6, <3>1 DEF After
  <2>7. "integration" \notin ready' => MessagesOf(incoming') = SubSeq(outstanding', 1, n)
    BY <1>1, <1>7, <2>2 DEF Matches
  <2>8. Awaiting' => AnsweredBy(correlator', n, correlator'.next_id - 1, outstanding')
    <3>1. Awaiting
      BY <1>1 DEF Awaiting
    <3>2. AnsweredBy(correlator, n, correlator.next_id - 1, log)
      BY <2>2, <3>1 DEF Matches
    <3>3. \A k \in 1 .. n : outstanding'[k] = log[k]
      BY <1>5, <2>4
    <3> QED  BY <1>1, <3>2, <3>3 DEF AnsweredBy
  <2> HIDE DEF new
  <2>9. Matches(n)'
    BY <2>5, <2>6, <2>7, <2>8 DEF Matches
  <2> QED  BY <1>7, <2>9
<1>9. ASSUME "integration" \notin ready'
      PROVE  \E n \in 0 .. Len(outstanding') : MessagesOf(incoming') = SubSeq(outstanding', 1, n)
  <2>1. PICK n \in 0 .. Len(log) : MessagesOf(incoming) = SubSeq(log, 1, n)
    BY <1>1, <1>9 DEF StreamInv
  <2> QED  BY <1>1, <1>7, <2>1
<1>10. ASSUME "protocol" \in ready', stdout' # "seen"
       PROVE  BrokenBy(outstanding', correlator'.next_id - 1)
  <2> DEFINE id == correlator.next_id - 1
  <2>1. BrokenBy(log, id)
    BY <1>1, <1>10 DEF StreamInv
  <2>2. PICK k \in DOMAIN log :
               \/ log[k] = Invalid
               \/ /\ log[k].kind = "response"
                  /\ {j \in DOMAIN log : IsAwaited(log[j], id)} # {k}
    BY <2>1 DEF BrokenBy
  <2>3. /\ DOMAIN log = 1 .. Len(log) /\ DOMAIN outstanding' = 1 .. Len(log) + 1
        /\ 1 .. Len(log) \subseteq 1 .. Len(log) + 1
    BY <1>2, <1>5
  <2>4. {j \in DOMAIN log : IsAwaited(log[j], id)}
          = {j \in DOMAIN outstanding' : IsAwaited(outstanding'[j], id)} \cap 1 .. Len(log)
    BY <1>5, <2>3
  <2>5. {j \in DOMAIN log : IsAwaited(log[j], id)} # {k} =>
          {j \in DOMAIN outstanding' : IsAwaited(outstanding'[j], id)} # {k}
    BY <2>3, <2>4
  <2>6. BrokenBy(outstanding', id)
    BY <1>5, <2>2, <2>3, <2>5 DEF BrokenBy
  <2> QED  BY <1>1, <2>6
<1> QED  BY <1>1, <1>5, <1>8, <1>9, <1>10 DEF StreamInv

\* Time, the rest of the server, and stuttering.
LEMMA OtherStream ==
  ASSUME SInv, StreamInv,
         \/ Deadline \/ TotalDeadlinePasses \/ UNCHANGED vars
         \/ Server /\ ~ServerWrites
  PROVE  StreamInv'
<1>1. /\ UNCHANGED <<pc, result, pipe, decoder, correlator, incoming, ready, outstanding>>
      /\ stdout' # "seen" => stdout # "seen"
  <2>1. CASE Deadline \/ TotalDeadlinePasses \/ UNCHANGED vars
    BY <2>1 DEF Deadline, DeadlinePasses, TotalDeadlinePasses, vars, process_vars, rpc_vars
  <2>2. CASE Server /\ ~ServerWrites
    BY <2>2 DEF Server, ServerStep, ServerCloses, ServerExits, WorkerFails, rpc_vars
  <2> QED  BY <2>1, <2>2
<1>2. CASE pc = "done"
  BY <1>1, <1>2 DEF StreamInv, Intact
<1>3. CASE pc # "done"
  <2>1. (Intact' => Intact) /\ (Awaiting' => Awaiting)
    BY <1>1 DEF Intact, Awaiting
  <2> QED  BY <1>1, <1>3, <2>1, StreamKept
<1> QED  BY <1>2, <1>3

-----------------------------------------------------------------------------
(***************************************************************************)
(* The theorem.                                                            *)
(***************************************************************************)
LEMMA InitStream == Init => StreamInv
<1> SUFFICES ASSUME Init
             PROVE  StreamInv
  OBVIOUS
<1>1. /\ pc = "start" /\ pipe = << >> /\ decoder = InHeader(0) /\ incoming = << >>
      /\ ready = {} /\ result = Nothing /\ outstanding = << >>
  BY DEF Init, TransportInit
<1>2. outstanding \in Seq(Heard) /\ Len(outstanding) = 0
  BY <1>1
<1>3. MessagesOf(incoming) = SubSeq(outstanding, 1, 0) /\ 0 \in 0 .. Len(outstanding)
  BY <1>1, <1>2, NoneBuffered
<1>4. ~Awaiting
  BY <1>1 DEF Awaiting, AwaitPc, DrainPc, DecidePc, WaitPc
<1>5. Ahead = State(TRUE, InHeader(0), << >>)
  BY <1>1, DecoderTypes, NothingPushed DEF Ahead
<1>6. Ahead.ok = TRUE /\ Ahead.decoder = InHeader(0) /\ Ahead.bodies = << >>
  BY <1>5 DEF State
<1>7. Remaining(Ahead, 0, outstanding)
  <2>1. Len(Ahead.bodies) = 0
    BY <1>6
  <2> QED  BY <1>2, <1>6, <2>1 DEF Remaining
<1>8. Matches(0)
  BY <1>3, <1>4, <1>7 DEF Matches
<1> QED  BY <1>1, <1>2, <1>3, <1>8 DEF StreamInv

LEMMA NextStream == SInv /\ StreamInv /\ [Next]_vars => StreamInv'
<1> SUFFICES ASSUME SInv, StreamInv, [Next]_vars
             PROVE  StreamInv'
  OBVIOUS
<1>1. CASE run_session \/ send_request \/ send_notification \/ finish
  BY <1>1, CallStream
<1>2. CASE await_response
  BY <1>2, AwaitStream
<1>3. CASE drain_observe \/ next_event
  BY <1>3, ObserveStream
<1>4. CASE drain_done \/ probe_ready_event_overflow \/ next_event_deadline
  BY <1>4, DrainedStream
<1>5. CASE decide
  BY <1>5, DecideStream
<1>6. CASE Server /\ ServerWrites
  BY <1>6, WritesStream
<1>7. CASE Deadline \/ TotalDeadlinePasses \/ UNCHANGED vars \/ (Server /\ ~ServerWrites)
  BY <1>7, OtherStream
<1> QED  BY <1>1, <1>2, <1>3, <1>4, <1>5, <1>6, <1>7 DEF Next, Client, TransportStep

\* Whatever chunks it arrives in, what the server wrote is what is buffered:
\* in order, complete once all bytes were taken, and called broken only if it
\* is (FrameDecoder::push, decode_chunk).
THEOREM StreamIsPreserved == Spec => []StreamPreserved
<1>1. ASSUME SInv, StreamInv, Active
      PROVE  /\ "integration" \notin ready => IsPrefix(Messages, outstanding)
             /\ pipe = << >> /\ ~is_mid_frame(decoder) /\ ~Failed => Messages = outstanding
             /\ "protocol" \in ready /\ stdout # "seen" =>
                  \E k \in DOMAIN outstanding :
                    \/ outstanding[k] = Invalid
                    \/ /\ outstanding[k].kind = "response"
                       /\ Answers(outstanding) # {k}
  <2>1. /\ pc # "done" /\ outstanding \in Seq(Heard) /\ Messages = MessagesOf(incoming)
    BY <1>1 DEF Active, StreamInv, Messages, MessagesOf
  <2>2. ASSUME "integration" \notin ready
        PROVE  IsPrefix(Messages, outstanding)
    <3>1. PICK n \in 0 .. Len(outstanding) : Messages = SubSeq(outstanding, 1, n)
      BY <1>1, <2>1, <2>2 DEF StreamInv
    <3>2. Len(Messages) = n /\ n <= Len(outstanding)
      BY <2>1, <3>1
    <3> QED  BY <3>1, <3>2 DEF IsPrefix
  <2>3. ASSUME pipe = << >>, ~Failed
        PROVE  Messages = outstanding
    <3>1. ready = {} /\ result.kind # "error"
      BY <2>3 DEF Failed
    <3>2. stdout # "seen"
      BY <1>1, <2>1, <3>1 DEF SInv, TakenInv, Taken
    <3>3. Intact
      BY <2>1, <3>1, <3>2 DEF Intact
    <3>4. PICK n \in 0 .. Len(outstanding) : Matches(n)
      BY <1>1, <3>3 DEF StreamInv
    <3>5. Messages = SubSeq(outstanding, 1, n) /\ Remaining(Ahead, n, outstanding)
      BY <2>1, <3>1, <3>4 DEF Matches
    <3>6. Ahead = State(TRUE, decoder, << >>)
      BY <1>1, <2>3, NothingPushed DEF Ahead, SInv, WireInv
    <3>7. Ahead.ok = TRUE /\ Ahead.bodies = << >>
      BY <3>6 DEF State
    <3>8. n = Len(outstanding)
      <4>1. Len(Ahead.bodies) = 0
        BY <3>7
      <4> QED  BY <2>1, <3>5, <3>7, <4>1 DEF Remaining
    <3>9. SubSeq(outstanding, 1, Len(outstanding)) = outstanding
      BY <2>1
    <3> QED  BY <3>5, <3>8, <3>9
  <2>4. ASSUME "protocol" \in ready, stdout # "seen"
        PROVE  \E k \in DOMAIN outstanding :
                 \/ outstanding[k] = Invalid
                 \/ outstanding[k].kind = "response" /\ Answers(outstanding) # {k}
    <3>1. BrokenBy(outstanding, Awaited)
      BY <1>1, <2>1, <2>4 DEF StreamInv, Awaited
    <3>2. Answers(outstanding) = {j \in DOMAIN outstanding : IsAwaited(outstanding[j], Awaited)}
      BY DEF Answers, IsAwaited
    <3> QED  BY <3>1, <3>2 DEF BrokenBy
  <2> QED  BY <2>2, <2>3, <2>4
<1>2. SInv /\ StreamInv => StreamPreserved
  BY <1>1 DEF StreamPreserved
<1>3. Spec => []StreamInv
  <2>1. SInv /\ StreamInv /\ [Next]_vars => SInv' /\ StreamInv'
    BY NextSInv, NextStream
  <2> QED  BY InitSInv, InitStream, <2>1, PTL DEF Spec
<1> QED  BY <1>2, <1>3, SessionInvariant, PTL
=============================================================================
