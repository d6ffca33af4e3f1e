------------------------------- MODULE Select --------------------------------
(***************************************************************************)
(* The read-only commands select and outline of crates/srcmv-cli           *)
(* (select.rs, outline.rs): one source snapshot, one language server       *)
(* session, one response or one error report.  The session is the one of   *)
(* module Session, seen from outside: an answer or an error.               *)
(***************************************************************************)
EXTENDS Symbols, ServerConfig

CONSTANTS
  Requests,        \* what a caller asks, with what it meets on disk
  Replies,         \* document symbol answers and encodings of a server
  SessionErrors,   \* errors run_session may return
  OutlineSymbols,  \* DEFAULT_MAXIMUM_OUTLINE_SYMBOLS
  NameBytes,       \* MAXIMUM_QUERY_NAME_BYTES
  IdentityBytes,   \* MAXIMUM_SERVER_IDENTITY_BYTES
  ResponseBytes    \* MAX_RESPONSE_BYTES, of a response with matches of one byte

\* What a caller may ask, and what it meets: any text, any search path.
ASSUME RequestsAssumption ==
  \A asked \in Requests :
    /\ asked.source.text \in Seq(0 .. 255)
    /\ asked.source.utf8 => Utf8(asked.source.text)
    /\ asked.source.state \in {"read", "ResourceLimitExceeded", "InvalidPath",
                               "PathNotFound", "SymlinkNotAllowed",
                               "UnsupportedFileType", "Io"}
    /\ asked.query.mode \in {"unique", "all"}
    /\ asked.kinds_known => asked.query.kind \in 0 .. 26
    /\ Len(asked.search) \in Nat /\ DOMAIN asked.search = 1 .. Len(asked.search)
    /\ asked.selection.by \in {"program", "id", "automatic"}

\* The symbols of an answer by their depth, each at its place; one level more
\* than may be answered, so that none is missing in an answer.
NodesOf(items) ==
  LET Below(symbols, path, at) ==
        {[symbol |-> symbols[k], path |-> Append(path, symbols[k].name),
          at |-> Append(at, k)] : k \in DOMAIN symbols}
      level[depth \in 0 .. SymbolLimits.depth] ==
        IF depth = 0 THEN Below(items, << >>, << >>)
        ELSE UNION {Below(n.symbol.children, n.path, n.at) : n \in level[depth - 1]}
  IN  UNION {level[depth] : depth \in 0 .. SymbolLimits.depth}

\* What decodes as an answer: positions and lists of symbols.
IsPosition(at) == at.line \in Nat /\ at.character \in Nat
IsList(list) == Len(list) \in Nat /\ DOMAIN list = 1 .. Len(list)
IsSymbol(symbol) ==
  /\ symbol.name \in Nat /\ symbol.detail \in Nat /\ symbol.kind \in Nat
  /\ IsPosition(symbol.range.start) /\ IsPosition(symbol.range.end)
  /\ IsPosition(symbol.selection.start) /\ IsPosition(symbol.selection.end)
  /\ IsList(symbol.children)

ASSUME RepliesAssumption ==
  \A answer \in Replies :
    /\ answer.encoding \in {"utf-8", "utf-16", "utf-32"}
    /\ answer.shape \in {"hierarchical", "flat", "mixed", "null", "other"}
    /\ IsList(answer.items) /\ (answer.shape = "null" => answer.items = << >>)
    /\ \A n \in NodesOf(answer.items) : IsSymbol(n.symbol)

VARIABLES
  phase,     \* "start", "opened", "resolved", "answered", "done"
  request,
  position,  \* the byte of a position query
  server,    \* ResolvedServer
  reply,
  result     \* the response or the error report

vars == <<phase, request, position, server, reply, result>>

NoResult == [ok |-> FALSE, code |-> "none"]
Select == request.command = "select"
Text == request.source.text

-----------------------------------------------------------------------------
(* Error reports.                                                          *)

map_filesystem_error(error) ==
  CASE error = "ResourceLimitExceeded" -> "LspResourceLimitExceeded"
    [] error \in {"InvalidPath", "PathNotFound", "SymlinkNotAllowed",
                  "UnsupportedFileType"} -> "InvalidSelectionQuery"
    [] OTHER -> "SelectionInternalError"

map_config_error(error) ==
  CASE error \in {"ConfigurationTooLarge", "ConfigurationTooDeep", "FieldTooLarge",
                  "InvalidArguments", "OversizedJsonConfiguration"} ->
         "LspResourceLimitExceeded"
    [] error = "InvalidExplicitSelection" -> "InvalidSelectionQuery"
    [] OTHER -> "LspServerNotConfigured"

\* map_session_error and map_transport_error.
map_session_error(error) ==
  CASE error \in {"DocumentSymbolsUnavailable", "UnsupportedPositionEncoding"} ->
         "LspCapabilityUnavailable"
    [] error = "DocumentSyncUnavailable" -> "LspDocumentSyncUnavailable"
    [] error \in {"Timeout", "DeadlineExceeded"} -> "LspTimeout"
    [] error = "RequestFailed" -> "LspRequestFailed"
    [] error \in {"ResourceLimit", "ByteCapacityExceeded", "FaultResourceLimit"} ->
         "LspResourceLimitExceeded"
    [] error \in {"Spawn", "SpawnWorker"} -> "LspStartFailed"
    [] error \in {"Exited", "StdoutClosed", "StdinClosed"} -> "LspExited"
    [] OTHER -> "LspProtocolError"

map_symbol_error(error) ==
  CASE error = "FlatSymbolsUnsupported" -> "LspFlatSymbolsUnsupported"
    [] error = "ResourceLimitExceeded"  -> "LspResourceLimitExceeded"
    [] error = "NotFound"               -> "SelectionNotFound"
    [] error = "Ambiguous"              -> "SelectionAmbiguous"
    [] OTHER                            -> "LspProtocolError"

\* retarget_report: the codes of an outline.
retarget_report(code) ==
  CASE code = "InvalidSelectionQuery" -> "InvalidOutlineQuery"
    [] code \in {"SelectionNotFound", "SelectionAmbiguous", "SelectionInternalError"} ->
         "OutlineInternalError"
    [] OTHER -> code

retryable(code) ==
  code \in {"LspTimeout", "LspStartFailed", "LspExited", "LspRequestFailed"}

Report(code) ==
  LET own == IF Select THEN code ELSE retarget_report(code)
  IN  [ok |-> FALSE, code |-> own, retryable |-> retryable(own)]

Fail(code) ==
  /\ phase' = "done" /\ result' = Report(code)

-----------------------------------------------------------------------------
(* Before a server is started.                                             *)

validate_name(name) ==
  IF name = 0 THEN "InvalidSelectionQuery"
  ELSE IF TextBytes[name] > NameBytes THEN "LspResourceLimitExceeded"
  ELSE "none"

\* parse_kind or parse_kinds, the name, the workspace and the snapshot.
open_source ==
  /\ phase = "start"
  /\ IF ~request.kinds_known THEN Fail("InvalidSelectionQuery")
     ELSE IF /\ Select /\ request.query.by = "name"
             /\ validate_name(request.query.name) # "none"
          THEN Fail(validate_name(request.query.name))
     ELSE IF request.source.state # "read"
          THEN Fail(map_filesystem_error(request.source.state))
     ELSE IF ~request.source.utf8 THEN Fail("UnsupportedTextEncoding")
     ELSE phase' = "opened" /\ UNCHANGED result
  /\ UNCHANGED <<request, position, server, reply>>

\* validate_query: the byte of a position, or why there is none.
validate_query ==
  LET query == request.query
  IN  IF ~Select \/ query.by = "name" THEN Ok(0, 0)
      ELSE IF query.by = "byte"
           THEN IF validate_user_byte(Text, query.offset)
                THEN Ok(query.offset, 0) ELSE Err("InvalidUserPosition", 0)
      ELSE user_line_scalar_to_byte(Text, query.line, query.column, 0)

resolve_selection_server ==
  LET Among(servers) ==
        IF ~servers.ok THEN servers
        ELSE resolve_server(request.world, request.search, servers.value,
                            request.selection, request.extension)
  IN  Among(load_optional_configuration(request.config))

prepare_session ==
  /\ phase = "opened"
  /\ \E query \in {validate_query}, resolved \in {resolve_selection_server} :
       CASE ~query.ok -> /\ Fail("InvalidSelectionQuery")
                         /\ UNCHANGED <<position, server>>
         [] query.ok /\ ~resolved.ok -> /\ Fail(map_config_error(resolved.error))
                                        /\ UNCHANGED <<position, server>>
         [] OTHER -> /\ phase' = "resolved"
                     /\ position' = query.value /\ server' = resolved.value
                     /\ UNCHANGED result
  /\ UNCHANGED <<request, reply>>

-----------------------------------------------------------------------------
(* The session.                                                            *)

\* validate_server_identity: an absent name is fine, an empty one is not.
validate_server_identity(bytes) ==
  IF bytes = 0 THEN "LspProtocolError"
  ELSE IF bytes > IdentityBytes THEN "LspResourceLimitExceeded"
  ELSE "none"

SessionFails ==
  /\ phase = "resolved"
  /\ \E error \in SessionErrors : Fail(map_session_error(error))
  /\ UNCHANGED <<request, position, server, reply>>

SessionAnswers ==
  /\ phase = "resolved"
  /\ \E answer \in Replies :
       /\ IF validate_server_identity(answer.identity) = "none"
          THEN phase' = "answered" /\ UNCHANGED result
          ELSE Fail(validate_server_identity(answer.identity))
       /\ reply' = answer
  /\ UNCHANGED <<request, position, server>>

-----------------------------------------------------------------------------
(* The response.                                                           *)

Normalization == normalize_document_symbols(Text, reply.encoding, reply, 0)

\* build_response: one byte for each match and for each comma between them.
TooLarge(matches) == 2 * Len(matches) - 1 > ResponseBytes

resolve_selection(symbols) ==
  IF request.query.by = "name" THEN resolve_name(symbols, Text, request.query)
  ELSE resolve_position(symbols, Text, position, request.query)

respond_selection ==
  /\ phase = "answered" /\ Select
  /\ \E symbols \in {Normalization} :
       \/ ~symbols.ok /\ Fail(map_symbol_error(symbols.error))
       \/ /\ symbols.ok
          /\ \E resolved \in {resolve_selection(symbols.normalized)} :
               CASE ~resolved.ok -> Fail(map_symbol_error(resolved.error))
                 [] resolved.ok /\ TooLarge(resolved.matches) ->
                      Fail("LspResourceLimitExceeded")
                 [] OTHER -> phase' = "done" /\ result' = resolved
  /\ UNCHANGED <<request, position, server, reply>>

filter_kinds(symbols, kinds) ==
  Picked(symbols, {k \in DOMAIN symbols :
                     \/ kinds = {}
                     \/ symbols[k].kind.known /\ symbols[k].kind.number \in kinds})

\* outline_symbol: where a symbol starts and ends, in lines and columns; the
\* scan goes on where normalization stopped.
outline_symbol(state, s) ==
  LET Outlined(start, end) ==
        IF ~start.ok \/ ~end.ok \/ (start.ok /\ start.value.column = None)
        THEN [state EXCEPT !.ok = FALSE]
        ELSE [state EXCEPT !.scanned = end.scanned,
                !.symbols = Append(@, [symbol |-> s, start |-> start.value,
                                       end |-> end.value])]
      From(start) ==
        Outlined(start, byte_to_user_line_scalar(Text, s.byte_range.end, start.scanned))
  IN  IF ~state.ok THEN state
      ELSE From(byte_to_user_line_scalar(Text, s.byte_range.start, state.scanned))

outline_symbols(symbols, scanned) ==
  LET outlined[n \in 0 .. Len(symbols)] ==
        IF n = 0 THEN [ok |-> TRUE, symbols |-> << >>, scanned |-> scanned]
        ELSE outline_symbol(outlined[n - 1], symbols[n])
  IN  outlined[Len(symbols)]

respond_outline ==
  /\ phase = "answered" /\ ~Select
  /\ \E symbols \in {Normalization} :
       \/ ~symbols.ok /\ Fail(map_symbol_error(symbols.error))
       \/ /\ symbols.ok
          /\ \E filtered \in {filter_kinds(prepare_candidates(symbols.normalized),
                                           request.kinds)} :
               \/ Len(filtered) > OutlineSymbols /\ Fail("LspResourceLimitExceeded")
               \/ /\ Len(filtered) <= OutlineSymbols
                  /\ \E outlined \in {outline_symbols(filtered, symbols.scanned)} :
                       IF outlined.ok THEN phase' = "done" /\ result' = outlined
                       ELSE Fail("SelectionInternalError")
  /\ UNCHANGED <<request, position, server, reply>>

Init ==
  /\ request \in Requests
  /\ phase = "start" /\ position = 0 /\ server = NoServer /\ reply = NoServer
  /\ result = NoResult

Next ==
  \/ open_source \/ prepare_session \/ SessionFails \/ SessionAnswers
  \/ respond_selection \/ respond_outline

Spec == Init /\ [][Next]_vars

-----------------------------------------------------------------------------
(***************************************************************************)
(* Properties, against a reading of the text and of the tree of symbols    *)
(* that shares nothing with the conversions above.                         *)
(***************************************************************************)
Encodings == {"utf-8", "utf-16", "utf-32"}

\* Where lines end, a CR LF pair once.
LineEnds(text) ==
  {k \in DOMAIN text : \/ text[k] = LF
                       \/ text[k] = CR /\ ~(k < Len(text) /\ text[k + 1] = LF)}
LineOf(text, offset) == Cardinality({k \in LineEnds(text) : k <= offset})
StartOf(text, offset) == Max({0} \cup {k \in LineEnds(text) : k <= offset})

\* An offset that LSP can name: between two scalars of a line, or at the end
\* of its content.
Nameable(text, offset) ==
  /\ is_char_boundary(text, offset)
  /\ \A k \in StartOf(text, offset) + 1 .. offset : ~IsTerminatorByte(text[k])
  /\ offset = Len(text) => text # << >> /\ ~IsTerminatorByte(text[offset])

\* A conversion that stopped at the work limit, of a text that has more.
Exhausted(converted, text) ==
  /\ ~converted.ok /\ converted.error = "WorkLimitExceeded"
  /\ Cardinality(Scalars(text)) > MaxScanned

\* Every offset that LSP can name, and no other, has a position in every
\* encoding, unless the text has more scalars than may be examined; it is on
\* the line counted from the terminators, and converting it back gives the
\* offset again, as the user's line and column do (byte_to_lsp_position,
\* lsp_position_to_byte, user_line_scalar_to_byte).
PositionsRoundTrip ==
  phase = "opened" =>
    \A encoding \in Encodings, offset \in 0 .. Len(Text) :
      LET named == byte_to_lsp_position(Text, encoding, offset, 0)
          shown == byte_to_user_line_scalar(Text, offset, 0)
      IN  /\ (named.ok \/ Exhausted(named, Text)) = Nameable(Text, offset)
          /\ named.ok =>
               /\ named.value.line = LineOf(Text, offset)
               /\ lsp_position_to_byte(Text, encoding, named.value, 0).ok
               /\ lsp_position_to_byte(Text, encoding, named.value, 0).value = offset
          /\ Nameable(Text, offset) /\ ~Exhausted(shown, Text) =>
               /\ shown.value.line = LineOf(Text, offset) + 1
               /\ user_line_scalar_to_byte(Text, shown.value.line,
                                           shown.value.column, 0).ok
               /\ user_line_scalar_to_byte(Text, shown.value.line,
                                           shown.value.column, 0).value = offset

\* The offsets of the line of a position, and the code units before one.
OffsetsOn(at) == {o \in 0 .. Len(Text) : Nameable(Text, o) /\ LineOf(Text, o) = at.line}
UnitsTo(at, o) ==
  LET first == Min(OffsetsOn(at))
  IN  Units(Slice(Text, first, o), reply.encoding, o - first)
ExactlyAt(at) == {o \in OffsetsOn(at) : UnitsTo(at, o) = at.character}

\* The offset a position names, a character beyond the line being its end.
Named(at) == IF ExactlyAt(at) # {} THEN Min(ExactlyAt(at)) ELSE Max(OffsetsOn(at))
NamesAPlace(at) ==
  /\ OffsetsOn(at) # {}
  /\ ExactlyAt(at) # {} \/ UnitsTo(at, Max(OffsetsOn(at))) < at.character

Nodes == NodesOf(reply.items)

Start(node) == Named(node.symbol.range.start)
End(node) == Named(node.symbol.range.end)
NodeKey(node) == <<node.symbol.range, node.symbol.kind, node.path>>
FoundKey(s) == <<s.lsp_range, s.kind.number, s.symbol_path>>

Asked ==
  {n \in Nodes :
     /\ request.query.kind \in {0, n.symbol.kind}
     /\ IF request.query.by = "name" THEN n.symbol.name = request.query.name
        ELSE \/ Start(n) <= position /\ position < End(n)
             \/ position = Len(Text) /\ End(n) = Len(Text)}

\* Of the symbols at a position, the ones no other is shorter than.
Wanted ==
  LET Shortest(asked) ==
        {n \in asked : \A m \in asked : End(n) - Start(n) <= End(m) - Start(m)}
  IN  IF request.query.by = "name" THEN Asked ELSE Shortest(Asked)
WantedKeys == {NodeKey(n) : n \in Wanted}

\* A selection is the symbol, and around it only blanks of its first and last
\* line and the terminator of the last one.
Around(match) ==
  LET symbol == match.symbol.byte_range
      selected == match.selected
      before == Slice(Text, selected.start, symbol.start)
      after == Slice(Text, symbol.end, selected.end)
      terminator == {k \in DOMAIN after : IsTerminatorByte(after[k])}
  IN  /\ selected.start <= symbol.start /\ symbol.end <= selected.end
      /\ \A k \in DOMAIN before : before[k] \in Blank
      /\ \A k \in DOMAIN after : after[k] \in Blank \/ k \in terminator
      /\ terminator # {} => selected.end \in LineEnds(Text)
      /\ Cardinality({k \in LineEnds(Text) : symbol.end < k /\ k <= selected.end}) <= 1
      /\ is_char_boundary(Text, selected.start) /\ is_char_boundary(Text, selected.end)

\* A list without repetitions: a symbol comes twice only where one that has
\* the same bytes, kind and path, but another range of the server's, stands
\* between the two.
Coalesced(listed) ==
  \A i, j \in DOMAIN listed :
    i < j /\ FoundKey(listed[i]) = FoundKey(listed[j]) =>
      \E k \in i + 1 .. j - 1 :
        /\ listed[k].byte_range = listed[i].byte_range
        /\ listed[k].kind = listed[i].kind
        /\ listed[k].symbol_path = listed[i].symbol_path
        /\ listed[k].lsp_range # listed[i].lsp_range

\* By start, end and the spelling of the kind.
InOrder(listed) ==
  \A i, j \in DOMAIN listed :
    LET a == listed[i]
        b == listed[j]
    IN  i < j =>
          /\ a.byte_range.start <= b.byte_range.start
          /\ a.byte_range.start = b.byte_range.start => a.byte_range.end <= b.byte_range.end
          /\ a.byte_range = b.byte_range => Spelling(a.kind) <= Spelling(b.kind)

\* Every symbol of an answer is named and has a range in the text that holds
\* the range to reveal.
ProperRange(range) ==
  /\ NamesAPlace(range.start) /\ NamesAPlace(range.end)
  /\ Named(range.start) < Named(range.end)
WellFormed ==
  /\ reply.shape = "hierarchical" /\ reply.identity > 0
  /\ \A n \in Nodes :
       /\ n.symbol.name # 0
       /\ ProperRange(n.symbol.range) /\ ProperRange(n.symbol.selection)
       /\ Start(n) <= Named(n.symbol.selection.start)
       /\ Named(n.symbol.selection.end) <= End(n)

\* What a well-formed answer may be refused for: its symbols, or a limit.
Refusals == {"SelectionNotFound", "SelectionAmbiguous", "LspResourceLimitExceeded"}
Answered == phase = "done" /\ reply # NoServer

\* At most so many scalars are examined for an answer: the ranges of a symbol
\* are converted, both ends of two, and the ends of one of them back, each
\* within a line.
ScalarsOnLine(line) ==
  Cardinality({o \in Scalars(Text) : Nameable(Text, o) /\ LineOf(Text, o) = line})
WorkOfAnswer ==
  6 * Cardinality(Nodes)
    * Max({ScalarsOnLine(line) : line \in 0 .. LineOf(Text, Len(Text))})


\* An answer whose ranges are all ranges of the text is refused only for its
\* symbols or for a limit, and every exceeded limit, the one of the position
\* conversion among them, is reported as LSP_RESOURCE_LIMIT_EXCEEDED
\* (docs/protocol.md:332 and 342, docs/resource-limits.md:48 and 129-130, of
\* map_symbol_error and outline_symbol).
LimitsReportedAsLimits ==
  Answered /\ ~result.ok /\ result.code \notin Refusals => ~WellFormed

\* A server that is found, and not named by the caller, is run inside the
\* workspace and is itself outside of it, links followed, unless the user's
\* descriptor allows otherwise; a built-in one is run only when the user
\* configured none for the same request (resolve_server).
ServerTrusted ==
  phase = "resolved" /\ server.origin # "Explicit" =>
    LET configured == load_optional_configuration(request.config).value
        Claims(descriptor) ==
          IF request.selection.by = "id"
          THEN descriptor.id = request.selection.id.value
          ELSE request.extension.value \in descriptor.extensions
        mine == {k \in DOMAIN configured : Claims(configured[k])}
    IN  /\ Inside(server.directory)
        /\ Inside(server.path) =>
             \E k \in mine : configured[k].allow /\ server.origin = "UserConfiguration"
        /\ server.origin = "BuiltIn" => mine = {}
=============================================================================
