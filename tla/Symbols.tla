------------------------------- MODULE Symbols -------------------------------
(***************************************************************************)
(* Normalization and resolution of document symbols of crates/srcmv-lsp    *)
(* (symbols.rs).  Names and details are numbered in byte order, zero being *)
(* the empty name and no detail; a kind is its LSP number.                 *)
(***************************************************************************)
EXTENDS Position, SequencesExt

CONSTANTS
  SymbolLimits,   \* raw, flattened, depth, name, detail, path, storage, matches
  TextBytes       \* length of a name or a detail

ASSUME SymbolLimitsAssumption == SymbolLimits.raw \in Nat /\ SymbolLimits.depth \in Nat

\* The standard kinds in the order of their spellings, "unknown" (0) among
\* them.
KindOrder == <<18, 17, 5, 14, 9, 10, 22, 24, 8, 1, 12, 11, 20, 6, 2, 3, 21, 16,
               19, 25, 4, 7, 15, 23, 26, 0, 13>>

normalize_kind(kind) == [known |-> kind \in 1 .. 26, number |-> kind]
Spelling(kind) ==
  SelectInSeq(KindOrder, LAMBDA n : n = IF kind.known THEN kind.number ELSE 0)

Reject(state, error) == [state EXCEPT !.ok = FALSE, !.error = error]

-----------------------------------------------------------------------------
(* normalize_hierarchical_symbols: a stack of pending symbols, popped one  *)
(* at a time; every range is converted, whatever is asked for later.       *)

Pending(symbol, path, depth) == [symbol |-> symbol, path |-> path, depth |-> depth]

PathBytes(path) == FoldLeft(LAMBDA sum, name : sum + TextBytes[name], 0, path)

range_contains(outer, inner) == outer.start <= inner.start /\ inner.end <= outer.end

\* One popped symbol with its converted ranges: the first check that fails,
\* or the symbol itself.
Normalize(state, pending, waiting, path, byte_range, selection) ==
  LET symbol == pending.symbol
      storage == state.storage + 2 * TextBytes[symbol.name]
                 + TextBytes[symbol.detail] + PathBytes(path)
      raw == state.raw + 1
  IN  IF raw > SymbolLimits.raw THEN Reject(state, "ResourceLimitExceeded")
      ELSE IF pending.depth > SymbolLimits.depth THEN Reject(state, "ResourceLimitExceeded")
      ELSE IF symbol.name = 0 THEN Reject(state, "MalformedDocumentSymbols")
      ELSE IF \/ TextBytes[symbol.name] > SymbolLimits.name
              \/ TextBytes[symbol.detail] > SymbolLimits.detail
              \/ PathBytes(path) > SymbolLimits.path
           THEN Reject(state, "ResourceLimitExceeded")
      ELSE IF ~byte_range.ok \/ ~selection.ok THEN Reject(state, "Position")
      ELSE IF ~range_contains(byte_range.value, selection.value)
           THEN Reject(state, "SelectionRangeNotContained")
      ELSE IF \/ storage > SymbolLimits.storage
              \/ /\ symbol.children # << >>
                 /\ waiting + raw + Len(symbol.children) > SymbolLimits.raw
              \/ Len(state.normalized) + 1 > SymbolLimits.flattened
           THEN Reject(state, "ResourceLimitExceeded")
      ELSE [state EXCEPT
              !.raw = raw, !.storage = storage, !.scanned = selection.scanned,
              !.normalized = Append(@,
                [name |-> symbol.name, detail |-> symbol.detail,
                 kind |-> normalize_kind(symbol.kind), symbol_path |-> path,
                 lsp_range |-> symbol.range, byte_range |-> byte_range.value,
                 selection |-> selection.value])]

NormalizeOne(text, encoding, state, pending, waiting) ==
  LET symbol == pending.symbol
      Convert(range, scanned) ==
        lsp_range_to_byte_range(text, encoding, range, scanned)
      With(byte_range) ==
        Normalize(state, pending, waiting, Append(pending.path, symbol.name),
                  byte_range, Convert(symbol.selection, byte_range.scanned))
  IN  With(Convert(symbol.range, state.scanned))

Children(pending) ==
  [k \in DOMAIN pending.symbol.children |->
     Pending(pending.symbol.children[k],
             Append(pending.path, pending.symbol.name), pending.depth + 1)]

\* One turn of the loop: the symbol on top of the stack, then its children.
FlattenOne(text, encoding, turn) ==
  IF turn.stack = << >> \/ ~turn.state.ok THEN turn
  ELSE [stack |-> Children(Head(turn.stack)) \o Tail(turn.stack),
        state |-> NormalizeOne(text, encoding, turn.state, Head(turn.stack),
                               Len(turn.stack) - 1)]

\* A turn rejects or counts a raw symbol, so that the limit bounds the loop.
Flatten(text, encoding, stack, start) ==
  LET run[n \in 0 .. SymbolLimits.raw + 1] ==
        IF n = 0 THEN [stack |-> stack, state |-> start]
        ELSE FlattenOne(text, encoding, run[n - 1])
  IN  run[SymbolLimits.raw + 1].state

\* decode_hierarchical_response, and the flattening.
normalize_document_symbols(text, encoding, response, scanned) ==
  LET start == [ok |-> TRUE, error |-> "none", raw |-> 0, storage |-> 0,
                scanned |-> scanned, normalized |-> << >>]
      roots == response.items
  IN  IF response.shape = "other" THEN Reject(start, "MalformedDocumentSymbols")
      ELSE IF response.shape = "null" \/ roots = << >> THEN start
      ELSE IF response.shape = "flat" THEN Reject(start, "FlatSymbolsUnsupported")
      ELSE IF response.shape = "mixed" THEN Reject(start, "MalformedDocumentSymbols")
      ELSE IF Len(roots) > SymbolLimits.raw THEN Reject(start, "ResourceLimitExceeded")
      ELSE Flatten(text, encoding,
                   [k \in DOMAIN roots |-> Pending(roots[k], << >>, 1)], start)

-----------------------------------------------------------------------------
(* The order of candidates, and duplicates.                                *)

\* compare_candidates and its tie breaks: the first difference decides.
CandidateKey(s) ==
  <<s.byte_range.start, s.byte_range.end, Spelling(s.kind), s.kind.number>>
  \o Append(s.symbol_path, 0)
  \o <<s.name, s.selection.start, s.selection.end, s.detail>>

LexLess(a, b) ==
  \E k \in 1 .. Len(b) :
    /\ \A j \in 1 .. k - 1 : j <= Len(a) /\ a[j] = b[j]
    /\ k > Len(a) \/ a[k] < b[k]

compare_candidates(a, b) == LexLess(CandidateKey(a), CandidateKey(b))

\* The sort is stable: symbols with equal keys stay as they are.
Precedes(symbols, i, j) ==
  \/ compare_candidates(symbols[i], symbols[j])
  \/ CandidateKey(symbols[i]) = CandidateKey(symbols[j]) /\ i < j

sort_by(symbols) ==
  [k \in DOMAIN symbols |->
     symbols[CHOOSE i \in DOMAIN symbols :
               Cardinality({j \in DOMAIN symbols : Precedes(symbols, j, i)}) = k - 1]]

duplicate_key_equal(a, b) ==
  /\ a.lsp_range = b.lsp_range /\ a.kind = b.kind
  /\ a.symbol_path = b.symbol_path /\ a.name = b.name

\* The symbols at some indices, in their order.
Picked(symbols, kept) ==
  [n \in 1 .. Cardinality(kept) |->
     symbols[CHOOSE k \in kept : Cardinality({j \in kept : j < k}) = n - 1]]

\* Neighbours with the same key are one candidate.
prepare_candidates(symbols) ==
  LET sorted == sort_by(symbols)
  IN  Picked(sorted, {k \in DOMAIN sorted :
                        k > 1 => ~duplicate_key_equal(sorted[k - 1], sorted[k])})

kind_matches(actual, requested) ==
  requested = 0 \/ (actual.known /\ actual.number = requested)


\* A range contains its bytes; one that ends with the file contains its end.
contains_position(range, offset, length) ==
  \/ range.start <= offset /\ offset < range.end
  \/ offset = length /\ range.end = length

-----------------------------------------------------------------------------
(* Extents.                                                                *)

Blank == {32, 9}
Blanks(text, from, to) == \A k \in from + 1 .. to : text[k] \in Blank

\* The end of the line when only blanks are left on it.
declaration_line_end(text, end) ==
  LET stop == {k \in end + 1 .. Len(text) : text[k] \notin Blank}
      cursor == Min(stop)
  IN  IF stop = {} THEN Len(text)
      ELSE IF text[cursor] = CR /\ cursor < Len(text) /\ text[cursor + 1] = LF
           THEN cursor + 1
      ELSE IF IsTerminatorByte(text[cursor]) THEN cursor
      ELSE end

apply_extent(text, range, extent) ==
  LET breaks == {k \in 1 .. range.start : IsTerminatorByte(text[k])}
      line == IF breaks = {} THEN 0 ELSE Max(breaks)
  IN  IF extent = "symbol" THEN range
      ELSE [start |-> IF Blanks(text, line, range.start) THEN line ELSE range.start,
            end |-> IF IsTerminatorByte(text[range.end]) THEN range.end
                    ELSE declaration_line_end(text, range.end)]

-----------------------------------------------------------------------------
(* Resolution.                                                             *)

Failed(error) == [ok |-> FALSE, error |-> error]

finish_resolution(candidates, text, extent, mode) ==
  IF mode = "all" /\ Len(candidates) > SymbolLimits.matches
  THEN Failed("ResourceLimitExceeded")
  ELSE IF mode = "unique" /\ candidates = << >> THEN Failed("NotFound")
  ELSE IF mode = "unique" /\ Len(candidates) > 1 THEN Failed("Ambiguous")
  ELSE [ok |-> TRUE,
        matches |-> [k \in DOMAIN candidates |->
                       [symbol |-> candidates[k],
                        selected |-> apply_extent(text, candidates[k].byte_range,
                                                  extent)]]]

resolve_name(symbols, text, query) ==
  LET matching == {k \in DOMAIN symbols : /\ symbols[k].name = query.name
                                          /\ kind_matches(symbols[k].kind, query.kind)}
  IN  finish_resolution(prepare_candidates(Picked(symbols, matching)),
                        text, query.extent, query.mode)

range_length(s) == s.byte_range.end - s.byte_range.start

\* A unique query keeps the shortest of the candidates only.
resolve_position(symbols, text, offset, query) ==
  LET matching == {k \in DOMAIN symbols :
                     /\ kind_matches(symbols[k].kind, query.kind)
                     /\ contains_position(symbols[k].byte_range, offset, Len(text))}
      candidates == prepare_candidates(Picked(symbols, matching))
      shortest == {k \in DOMAIN candidates :
                     \A j \in DOMAIN candidates :
                       range_length(candidates[k]) <= range_length(candidates[j])}
  IN  finish_resolution(
        IF query.mode = "unique" THEN Picked(candidates, shortest) ELSE candidates,
        text, query.extent, query.mode)
=============================================================================
