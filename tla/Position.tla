------------------------------ MODULE Position ------------------------------
(***************************************************************************)
(* Conversion between LSP positions, user positions and snapshot bytes, of *)
(* crates/srcmv-lsp (position.rs).  A text is a sequence of UTF-8 bytes; a *)
(* scalar is known by the offset of its first byte.  Every conversion also *)
(* returns the scalar values examined so far, which the work limit bounds. *)
(***************************************************************************)
EXTENDS LineMetrics, FiniteSetsExt, TLC

CONSTANT MaxScanned      \* maximum_code_points_scanned

ASSUME MaxScannedAssumption == MaxScanned \in Nat

Ok(value, scanned) == [ok |-> TRUE, value |-> value, scanned |-> scanned]
Err(error, scanned) == [ok |-> FALSE, error |-> error, scanned |-> scanned]

\* charge_code_point, once for each of n scalars, before the result is known.
Charge(scanned, n, outcome) ==
  IF scanned + n > MaxScanned THEN Err("WorkLimitExceeded", MaxScanned)
  ELSE [outcome EXCEPT !.scanned = scanned + n]

is_char_boundary(text, offset) ==
  \/ offset = Len(text)
  \/ offset \in 0 .. Len(text) - 1 /\ text[offset + 1] \notin 128 .. 191

Scalars(text) == {o \in 0 .. Len(text) - 1 : is_char_boundary(text, o)}

\* Code units of the scalar whose first byte is lead.
Width(encoding, lead) ==
  CASE encoding = "utf-8"  -> IF lead < 128 THEN 1 ELSE IF lead < 224 THEN 2
                              ELSE IF lead < 240 THEN 3 ELSE 4
    [] encoding = "utf-16" -> IF lead >= 240 THEN 2 ELSE 1
    [] encoding = "utf-32" -> 1

\* What holds of every &str: a scalar has the bytes its first one announces.
Utf8(text) ==
  /\ is_char_boundary(text, 0)
  /\ \A o \in Scalars(text) :
       /\ is_char_boundary(text, o + Width("utf-8", text[o + 1]))
       /\ \A p \in o + 1 .. o + Width("utf-8", text[o + 1]) - 1 :
            ~is_char_boundary(text, p)

\* The code units before an offset: the k-th unit of the scalar at o is <<o, k>>.
Units(content, encoding, offset) ==
  Cardinality({u \in Scalars(content) \X (1 .. 4) :
                 u[1] < offset /\ u[2] <= Width(encoding, content[u[1] + 1])})

-----------------------------------------------------------------------------
(* Lines.  Their content excludes the terminator.                          *)

Lines(text) == Boundaries(text)

content_end(text, start, end) ==
  IF end - start >= 2 /\ text[end] = LF /\ text[end - 1] = CR THEN end - 2
  ELSE IF end > start /\ IsTerminatorByte(text[end]) THEN end - 1
  ELSE end

\* line_bounds of a one-based line.
line_bounds(text, line) ==
  LET Bounds(start, end) ==
        [start |-> start, content_end |-> content_end(text, start, end), end |-> end]
  IN  Bounds(line_start(Lines(text), line), line_end(Lines(text), line))

line_content(text, bounds) == Slice(text, bounds.start, bounds.content_end)

-----------------------------------------------------------------------------
(* From the server.                                                        *)

\* An oversized character is the end of the content.
utf8_units_to_byte(content, character, scanned) ==
  IF character >= Len(content) THEN Ok(Len(content), scanned)
  ELSE IF ~is_char_boundary(content, character)
       THEN Err("CharacterSplitsCodeUnit", scanned)
  ELSE Ok(character, scanned)

\* Scalars are examined until the requested unit is reached; the last of
\* them may reach beyond it.
encoded_units_to_byte(content, character, encoding, scanned) ==
  LET examined == {o \in Scalars(content) : Units(content, encoding, o) < character}
      left == Scalars(content) \ examined
      stop == IF left = {} THEN Len(content) ELSE Min(left)
  IN  Charge(scanned, Cardinality(examined),
             IF Units(content, encoding, stop) > character
             THEN Err("CharacterSplitsCodeUnit", scanned) ELSE Ok(stop, scanned))

lsp_position_to_byte(text, encoding, position, scanned) ==
  LET Relative(content) ==
        IF encoding = "utf-8"
        THEN utf8_units_to_byte(content, position.character, scanned)
        ELSE encoded_units_to_byte(content, position.character, encoding, scanned)
      Shift(result, start) ==
        IF result.ok THEN [result EXCEPT !.value = start + @] ELSE result
      In(bounds) == Shift(Relative(line_content(text, bounds)), bounds.start)
  IN  IF position.line + 1 \notin DOMAIN Lines(text)
      THEN Err("NonexistentLine", scanned)
      ELSE In(line_bounds(text, position.line + 1))

lsp_range_to_byte_range(text, encoding, range, scanned) ==
  LET Both(start, end) ==
        IF ~end.ok THEN end
        ELSE IF start.value >= end.value THEN Err("InvalidRange", end.scanned)
        ELSE Ok([start |-> start.value, end |-> end.value], end.scanned)
      From(start) ==
        IF start.ok
        THEN Both(start, lsp_position_to_byte(text, encoding, range.end, start.scanned))
        ELSE start
  IN  From(lsp_position_to_byte(text, encoding, range.start, scanned))

-----------------------------------------------------------------------------
(* From the snapshot.                                                      *)

\* The first line that ends at or after the offset, or the last one.
FirstEndingAt(lines, offset) ==
  Min({l \in DOMAIN lines : l = Len(lines) \/ lines[l] >= offset})

\* A search that stops one line early.
LineEndingAt(text, offset) == FirstEndingAt(Lines(text), offset)

\* line_for_byte: that line, or the next one when it ends there.
line_for_byte(text, offset) ==
  LET After(lines, low) ==
        IF lines[low] = offset /\ low < Len(lines) THEN low + 1 ELSE low
  IN  After(Lines(text), FirstEndingAt(Lines(text), offset))

byte_to_lsp_position(text, encoding, offset, scanned) ==
  LET Position(line, character) ==
        Ok([line |-> line - 1, character |-> character], scanned)
      Encoded(line, content, relative) ==
        IF encoding = "utf-8" THEN Position(line, relative)
        ELSE Charge(scanned, Cardinality({o \in Scalars(content) : o < relative}),
                    Position(line, Units(content, encoding, relative)))
      In(line, bounds) ==
        IF offset \notin bounds.start .. bounds.content_end
        THEN Err("ByteNotRepresentable", scanned)
        ELSE Encoded(line, line_content(text, bounds), offset - bounds.start)
      On(line) == In(line, line_bounds(text, line))
  IN  IF ~is_char_boundary(text, offset) \/ Lines(text) = << >>
      THEN Err("ByteNotRepresentable", scanned)
      ELSE On(line_for_byte(text, offset))

-----------------------------------------------------------------------------
(* From and to the user: bytes, or one-based lines and scalar columns.     *)

validate_user_byte(text, offset) == is_char_boundary(text, offset)

user_line_scalar_to_byte(text, line, column, scanned) ==
  LET target == column - 1
      Scalar(content) ==
        Min({o \in Scalars(content) \cup {Len(content)} :
               Cardinality({p \in Scalars(content) : p < o}) = target})
      Offset(content, start, scalars) ==
        Charge(scanned, Min({target, scalars}),
               IF target > scalars THEN Err("InvalidUserPosition", scanned)
               ELSE Ok(start + Scalar(content), scanned))
      Of(content, start) == Offset(content, start, Cardinality(Scalars(content)))
      In(bounds) == Of(line_content(text, bounds), bounds.start)
  IN  IF line \notin DOMAIN Lines(text) \/ column = 0
      THEN Err("InvalidUserPosition", scanned)
      ELSE In(line_bounds(text, line))

\* The line an offset is on, and its column when it has one: an offset inside
\* a terminator, or after the last one, has none.
byte_to_user_line_scalar(text, offset, scanned) ==
  LET Line(lines) == Min({l \in DOMAIN lines : l = Len(lines) \/ lines[l] > offset})
      Column(line, before) ==
        Charge(scanned, before, Ok([line |-> line, column |-> before + 1], scanned))
      In(line, bounds) ==
        IF offset > bounds.content_end
        THEN Ok([line |-> line, column |-> None], scanned)
        ELSE Column(line, Cardinality({o \in Scalars(line_content(text, bounds)) :
                                         o < offset - bounds.start}))
      On(line) == In(line, line_bounds(text, line))
  IN  IF ~is_char_boundary(text, offset) \/ Lines(text) = << >>
      THEN Err("ByteNotRepresentable", scanned)
      ELSE On(Line(Lines(text)))
=============================================================================
