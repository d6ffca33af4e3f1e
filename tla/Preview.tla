------------------------------- MODULE Preview -------------------------------
(***************************************************************************)
(* The preview of crates/srcmv-cli (preview.rs) on top of the planner: the *)
(* review summary with its composed line counts and insertion groups, and  *)
(* the bounded text diff.                                                  *)
(*                                                                         *)
(* One request is built up operation by operation and previewed: snapshot  *)
(* and batch are the input of `srcmv preview`, base the size of the parts  *)
(* of the response that do not depend on the diff.                         *)
(***************************************************************************)
EXTENDS Planner, ByteCount

CONSTANTS
  Paths,            \* the paths of the batch, in the byte order of their names
  Snapshots,        \* the workspaces a request may meet
  Operations,       \* the operations a batch is made of
  MaxOperations,    \* bound: operations of one batch
  BaseSizes,        \* sizes of the response without diff, legacy summary and
                    \* truncation warning
  DETAILED_DIFF_INPUT_BYTES, DIFF_WORK_UNITS, DIFF_OUTPUT_BYTES,
  MAX_RESPONSE_BYTES

\* Bytes and numbers; an absent path has no bytes and no identity.
FileEntry ==
  [present : BOOLEAN, bytes : Seq(0 .. 255), identity : Nat, links : Nat,
   parent : Nat]
Selector == [unit : {"lines", "bytes"}, start : Nat, end : Nat]
Anchor == [at : {"start", "end", "before", "after", "byte"}, n : Nat]

ASSUME RequestsAssumption ==
  /\ Paths \subseteq Nat /\ IsFiniteSet(Paths)
  /\ Snapshots \subseteq [Paths -> FileEntry]
  /\ \A s \in Snapshots : \A path \in Paths :
       ~s[path].present => s[path].bytes = << >> /\ s[path].identity = 0
  /\ \A op \in Operations :
       /\ op.kind \in {"move", "copy"}
       /\ op.source \in Paths /\ op.destination \in Paths
       /\ op.selector \in Selector /\ op.anchor \in Anchor

ASSUME ResponseLimitsAssumption ==
  /\ BaseSizes \subseteq Nat
  /\ {DIFF_WORK_UNITS, DIFF_OUTPUT_BYTES, MAX_RESPONSE_BYTES} \subseteq Nat

VARIABLES snapshot, batch, planned, preview

vars == <<snapshot, batch, planned, preview>>

NUL == 0
TAB == 9

-----------------------------------------------------------------------------
(* The review summary.                                                     *)

RangeMetrics(path, start, end) ==
  metrics_for_range(Boundaries(snapshot[path].bytes), snapshot[path].bytes,
                    start, end)

ReviewOperation(op) ==
  LET Of(metrics) == [bytes |-> metrics.byte_count, lines |-> line_count(metrics)]
  IN  Of(RangeMetrics(op.source, op.start, op.end))

\* Payloads inserted at one offset form one group.
AddToGroups(groups, offset, index) ==
  IF groups # << >> /\ Last(groups).offset = offset
  THEN Front(groups) \o << [Last(groups) EXCEPT !.operations = Append(@, index)] >>
  ELSE Append(groups, [offset |-> offset, operations |-> << index >>])

build_review_output(output, operations) ==
  LET Visit(state, segment) ==
        [metrics |-> try_append(state.metrics,
                       RangeMetrics(segment.file, segment.start, segment.end)),
         groups |-> IF segment.slice = "original" THEN state.groups
                    ELSE AddToGroups(state.groups,
                           operations[segment.operation].offset,
                           segment.operation)]
      Of(state) ==
        [before |-> IF snapshot[output.path].present
                    THEN Len(Boundaries(snapshot[output.path].bytes)) ELSE None,
         after |-> line_count(state.metrics),
         bytes |-> state.metrics.byte_count,
         groups |-> state.groups]
      visited[k \in 0 .. Len(output.segments)] ==
        IF k = 0 THEN [metrics |-> EmptyMetrics, groups |-> << >>]
        ELSE Visit(visited[k - 1], output.segments[k])
  IN  Of(visited[Len(output.segments)])

build_review_summary ==
  [operations |-> [i \in DOMAIN planned.operations |->
                     ReviewOperation(planned.operations[i])],
   outputs |-> [k \in DOMAIN planned.outputs |->
                  build_review_output(planned.outputs[k], planned.operations)]]

-----------------------------------------------------------------------------
(* The diff writer.  Text is a sequence of pushed pieces; each has a size  *)
(* in bytes and a larger size as the content of a JSON string.             *)

\* escape_terminal_text: a control character becomes \u{..}, whose backslash
\* JSON escapes again.
\* The terminator of a line is written apart.
EscapedBytes(byte) ==
  IF IsTerminatorByte(byte) THEN 0 ELSE IF byte = TAB THEN 5 ELSE 1
EncodedBytes(byte) ==
  IF IsTerminatorByte(byte) THEN 0 ELSE IF byte = TAB THEN 6 ELSE 1

TerminatorBytes(terminator) == CASE terminator = "LF"   -> 2
                                 [] terminator = "CR"   -> 2
                                 [] terminator = "CRLF" -> 4
                                 [] terminator = "NONE" -> 4

\* text_lines: the full bytes of each line and its terminator.
text_lines(bytes) ==
  LET Line(full) ==
        [full |-> full,
         terminator |-> IF Last(full) = CR THEN "CR"
                        ELSE IF Last(full) # LF THEN "NONE"
                        ELSE IF Len(full) > 1 /\ full[Len(full) - 1] = CR
                        THEN "CRLF" ELSE "LF"]
      Lines(index) ==
        [k \in 1 .. Len(index) |->
           Line(Slice(bytes, line_start(index, k), line_end(index, k)))]
  IN  Lines(Boundaries(bytes))

HeaderPiece(sign, path, hunk) ==
  [sign |-> sign, path |-> path, hunk |-> hunk, bytes |-> 4, encoded |-> 5]

LinePiece(sign, path, line) ==
  LET fixed == 5 + TerminatorBytes(line.terminator)
  IN  [sign |-> sign, path |-> path, full |-> line.full,
       bytes |-> fixed + Total([i \in DOMAIN line.full |->
                                  EscapedBytes(line.full[i])]),
       encoded |-> fixed + 1 + Total([i \in DOMAIN line.full |->
                                        EncodedBytes(line.full[i])])]

NewWriter(maximum) ==
  [text |-> << >>, size |-> 0, encoded |-> 0, work |-> 0, maximum |-> maximum,
   truncation |-> "none"]

charge(writer, units) ==
  [writer EXCEPT !.work = @ + units,
                 !.truncation = IF @ = "none" /\ writer.work + units > DIFF_WORK_UNITS
                                THEN "work" ELSE @]

\* A piece that does not fit is dropped whole, and nothing is written after.
push(writer, piece) ==
  LET charged == charge(writer, piece.bytes)
  IN  IF writer.truncation # "none" THEN writer
      ELSE IF charged.truncation # "none" THEN charged
      ELSE IF \/ charged.size + piece.bytes > charged.maximum
              \/ charged.encoded + piece.encoded > charged.maximum
      THEN [charged EXCEPT !.truncation = "output"]
      ELSE [charged EXCEPT !.text = Append(@, piece),
                           !.size = @ + piece.bytes,
                           !.encoded = @ + piece.encoded]

\* The number of equal lines two sequences start with.
CommonLines(left, right) ==
  LET shorter == IF Len(left) < Len(right) THEN Len(left) ELSE Len(right)
  IN  Max({n \in 0 .. shorter :
             \A k \in 1 .. n : left[k].full = right[k].full})

\* A hunk whose common suffix may reach into the common prefix.
HunkOverlapping(before, after) ==
  LET prefix == CommonLines(before, after)
      suffix == CommonLines(Reverse(before), Reverse(after))
  IN  [prefix |-> prefix, before_end |-> Len(before) - suffix,
       after_end |-> Len(after) - suffix]

\* One hunk: the lines between the common prefix and the common suffix.
Hunk(before, after) ==
  LET prefix == CommonLines(before, after)
      suffix == CommonLines(Reverse(SubSeq(before, prefix + 1, Len(before))),
                            Reverse(SubSeq(after, prefix + 1, Len(after))))
  IN  [prefix |-> prefix, before_end |-> Len(before) - suffix,
       after_end |-> Len(after) - suffix]

write_output(writer, path, before_bytes, after_bytes) ==
  LET Lines(sign, lines) ==
        [k \in DOMAIN lines |-> LinePiece(sign, path, lines[k])]
      Pieces(before, after, hunk) ==
        [k \in 1 .. 3 |-> HeaderPiece(<<"---", "+++", "@@">>[k], path, hunk)]
        \o Lines("-", SubSeq(before, hunk.prefix + 1, hunk.before_end))
        \o Lines("+", SubSeq(after, hunk.prefix + 1, hunk.after_end))
      Compared(before, after) == Pieces(before, after, Hunk(before, after))
      Pushed(pieces) ==
        LET written[k \in 0 .. Len(pieces)] ==
              IF k = 0 THEN charge(writer, Len(before_bytes) + Len(after_bytes))
              ELSE push(written[k - 1], pieces[k])
        IN  written[Len(pieces)]
  IN  Pushed(Compared(text_lines(before_bytes), text_lines(after_bytes)))

-----------------------------------------------------------------------------
(* Size of the serialized response.                                        *)

ReasonBytes(reason) == CASE reason = "response_budget" -> 15
                         [] reason = "diff_budget"     -> 11

\* The legacy summary and the warning both name the reason.
TruncationBytes(reason) ==
  IF reason \in {"response_budget", "diff_budget"}
  THEN 2 * (8 + ReasonBytes(reason)) ELSE 0

\* A reservation that forgets the warning.
SummaryOnlyReserve(base) ==
  base + 8 + ReasonBytes("response_budget")

\* response_aware_diff_budget: an empty diff with the longest reason.
ReservedBytes(base) == base + TruncationBytes("response_budget")

MaximumDiffBytes(base, include_summary) ==
  IF ~include_summary THEN DIFF_OUTPUT_BYTES
  ELSE LET remaining == MAX_RESPONSE_BYTES - ReservedBytes(base)
       IN  IF remaining < DIFF_OUTPUT_BYTES THEN remaining ELSE DIFF_OUTPUT_BYTES

diff_truncation_reason(truncation, maximum) ==
  IF truncation = "none" THEN "none"
  ELSE IF truncation = "output" /\ maximum < DIFF_OUTPUT_BYTES
  THEN "response_budget" ELSE "diff_budget"

is_binary(bytes) == NUL \in Range(bytes)

OriginalBytes(path) == snapshot[path].bytes

Diff(kind, text, reason) == [kind |-> kind, text |-> text, reason |-> reason]

build_diff(no_diff, include_summary, base) ==
  LET changed == {k \in DOMAIN planned.outputs :
                    planned.outputs[k].change # "Unchanged"}
      maximum == MaximumDiffBytes(base, include_summary)
      Continue(writer, output) ==
        IF writer.truncation # "none" THEN writer
        ELSE write_output(writer, output.path, OriginalBytes(output.path),
                          output.digest)
      written[k \in 0 .. Len(planned.outputs)] ==
        IF k = 0 THEN NewWriter(maximum)
        ELSE IF k \in changed THEN Continue(written[k - 1], planned.outputs[k])
        ELSE written[k - 1]
      Text(writer) ==
        Diff("text", writer.text, diff_truncation_reason(writer.truncation, maximum))
  IN  IF no_diff THEN Diff("omitted", << >>, "none")
      ELSE IF changed = {} THEN Diff("text", << >>, "none")
      ELSE IF \E k \in changed :
                \/ Len(OriginalBytes(planned.outputs[k].path))
                     > DETAILED_DIFF_INPUT_BYTES
                \/ planned.outputs[k].length > DETAILED_DIFF_INPUT_BYTES
      THEN Diff("summary", << >>, "detailed_input_limit")
      ELSE IF \E k \in changed :
                \/ is_binary(OriginalBytes(planned.outputs[k].path))
                \/ is_binary(planned.outputs[k].digest)
      THEN Diff("binary", << >>, "binary_content")
      ELSE IF maximum < 0 THEN Diff("refused", << >>, "resource_limit_exceeded")
      ELSE Text(written[Len(planned.outputs)])

ResponseBytes(base, diff) ==
  base + TruncationBytes(diff.reason)
  + Total([k \in DOMAIN diff.text |-> diff.text[k].encoded])

\* The last check: a response with a summary is complete or refused.
enforce_complete_summary_response(include_summary, base, diff) ==
  include_summary => ResponseBytes(base, diff) <= MAX_RESPONSE_BYTES

-----------------------------------------------------------------------------
Nothing == [ok |-> FALSE, error |-> "none"]

Init ==
  /\ snapshot \in Snapshots
  /\ batch = << >>
  /\ planned = Nothing
  /\ preview = << >>

\* The client writes a request.
AddOperation ==
  /\ planned = Nothing
  /\ Len(batch) < MaxOperations
  /\ \E op \in Operations : batch' = Append(batch, op)
  /\ UNCHANGED <<snapshot, planned, preview>>

PlanBatch ==
  /\ planned = Nothing /\ batch # << >>
  /\ planned' = plan(snapshot, batch)
  /\ UNCHANGED <<snapshot, batch, preview>>

build_preview ==
  /\ planned.ok /\ preview = << >>
  /\ \E no_diff, include_summary \in BOOLEAN, base \in BaseSizes :
       \E diff \in {build_diff(no_diff, include_summary, base)} :
         preview' = [include_summary |-> include_summary,
                     review |-> build_review_summary, diff |-> diff,
                     bytes |-> ResponseBytes(base, diff),
                     complete |-> enforce_complete_summary_response(
                                    include_summary, base, diff)]
  /\ UNCHANGED <<snapshot, batch, planned>>

Next == AddOperation \/ PlanBatch \/ build_preview

Spec == Init /\ [][Next]_vars

-----------------------------------------------------------------------------
(* What a batch means, byte by byte: at every gap of the original the      *)
(* payloads inserted there, then the next byte unless a move took it.      *)

Effective == {op \in Range(planned.operations) : op.effect = "changed"}
Takers(path, offset) ==
  {op \in Effective : op.kind = "move" /\ op.source = path
                      /\ op.start <= offset /\ offset < op.end}

Meaning(path) ==
  LET bytes == snapshot[path].bytes
      Inserted(offset) ==
        FlattenSeq([i \in DOMAIN planned.operations |->
          LET op == planned.operations[i]
          IN  IF op \in Effective /\ op.destination = path /\ op.offset = offset
              THEN op.selected ELSE << >>])
  IN  FlattenSeq([g \in 1 .. Len(bytes) + 1 |->
        Inserted(g - 1) \o
        (IF g <= Len(bytes) /\ Takers(path, g - 1) = {} THEN << bytes[g] >>
         ELSE << >>)])

ResultOf(a_plan, path) ==
  LET here == {k \in DOMAIN a_plan.outputs : a_plan.outputs[k].path = path}
  IN  IF here = {} THEN snapshot[path].bytes
      ELSE a_plan.outputs[CHOOSE k \in here : TRUE].digest

\* The sweep over point events produces what the batch means: every byte the
\* moves left, every payload at its offset, in the order of the operations
\* (plan, build_segments, stream_output), and a file that comes out as it was
\* is classified Unchanged.
PlanRealizesBatch ==
  planned.ok =>
    /\ \A path \in DOMAIN snapshot : ResultOf(planned, path) = Meaning(path)
    /\ \A k \in DOMAIN planned.outputs :
         LET output == planned.outputs[k]
         IN  /\ output.length = Len(output.digest)
             /\ (output.change = "Unchanged") =
                  (snapshot[output.path].present
                   /\ output.digest = snapshot[output.path].bytes)
             /\ output.change # "Unchanged" /\ snapshot[output.path].present
                  => snapshot[output.path].links = 1

\* The places in some files where a byte is.
PlacesOf(files, byte) ==
  UNION {{path} \X {i \in DOMAIN files[path] : files[path][i] = byte} :
           path \in DOMAIN files}

\* A batch of moves loses and duplicates nothing: every byte is at as many
\* places of all files together before and after, whatever meets whatever
\* (validate_edit_conflicts together with build_segments).
MovesConserveBytes ==
  planned.ok /\ (\A i \in DOMAIN batch : batch[i].kind = "move") =>
    LET before == [path \in DOMAIN snapshot |-> snapshot[path].bytes]
        after == [path \in DOMAIN snapshot |-> ResultOf(planned, path)]
    IN  \A byte \in UNION {Range(before[path]) \cup Range(after[path]) :
                             path \in DOMAIN snapshot} :
          Cardinality(PlacesOf(before, byte)) = Cardinality(PlacesOf(after, byte))

\* The resolved operations take a byte twice, or a payload lands between two
\* bytes of one taken run.
ResolvedBatch == [i \in DOMAIN batch |-> Resolved(snapshot, batch[i], i)]
Ambiguous ==
  \E d, e \in Range(ResolvedBatch) :
    /\ d.kind = "move" /\ d.effect = "changed" /\ e.effect = "changed"
    /\ \/ /\ e.kind = "move" /\ d.operation_index # e.operation_index
          /\ d.source = e.source
          /\ \E b \in d.start .. d.end - 1 : b \in e.start .. e.end - 1
       \/ /\ e.destination = d.source
          /\ {e.offset - 1, e.offset} \subseteq d.start .. d.end - 1

\* A batch is refused as a conflict exactly when some byte would be taken
\* twice or a payload would land between two bytes of one taken run; edits
\* that only touch are accepted (validate_edit_conflicts).
ConflictExact ==
  planned # Nothing =>
    /\ planned.ok => ~Ambiguous
    /\ ~planned.ok /\ planned.error \in {"overlapping_move_deletions",
                                        "insertion_inside_move_deletion"}
         => Ambiguous

\* A batch with its last two operations exchanged.
Exchanged(b) ==
  SubSeq(b, 1, Len(b) - 2) \o << b[Len(b)], b[Len(b) - 1] >>

\* The last two operations insert at the same offset of the same file.
MeetAtOneOffset(operations) ==
  LET last == operations[Len(operations)]
      previous == operations[Len(operations) - 1]
  IN  /\ last.effect = "changed" /\ previous.effect = "changed"
      /\ last.destination = previous.destination
      /\ last.offset = previous.offset

\* The order of two neighbouring operations matters only when both insert at
\* the same offset of the same file: every operation is resolved against the
\* snapshot, never against the result of an earlier one.  There, only one of
\* the orders may be refused, since the other leaves a file as it is, and then
\* for what changes and never as a conflict (plan).
OrderOnlyMattersAtOneOffset ==
  LET other == plan(snapshot, Exchanged(batch))
      Justified(accepted, refused) ==
        /\ MeetAtOneOffset(accepted.operations)
        /\ refused.error \in {"hard_link_not_supported", "resource_limit_exceeded"}
  IN  Len(batch) > 1 /\ planned # Nothing /\ preview = << >> =>
        /\ planned.ok /\ ~other.ok => Justified(planned, other)
        /\ other.ok /\ ~planned.ok => Justified(other, planned)
        /\ planned.ok /\ other.ok /\ ~MeetAtOneOffset(planned.operations) =>
             \A path \in DOMAIN snapshot :
               ResultOf(planned, path) = ResultOf(other, path)

\* Two snapshots with the same plan digest hold the same files: the same
\* bytes in files of the same identity under the same parents
\* (encode_plan_record).
DigestBindsSnapshot ==
  planned.ok /\ preview = << >> =>
    \A s \in Snapshots :
      LET Same(path) == /\ s[path].present = snapshot[path].present
                        /\ s[path].bytes = snapshot[path].bytes
                        /\ s[path].identity = snapshot[path].identity
                        /\ s[path].parent = snapshot[path].parent
          Bound(other) == other.ok /\ other.digest = planned.digest
      IN  Bound(plan(s, batch)) => \A path \in DOMAIN s : Same(path)

-----------------------------------------------------------------------------
\* The lines of a byte string: positions that end one.
LinesOf(bytes) ==
  Cardinality({i \in 1 .. Len(bytes) :
    \/ i = Len(bytes)
    \/ bytes[i] = LF
    \/ bytes[i] = CR /\ bytes[i + 1] # LF})

\* The review counts lines it never scanned: the counts composed from the
\* metrics of the segments are those of the bytes that will be written, also
\* where segments cut or join a CRLF, and the insertion groups list every
\* payload once, in output order (build_review_output, metrics_for_range,
\* try_append).
LineCountsAgree ==
  preview # << >> =>
    /\ \A i \in DOMAIN planned.operations :
         preview.review.operations[i].lines = LinesOf(planned.operations[i].selected)
    /\ \A k \in DOMAIN planned.outputs :
         LET review == preview.review.outputs[k]
             output == planned.outputs[k]
             grouped == FlattenSeq([g \in DOMAIN review.groups |->
                                      review.groups[g].operations])
         IN  /\ review.after = LinesOf(output.digest)
             /\ review.bytes = output.length
             /\ review.before # None =>
                  review.before = LinesOf(snapshot[output.path].bytes)
             /\ \A g \in 2 .. Len(review.groups) :
                  review.groups[g - 1].offset < review.groups[g].offset
             /\ Len(grouped) = Cardinality(Range(grouped))
             /\ Range(grouped) = {op.operation_index :
                  op \in {e \in Effective : e.destination = output.path}}

\* A file after a hunk: the added lines stand for the removed ones.
Patched(lines, hunk, added) ==
  FlattenSeq(SubSeq(lines, 1, hunk.prefix) \o added
             \o SubSeq(lines, hunk.before_end + 1, Len(lines)))

\* The pieces first to last are the header of an output, the lines its hunk
\* removes from the old file and those it adds, which give the new one.
Describes(text, first, last, before, after) ==
  LET hunk == text[first + 2].hunk
      removed == hunk.before_end - hunk.prefix
      added == hunk.after_end - hunk.prefix
      Added(n) == text[first + 2 + removed + n]
      old == text_lines(before)
      lines == [n \in DOMAIN old |-> old[n].full]
  IN  /\ first + 2 <= last /\ text[first + 2].sign = "@@"
      /\ last = first + 2 + removed + added
      /\ \A n \in 1 .. removed : /\ text[first + 2 + n].sign = "-"
                                 /\ text[first + 2 + n].full = lines[hunk.prefix + n]
      /\ \A n \in 1 .. added : Added(n).sign = "+"
      /\ Patched(lines, hunk, [n \in 1 .. added |-> Added(n).full]) = after

\* The pieces of a path stand together in the text and describe its change.
DescribedIn(text, path, before, after) ==
  LET here == {n \in DOMAIN text : text[n].path = path}
  IN  \E first, last \in here :
        here = first .. last /\ Describes(text, first, last, before, after)

\* A text diff without a truncation reason is complete: for every changed
\* output, its pieces stand together, and the header, the removed and the
\* added lines applied to the old file give the new one
\* (DiffWriter::write_output, push).
DiffReconstructs ==
  preview # << >> /\ preview.diff.kind = "text" /\ preview.diff.reason = "none" =>
    \A k \in DOMAIN planned.outputs :
      LET output == planned.outputs[k]
      IN  output.change # "Unchanged" =>
            DescribedIn(preview.diff.text, output.path, OriginalBytes(output.path),
                        output.digest)

\* The space reserved for the diff is enough: a text diff never makes the
\* complete response with its review too large, so it is shortened and never
\* refused (response_aware_diff_budget, enforce_complete_summary_response).
SummaryResponseFits ==
  preview # << >> /\ preview.include_summary /\ preview.diff.kind = "text"
    /\ (\E k \in DOMAIN planned.outputs : planned.outputs[k].change # "Unchanged")
  => preview.complete
=============================================================================
