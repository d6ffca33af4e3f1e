------------------------------- MODULE Planner -------------------------------
(***************************************************************************)
(* The edit planner of crates/srcmv-core (planner.rs) and the plan record  *)
(* whose SHA-256 is the plan digest (plan_hash.rs): a pure function from a  *)
(* workspace snapshot, a batch of moves and copies and a budget to segment  *)
(* recipes or to an error.                                                 *)
(*                                                                         *)
(* Paths are numbered in the byte order of their names.  A snapshot holds  *)
(* an entry for every path of the batch: an existing file, with its bytes, *)
(* identity and link count, or an absent path.  SHA-256 is taken as        *)
(* injective: the digest of a byte string is the byte string.              *)
(***************************************************************************)
EXTENDS LineMetrics, SequencesExt

CONSTANTS
  Budget,           \* ResourceBudget: a record of the limits enforced here
  StructBytes,      \* size_of of the three structures the plan retains
  PathBytes         \* length of a path name

MustNotExist == << "must_not_exist" >>
Sha256(bytes) == << "sha256", bytes >>

ConflictAt(reason, index) == [ok |-> FALSE, error |-> reason, operation |-> index]
Refused(reason) == ConflictAt(reason, None)
Fine == [ok |-> TRUE]

FirstRefusal(checks) ==
  LET refused == {i \in DOMAIN checks : ~checks[i].ok}
  IN  IF refused = {} THEN Fine ELSE checks[Min(refused)]

-----------------------------------------------------------------------------
(* Resolution of one operation against the snapshot.                       *)

\* Every path of the batch carries one and the same precondition.
Preconditions(op) ==
  {<<op.source, op.source_precondition>>,
   <<op.destination, op.destination_precondition>>}

validate_precondition_consistency(batch) ==
  FirstRefusal([i \in DOMAIN batch |->
    IF \E j \in 1 .. i : \E p \in Preconditions(batch[j]) :
         \E q \in Preconditions(batch[i]) : p[1] = q[1] /\ p[2] # q[2]
    THEN ConflictAt("incompatible_preconditions", i) ELSE Fine])

existing_source(snapshot, op, i) ==
  LET file == snapshot[op.source]
  IN  IF op.source_precondition = MustNotExist
      THEN ConflictAt("source_must_exist", i)
      ELSE IF ~file.present THEN ConflictAt("source_not_in_snapshot", i)
      ELSE IF op.source_precondition # Sha256(file.bytes)
      THEN ConflictAt("source_precondition_failed", i)
      ELSE Fine

destination_state(snapshot, op, i) ==
  LET file == snapshot[op.destination]
  IN  IF (op.destination_precondition = MustNotExist) = file.present
      THEN ConflictAt("destination_state_mismatch", i)
      ELSE IF file.present /\ op.destination_precondition # Sha256(file.bytes)
      THEN ConflictAt("destination_precondition_failed", i)
      ELSE Fine

\* The byte range a selector names, << >> when it is out of range.
resolve_selector(file, selector) ==
  LET index == Boundaries(file.bytes)
      Lines(start, end) ==
        IF selector.start = 0 \/ selector.start > selector.end
           \/ start = None \/ end = None
        THEN << >> ELSE <<start, end>>
  IN  IF selector.unit = "lines"
      THEN Lines(line_start(index, selector.start), line_end(index, selector.end))
      ELSE IF selector.start < selector.end /\ selector.end <= Len(file.bytes)
      THEN <<selector.start, selector.end>> ELSE << >>

\* The byte offset an anchor names, None when it is out of range.
resolve_anchor(file, anchor) ==
  LET index == Boundaries(file.bytes)
  IN  IF ~file.present
      THEN IF anchor.at \in {"start", "end"} \/ anchor = [at |-> "byte", n |-> 0]
           THEN 0 ELSE None
      ELSE CASE anchor.at = "start"  -> 0
             [] anchor.at = "end"    -> Len(file.bytes)
             [] anchor.at = "before" -> line_start(index, anchor.n)
             [] anchor.at = "after"  -> line_end(index, anchor.n)
             [] anchor.at = "byte"   ->
                  IF anchor.n <= Len(file.bytes) THEN anchor.n ELSE None

\* A move to either edge of its own selection changes nothing.
OperationEffect(op, range, offset) ==
  IF op.kind = "move" /\ op.source = op.destination /\ offset \in {range[1], range[2]}
  THEN "no_op" ELSE "changed"

Resolved(snapshot, op, i) ==
  LET With(range, offset) ==
        [operation_index |-> i, kind |-> op.kind,
         source |-> op.source, selector |-> op.selector,
         source_precondition |-> op.source_precondition,
         start |-> range[1], end |-> range[2],
         selected |-> Slice(snapshot[op.source].bytes, range[1], range[2]),
         destination |-> op.destination, anchor |-> op.anchor,
         destination_precondition |-> op.destination_precondition,
         offset |-> offset, effect |-> OperationEffect(op, range, offset)]
  IN  With(resolve_selector(snapshot[op.source], op.selector),
           resolve_anchor(snapshot[op.destination], op.anchor))

\* The checks of one turn of the operation loop, in their order.
ResolutionError(snapshot, op, i) ==
  LET source == existing_source(snapshot, op, i)
      destination == destination_state(snapshot, op, i)
  IN  IF ~source.ok THEN source
      ELSE IF resolve_selector(snapshot[op.source], op.selector) = << >>
      THEN ConflictAt("selector_out_of_range", i)
      ELSE IF ~destination.ok THEN destination
      ELSE IF resolve_anchor(snapshot[op.destination], op.anchor) = None
      THEN ConflictAt("anchor_out_of_range", i)
      ELSE Fine

-----------------------------------------------------------------------------
(* The edits of one output and its segments.                               *)

Deletions(resolved, path) ==
  {op \in Range(resolved) :
     op.kind = "move" /\ op.effect = "changed" /\ op.source = path}

Insertions(resolved, path) ==
  {op \in Range(resolved) : op.effect = "changed" /\ op.destination = path}

OutputPaths(resolved) ==
  {op.destination : op \in {r \in Range(resolved) : r.effect = "changed"}}
  \cup {op.source : op \in {r \in Range(resolved) :
                              r.kind = "move" /\ r.effect = "changed"}}

\* Deletions left in the order of their operations.
UnsortedDeletions(deletions) ==
  [k \in 1 .. Cardinality(deletions) |->
     CHOOSE d \in deletions :
       Cardinality({e \in deletions : e.operation_index < d.operation_index})
         = k - 1]

SortedDeletions(deletions) ==
  LET Before(d, e) == \/ d.start < e.start
                      \/ d.start = e.start /\ d.end < e.end
                      \/ /\ <<d.start, d.end>> = <<e.start, e.end>>
                         /\ d.operation_index < e.operation_index
  IN  [k \in 1 .. Cardinality(deletions) |->
         CHOOSE d \in deletions :
           Cardinality({e \in deletions : Before(e, d)}) = k - 1]

\* Two neighbours overlap or touch.
AdjacentTouch(deletions) ==
  LET sorted == SortedDeletions(deletions)
  IN  \E k \in 2 .. Len(sorted) : sorted[k].start <= sorted[k - 1].end

\* Two neighbours in the sorted order overlap.
AdjacentOverlap(deletions) ==
  LET sorted == SortedDeletions(deletions)
  IN  \E k \in 2 .. Len(sorted) : sorted[k].start < sorted[k - 1].end

\* Deletions may touch, not overlap; an insertion may be at the edge of a
\* deletion, not strictly inside.
validate_edit_conflicts(deletions, insertions) ==
  IF AdjacentOverlap(deletions)
  THEN Refused("overlapping_move_deletions")
  ELSE IF \E i \in insertions, d \in deletions :
            d.start < i.offset /\ i.offset < d.end
  THEN Refused("insertion_inside_move_deletion")
  ELSE Fine

OriginalSlice(path, start, end) ==
  [slice |-> "original", file |-> path, start |-> start, end |-> end]
PayloadSlice(op) ==
  [slice |-> "payload", operation |-> op.operation_index, file |-> op.source,
   start |-> op.start, end |-> op.end, payload |-> op.selected]

\* Insertions at one offset in reverse.
InsertionsReversed(insertions, offset) ==
  LET here == {op \in insertions : op.offset = offset}
  IN  [k \in 1 .. Cardinality(here) |->
         PayloadSlice(CHOOSE op \in here :
           Cardinality({o \in here : o.operation_index > op.operation_index}) = k - 1)]

\* The insertions at one offset in the order of their operations.
InsertionsAt(insertions, offset) ==
  LET here == {op \in insertions : op.offset = offset}
  IN  [k \in 1 .. Cardinality(here) |->
         PayloadSlice(CHOOSE op \in here :
           Cardinality({o \in here : o.operation_index < op.operation_index}) = k - 1)]

\* A step that forgets the deletion that starts where another one ends.
PointStepEndLast(path, deletions, insertions, state, offset) ==
  LET kept == IF state.cursor < offset /\ ~state.deleting
              THEN << OriginalSlice(path, state.cursor, offset) >> ELSE << >>
      started == state.deleting \/ \E d \in deletions : d.start = offset
  IN  [segments |-> state.segments \o kept \o InsertionsAt(insertions, offset),
       cursor |-> offset,
       deleting |-> started /\ ~(\E d \in deletions : d.end = offset)]

\* One point event: close the run before it, end a deletion, insert, start
\* a deletion.
PointStep(path, deletions, insertions, state, offset) ==
  LET kept == IF state.cursor < offset /\ ~state.deleting
              THEN << OriginalSlice(path, state.cursor, offset) >> ELSE << >>
      ended == state.deleting /\ ~(\E d \in deletions : d.end = offset)
  IN  [segments |-> state.segments \o kept \o InsertionsAt(insertions, offset),
       cursor |-> offset,
       deleting |-> ended \/ \E d \in deletions : d.start = offset]

build_segments(path, length, deletions, insertions) ==
  LET points == {d.start : d \in deletions} \cup {d.end : d \in deletions}
                \cup {i.offset : i \in insertions}
      swept[n \in 0 .. length + 1] ==
        IF n = 0 THEN [segments |-> << >>, cursor |-> 0, deleting |-> FALSE]
        ELSE IF n - 1 \in points
        THEN PointStep(path, deletions, insertions, swept[n - 1], n - 1)
        ELSE swept[n - 1]
      Closed(state) ==
        state.segments \o
        (IF state.cursor < length /\ ~state.deleting
         THEN << OriginalSlice(path, state.cursor, length) >> ELSE << >>)
  IN  Closed(swept[length + 1])

SegmentBytes(snapshot, segment) ==
  Slice(snapshot[segment.file].bytes, segment.start, segment.end)

\* Length, digest and comparison with the original in one pass over the
\* segments.
stream_output(snapshot, path, segments) ==
  LET original == snapshot[path].bytes
      Chunk(state, bytes) ==
        LET end == state.length + Len(bytes)
        IN  [digest |-> state.digest \o bytes, length |-> end,
             equals |-> state.equals /\ end <= Len(original)
                        /\ Slice(original, state.length, end) = bytes]
      streamed[k \in 0 .. Len(segments)] ==
        IF k = 0
        THEN [digest |-> << >>, length |-> 0, equals |-> snapshot[path].present]
        ELSE Chunk(streamed[k - 1], SegmentBytes(snapshot, segments[k]))
      Ended(state) ==
        [digest |-> state.digest, length |-> state.length,
         equals |-> state.equals /\ state.length = Len(original)]
  IN  Ended(streamed[Len(segments)])

classify_output(existing, length, equals_original) ==
  IF ~existing THEN "CreatedNew"
  ELSE IF equals_original THEN "Unchanged"
  ELSE IF length = 0 THEN "EmptiedExisting" ELSE "ModifiedExisting"

PlannedOutput(snapshot, resolved, path) ==
  LET file == snapshot[path]
      Output(segments, streamed) ==
        [path |-> path,
         original |-> IF file.present THEN Sha256(file.bytes) ELSE << >>,
         change |-> classify_output(file.present, streamed.length, streamed.equals),
         length |-> streamed.length, digest |-> streamed.digest,
         segments |-> segments]
      Streamed(segments) == Output(segments, stream_output(snapshot, path, segments))
  IN  Streamed(build_segments(path, Len(file.bytes),
                              Deletions(resolved, path), Insertions(resolved, path)))

\* The paths in their byte order.
InOrder(paths) ==
  [k \in 1 .. Cardinality(paths) |->
     CHOOSE p \in paths : Cardinality({q \in paths : q < p}) = k - 1]

\* The checks of one turn of the output loop.
OutputError(snapshot, resolved, path) ==
  LET conflicts == validate_edit_conflicts(Deletions(resolved, path),
                                           Insertions(resolved, path))
  IN  IF ~conflicts.ok THEN conflicts
      ELSE IF /\ PlannedOutput(snapshot, resolved, path).change # "Unchanged"
              /\ snapshot[path].present /\ snapshot[path].links # 1
      THEN Refused("hard_link_not_supported")
      ELSE Fine

-----------------------------------------------------------------------------
(* The budget.                                                             *)

SumSeq(sizes) == FoldLeft(LAMBDA sum, size : sum + size, 0, sizes)
MaxSeq(sizes) ==
  FoldLeft(LAMBDA most, size : IF size > most THEN size ELSE most, 0, sizes)

calculate_usage(resolved, outputs) ==
  LET lengths == [k \in DOMAIN outputs |-> outputs[k].length]
      counts == [k \in DOMAIN outputs |-> Len(outputs[k].segments)]
      changed == [k \in DOMAIN outputs |->
                    IF outputs[k].change # "Unchanged" THEN 1 ELSE 0]
  IN  [resulting_bytes_per_output |-> MaxSeq(lengths),
       planned_output_bytes |-> SumSeq(lengths),
       segments_per_output |-> MaxSeq(counts),
       segments |-> SumSeq(counts),
       changed_targets |-> SumSeq(changed),
       projected_response_bytes |->
         1024 + Len(resolved) * (1024 + 2 * PathBytes)
         + Len(outputs) * (512 + PathBytes) + 512 * SumSeq(counts),
       planning_memory_bytes |->
         Len(resolved) * (StructBytes.operation + 2 * PathBytes)
         + Len(outputs) * (StructBytes.output + PathBytes)
         + StructBytes.segment * SumSeq(counts)]

enforce_usage(usage) ==
  IF \E limit \in DOMAIN usage : usage[limit] > Budget[limit]
  THEN Refused("resource_limit_exceeded") ELSE Fine

-----------------------------------------------------------------------------
(* The plan record: what the plan digest binds.  The encoding is canonical *)
(* CBOR; here it is the tree of values that is encoded, in its order.      *)

\* A record that names an input file by its contents alone.
InputsByContents(snapshot) ==
  [path \in DOMAIN snapshot |->
     LET file == snapshot[path]
     IN  IF file.present THEN <<1, file.parent, Len(file.bytes), file.bytes>>
         ELSE <<0, file.parent>>]

encode_inputs(snapshot) ==
  [path \in DOMAIN snapshot |->
     LET file == snapshot[path]
     IN  IF file.present
         THEN <<1, file.parent, file.identity, Len(file.bytes), file.bytes>>
         ELSE <<0, file.parent>>]

encode_plan_record(snapshot, resolved, outputs) ==
  <<encode_inputs(snapshot), resolved, outputs>>

-----------------------------------------------------------------------------
plan(snapshot, batch) ==
  LET consistent == validate_precondition_consistency(batch)
      unresolved == FirstRefusal([i \in DOMAIN batch |->
                                    ResolutionError(snapshot, batch[i], i)])
      Finish(resolved, outputs, usage) ==
        IF ~enforce_usage(usage).ok THEN enforce_usage(usage)
        ELSE [ok |-> TRUE, operations |-> resolved, outputs |-> outputs,
              usage |-> usage,
              digest |-> encode_plan_record(snapshot, resolved, outputs)]
      Account(resolved, outputs) ==
        Finish(resolved, outputs, calculate_usage(resolved, outputs))
      Assemble(resolved, paths, refused) ==
        IF ~refused.ok THEN refused
        ELSE Account(resolved, [k \in DOMAIN paths |->
                                  PlannedOutput(snapshot, resolved, paths[k])])
      Check(resolved, paths) ==
        Assemble(resolved, paths, FirstRefusal([k \in DOMAIN paths |->
                                    OutputError(snapshot, resolved, paths[k])]))
      Edit(resolved) ==
        Check(resolved, InOrder(OutputPaths(resolved)))
  IN  IF ~consistent.ok THEN consistent
      ELSE IF ~unresolved.ok THEN unresolved
      ELSE Edit([i \in DOMAIN batch |-> Resolved(snapshot, batch[i], i)])
=============================================================================
