----------------------------- MODULE LineMetrics -----------------------------
(***************************************************************************)
(* Line boundaries and composable line metrics of crates/srcmv-core        *)
(* (line_metrics.rs).  A byte string is a sequence of byte values; an       *)
(* offset is zero based, so that the exclusive end of a line equals the    *)
(* one-based position of its last byte.                                    *)
(***************************************************************************)
EXTENDS Integers, Sequences, FiniteSets

LF == 10
CR == 13
None == -1

\* The bytes [from, to) of a byte string, with zero-based offsets.
Slice(bytes, from, to) == SubSeq(bytes, from + 1, to)

IsTerminatorByte(byte) == byte \in {LF, CR}

\* Where the first terminator at or after offset ends; a CR followed by an
\* LF is one terminator.
next_terminator_end(bytes, offset) ==
  LET found == {i \in offset + 1 .. Len(bytes) : IsTerminatorByte(bytes[i])}
      End(first) ==
        IF /\ bytes[first] = CR
           /\ first < Len(bytes) /\ bytes[first + 1] = LF
        THEN first + 1 ELSE first
  IN  IF found = {} THEN None
      ELSE End(CHOOSE i \in found : \A j \in found : i <= j)

\* LineIndex::from_bytes_with_limits, the scan; a nonempty suffix without a
\* terminator is a line.  The limits on lines and memory belong to the
\* acquisition of a snapshot and are not modelled.
Boundaries(bytes) ==
  LET From[offset \in 0 .. Len(bytes)] ==
        LET end == next_terminator_end(bytes, offset)
        IN  IF end # None THEN <<end>> \o From[end]
            ELSE IF offset < Len(bytes) THEN <<Len(bytes)>>
            ELSE << >>
  IN  From[0]

line_start(boundaries, line) ==
  IF line = 0 \/ line > Len(boundaries) THEN None
  ELSE IF line = 1 THEN 0 ELSE boundaries[line - 1]

line_end(boundaries, line) ==
  IF line \in 1 .. Len(boundaries) THEN boundaries[line] ELSE None

-----------------------------------------------------------------------------
EmptyMetrics == [byte_count |-> 0, terminator_count |-> 0,
                 first_byte |-> None, last_byte |-> None]

PartitionPoint(boundaries, offset) ==
  Cardinality({i \in 1 .. Len(boundaries) : boundaries[i] <= offset})

\* The metrics of [start, end) from the index: two binary searches, and the
\* bytes at the edge.
metrics_for_range(boundaries, bytes, start, end) ==
  IF start = end THEN EmptyMetrics
  ELSE [byte_count |-> end - start,
        terminator_count |->
          PartitionPoint(boundaries, end) - PartitionPoint(boundaries, start)
          - (IF end = Len(bytes) /\ ~IsTerminatorByte(bytes[end]) THEN 1 ELSE 0)
          + (IF end < Len(bytes) /\ bytes[end] = CR /\ bytes[end + 1] = LF
             THEN 1 ELSE 0),
        first_byte |-> bytes[start + 1],
        last_byte |-> bytes[end]]

line_count(metrics) ==
  metrics.terminator_count
  + (IF metrics.last_byte # None /\ ~IsTerminatorByte(metrics.last_byte)
     THEN 1 ELSE 0)

\* A summary that forgets that CR and LF may meet.
AppendWithoutMerge(metrics, following) ==
  IF following.byte_count = 0 THEN metrics
  ELSE IF metrics.byte_count = 0 THEN following
  ELSE [byte_count |-> metrics.byte_count + following.byte_count,
        terminator_count |->
          metrics.terminator_count + following.terminator_count,
        first_byte |-> metrics.first_byte,
        last_byte |-> following.last_byte]

\* Appends the metrics of the bytes that follow; a CR and an LF that meet
\* become one terminator.
try_append(metrics, following) ==
  IF following.byte_count = 0 THEN metrics
  ELSE IF metrics.byte_count = 0 THEN following
  ELSE [byte_count |-> metrics.byte_count + following.byte_count,
        terminator_count |->
          metrics.terminator_count + following.terminator_count
          - (IF metrics.last_byte = CR /\ following.first_byte = LF
             THEN 1 ELSE 0),
        first_byte |-> metrics.first_byte,
        last_byte |-> following.last_byte]
=============================================================================
