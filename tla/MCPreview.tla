------------------------------ MODULE MCPreview ------------------------------
(***************************************************************************)
(* The model of Preview for TLC: an existing file with a CRLF that edits   *)
(* may cut, an existing one that starts with an LF, and an absent path.    *)
(***************************************************************************)
EXTENDS Preview

x == 120

MCFile(bytes, identity, links) ==
  [present |-> TRUE, bytes |-> bytes, identity |-> identity, links |-> links,
   parent |-> 1]
MCAbsent == [present |-> FALSE, bytes |-> << >>, identity |-> 0, links |-> 0,
             parent |-> 1]

MCFirst == <<x, CR, LF, TAB>>
MCSecond == <<LF>>
MCBinary == <<CR, NUL>>

MCSnapshots ==
  {<<MCFile(MCFirst, 5, 1), MCFile(MCSecond, 6, 1), MCAbsent>>,
   <<MCFile(MCFirst, 5, 2), MCFile(MCSecond, 6, 1), MCAbsent>>,
   <<MCFile(MCFirst, 7, 1), MCFile(MCSecond, 6, 1), MCAbsent>>,
   <<MCFile(MCBinary, 5, 1), MCFile(MCSecond, 6, 1), MCAbsent>>}

MCPrecondition(bytes) == IF bytes = << >> THEN MustNotExist ELSE Sha256(bytes)
MCOp(kind, source, unit, start, end, destination, at, n) ==
  LET contents == <<MCFirst, MCSecond, << >>>>
  IN  [kind |-> kind, source |-> source,
       selector |-> [unit |-> unit, start |-> start, end |-> end],
       source_precondition |-> MCPrecondition(contents[source]),
       destination |-> destination, anchor |-> [at |-> at, n |-> n],
       destination_precondition |-> MCPrecondition(contents[destination])]

\* Moves whose ranges touch, overlap and cut the CRLF, to offsets at and
\* inside the other moves' edges; copies; line selectors and line anchors;
\* the new file; operations that must be refused.
MCOperations ==
  {MCOp("move", 1, "bytes", 0, 2, d[1], "byte", d[2]) : d \in {<<1, 3>>, <<2, 1>>}}
  \cup {MCOp("move", 1, "bytes", 2, 4, d[1], "byte", d[2]) :
          d \in {<<1, 0>>, <<1, 1>>, <<1, 2>>, <<2, 0>>}}
  \cup {MCOp("move", 1, "bytes", 1, 3, 3, "start", 0),
        MCOp("move", 1, "bytes", 0, 4, 3, "byte", 0),
        MCOp("copy", 2, "bytes", 0, 1, 1, "byte", 2),
        MCOp("copy", 1, "bytes", 0, 2, 1, "byte", 2),
        MCOp("copy", 2, "bytes", 0, 1, 2, "end", 0),
        MCOp("move", 2, "lines", 1, 1, 1, "after", 1),
        MCOp("move", 2, "bytes", 0, 1, 1, "end", 0),
        MCOp("copy", 1, "lines", 2, 2, 1, "before", 2),
        MCOp("copy", 1, "lines", 1, 2, 3, "end", 0),
        MCOp("copy", 1, "lines", 2, 3, 3, "start", 0),
        MCOp("copy", 1, "bytes", 0, 1, 3, "byte", 1),
        MCOp("copy", 1, "bytes", 3, 4, 1, "end", 0),
        MCOp("copy", 3, "bytes", 0, 1, 1, "start", 0),
        [MCOp("copy", 1, "bytes", 0, 1, 2, "end", 0)
           EXCEPT !.destination_precondition = MustNotExist],
        [MCOp("copy", 2, "bytes", 0, 1, 1, "byte", 4)
           EXCEPT !.source = 1, !.source_precondition = Sha256(MCBinary),
                  !.destination_precondition = Sha256(MCBinary), !.anchor.n = 1]}

MCBudget ==
  [resulting_bytes_per_output |-> 8, planned_output_bytes |-> 12,
   segments_per_output |-> 5, segments |-> 8, changed_targets |-> 3,
   projected_response_bytes |-> 10000, planning_memory_bytes |-> 10000]
MCStructBytes == [operation |-> 400, output |-> 200, segment |-> 80]
=============================================================================
