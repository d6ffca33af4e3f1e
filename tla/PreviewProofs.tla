---------------------------- MODULE PreviewProofs ----------------------------
(***************************************************************************)
(* Proofs about the planner, for all snapshots, all batches and all        *)
(* limits: the outputs of a plan are what the batch means, a batch is      *)
(* refused for a conflict exactly when its edits conflict, the digest      *)
(* binds the snapshot, the order of a batch matters only where two         *)
(* operations insert at one offset, and moves conserve bytes.              *)
(***************************************************************************)
EXTENDS Preview, SequenceLemmas

-----------------------------------------------------------------------------
(***************************************************************************)
(* The phases of plan.                                                     *)
(***************************************************************************)
ResolvedAll(s, b) == [i \in DOMAIN b |-> Resolved(s, b[i], i)]

Unresolved(s, b) == FirstRefusal([i \in DOMAIN b |-> ResolutionError(s, b[i], i)])

OutputsOf(s, r) ==
  [k \in DOMAIN InOrder(OutputPaths(r)) |->
     PlannedOutput(s, r, InOrder(OutputPaths(r))[k])]

OutputRefusal(s, r) ==
  FirstRefusal([k \in DOMAIN InOrder(OutputPaths(r)) |->
                  OutputError(s, r, InOrder(OutputPaths(r))[k])])

UsageRefusal(s, r) == enforce_usage(calculate_usage(r, OutputsOf(s, r)))

Accepted(s, r) ==
  [ok |-> TRUE, operations |-> r, outputs |-> OutputsOf(s, r),
   usage |-> calculate_usage(r, OutputsOf(s, r)),
   digest |-> encode_plan_record(s, r, OutputsOf(s, r))]

\* The errors of plan, in their order.
LEMMA PlanCases ==
  ASSUME NEW s, NEW b
  PROVE  plan(s, b) =
           IF ~validate_precondition_consistency(b).ok
           THEN validate_precondition_consistency(b)
           ELSE IF ~Unresolved(s, b).ok THEN Unresolved(s, b)
           ELSE IF ~OutputRefusal(s, ResolvedAll(s, b)).ok
           THEN OutputRefusal(s, ResolvedAll(s, b))
           ELSE IF ~UsageRefusal(s, ResolvedAll(s, b)).ok
           THEN UsageRefusal(s, ResolvedAll(s, b))
           ELSE Accepted(s, ResolvedAll(s, b))
BY DEF plan, ResolvedAll, Unresolved, OutputsOf, OutputRefusal, UsageRefusal, Accepted

\* What an accepted plan is.
LEMMA AcceptedPlan ==
  ASSUME NEW s, NEW b, plan(s, b).ok
  PROVE  /\ plan(s, b) = Accepted(s, ResolvedAll(s, b))
         /\ validate_precondition_consistency(b).ok
         /\ Unresolved(s, b).ok
         /\ OutputRefusal(s, ResolvedAll(s, b)).ok
BY PlanCases

\* The first refusal is one of them, and there is none only if all are fine.
LEMMA RefusalCases ==
  ASSUME NEW n \in Nat, NEW checks, DOMAIN checks = 1 .. n
  PROVE  \/ FirstRefusal(checks) = Fine /\ \A i \in 1 .. n : checks[i].ok
         \/ \E i \in 1 .. n : FirstRefusal(checks) = checks[i] /\ ~checks[i].ok
<1> DEFINE R == {i \in DOMAIN checks : ~checks[i].ok}
<1>1. CASE R = {}
  <2>1. FirstRefusal(checks) = Fine
    BY <1>1 DEF FirstRefusal
  <2> QED  BY <1>1, <2>1
<1>2. CASE R # {}
  <2>1. R \subseteq Nat
    OBVIOUS
  <2>2. \E x \in R : \A y \in R : x <= y
    <3> HIDE DEF R
    <3> QED  BY <1>2, <2>1, LeastMember
  <2>3. Min(R) \in R
    <3> HIDE DEF R
    <3> QED  BY <2>2 DEF Min
  <2>4. FirstRefusal(checks) = checks[Min(R)]
    BY <1>2 DEF FirstRefusal
  <2> QED  BY <2>3, <2>4
<1> QED  BY <1>1, <1>2

-----------------------------------------------------------------------------
(***************************************************************************)
(* The state of a request.                                                 *)
(***************************************************************************)
PlanInv ==
  /\ snapshot \in Snapshots /\ batch \in Seq(Operations)
  /\ planned = Nothing \/ planned = plan(snapshot, batch)
  /\ preview # << >> => planned.ok

\* It holds at first.
LEMMA InitPlan == Init => PlanInv
BY DEF Init, PlanInv

\* Every step keeps it.
LEMMA NextPlan == PlanInv /\ [Next]_vars => PlanInv'
<1> SUFFICES ASSUME PlanInv, [Next]_vars
             PROVE  PlanInv'
  OBVIOUS
<1> USE DEF PlanInv
<1>1. ~Nothing.ok
  BY DEF Nothing
<1>2. CASE AddOperation
  <2>1. PICK op \in Operations : batch' = Append(batch, op)
    BY <1>2 DEF AddOperation
  <2>2. batch' \in Seq(Operations)
    BY <2>1
  <2> QED  BY <1>1, <1>2, <2>2 DEF AddOperation
<1>3. CASE PlanBatch
  BY <1>1, <1>3 DEF PlanBatch
<1>4. CASE build_preview
  BY <1>4 DEF build_preview
<1>5. CASE UNCHANGED vars
  BY <1>5 DEF vars
<1> QED  BY <1>2, <1>3, <1>4, <1>5 DEF Next

\* A plan is always that of the batch in the snapshot, and a preview that of
\* a plan (execute_apply).
THEOREM PlanIsOfBatch == Spec => []PlanInv
BY InitPlan, NextPlan, PTL DEF Spec

-----------------------------------------------------------------------------
(***************************************************************************)
(* The digest.                                                             *)
(***************************************************************************)
\* The record of the input files determines them.
LEMMA InputsBindSnapshot ==
  ASSUME NEW s \in Snapshots, NEW t \in Snapshots,
         encode_inputs(s) = encode_inputs(t)
  PROVE  \A path \in Paths :
           /\ s[path].present = t[path].present
           /\ s[path].bytes = t[path].bytes
           /\ s[path].identity = t[path].identity
           /\ s[path].parent = t[path].parent
<1>1. DOMAIN s = Paths /\ DOMAIN t = Paths
  BY RequestsAssumption
<1> SUFFICES ASSUME NEW path \in Paths
             PROVE  /\ s[path].present = t[path].present
                    /\ s[path].bytes = t[path].bytes
                    /\ s[path].identity = t[path].identity
                    /\ s[path].parent = t[path].parent
  OBVIOUS
<1> DEFINE Entry(f) == IF f.present
                       THEN <<1, f.parent, f.identity, Len(f.bytes), f.bytes>>
                       ELSE <<0, f.parent>>
<1>2. Entry(s[path]) = Entry(t[path])
  <2>1. encode_inputs(s)[path] = Entry(s[path])
    BY <1>1 DEF encode_inputs
  <2>2. encode_inputs(t)[path] = Entry(t[path])
    BY <1>1 DEF encode_inputs
  <2> QED  BY <2>1, <2>2
<1>3. /\ s[path] \in FileEntry /\ t[path] \in FileEntry
      /\ ~s[path].present => s[path].bytes = << >> /\ s[path].identity = 0
      /\ ~t[path].present => t[path].bytes = << >> /\ t[path].identity = 0
  BY RequestsAssumption
<1>4. s[path].present \in BOOLEAN /\ t[path].present \in BOOLEAN
  BY <1>3 DEF FileEntry
<1>5. CASE s[path].present /\ t[path].present
  BY <1>2, <1>5
<1>6. CASE ~s[path].present /\ ~t[path].present
  <2>1. <<0, s[path].parent>> = <<0, t[path].parent>>
    BY <1>2, <1>6
  <2>2. s[path].parent = t[path].parent
    BY <2>1
  <2>3. s[path].present = t[path].present
    BY <1>4, <1>6
  <2> QED  BY <1>3, <1>6, <2>2, <2>3
<1>7. ASSUME NEW f, NEW g, f.present, ~g.present
      PROVE  Entry(f) # Entry(g)
  <2>1. Entry(f)[1] = 1 /\ Entry(g)[1] = 0
    BY <1>7
  <2> QED  BY <2>1
<1> QED  BY <1>2, <1>4, <1>5, <1>6, <1>7

\* Two snapshots with the same plan digest hold the same files, for every
\* set of snapshots and operations (encode_plan_record).
THEOREM DigestBinds == Spec => []DigestBindsSnapshot
<1>1. PlanInv => DigestBindsSnapshot
  <2> SUFFICES ASSUME PlanInv, planned.ok, NEW s \in Snapshots,
                      plan(s, batch).ok, plan(s, batch).digest = planned.digest
               PROVE  \A path \in DOMAIN s :
                        /\ s[path].present = snapshot[path].present
                        /\ s[path].bytes = snapshot[path].bytes
                        /\ s[path].identity = snapshot[path].identity
                        /\ s[path].parent = snapshot[path].parent
    BY DEF DigestBindsSnapshot
  <2>1. snapshot \in Snapshots /\ planned = plan(snapshot, batch)
    BY DEF PlanInv, Nothing
  <2>2. \A t : plan(t, batch).ok => plan(t, batch).digest[1] = encode_inputs(t)
    BY AcceptedPlan DEF Accepted, encode_plan_record
  <2>3. encode_inputs(s) = encode_inputs(snapshot)
    BY <2>1, <2>2
  <2>4. DOMAIN s = Paths
    BY RequestsAssumption
  <2> QED  BY <2>1, <2>3, <2>4, InputsBindSnapshot
<1> QED  BY <1>1, PlanIsOfBatch, PTL

-----------------------------------------------------------------------------
(***************************************************************************)
(* Ranks: the members of a finite set in the order of a relation.          *)
(***************************************************************************)
\* A strict total order on S.
Orders(less, S) ==
  /\ \A x \in S : <<x, x>> \notin less
  /\ \A x, y, z \in S : <<x, y>> \in less /\ <<y, z>> \in less => <<x, z>> \in less
  /\ \A x, y \in S : x # y => <<x, y>> \in less \/ <<y, x>> \in less

Below(less, S, x) == {y \in S : <<y, x>> \in less}

\* seq lists S in that order.
Lists(seq, less, S) ==
  /\ DOMAIN seq = 1 .. Cardinality(S)
  /\ \A k \in DOMAIN seq : seq[k] \in S
  /\ \A x \in S : \E k \in DOMAIN seq : seq[k] = x
  /\ \A i, j \in DOMAIN seq : i < j <=> <<seq[i], seq[j]>> \in less

\* The sequence of the members with their ranks is the list.
LEMMA RankedLists ==
  ASSUME NEW S, IsFiniteSet(S), NEW less, Orders(less, S), NEW seq,
         DOMAIN seq = 1 .. Cardinality(S),
         \A k \in 1 .. Cardinality(S) :
           (\E x \in S : Cardinality(Below(less, S, x)) = k - 1) =>
             seq[k] \in S /\ Cardinality(Below(less, S, seq[k])) = k - 1
  PROVE  Lists(seq, less, S)
<1> DEFINE n == Cardinality(S)
           rank == [x \in S |-> Cardinality(Below(less, S, x))]
<1>1. n \in Nat
  BY FS_CardinalityType
<1>2. ASSUME NEW x \in S
      PROVE  rank[x] \in 0 .. n - 1
  <2>1. Below(less, S, x) \subseteq S /\ x \notin Below(less, S, x)
    BY DEF Below, Orders
  <2>2. /\ IsFiniteSet(Below(less, S, x)) /\ Cardinality(Below(less, S, x)) <= n
        /\ Cardinality(Below(less, S, x)) = n => S = Below(less, S, x)
    BY <2>1, FS_Subset
  <2>3. Cardinality(Below(less, S, x)) \in Nat
    BY <2>2, FS_CardinalityType
  <2> QED  BY <1>1, <2>1, <2>2, <2>3
<1>3. ASSUME NEW x \in S, NEW y \in S, <<x, y>> \in less
      PROVE  rank[x] < rank[y]
  <2>1. Below(less, S, x) \subseteq Below(less, S, y)
    BY <1>3 DEF Below, Orders
  <2>2. x \in Below(less, S, y) /\ x \notin Below(less, S, x)
    BY <1>3 DEF Below, Orders
  <2>3. IsFiniteSet(Below(less, S, y))
    BY FS_Subset DEF Below
  <2>4. /\ Cardinality(Below(less, S, x)) <= Cardinality(Below(less, S, y))
        /\ Cardinality(Below(less, S, x)) # Cardinality(Below(less, S, y))
    BY <2>1, <2>2, <2>3, FS_Subset
  <2> QED  BY <1>1, <1>2, <2>4
<1>4. ASSUME NEW x \in S, NEW y \in S, x # y
      PROVE  rank[x] # rank[y]
  <2>1. <<x, y>> \in less \/ <<y, x>> \in less
    BY <1>4 DEF Orders
  <2> HIDE DEF rank
  <2> QED  BY <1>1, <1>2, <1>3, <2>1
<1>5. rank \in Injection(S, 0 .. n - 1)
  <2>1. rank \in [S -> 0 .. n - 1]
    <3>1. DOMAIN rank = S /\ rank = [x \in S |-> rank[x]]
      OBVIOUS
    <3> HIDE DEF rank
    <3> QED  BY <1>2, <3>1
  <2> HIDE DEF rank, n
  <2> QED  BY <2>1, <1>4 DEF Injection, IsInjective
<1>6. IsFiniteSet(0 .. n - 1) /\ Cardinality(0 .. n - 1) = n
  <2>1. 0 \in Int /\ n - 1 \in Int
    BY <1>1
  <2> HIDE DEF n
  <2> QED  BY <1>1, <2>1, FS_Interval
<1>7. rank \in Surjection(S, 0 .. n - 1)
  <2> HIDE DEF rank
  <2> QED  BY <1>5, <1>6, FS_Injection
<1>8. \A k \in 1 .. n : \E x \in S : rank[x] = k - 1
  <2>1. \A t \in 0 .. n - 1 : \E x \in S : rank[x] = t
    <3> HIDE DEF rank, n
    <3> QED  BY <1>7 DEF Surjection
  <2> HIDE DEF rank, n
  <2> QED  BY <1>1, <2>1
<1>9. ASSUME NEW k \in 1 .. n
      PROVE  seq[k] \in S /\ rank[seq[k]] = k - 1
  <2>1. \E x \in S : Cardinality(Below(less, S, x)) = k - 1
    <3>1. PICK x \in S : rank[x] = k - 1
      BY <1>8
    <3> QED  BY <3>1
  <2>2. seq[k] \in S /\ Cardinality(Below(less, S, seq[k])) = k - 1
    BY <2>1
  <2> QED  BY <2>2
<1>10. ASSUME NEW x \in S
       PROVE  \E k \in 1 .. n : seq[k] = x
  <2>1. rank[x] + 1 \in 1 .. n
    BY <1>1, <1>2
  <2> DEFINE k == rank[x] + 1
  <2>2. k - 1 = rank[x]
    BY <1>1, <1>2
  <2> HIDE DEF k, rank
  <2>3. seq[k] \in S /\ rank[seq[k]] = rank[x]
    BY <1>9, <2>1, <2>2 DEF k
  <2> QED  BY <1>4, <2>1, <2>3 DEF k
<1>11. ASSUME NEW i \in 1 .. n, NEW j \in 1 .. n
       PROVE  i < j <=> <<seq[i], seq[j]>> \in less
  <2>1. /\ seq[i] \in S /\ rank[seq[i]] = i - 1
        /\ seq[j] \in S /\ rank[seq[j]] = j - 1
    BY <1>9
  <2>2. ASSUME i < j
        PROVE  <<seq[i], seq[j]>> \in less
    <3>1. seq[i] # seq[j] /\ ~(rank[seq[j]] < rank[seq[i]])
      BY <1>1, <2>1, <2>2
    <3> QED  BY <1>3, <2>1, <3>1 DEF Orders
  <2>3. ASSUME <<seq[i], seq[j]>> \in less
        PROVE  i < j
    <3>1. rank[seq[i]] < rank[seq[j]]
      BY <1>3, <2>1, <2>3
    <3> QED  BY <1>1, <2>1, <3>1
  <2> QED  BY <2>2, <2>3
<1> QED  BY <1>9, <1>10, <1>11 DEF Lists

\* Numbers in their order.
Ascending == {p \in Nat \X Nat : p[1] < p[2]}

\* Numbers of a finite set in their order.
LEMMA NumbersInOrder ==
  ASSUME NEW S, S \subseteq Nat, IsFiniteSet(S)
  PROVE  Lists(InOrder(S), Ascending, S)
<1>1. Orders(Ascending, S)
  BY DEF Orders, Ascending
<1>2. \A x \in S : {q \in S : q < x} = Below(Ascending, S, x)
  BY DEF Below, Ascending
<1>3. DOMAIN InOrder(S) = 1 .. Cardinality(S)
  BY DEF InOrder
<1>4. ASSUME NEW k \in 1 .. Cardinality(S)
      PROVE  (\E x \in S : Cardinality(Below(Ascending, S, x)) = k - 1) =>
               /\ InOrder(S)[k] \in S
               /\ Cardinality(Below(Ascending, S, InOrder(S)[k])) = k - 1
  <2>1. InOrder(S)[k] = CHOOSE p \in S : Cardinality({q \in S : q < p}) = k - 1
    BY DEF InOrder
  <2>2. (\E x \in S : Cardinality({q \in S : q < x}) = k - 1) =>
          /\ InOrder(S)[k] \in S
          /\ Cardinality({q \in S : q < InOrder(S)[k]}) = k - 1
    BY <2>1
  <2> QED  BY <1>2, <2>2
<1> QED  BY <1>1, <1>3, <1>4, RankedLists

-----------------------------------------------------------------------------
(***************************************************************************)
(* Where a selector and an anchor are.                                     *)
(***************************************************************************)
\* A line has a start before its end, and later lines lie behind it.
LEMMA LineRange ==
  ASSUME NEW bytes \in ByteStrings, NEW a \in Nat, NEW b \in Nat, a >= 1, a <= b,
         line_start(Boundaries(bytes), a) # None,
         line_end(Boundaries(bytes), b) # None
  PROVE  /\ line_start(Boundaries(bytes), a) \in Nat
         /\ line_end(Boundaries(bytes), b) \in 1 .. Len(bytes)
         /\ line_start(Boundaries(bytes), a) < line_end(Boundaries(bytes), b)
<1> DEFINE B == Boundaries(bytes)
<1>1. LineList(B, bytes, 0)
  BY BoundariesAreEnds
<1> HIDE DEF B
<1>2. /\ B \in Seq(1 .. Len(bytes)) /\ Len(bytes) \in Nat /\ Len(B) \in Nat
      /\ \A k \in 1 .. Len(B) : B[k] \in 1 .. Len(bytes)
  BY <1>1 DEF LineList, ByteStrings
<1>3. b \in 1 .. Len(B) /\ line_end(B, b) = B[b]
  BY DEF line_end, B
<1>4. CASE a = 1
  <2>1. line_start(B, a) = 0
    BY <1>2, <1>3, <1>4 DEF line_start, None
  <2> QED  BY <1>2, <1>3, <2>1 DEF B
<1>5. CASE a # 1
  <2>1. a - 1 \in 1 .. Len(B) /\ a - 1 < b /\ line_start(B, a) = B[a - 1]
    BY <1>2, <1>3, <1>5 DEF line_start
  <2>2. B[a - 1] < B[b]
    BY <1>1, <1>3, <2>1 DEF LineList
  <2> QED  BY <1>2, <1>3, <2>1, <2>2 DEF B
<1> QED  BY <1>4, <1>5

\* A selector that is accepted names a range of bytes that is not empty.
LEMMA SelectorRange ==
  ASSUME NEW file \in FileEntry, NEW selector \in Selector,
         resolve_selector(file, selector) # << >>
  PROVE  LET range == resolve_selector(file, selector)
         IN  /\ range[1] \in Nat /\ range[2] \in Nat
             /\ range[1] < range[2] /\ range[2] <= Len(file.bytes)
<1> DEFINE index == Boundaries(file.bytes)
           range == resolve_selector(file, selector)
           start == line_start(index, selector.start)
           end == line_end(index, selector.end)
<1>1. /\ file.bytes \in ByteStrings /\ selector.start \in Nat /\ selector.end \in Nat
      /\ selector.unit \in {"lines", "bytes"} /\ Len(file.bytes) \in Nat
  BY DEF FileEntry, Selector, ByteStrings
<1>2. CASE selector.unit = "lines"
  <2>1. /\ ~(selector.start = 0 \/ selector.start > selector.end
             \/ start = None \/ end = None)
        /\ range = <<start, end>>
    BY <1>2 DEF resolve_selector
  <2>2. selector.start >= 1 /\ selector.start <= selector.end
    BY <1>1, <2>1
  <2>3. start \in Nat /\ end \in 1 .. Len(file.bytes) /\ start < end
    BY <1>1, <2>1, <2>2, LineRange
  <2> HIDE DEF start, end, range
  <2>4. range[1] = start /\ range[2] = end
    BY <2>1
  <2>5. /\ range[1] \in Nat /\ range[2] \in Nat
        /\ range[1] < range[2] /\ range[2] <= Len(file.bytes)
    BY <1>1, <2>3, <2>4
  <2> QED  BY <2>5 DEF range
<1>3. CASE selector.unit # "lines"
  <2>1. /\ selector.start < selector.end /\ selector.end <= Len(file.bytes)
        /\ range = <<selector.start, selector.end>>
    BY <1>3 DEF resolve_selector
  <2> QED  BY <1>1, <2>1
<1> QED  BY <1>2, <1>3

\* An anchor that is accepted names an offset in the file.
LEMMA AnchorOffset ==
  ASSUME NEW file \in FileEntry, NEW anchor \in Anchor,
         resolve_anchor(file, anchor) # None,
         ~file.present => file.bytes = << >>
  PROVE  resolve_anchor(file, anchor) \in 0 .. Len(file.bytes)
<1> DEFINE index == Boundaries(file.bytes)
           offset == resolve_anchor(file, anchor)
<1>1. /\ file.bytes \in ByteStrings /\ anchor.n \in Nat /\ Len(file.bytes) \in Nat
      /\ anchor.at \in {"start", "end", "before", "after", "byte"}
  BY DEF FileEntry, Anchor, ByteStrings
<1>2. LineList(index, file.bytes, 0)
  BY <1>1, BoundariesAreEnds
<1>3. \A k \in 1 .. Len(index) : index[k] \in 0 .. Len(file.bytes)
  BY <1>1, <1>2 DEF LineList
<1>4. \A k \in Nat : line_end(index, k) = None \/ line_end(index, k) \in 0 .. Len(file.bytes)
  <2> HIDE DEF index
  <2> QED  BY <1>3 DEF line_end
<1>5. \A k \in Nat : line_start(index, k) = None \/ line_start(index, k) \in 0 .. Len(file.bytes)
  <2> SUFFICES ASSUME NEW k \in Nat, line_start(index, k) # None
               PROVE  line_start(index, k) \in 0 .. Len(file.bytes)
    OBVIOUS
  <2>1. Len(index) \in Nat
    BY <1>2 DEF LineList
  <2> HIDE DEF index
  <2>2. k # 0 /\ k <= Len(index)
    BY <2>1 DEF line_start
  <2>3. CASE k = 1
    BY <1>1, <2>2, <2>3, <2>1 DEF line_start
  <2>4. CASE k # 1
    <3>1. k - 1 \in 1 .. Len(index) /\ line_start(index, k) = index[k - 1]
      BY <2>1, <2>2, <2>4 DEF line_start
    <3> QED  BY <1>3, <3>1
  <2> QED  BY <2>3, <2>4
<1>6. CASE ~file.present
  <2>1. offset = 0
    BY <1>6 DEF resolve_anchor
  <2> QED  BY <1>1, <2>1
<1>7. CASE file.present
  <2> HIDE DEF index
  <2>1. CASE anchor.at \in {"start", "end"}
    BY <1>1, <1>7, <2>1 DEF resolve_anchor
  <2>2. CASE anchor.at = "before"
    <3>1. offset = line_start(index, anchor.n)
      BY <1>7, <2>2 DEF resolve_anchor, index
    <3> QED  BY <1>1, <1>5, <3>1
  <2>3. CASE anchor.at = "after"
    <3>1. offset = line_end(index, anchor.n)
      BY <1>7, <2>3 DEF resolve_anchor, index
    <3> QED  BY <1>1, <1>4, <3>1
  <2>4. CASE anchor.at = "byte"
    <3>1. offset = IF anchor.n <= Len(file.bytes) THEN anchor.n ELSE None
      BY <1>7, <2>4 DEF resolve_anchor
    <3> QED  BY <1>1, <3>1
  <2> QED  BY <1>1, <2>1, <2>2, <2>3, <2>4
<1> QED  BY <1>6, <1>7

-----------------------------------------------------------------------------
(***************************************************************************)
(* Resolved operations.                                                    *)
(***************************************************************************)
\* An operation of a batch that was resolved in snapshot s as the i-th.
IsResolved(r, s, i) ==
  /\ r.operation_index = i /\ r.kind \in {"move", "copy"}
  /\ r.source \in Paths /\ r.destination \in Paths
  /\ r.effect \in {"changed", "no_op"}
  /\ r.start \in Nat /\ r.end \in Nat
  /\ r.start < r.end /\ r.end <= Len(s[r.source].bytes)
  /\ r.offset \in 0 .. Len(s[r.destination].bytes)
  /\ r.selected = Slice(s[r.source].bytes, r.start, r.end)

\* One operation without an error, resolved.
LEMMA ResolvedOne ==
  ASSUME NEW s \in Snapshots, NEW op \in Operations, NEW i \in Nat,
         ResolutionError(s, op, i).ok
  PROVE  IsResolved(Resolved(s, op, i), s, i)
<1> DEFINE range == resolve_selector(s[op.source], op.selector)
           offset == resolve_anchor(s[op.destination], op.anchor)
           r == Resolved(s, op, i)
<1>1. /\ op.kind \in {"move", "copy"} /\ op.source \in Paths
      /\ op.destination \in Paths /\ op.selector \in Selector /\ op.anchor \in Anchor
  BY RequestsAssumption
<1>2. /\ s[op.source] \in FileEntry /\ s[op.destination] \in FileEntry
      /\ ~s[op.destination].present => s[op.destination].bytes = << >>
  BY <1>1, RequestsAssumption
<1>3. range # << >> /\ offset # None
  BY DEF ResolutionError, ConflictAt
<1>4. /\ range[1] \in Nat /\ range[2] \in Nat
      /\ range[1] < range[2] /\ range[2] <= Len(s[op.source].bytes)
  BY <1>1, <1>2, <1>3, SelectorRange
<1>5. offset \in 0 .. Len(s[op.destination].bytes)
  BY <1>1, <1>2, <1>3, AnchorOffset
<1>6. /\ r.operation_index = i /\ r.kind = op.kind
      /\ r.source = op.source /\ r.destination = op.destination
      /\ r.start = range[1] /\ r.end = range[2] /\ r.offset = offset
      /\ r.selected = Slice(s[op.source].bytes, range[1], range[2])
      /\ r.effect = OperationEffect(op, range, offset)
  BY DEF Resolved
<1>7. r.effect \in {"changed", "no_op"}
  BY <1>6 DEF OperationEffect
<1> HIDE DEF r, range, offset
<1>8. IsResolved(r, s, i)
  BY <1>1, <1>4, <1>5, <1>6, <1>7 DEF IsResolved
<1> QED  BY <1>8 DEF r

\* A batch all of whose operations could be resolved.
LEMMA ResolvedMembers ==
  ASSUME NEW s \in Snapshots, NEW b \in Seq(Operations), Unresolved(s, b).ok
  PROVE  /\ DOMAIN ResolvedAll(s, b) = 1 .. Len(b)
         /\ \A i \in 1 .. Len(b) : IsResolved(ResolvedAll(s, b)[i], s, i)
<1> DEFINE checks == [i \in DOMAIN b |-> ResolutionError(s, b[i], i)]
<1>1. Len(b) \in Nat /\ DOMAIN b = 1 .. Len(b) /\ \A i \in 1 .. Len(b) : b[i] \in Operations
  OBVIOUS
<1>2. DOMAIN checks = 1 .. Len(b) /\ FirstRefusal(checks) = Unresolved(s, b)
  BY <1>1 DEF Unresolved
<1>3. \A i \in 1 .. Len(b) : checks[i].ok
  <2> HIDE DEF checks
  <2> QED  BY <1>1, <1>2, RefusalCases
<1>4. ASSUME NEW i \in 1 .. Len(b)
      PROVE  IsResolved(ResolvedAll(s, b)[i], s, i)
  <2>1. ResolutionError(s, b[i], i).ok
    BY <1>1, <1>3
  <2>2. IsResolved(Resolved(s, b[i], i), s, i)
    BY <1>1, <2>1, ResolvedOne
  <2> QED  BY <1>1, <2>2 DEF ResolvedAll
<1> QED  BY <1>1, <1>4 DEF ResolvedAll

\* The operations of a batch of n, resolved in s.
IsBatch(r, s, n) ==
  /\ n \in Nat /\ DOMAIN r = 1 .. n
  /\ \A i \in 1 .. n : IsResolved(r[i], s, i)

\* The operations are finitely many, and each is known by its index.
LEMMA BatchMembers ==
  ASSUME NEW r, NEW s, NEW n, IsBatch(r, s, n)
  PROVE  /\ IsFiniteSet(Range(r))
         /\ \A d \in Range(r) : /\ d.operation_index \in 1 .. n
                                /\ d = r[d.operation_index]
                                /\ IsResolved(d, s, d.operation_index)
         /\ \A i \in 1 .. n : r[i] \in Range(r)
<1>1. n \in Nat /\ DOMAIN r = 1 .. n /\ IsFiniteSet(1 .. n)
  BY FS_Interval DEF IsBatch
<1>2. [i \in 1 .. n |-> r[i]] \in Surjection(1 .. n, Range(r))
  BY <1>1 DEF Surjection, Range
<1>3. IsFiniteSet(Range(r))
  BY <1>1, <1>2, FS_Surjection
<1>4. ASSUME NEW d \in Range(r)
      PROVE  /\ d.operation_index \in 1 .. n
             /\ d = r[d.operation_index]
             /\ IsResolved(d, s, d.operation_index)
  <2>1. PICK i \in 1 .. n : d = r[i]
    BY <1>1 DEF Range
  <2>2. IsResolved(d, s, i)
    BY <2>1 DEF IsBatch
  <2>3. d.operation_index = i
    BY <2>2 DEF IsResolved
  <2> QED  BY <2>1, <2>2, <2>3
<1> QED  BY <1>1, <1>3, <1>4 DEF Range

\* The deletions of a file, with what validation and the sweep rely on.
LEMMA DeletionsType ==
  ASSUME NEW r, NEW s, NEW n, IsBatch(r, s, n), NEW path
  PROVE  /\ IsFiniteSet(Deletions(r, path))
         /\ \A d \in Deletions(r, path) :
              /\ d \in Range(r) /\ d.source = path
              /\ d.kind = "move" /\ d.effect = "changed"
              /\ d.start \in Nat /\ d.end \in Nat /\ d.operation_index \in Nat
              /\ d.start < d.end /\ d.end <= Len(s[path].bytes)
         /\ \A d, e \in Deletions(r, path) :
              d.operation_index = e.operation_index => d = e
<1>1. Deletions(r, path) \subseteq Range(r)
  BY DEF Deletions
<1>2. IsFiniteSet(Deletions(r, path))
  BY <1>1, BatchMembers, FS_Subset
<1>3. \A d \in Deletions(r, path) :
        d \in Range(r) /\ d.source = path /\ d.kind = "move" /\ d.effect = "changed"
  BY DEF Deletions
<1>4. ASSUME NEW d \in Deletions(r, path)
      PROVE  /\ d.start \in Nat /\ d.end \in Nat /\ d.operation_index \in Nat
             /\ d.start < d.end /\ d.end <= Len(s[path].bytes)
  <2>1. IsResolved(d, s, d.operation_index) /\ d.source = path
        /\ d.operation_index \in 1 .. n
    BY <1>3, BatchMembers
  <2> QED  BY <2>1 DEF IsResolved
<1>5. \A d, e \in Deletions(r, path) : d.operation_index = e.operation_index => d = e
  BY <1>1, BatchMembers
<1> QED  BY <1>2, <1>3, <1>4, <1>5

\* The order deletions are sorted in.
DeletionOrder(deletions) ==
  {p \in deletions \X deletions :
     \/ p[1].start < p[2].start
     \/ p[1].start = p[2].start /\ p[1].end < p[2].end
     \/ /\ p[1].start = p[2].start /\ p[1].end = p[2].end
        /\ p[1].operation_index < p[2].operation_index}

\* Deletions in the order of the planner.
LEMMA DeletionsSorted ==
  ASSUME NEW D, IsFiniteSet(D),
         \A d \in D : d.start \in Nat /\ d.end \in Nat /\ d.operation_index \in Nat,
         \A d, e \in D : d.operation_index = e.operation_index => d = e
  PROVE  Lists(SortedDeletions(D), DeletionOrder(D), D)
<1> DEFINE less == DeletionOrder(D)
           seq == SortedDeletions(D)
           Before(d, e) == \/ d.start < e.start
                           \/ d.start = e.start /\ d.end < e.end
                           \/ /\ <<d.start, d.end>> = <<e.start, e.end>>
                              /\ d.operation_index < e.operation_index
<1>1. \A d, e \in D :
        <<d, e>> \in less <=>
          \/ d.start < e.start
          \/ d.start = e.start /\ d.end < e.end
          \/ d.start = e.start /\ d.end = e.end /\ d.operation_index < e.operation_index
  BY DEF DeletionOrder
<1> HIDE DEF less
<1>2. Orders(less, D)
  <2>1. \A x \in D : <<x, x>> \notin less
    BY <1>1
  <2>2. ASSUME NEW x \in D, NEW y \in D, NEW z \in D,
               <<x, y>> \in less, <<y, z>> \in less
        PROVE  <<x, z>> \in less
    <3>1. /\ x.start <= y.start /\ y.start <= z.start
          /\ x.start = y.start => x.end <= y.end
          /\ y.start = z.start => y.end <= z.end
          /\ x.start = y.start /\ x.end = y.end =>
               x.operation_index < y.operation_index
          /\ y.start = z.start /\ y.end = z.end =>
               y.operation_index < z.operation_index
      BY <1>1, <2>2
    <3> QED  BY <1>1, <3>1
  <2>3. ASSUME NEW x \in D, NEW y \in D, x # y
        PROVE  <<x, y>> \in less \/ <<y, x>> \in less
    <3>1. x.operation_index # y.operation_index
      BY <2>3
    <3> QED  BY <1>1, <3>1
  <2> QED  BY <2>1, <2>2, <2>3 DEF Orders
<1>3. \A x \in D : {e \in D : Before(e, x)} = Below(less, D, x)
  <2>1. \A e, x \in D : Before(e, x) <=> <<e, x>> \in less
    <3>1. \A e, x \in D :
            <<e.start, e.end>> = <<x.start, x.end>> <=> e.start = x.start /\ e.end = x.end
      OBVIOUS
    <3> QED  BY <1>1, <3>1
  <2> HIDE DEF Before
  <2> QED  BY <2>1 DEF Below
<1>4. /\ DOMAIN seq = 1 .. Cardinality(D)
      /\ \A k \in 1 .. Cardinality(D) :
           seq[k] = CHOOSE d \in D : Cardinality({e \in D : Before(e, d)}) = k - 1
  BY DEF SortedDeletions
<1> HIDE DEF seq, Before
<1>5. ASSUME NEW k \in 1 .. Cardinality(D)
      PROVE  (\E x \in D : Cardinality(Below(less, D, x)) = k - 1) =>
               /\ seq[k] \in D
               /\ Cardinality(Below(less, D, seq[k])) = k - 1
  <2>1. (\E x \in D : Cardinality({e \in D : Before(e, x)}) = k - 1) =>
          /\ seq[k] \in D
          /\ Cardinality({e \in D : Before(e, seq[k])}) = k - 1
    BY <1>4
  <2> QED  BY <1>3, <2>1
<1>6. Lists(seq, less, D)
  BY <1>2, <1>4, <1>5, RankedLists
<1> QED  BY <1>6 DEF seq, less

\* Two deletions take one byte.
Overlaps(D) ==
  \E d, e \in D : /\ d.operation_index # e.operation_index
                  /\ \E b \in d.start .. d.end - 1 : b \in e.start .. e.end - 1

\* Looking at neighbours in the sorted order finds every overlap.
LEMMA OverlapExact ==
  ASSUME NEW D, IsFiniteSet(D),
         \A d \in D : /\ d.start \in Nat /\ d.end \in Nat /\ d.operation_index \in Nat
                      /\ d.start < d.end,
         \A d, e \in D : d.operation_index = e.operation_index => d = e
  PROVE  AdjacentOverlap(D) <=> Overlaps(D)
<1> DEFINE seq == SortedDeletions(D)
           n == Cardinality(D)
<1>1. Lists(seq, DeletionOrder(D), D)
  BY DeletionsSorted
<1>2. n \in Nat
  BY FS_CardinalityType
<1>3. /\ DOMAIN seq = 1 .. n /\ seq = [k \in 1 .. n |-> seq[k]]
      /\ \A k \in 1 .. n : seq[k] \in D
      /\ \A d \in D : \E k \in 1 .. n : seq[k] = d
      /\ \A i, j \in 1 .. n : i < j => <<seq[i], seq[j]>> \in DeletionOrder(D)
  BY <1>1 DEF Lists, SortedDeletions
<1>4. Len(seq) = n
  <2> HIDE DEF seq, n
  <2> QED  BY <1>2, <1>3
<1>5. \A k \in 1 .. n : /\ seq[k].start \in Nat /\ seq[k].end \in Nat
                        /\ seq[k].start < seq[k].end
                        /\ seq[k].operation_index \in Nat
  <2> HIDE DEF seq, n
  <2> QED  BY <1>3
<1>6. \A i, j \in 1 .. n : i < j => /\ seq[i].start <= seq[j].start
                                    /\ seq[i] # seq[j]
  <2> SUFFICES ASSUME NEW i \in 1 .. n, NEW j \in 1 .. n, i < j
               PROVE  seq[i].start <= seq[j].start /\ seq[i] # seq[j]
    OBVIOUS
  <2> HIDE DEF seq, n
  <2>1. <<seq[i], seq[j]>> \in DeletionOrder(D)
    BY <1>3
  <2>2. \/ seq[i].start < seq[j].start
        \/ seq[i].start = seq[j].start /\ seq[i].end < seq[j].end
        \/ seq[i].start = seq[j].start /\ seq[i].operation_index < seq[j].operation_index
    BY <2>1 DEF DeletionOrder
  <2> QED  BY <1>5, <2>2
<1>7. AdjacentOverlap(D) <=> \E k \in 2 .. n : seq[k].start < seq[k - 1].end
  BY <1>4 DEF AdjacentOverlap
<1> HIDE DEF seq, n
<1>8. ASSUME NEW k \in 2 .. n, seq[k].start < seq[k - 1].end
      PROVE  Overlaps(D)
  <2>1. k \in 1 .. n /\ k - 1 \in 1 .. n /\ k - 1 < k
    BY <1>2
  <2> DEFINE d == seq[k - 1]
             e == seq[k]
  <2>2. d \in D /\ e \in D /\ d.start <= e.start /\ d # e
    BY <1>3, <1>6, <2>1
  <2>3. e.start < d.end
    BY <1>8
  <2> HIDE DEF d, e
  <2>4. e.start \in d.start .. d.end - 1 /\ e.start \in e.start .. e.end - 1
    BY <2>2, <2>3
  <2> QED  BY <2>2, <2>4 DEF Overlaps
<1>9. ASSUME \A k \in 2 .. n : ~(seq[k].start < seq[k - 1].end)
      PROVE  ~Overlaps(D)
  <2> DEFINE P == {m \in Nat : \A i \in 1 .. n : i + m + 1 \in 1 .. n =>
                                 seq[i].end <= seq[i + m + 1].start}
  <2>1. 0 \in P
    <3> SUFFICES ASSUME NEW i \in 1 .. n, i + 0 + 1 \in 1 .. n
                 PROVE  seq[i].end <= seq[i + 0 + 1].start
      OBVIOUS
    <3>1. i + 0 + 1 \in 2 .. n /\ (i + 0 + 1) - 1 = i
      BY <1>2
    <3>2. ~(seq[i + 0 + 1].start < seq[i].end)
      BY <1>9, <3>1
    <3> QED  BY <1>5, <3>2
  <2>2. ASSUME NEW m \in Nat, m \in P
        PROVE  m + 1 \in P
    <3> SUFFICES ASSUME NEW i \in 1 .. n, i + (m + 1) + 1 \in 1 .. n
                 PROVE  seq[i].end <= seq[i + (m + 1) + 1].start
      OBVIOUS
    <3> DEFINE j == i + m + 1
               k == i + (m + 1) + 1
    <3>1. j \in 1 .. n /\ k \in 2 .. n /\ k - 1 = j
      BY <1>2
    <3>2. seq[i].end <= seq[j].start
      BY <2>2, <3>1
    <3>3. ~(seq[k].start < seq[j].end)
      <4> HIDE DEF j, k
      <4> QED  BY <1>9, <3>1
    <3>4. k \in 1 .. n
      OBVIOUS
    <3> HIDE DEF j, k
    <3>5. seq[i].end <= seq[k].start
      BY <1>5, <3>1, <3>2, <3>3, <3>4
    <3> QED  BY <3>5 DEF k
  <2>3. Nat \subseteq P
    <3> HIDE DEF P
    <3> QED  BY <2>1, <2>2, SetInduction
  <2>4. ASSUME NEW i \in 1 .. n, NEW j \in 1 .. n, i < j
        PROVE  seq[i].end <= seq[j].start
    <3>1. j - i - 1 \in Nat /\ i + (j - i - 1) + 1 = j
      BY <1>2, <2>4
    <3> DEFINE m == j - i - 1
    <3>2. m \in P
      BY <2>3, <3>1
    <3> HIDE DEF m
    <3>3. i + m + 1 = j
      BY <3>1 DEF m
    <3> QED  BY <3>2, <3>3
  <2> SUFFICES ASSUME NEW d \in D, NEW e \in D, d.operation_index # e.operation_index,
                      NEW b \in d.start .. d.end - 1, b \in e.start .. e.end - 1
               PROVE  FALSE
    BY DEF Overlaps
  <2>5. PICK i \in 1 .. n, j \in 1 .. n : seq[i] = d /\ seq[j] = e
    BY <1>3
  <2>6. i # j
    BY <2>5
  <2>7. CASE i < j
    <3>1. d.end <= e.start
      BY <2>4, <2>5, <2>7
    <3> QED  BY <3>1
  <2>8. CASE j < i
    <3>1. e.end <= d.start
      BY <2>4, <2>5, <2>8
    <3> QED  BY <3>1
  <2> QED  BY <1>2, <2>6, <2>7, <2>8
<1> QED  BY <1>7, <1>8, <1>9

-----------------------------------------------------------------------------
(***************************************************************************)
(* Conflicts.                                                              *)
(***************************************************************************)
\* A payload lands between two bytes of one taken run.
Splits(D, I) == \E i \in I, d \in D : d.start < i.offset /\ i.offset < d.end

ConflictErrors == {"overlapping_move_deletions", "insertion_inside_move_deletion"}

\* Validation refuses the edits of a file exactly for these two reasons.
LEMMA ConflictsAt ==
  ASSUME NEW r, NEW s, NEW n, IsBatch(r, s, n), NEW path
  PROVE  LET D == Deletions(r, path)
             I == Insertions(r, path)
             v == validate_edit_conflicts(D, I)
         IN  \/ v = Fine /\ ~Overlaps(D) /\ ~Splits(D, I)
             \/ ~v.ok /\ v.error \in ConflictErrors /\ (Overlaps(D) \/ Splits(D, I))
<1> DEFINE D == Deletions(r, path)
           I == Insertions(r, path)
<1>1. AdjacentOverlap(D) <=> Overlaps(D)
  <2> HIDE DEF D
  <2>1. /\ IsFiniteSet(D)
        /\ \A d \in D : /\ d.start \in Nat /\ d.end \in Nat /\ d.operation_index \in Nat
                        /\ d.start < d.end
        /\ \A d, e \in D : d.operation_index = e.operation_index => d = e
    BY DeletionsType DEF D
  <2> QED  BY <2>1, OverlapExact
<1> HIDE DEF D, I
<1>2. validate_edit_conflicts(D, I) =
        IF Overlaps(D) THEN Refused("overlapping_move_deletions")
        ELSE IF Splits(D, I) THEN Refused("insertion_inside_move_deletion")
        ELSE Fine
  BY <1>1 DEF validate_edit_conflicts, Splits
<1> QED  BY <1>2 DEF Refused, ConflictAt, Fine, ConflictErrors, D, I

\* What Ambiguous says of a batch.
AmbiguousBatch(r) ==
  \E d, e \in Range(r) :
    /\ d.kind = "move" /\ d.effect = "changed" /\ e.effect = "changed"
    /\ \/ /\ e.kind = "move" /\ d.operation_index # e.operation_index
          /\ d.source = e.source
          /\ \E b \in d.start .. d.end - 1 : b \in e.start .. e.end - 1
       \/ /\ e.destination = d.source
          /\ {e.offset - 1, e.offset} \subseteq d.start .. d.end - 1

\* A batch is ambiguous exactly when it is at one of its outputs.
LEMMA AmbiguousSomewhere ==
  ASSUME NEW r, NEW s, NEW n, IsBatch(r, s, n)
  PROVE  AmbiguousBatch(r) <=>
           \E path \in OutputPaths(r) :
             \/ Overlaps(Deletions(r, path))
             \/ Splits(Deletions(r, path), Insertions(r, path))
<1>1. \A d \in Range(r) : /\ d.start \in Nat /\ d.end \in Nat /\ d.offset \in Nat
                          /\ d.start < d.end
  <2> SUFFICES ASSUME NEW d \in Range(r)
               PROVE  /\ d.start \in Nat /\ d.end \in Nat /\ d.offset \in Nat
                      /\ d.start < d.end
    OBVIOUS
  <2>1. IsResolved(d, s, d.operation_index)
    BY BatchMembers
  <2> QED  BY <2>1 DEF IsResolved
<1>2. \A d, e \in Range(r) :
        {e.offset - 1, e.offset} \subseteq d.start .. d.end - 1
          <=> d.start < e.offset /\ e.offset < d.end
  <2> SUFFICES ASSUME NEW d \in Range(r), NEW e \in Range(r)
               PROVE  {e.offset - 1, e.offset} \subseteq d.start .. d.end - 1
                        <=> d.start < e.offset /\ e.offset < d.end
    OBVIOUS
  <2>1. d.start \in Nat /\ d.end \in Nat /\ e.offset \in Nat
    BY <1>1
  <2> QED  BY <2>1
<1>3. ASSUME AmbiguousBatch(r)
      PROVE  \E path \in OutputPaths(r) :
               \/ Overlaps(Deletions(r, path))
               \/ Splits(Deletions(r, path), Insertions(r, path))
  <2>1. PICK d \in Range(r), e \in Range(r) :
          /\ d.kind = "move" /\ d.effect = "changed" /\ e.effect = "changed"
          /\ \/ /\ e.kind = "move" /\ d.operation_index # e.operation_index
                /\ d.source = e.source
                /\ \E b \in d.start .. d.end - 1 : b \in e.start .. e.end - 1
             \/ /\ e.destination = d.source
                /\ {e.offset - 1, e.offset} \subseteq d.start .. d.end - 1
    BY <1>3 DEF AmbiguousBatch
  <2>2. d.source \in OutputPaths(r) /\ d \in Deletions(r, d.source)
    BY <2>1 DEF OutputPaths, Deletions
  <2>3. CASE /\ e.kind = "move" /\ d.operation_index # e.operation_index
             /\ d.source = e.source
             /\ \E b \in d.start .. d.end - 1 : b \in e.start .. e.end - 1
    <3>1. e \in Deletions(r, d.source)
      BY <2>1, <2>3 DEF Deletions
    <3>2. Overlaps(Deletions(r, d.source))
      BY <2>2, <2>3, <3>1 DEF Overlaps
    <3> QED  BY <2>2, <3>2
  <2>4. CASE /\ e.destination = d.source
             /\ {e.offset - 1, e.offset} \subseteq d.start .. d.end - 1
    <3>1. e \in Insertions(r, d.source) /\ d.start < e.offset /\ e.offset < d.end
      BY <1>2, <2>1, <2>4 DEF Insertions
    <3>2. Splits(Deletions(r, d.source), Insertions(r, d.source))
      BY <2>2, <3>1 DEF Splits
    <3> QED  BY <2>2, <3>2
  <2> QED  BY <2>1, <2>3, <2>4
<1>4. ASSUME NEW path, Overlaps(Deletions(r, path))
      PROVE  AmbiguousBatch(r)
  <2>1. PICK d \in Deletions(r, path), e \in Deletions(r, path) :
          /\ d.operation_index # e.operation_index
          /\ \E b \in d.start .. d.end - 1 : b \in e.start .. e.end - 1
    BY <1>4 DEF Overlaps
  <2>2. /\ d \in Range(r) /\ d.kind = "move" /\ d.effect = "changed" /\ d.source = path
        /\ e \in Range(r) /\ e.kind = "move" /\ e.effect = "changed" /\ e.source = path
    BY DEF Deletions
  <2> QED  BY <2>1, <2>2 DEF AmbiguousBatch
<1>5. ASSUME NEW path, Splits(Deletions(r, path), Insertions(r, path))
      PROVE  AmbiguousBatch(r)
  <2>1. PICK e \in Insertions(r, path), d \in Deletions(r, path) :
          d.start < e.offset /\ e.offset < d.end
    BY <1>5 DEF Splits
  <2>2. /\ d \in Range(r) /\ d.kind = "move" /\ d.effect = "changed" /\ d.source = path
        /\ e \in Range(r) /\ e.effect = "changed" /\ e.destination = path
    BY DEF Deletions, Insertions
  <2>3. {e.offset - 1, e.offset} \subseteq d.start .. d.end - 1
    BY <1>2, <2>1, <2>2
  <2> QED  BY <2>2, <2>3 DEF AmbiguousBatch
<1> QED  BY <1>3, <1>4, <1>5

\* The outputs of a batch are paths, listed in their order.
LEMMA OutputList ==
  ASSUME NEW r, NEW s, NEW n, IsBatch(r, s, n)
  PROVE  LET paths == InOrder(OutputPaths(r))
             m == Cardinality(OutputPaths(r))
         IN  /\ OutputPaths(r) \subseteq Paths /\ IsFiniteSet(OutputPaths(r))
             /\ m \in Nat /\ DOMAIN paths = 1 .. m
             /\ \A k \in 1 .. m : paths[k] \in OutputPaths(r)
             /\ \A p \in OutputPaths(r) : \E k \in 1 .. m : paths[k] = p
<1>1. OutputPaths(r) \subseteq Paths
  <2>1. \A d \in Range(r) : d.source \in Paths /\ d.destination \in Paths
    <3> SUFFICES ASSUME NEW d \in Range(r)
                 PROVE  d.source \in Paths /\ d.destination \in Paths
      OBVIOUS
    <3>1. IsResolved(d, s, d.operation_index)
      BY BatchMembers
    <3> QED  BY <3>1 DEF IsResolved
  <2> QED  BY <2>1 DEF OutputPaths
<1>2. IsFiniteSet(OutputPaths(r)) /\ OutputPaths(r) \subseteq Nat
  BY <1>1, RequestsAssumption, FS_Subset
<1>3. Lists(InOrder(OutputPaths(r)), Ascending, OutputPaths(r))
  BY <1>2, NumbersInOrder
<1>4. Cardinality(OutputPaths(r)) \in Nat
  BY <1>2, FS_CardinalityType
<1> QED  BY <1>1, <1>2, <1>3, <1>4 DEF Lists

\* The output loop passes when no output is refused, or stops at one.
LEMMA OutputChecks ==
  ASSUME NEW r, NEW s, NEW n, IsBatch(r, s, n)
  PROVE  \/ /\ OutputRefusal(s, r) = Fine
            /\ \A p \in OutputPaths(r) : OutputError(s, r, p).ok
         \/ \E p \in OutputPaths(r) :
              /\ OutputRefusal(s, r) = OutputError(s, r, p)
              /\ ~OutputError(s, r, p).ok
<1> DEFINE paths == InOrder(OutputPaths(r))
           m == Cardinality(OutputPaths(r))
           checks == [k \in DOMAIN paths |-> OutputError(s, r, paths[k])]
<1>1. /\ m \in Nat /\ DOMAIN paths = 1 .. m
      /\ \A k \in 1 .. m : paths[k] \in OutputPaths(r)
      /\ \A p \in OutputPaths(r) : \E k \in 1 .. m : paths[k] = p
  BY OutputList
<1> HIDE DEF paths, m
<1>2. DOMAIN checks = 1 .. m /\ \A k \in 1 .. m : checks[k] = OutputError(s, r, paths[k])
  BY <1>1
<1>3. OutputRefusal(s, r) = FirstRefusal(checks)
  BY DEF OutputRefusal, paths
<1> HIDE DEF checks
<1>4. \/ FirstRefusal(checks) = Fine /\ \A i \in 1 .. m : checks[i].ok
      \/ \E i \in 1 .. m : FirstRefusal(checks) = checks[i] /\ ~checks[i].ok
  BY <1>1, <1>2, RefusalCases
<1>5. CASE FirstRefusal(checks) = Fine /\ \A i \in 1 .. m : checks[i].ok
  BY <1>1, <1>2, <1>3, <1>5
<1>6. CASE \E i \in 1 .. m : FirstRefusal(checks) = checks[i] /\ ~checks[i].ok
  BY <1>1, <1>2, <1>3, <1>6
<1> QED  BY <1>4, <1>5, <1>6

\* The other refusals have other names.
LEMMA EarlierErrors ==
  ASSUME NEW s, NEW b \in Seq(Operations)
  PROVE  /\ LET c == validate_precondition_consistency(b)
            IN  c = Fine \/ (~c.ok /\ c.error \notin ConflictErrors)
         /\ LET u == Unresolved(s, b)
            IN  u = Fine \/ (~u.ok /\ u.error \notin ConflictErrors)
<1> DEFINE Plain(x) == x = Fine \/ (~x.ok /\ x.error \notin ConflictErrors)
<1>1. Len(b) \in Nat /\ DOMAIN b = 1 .. Len(b)
  OBVIOUS
<1>2. \A reason, i : reason \notin ConflictErrors => Plain(ConflictAt(reason, i))
  BY DEF ConflictAt
<1>3. ASSUME NEW checks, DOMAIN checks = 1 .. Len(b),
             \A i \in 1 .. Len(b) : Plain(checks[i])
      PROVE  Plain(FirstRefusal(checks))
  <2> HIDE DEF Plain
  <2>1. Plain(Fine)
    BY DEF Plain
  <2> QED  BY <1>1, <1>3, <2>1, RefusalCases
<1>4. Plain(validate_precondition_consistency(b))
  <2> DEFINE Clash(i) == \E j \in 1 .. i : \E p \in Preconditions(b[j]) :
                           \E q \in Preconditions(b[i]) : p[1] = q[1] /\ p[2] # q[2]
             checks == [i \in DOMAIN b |->
                          IF Clash(i) THEN ConflictAt("incompatible_preconditions", i)
                          ELSE Fine]
  <2>1. validate_precondition_consistency(b) = FirstRefusal(checks)
    BY DEF validate_precondition_consistency
  <2> HIDE DEF Clash
  <2>2. DOMAIN checks = 1 .. Len(b) /\ \A i \in 1 .. Len(b) : Plain(checks[i])
    BY <1>1, <1>2 DEF ConflictErrors
  <2> HIDE DEF checks, Plain
  <2> QED  BY <1>3, <2>1, <2>2
<1>5. Plain(Unresolved(s, b))
  <2> DEFINE checks == [i \in DOMAIN b |-> ResolutionError(s, b[i], i)]
  <2>1. Unresolved(s, b) = FirstRefusal(checks)
    BY DEF Unresolved
  <2>2. \A op, i : Plain(existing_source(s, op, i)) /\ Plain(destination_state(s, op, i))
    <3> HIDE DEF Plain
    <3>1. Plain(Fine)
      BY DEF Plain
    <3> QED  BY <1>2, <3>1 DEF existing_source, destination_state, ConflictErrors
  <2>3. \A op, i : Plain(ResolutionError(s, op, i))
    <3> HIDE DEF Plain
    <3>1. Plain(Fine)
      BY DEF Plain
    <3> QED  BY <1>2, <2>2, <3>1 DEF ResolutionError, ConflictErrors
  <2>4. DOMAIN checks = 1 .. Len(b) /\ \A i \in 1 .. Len(b) : Plain(checks[i])
    <3> HIDE DEF Plain
    <3> QED  BY <1>1, <2>3
  <2> HIDE DEF checks, Plain
  <2> QED  BY <1>3, <2>1, <2>4
<1> QED  BY <1>4, <1>5

\* The batch of an accepted plan, or of one refused in the output loop, was
\* resolved.
LEMMA ResolvedIsBatch ==
  ASSUME NEW s \in Snapshots, NEW b \in Seq(Operations), Unresolved(s, b).ok
  PROVE  IsBatch(ResolvedAll(s, b), s, Len(b))
BY ResolvedMembers DEF IsBatch

\* A plan is refused for a conflict exactly when its operations conflict.
LEMMA ConflictsOfPlan ==
  ASSUME NEW s \in Snapshots, NEW b \in Seq(Operations)
  PROVE  LET r == ResolvedAll(s, b)
         IN  /\ plan(s, b).ok => ~AmbiguousBatch(r)
             /\ ~plan(s, b).ok /\ plan(s, b).error \in ConflictErrors
                  => AmbiguousBatch(r)
<1> DEFINE r == ResolvedAll(s, b)
           v(p) == validate_edit_conflicts(Deletions(r, p), Insertions(r, p))
<1>1. ASSUME NEW p
      PROVE  \/ v(p).ok /\ (OutputError(s, r, p) = Fine
                            \/ OutputError(s, r, p) = Refused("hard_link_not_supported"))
             \/ ~v(p).ok /\ OutputError(s, r, p) = v(p)
  BY DEF OutputError
<1> HIDE DEF r
<1>2. ASSUME plan(s, b).ok
      PROVE  ~AmbiguousBatch(r)
  <2>1. Unresolved(s, b).ok /\ OutputRefusal(s, r).ok
    BY <1>2, AcceptedPlan DEF r
  <2>2. IsBatch(r, s, Len(b))
    BY <2>1, ResolvedIsBatch DEF r
  <2>3. \A p \in OutputPaths(r) : OutputError(s, r, p).ok
    BY <2>1, <2>2, OutputChecks
  <2>4. \A p \in OutputPaths(r) : v(p).ok
    BY <1>1, <2>3
  <2>5. \A p \in OutputPaths(r) :
          ~Overlaps(Deletions(r, p)) /\ ~Splits(Deletions(r, p), Insertions(r, p))
    BY <2>2, <2>4, ConflictsAt
  <2> QED  BY <2>2, <2>5, AmbiguousSomewhere
<1>3. ASSUME ~plan(s, b).ok, plan(s, b).error \in ConflictErrors
      PROVE  AmbiguousBatch(r)
  <2>1. ~Fine.ok = FALSE
    BY DEF Fine
  <2>2. validate_precondition_consistency(b).ok
    <3>1. \/ validate_precondition_consistency(b) = Fine
          \/ /\ ~validate_precondition_consistency(b).ok
             /\ validate_precondition_consistency(b).error \notin ConflictErrors
      BY EarlierErrors
    <3>2. ~validate_precondition_consistency(b).ok
            => plan(s, b) = validate_precondition_consistency(b)
      BY PlanCases
    <3> QED  BY <1>3, <2>1, <3>1, <3>2
  <2>3. Unresolved(s, b).ok
    <3>1. \/ Unresolved(s, b) = Fine
          \/ ~Unresolved(s, b).ok /\ Unresolved(s, b).error \notin ConflictErrors
      BY EarlierErrors
    <3>2. ~Unresolved(s, b).ok => plan(s, b) = Unresolved(s, b)
      BY <2>2, PlanCases
    <3> QED  BY <1>3, <2>1, <3>1, <3>2
  <2>4. IsBatch(r, s, Len(b))
    BY <2>3, ResolvedIsBatch DEF r
  <2>5. UsageRefusal(s, r) = Fine \/ UsageRefusal(s, r).error \notin ConflictErrors
    BY DEF UsageRefusal, enforce_usage, Refused, ConflictAt, ConflictErrors
  <2>6. ~OutputRefusal(s, r).ok /\ plan(s, b) = OutputRefusal(s, r)
    <3>1. plan(s, b) = IF ~OutputRefusal(s, r).ok THEN OutputRefusal(s, r)
                       ELSE IF ~UsageRefusal(s, r).ok THEN UsageRefusal(s, r)
                       ELSE Accepted(s, r)
      BY <2>2, <2>3, PlanCases DEF r
    <3>2. Accepted(s, r).ok
      BY DEF Accepted
    <3> QED  BY <1>3, <2>1, <2>5, <3>1, <3>2
  <2>7. PICK p \in OutputPaths(r) :
          plan(s, b) = OutputError(s, r, p) /\ ~OutputError(s, r, p).ok
    BY <2>1, <2>4, <2>6, OutputChecks
  <2>8. Refused("hard_link_not_supported").error \notin ConflictErrors
    BY DEF Refused, ConflictAt, ConflictErrors
  <2>9. ~v(p).ok
    BY <1>1, <1>3, <2>1, <2>7, <2>8
  <2>10. Overlaps(Deletions(r, p)) \/ Splits(Deletions(r, p), Insertions(r, p))
    BY <2>1, <2>4, <2>9, ConflictsAt
  <2> QED  BY <2>4, <2>7, <2>10, AmbiguousSomewhere
<1> QED  BY <1>2, <1>3 DEF r

\* A batch is refused as a conflict exactly when a byte would be taken twice
\* or a payload would split a taken run, for every batch and every snapshot
\* (validate_edit_conflicts).
THEOREM ConflictsAreExact == Spec => []ConflictExact
<1>1. PlanInv => ConflictExact
  <2> SUFFICES ASSUME PlanInv, planned # Nothing
               PROVE  /\ planned.ok => ~Ambiguous
                      /\ ~planned.ok /\ planned.error \in ConflictErrors => Ambiguous
    BY DEF ConflictExact, ConflictErrors
  <2>1. /\ snapshot \in Snapshots /\ batch \in Seq(Operations)
        /\ planned = plan(snapshot, batch)
    BY DEF PlanInv
  <2>2. ResolvedBatch = ResolvedAll(snapshot, batch)
    BY DEF ResolvedBatch, ResolvedAll
  <2>3. Ambiguous <=> AmbiguousBatch(ResolvedAll(snapshot, batch))
    BY <2>2 DEF Ambiguous, AmbiguousBatch
  <2> QED  BY <2>1, <2>3, ConflictsOfPlan
<1> QED  BY <1>1, PlanIsOfBatch, PTL

-----------------------------------------------------------------------------
(***************************************************************************)
(* Concatenation.                                                          *)
(***************************************************************************)
\* The first n members of F are sequences over S.
Sequences(F, n, S) == \A k \in 1 .. n : F[k] \in Seq(S)

\* The first n members of F, one after the other.
Flat(F, n) == FlattenSeq([k \in 1 .. n |-> F[k]])

\* f[n] are the first n members of F, one after the other.
Flattens(f, F, n) ==
  f[0] = << >> /\ \A k \in 1 .. n : f[k] = f[k - 1] \o F[k]

\* The fold of FlattenSeq is a run of concatenations.
LEMMA FlattenRuns ==
  ASSUME NEW S, NEW n \in Nat, NEW F, Sequences(F, n, S)
  PROVE  \E f \in [0 .. n -> Seq(S)] : Flattens(f, F, n) /\ Flat(F, n) = f[n]
<1> DEFINE T == Seq(S)
           ss == [k \in 1 .. n |-> F[k]]
           next == [a \in T \X (1 .. n) |-> a[1] \o F[a[2]]]
           Eq(g) == g = [i \in 1 .. Len(ss) |-> IF i = 1 THEN ss[i] ELSE g[i - 1] \o ss[i]]
           g0 == CHOOSE g : Eq(g)
<1>1. next \in [T \X (1 .. n) -> T]
  <2>1. \A a \in T \X (1 .. n) : a[1] \in T /\ a[2] \in 1 .. n /\ F[a[2]] \in T
    BY DEF Sequences
  <2>2. \A a \in T \X (1 .. n) : a[1] \o F[a[2]] \in T
    BY <2>1
  <2> QED  BY <2>2
<1>2. << >> \in T
  OBVIOUS
<1>3. PICK f \in [0 .. n -> T] : IsRun(f, << >>, next, n)
  <2> HIDE DEF T, next
  <2> QED  BY <1>1, <1>2, RunExists
<1>4. Flattens(f, F, n)
  <2>1. f[0] = << >>
    BY <1>3 DEF IsRun
  <2>2. ASSUME NEW k \in 1 .. n
        PROVE  f[k] = f[k - 1] \o F[k]
    <3>1. k - 1 \in 0 .. n
      OBVIOUS
    <3>2. f[k - 1] \in T
      BY <1>3, <3>1
    <3>3. <<f[k - 1], k>> \in T \X (1 .. n)
      BY <3>2
    <3>4. next[<<f[k - 1], k>>] = f[k - 1] \o F[k]
      BY <3>3
    <3>5. f[k] = next[<<f[k - 1], k>>]
      BY <1>3 DEF IsRun
    <3> QED  BY <3>4, <3>5
  <2> QED  BY <2>1, <2>2 DEF Flattens
<1>5. Len(ss) = n /\ DOMAIN ss = 1 .. n
  OBVIOUS
<1>6. CASE n = 0
  <2>1. ss = << >>
    BY <1>6
  <2>2. FlattenSeq(ss) = << >>
    BY <1>5, <1>6, <2>1 DEF FlattenSeq
  <2>3. f[n] = << >>
    BY <1>4, <1>6 DEF Flattens
  <2>4. Flat(F, n) = f[n]
    BY <2>2, <2>3 DEF Flat
  <2> QED  BY <1>3, <1>4, <2>4
<1>7. CASE n # 0
  <2>1. FlattenSeq(ss) = g0[Len(ss)]
    BY <1>5, <1>7 DEF FlattenSeq
  <2> DEFINE h == [i \in 1 .. n |-> f[i]]
  <2>2. ASSUME NEW i \in 1 .. n
        PROVE  h[i] = IF i = 1 THEN ss[i] ELSE h[i - 1] \o ss[i]
    <3>1. f[i] = f[i - 1] \o F[i] /\ ss[i] = F[i] /\ h[i] = f[i]
      BY <1>4 DEF Flattens
    <3>2. CASE i = 1
      <4>1. f[i - 1] = << >>
        BY <1>4, <3>2 DEF Flattens
      <4>2. << >> \o F[i] = F[i]
        OBVIOUS
      <4> QED  BY <3>1, <3>2, <4>1, <4>2
    <3>3. CASE i # 1
      <4>1. i - 1 \in 1 .. n
        BY <3>3
      <4> QED  BY <3>1, <3>3, <4>1
    <3> QED  BY <3>2, <3>3
  <2>3. Eq(h)
    <3> HIDE DEF ss
    <3> QED  BY <1>5, <2>2
  <2>4. Eq(g0)
    <3> HIDE DEF Eq
    <3> QED  BY <2>3
  <2> HIDE DEF g0
  <2> DEFINE P == {m \in Nat : m + 1 <= n => g0[m + 1] = f[m + 1]}
  <2>5. \A i \in 1 .. n : g0[i] = IF i = 1 THEN ss[i] ELSE g0[i - 1] \o ss[i]
    <3> HIDE DEF ss
    <3> QED  BY <1>5, <2>4
  <2>6. \A i \in 1 .. n : f[i] = IF i = 1 THEN ss[i] ELSE f[i - 1] \o ss[i]
    <3> SUFFICES ASSUME NEW i \in 1 .. n
                 PROVE  f[i] = IF i = 1 THEN ss[i] ELSE f[i - 1] \o ss[i]
      OBVIOUS
    <3>1. h[i] = f[i] /\ (i # 1 => i - 1 \in 1 .. n)
      OBVIOUS
    <3>2. i # 1 => h[i - 1] = f[i - 1]
      BY <3>1
    <3> HIDE DEF h, ss
    <3> QED  BY <2>2, <3>1, <3>2
  <2>7. 0 \in P
    <3>1. 1 \in 1 .. n
      BY <1>7
    <3> HIDE DEF ss
    <3> QED  BY <2>5, <2>6, <3>1
  <2>8. ASSUME NEW m \in Nat, m \in P
        PROVE  m + 1 \in P
    <3> SUFFICES ASSUME (m + 1) + 1 <= n
                 PROVE  g0[(m + 1) + 1] = f[(m + 1) + 1]
      OBVIOUS
    <3> DEFINE i == (m + 1) + 1
    <3>1. i \in 1 .. n /\ i # 1 /\ i - 1 = m + 1 /\ m + 1 <= n
      OBVIOUS
    <3>2. g0[m + 1] = f[m + 1]
      BY <2>8, <3>1
    <3> HIDE DEF i, ss, P
    <3>3. g0[i - 1] = f[i - 1]
      BY <3>1, <3>2
    <3>4. g0[i] = g0[i - 1] \o ss[i]
      BY <2>5, <3>1
    <3>5. f[i] = f[i - 1] \o ss[i]
      BY <2>6, <3>1
    <3>6. g0[i] = f[i]
      BY <3>3, <3>4, <3>5
    <3> QED  BY <3>6 DEF i
  <2>9. \A m \in Nat : m \in P
    <3> HIDE DEF P
    <3> QED  BY <2>7, <2>8, SetInduction
  <2>10. (n - 1) + 1 = n /\ n - 1 \in Nat
    BY <1>7
  <2>11. g0[n] = f[n]
    <3> HIDE DEF ss
    <3>1. n - 1 \in P
      <4> HIDE DEF P
      <4> QED  BY <2>9, <2>10
    <3>2. (n - 1) + 1 <= n => g0[(n - 1) + 1] = f[(n - 1) + 1]
      BY <3>1
    <3> QED  BY <2>10, <3>2
  <2>12. Flat(F, n) = f[n]
    BY <1>5, <2>1, <2>11 DEF Flat
  <2> QED  BY <1>3, <1>4, <2>12
<1> QED  BY <1>6, <1>7

\* One more member.
LEMMA FlattenNext ==
  ASSUME NEW S, NEW n \in Nat, NEW F, Sequences(F, n + 1, S)
  PROVE  Flat(F, n) \in Seq(S) /\ Flat(F, n + 1) = Flat(F, n) \o F[n + 1]
<1>0. Sequences(F, n, S) /\ n + 1 \in Nat
  BY DEF Sequences
<1>1. PICK f \in [0 .. n -> Seq(S)] : Flattens(f, F, n) /\ Flat(F, n) = f[n]
  BY <1>0, FlattenRuns
<1>2. PICK g \in [0 .. n + 1 -> Seq(S)] :
        Flattens(g, F, n + 1) /\ Flat(F, n + 1) = g[n + 1]
  BY <1>0, FlattenRuns
<1> DEFINE P == {m \in Nat : m <= n => f[m] = g[m]}
<1>3. 0 \in P
  BY <1>1, <1>2 DEF Flattens
<1>4. ASSUME NEW m \in Nat, m \in P
      PROVE  m + 1 \in P
  <2> SUFFICES ASSUME m + 1 <= n
               PROVE  f[m + 1] = g[m + 1]
    OBVIOUS
  <2>1. m + 1 \in 1 .. n /\ m + 1 \in 1 .. n + 1 /\ (m + 1) - 1 = m /\ f[m] = g[m]
    BY <1>4
  <2> QED  BY <1>1, <1>2, <2>1 DEF Flattens
<1>5. n \in P
  <2> HIDE DEF P
  <2> QED  BY <1>3, <1>4, SetInduction
<1>6. f[n] = g[n]
  BY <1>5
<1>7. n + 1 \in 1 .. n + 1 /\ (n + 1) - 1 = n
  OBVIOUS
<1>8. g[n + 1] = g[n] \o F[n + 1]
  BY <1>2, <1>7 DEF Flattens
<1>9. f[n] \in Seq(S)
  BY <1>1
<1> QED  BY <1>1, <1>2, <1>6, <1>8, <1>9

\* Nothing concatenated.
LEMMA FlattenNone ==
  ASSUME NEW F
  PROVE  Flat(F, 0) = << >>
<1>1. [k \in 1 .. 0 |-> F[k]] = << >> /\ Len(<< >>) = 0
  OBVIOUS
<1> QED  BY <1>1 DEF Flat, FlattenSeq

\* Sequences over S concatenate to a sequence over S.
LEMMA FlattenType ==
  ASSUME NEW S, NEW n \in Nat, NEW F, Sequences(F, n, S)
  PROVE  Flat(F, n) \in Seq(S)
<1>1. PICK f \in [0 .. n -> Seq(S)] : Flattens(f, F, n) /\ Flat(F, n) = f[n]
  BY FlattenRuns
<1> QED  BY <1>1

\* Sequences that agree have the same members.
LEMMA FlattenSame ==
  ASSUME NEW n \in Nat, NEW F, NEW G, \A k \in 1 .. n : F[k] = G[k]
  PROVE  Flat(F, n) = Flat(G, n)
<1>1. [k \in 1 .. n |-> F[k]] = [k \in 1 .. n |-> G[k]]
  OBVIOUS
<1> QED  BY <1>1 DEF Flat

\* A sequence of sequences.
LEMMA FlattenOf ==
  ASSUME NEW n \in Nat, NEW ss, ss = [k \in 1 .. n |-> ss[k]]
  PROVE  FlattenSeq(ss) = Flat(ss, n)
BY DEF Flat

\* Members that are all empty.
LEMMA FlattenEmpty ==
  ASSUME NEW n \in Nat, NEW F, \A k \in 1 .. n : F[k] = << >>
  PROVE  Flat(F, n) = << >>
<1>1. Sequences(F, n, {0})
  <2>1. << >> \in Seq({0})
    OBVIOUS
  <2> QED  BY <2>1 DEF Sequences
<1>2. PICK f \in [0 .. n -> Seq({0})] : Flattens(f, F, n) /\ Flat(F, n) = f[n]
  BY <1>1, FlattenRuns
<1> DEFINE P == {m \in Nat : m <= n => f[m] = << >>}
<1>3. 0 \in P
  BY <1>2 DEF Flattens
<1>4. ASSUME NEW m \in Nat, m \in P
      PROVE  m + 1 \in P
  <2> SUFFICES ASSUME m + 1 <= n
               PROVE  f[m + 1] = << >>
    OBVIOUS
  <2>1. m + 1 \in 1 .. n /\ (m + 1) - 1 = m /\ f[m] = << >>
    BY <1>4
  <2>2. f[m + 1] = f[m] \o F[m + 1] /\ F[m + 1] = << >>
    BY <1>2, <2>1 DEF Flattens
  <2>3. << >> \o << >> = << >>
    OBVIOUS
  <2> QED  BY <2>1, <2>2, <2>3
<1>5. n \in P
  <2> HIDE DEF P
  <2> QED  BY <1>3, <1>4, SetInduction
<1> QED  BY <1>2, <1>5

\* The members of one sequence and then those of another.
Joins(F, m, G, n, H, p, S) ==
  /\ m \in Nat /\ n \in Nat /\ p = m + n
  /\ Sequences(F, m, S) /\ Sequences(G, n, S)
  /\ \A k \in 1 .. m : H[k] = F[k]
  /\ \A k \in 1 .. n : H[m + k] = G[k]

\* One list of pieces after another, concatenated.
LEMMA FlattenBoth ==
  ASSUME NEW F, NEW m, NEW G, NEW n, NEW H, NEW p, NEW S,
         Joins(F, m, G, n, H, p, S)
  PROVE  Flat(H, p) = Flat(F, m) \o Flat(G, n)
<1>0. /\ m \in Nat /\ n \in Nat /\ p = m + n
      /\ Sequences(F, m, S) /\ Sequences(G, n, S)
      /\ \A k \in 1 .. m : H[k] = F[k]
      /\ \A k \in 1 .. n : H[m + k] = G[k]
  BY DEF Joins
<1> DEFINE P == {i \in Nat : i <= n => Flat(H, m + i) = Flat(F, m) \o Flat(G, i)}
<1>1. Flat(F, m) \in Seq(S)
  BY <1>0, FlattenType
<1>2. Flat(F, m) = Flat(H, m)
  <2>1. \A k \in 1 .. m : F[k] = H[k]
    BY <1>0
  <2> QED  BY <1>0, <2>1, FlattenSame
<1>3. 0 \in P
  <2>1. Flat(G, 0) = << >>
    BY FlattenNone
  <2>2. Flat(F, m) \o << >> = Flat(F, m)
    BY <1>1
  <2>3. m + 0 = m
    BY <1>0
  <2> QED  BY <1>2, <2>1, <2>2, <2>3
<1>4. ASSUME NEW i \in Nat, i \in P
      PROVE  i + 1 \in P
  <2> SUFFICES ASSUME i + 1 <= n
               PROVE  Flat(H, m + (i + 1)) = Flat(F, m) \o Flat(G, i + 1)
    OBVIOUS
  <2>1. Sequences(G, i + 1, S)
    BY <1>0 DEF Sequences
  <2>2. Flat(G, i) \in Seq(S) /\ Flat(G, i + 1) = Flat(G, i) \o G[i + 1]
    BY <2>1, FlattenNext
  <2>3. Sequences(H, (m + i) + 1, S)
    <3> SUFFICES ASSUME NEW k \in 1 .. (m + i) + 1
                 PROVE  H[k] \in Seq(S)
      BY DEF Sequences
    <3>1. CASE k <= m
      <4>1. k \in 1 .. m
        BY <3>1, <1>0
      <4> QED  BY <4>1, <1>0 DEF Sequences
    <3>2. CASE ~(k <= m)
      <4>1. k - m \in 1 .. n /\ m + (k - m) = k
        BY <3>2, <1>0
      <4> QED  BY <4>1, <1>0 DEF Sequences
    <3> QED  BY <3>1, <3>2
  <2>4. m + i \in Nat
    BY <1>0
  <2>5. Flat(H, (m + i) + 1) = Flat(H, m + i) \o H[(m + i) + 1]
    BY <2>3, <2>4, FlattenNext
  <2>6. (m + i) + 1 = m + (i + 1) /\ i + 1 \in 1 .. n
    BY <1>0
  <2>7. H[(m + i) + 1] = G[i + 1] /\ G[i + 1] \in Seq(S)
    BY <2>6, <1>0 DEF Sequences
  <2>8. Flat(H, m + i) = Flat(F, m) \o Flat(G, i)
    BY <1>0, <1>4
  <2>9. (Flat(F, m) \o Flat(G, i)) \o G[i + 1] = Flat(F, m) \o (Flat(G, i) \o G[i + 1])
    <3>1. \A x, y, z \in Seq(S) : (x \o y) \o z = x \o (y \o z)
      BY ConcatAssociative
    <3> HIDE DEF P
    <3> QED  BY <1>1, <2>2, <2>7, <3>1
  <2> QED  BY <2>2, <2>5, <2>6, <2>7, <2>8, <2>9
<1>5. \A i \in Nat : i \in P
  <2> HIDE DEF P
  <2> QED  BY <1>3, <1>4, SetInduction
<1>6. Flat(H, m + n) = Flat(F, m) \o Flat(G, n)
  BY <1>0, <1>5
<1> QED  BY <1>0, <1>6

-----------------------------------------------------------------------------
(***************************************************************************)
(* Slices.                                                                 *)
(***************************************************************************)
\* The bytes of a slice.
LEMMA SliceType ==
  ASSUME NEW b \in ByteStrings, NEW from \in Nat, NEW to \in 0 .. Len(b)
  PROVE  /\ Slice(b, from, to) \in ByteStrings
         /\ from <= to => Len(Slice(b, from, to)) = to - from
         /\ from <= to => \A k \in 1 .. to - from : Slice(b, from, to)[k] = b[from + k]
         /\ from >= to => Slice(b, from, to) = << >>
<1> DEFINE m == from + 1
           w == SubSeq(b, m, to)
<1>0. Len(b) \in Nat /\ \A i \in 1 .. Len(b) : b[i] \in 0 .. 255
  <2>1. Len(b) \in Nat /\ DOMAIN b = 1 .. Len(b)
    BY DEF ByteStrings
  <2>2. \A i \in 1 .. Len(b) : b[i] \in 0 .. 255
    BY ElementOfSeq DEF ByteStrings
  <2> QED  BY <2>1, <2>2
<1>1. m \in Int /\ to \in Int /\ \A i \in m .. to : b[i] \in 0 .. 255
  <2>1. m .. to \subseteq 1 .. Len(b)
    BY <1>0
  <2>2. m \in Int /\ to \in Int
    BY <1>0
  <2> HIDE DEF m
  <2> QED  BY <1>0, <2>1, <2>2
<1>2. /\ w \in Seq(0 .. 255)
      /\ Len(w) = IF m <= to THEN to - m + 1 ELSE 0
      /\ \A i \in 1 .. to - m + 1 : w[i] = b[m + i - 1]
  <2> HIDE DEF m
  <2> QED  BY <1>1, SubSeqProperties
<1>3. Len(w) = IF from < to THEN to - from ELSE 0
  <2> HIDE DEF w
  <2> QED  BY <1>2
<1>4. \A k \in 1 .. to - from : w[k] = b[from + k]
  <2> SUFFICES ASSUME NEW k \in 1 .. to - from
               PROVE  w[k] = b[from + k]
    OBVIOUS
  <2>1. k \in 1 .. to - m + 1 /\ m + k - 1 = from + k
    OBVIOUS
  <2> HIDE DEF w, m
  <2> QED  BY <1>2, <2>1
<1>5. from >= to => w = << >>
  <2> HIDE DEF w
  <2> QED  BY <1>2, <1>3, EmptySeq
<1>6. Slice(b, from, to) = w
  BY DEF Slice
<1> HIDE DEF w
<1> QED  BY <1>2, <1>3, <1>4, <1>5, <1>6 DEF ByteStrings

\* Neighbouring slices.
LEMMA SliceJoin ==
  ASSUME NEW b \in ByteStrings, NEW x \in Nat, NEW y \in Nat, NEW z \in 0 .. Len(b),
         x <= y, y <= z
  PROVE  Slice(b, x, y) \o Slice(b, y, z) = Slice(b, x, z)
<1> DEFINE p == Slice(b, x, y)
           q == Slice(b, y, z)
           w == Slice(b, x, z)
<1>0. y \in 0 .. Len(b) /\ x <= z
  BY DEF ByteStrings
<1>1. /\ p \in ByteStrings /\ Len(p) = y - x
      /\ \A k \in 1 .. y - x : p[k] = b[x + k]
  BY <1>0, SliceType
<1>2. /\ q \in ByteStrings /\ Len(q) = z - y
      /\ \A k \in 1 .. z - y : q[k] = b[y + k]
  BY SliceType
<1>3. /\ w \in ByteStrings /\ Len(w) = z - x
      /\ \A k \in 1 .. z - x : w[k] = b[x + k]
  BY <1>0, SliceType
<1> HIDE DEF p, q, w
<1>4. p \o q \in ByteStrings /\ Len(p \o q) = z - x
  <2>1. Len(p \o q) = Len(p) + Len(q) /\ p \o q \in ByteStrings
    BY <1>1, <1>2, ConcatProperties DEF ByteStrings
  <2>2. (y - x) + (z - y) = z - x
    BY <1>0 DEF ByteStrings
  <2> QED  BY <1>1, <1>2, <2>1, <2>2
<1>5. ASSUME NEW k \in 1 .. z - x
      PROVE  (p \o q)[k] = w[k]
  <2>1. CASE k <= y - x
    <3>1. (p \o q)[k] = p[k] /\ k \in 1 .. y - x
      BY <2>1, <1>1, <1>2 DEF ByteStrings
    <3> QED  BY <3>1, <1>1, <1>3
  <2>2. CASE ~(k <= y - x)
    <3>1. (p \o q)[k] = q[k - (y - x)] /\ k - (y - x) \in 1 .. z - y
      BY <2>2, <1>1, <1>2 DEF ByteStrings
    <3>2. y + (k - (y - x)) = x + k
      OBVIOUS
    <3> QED  BY <3>1, <3>2, <1>2, <1>3
  <2> QED  BY <2>1, <2>2
<1>6. p \o q = w
  BY <1>3, <1>4, <1>5 DEF ByteStrings
<1> QED  BY <1>6 DEF p, q, w

\* A slice of one byte.
LEMMA SliceOne ==
  ASSUME NEW b \in ByteStrings, NEW g \in Nat, g + 1 <= Len(b)
  PROVE  Slice(b, g, g + 1) = << b[g + 1] >>
<1>1. /\ Slice(b, g, g + 1) \in ByteStrings /\ Len(Slice(b, g, g + 1)) = (g + 1) - g
      /\ \A k \in 1 .. (g + 1) - g : Slice(b, g, g + 1)[k] = b[g + k]
  <2>1. g + 1 \in 0 .. Len(b) /\ g <= g + 1
    BY DEF ByteStrings
  <2> QED  BY <2>1, SliceType
<1> DEFINE w == Slice(b, g, g + 1)
<1>2. w \in ByteStrings /\ Len(w) = 1 /\ w[1] = b[g + 1]
  BY <1>1
<1> HIDE DEF w
<1>3. w = << w[1] >>
  BY <1>2 DEF ByteStrings
<1> QED  BY <1>2, <1>3 DEF w

\* The slice of everything.
LEMMA SliceAll ==
  ASSUME NEW b \in ByteStrings
  PROVE  Slice(b, 0, Len(b)) = b
<1>1. /\ Slice(b, 0, Len(b)) \in ByteStrings /\ Len(Slice(b, 0, Len(b))) = Len(b) - 0
      /\ \A k \in 1 .. Len(b) - 0 : Slice(b, 0, Len(b))[k] = b[0 + k]
  <2>1. Len(b) \in 0 .. Len(b) /\ 0 <= Len(b)
    BY DEF ByteStrings
  <2> QED  BY <2>1, SliceType
<1> DEFINE w == Slice(b, 0, Len(b))
<1>2. w \in ByteStrings /\ Len(w) = Len(b) /\ \A k \in 1 .. Len(b) : w[k] = b[k]
  BY <1>1 DEF ByteStrings
<1> HIDE DEF w
<1>3. w = b
  BY <1>2 DEF ByteStrings
<1> QED  BY <1>3 DEF w

-----------------------------------------------------------------------------
(***************************************************************************)
(* What segments write.                                                    *)
(***************************************************************************)
OriginalSegment ==
  [slice : {"original"}, file : Paths, start : Nat, end : Nat]
PayloadSegment ==
  [slice : {"payload"}, operation : Nat, file : Paths, start : Nat, end : Nat,
   payload : ByteStrings]

\* Segments of the files of s.
Segments(s) ==
  {g \in OriginalSegment \cup PayloadSegment :
     g.start <= g.end /\ g.end <= Len(s[g.file].bytes)}

Writes(s, segs) ==
  Flat([k \in 1 .. Len(segs) |-> SegmentBytes(s, segs[k])], Len(segs))

\* The bytes of a file.
LEMMA FileBytes ==
  ASSUME NEW s \in Snapshots, NEW path \in Paths
  PROVE  s[path] \in FileEntry /\ s[path].bytes \in ByteStrings /\ Len(s[path].bytes) \in Nat
<1>1. s[path] \in FileEntry
  BY RequestsAssumption
<1>2. s[path].bytes \in ByteStrings
  BY <1>1 DEF FileEntry, ByteStrings
<1> QED  BY <1>1, <1>2 DEF ByteStrings

\* A segment stands for bytes.
LEMMA SegmentType ==
  ASSUME NEW s \in Snapshots, NEW g \in Segments(s)
  PROVE  SegmentBytes(s, g) \in ByteStrings
<1>1. g.file \in Paths /\ g.start \in Nat /\ g.end \in Nat
  BY DEF Segments, OriginalSegment, PayloadSegment
<1>2. s[g.file].bytes \in ByteStrings /\ Len(s[g.file].bytes) \in Nat
  BY <1>1, FileBytes
<1>3. g.end \in 0 .. Len(s[g.file].bytes)
  BY <1>1, <1>2 DEF Segments
<1>4. Slice(s[g.file].bytes, g.start, g.end) \in ByteStrings
  BY <1>1, <1>2, <1>3, SliceType
<1> QED  BY <1>4 DEF SegmentBytes

\* The bytes of the segments, one by one.
LEMMA WritesEach ==
  ASSUME NEW s \in Snapshots, NEW segs \in Seq(Segments(s))
  PROVE  /\ Len(segs) \in Nat
         /\ Sequences([k \in 1 .. Len(segs) |-> SegmentBytes(s, segs[k])],
                      Len(segs), 0 .. 255)
<1>1. \A k \in 1 .. Len(segs) : segs[k] \in Segments(s)
  BY ElementOfSeq
<1>2. \A k \in 1 .. Len(segs) : SegmentBytes(s, segs[k]) \in ByteStrings
  BY <1>1, SegmentType
<1> QED  BY <1>2 DEF Sequences, ByteStrings

\* Segments write bytes.
LEMMA WritesType ==
  ASSUME NEW s \in Snapshots, NEW segs \in Seq(Segments(s))
  PROVE  Writes(s, segs) \in ByteStrings
<1>1. Writes(s, segs) \in Seq(0 .. 255)
  BY WritesEach, FlattenType DEF Writes
<1> QED  BY <1>1 DEF ByteStrings

\* No segment writes nothing.
LEMMA WritesNone ==
  ASSUME NEW s
  PROVE  Writes(s, << >>) = << >>
<1>1. Len(<< >>) = 0
  OBVIOUS
<1> QED  BY <1>1, FlattenNone DEF Writes

\* Segments behind others.
LEMMA WritesBoth ==
  ASSUME NEW s \in Snapshots, NEW x \in Seq(Segments(s)), NEW y \in Seq(Segments(s))
  PROVE  x \o y \in Seq(Segments(s)) /\ Writes(s, x \o y) = Writes(s, x) \o Writes(s, y)
<1> DEFINE z == x \o y
           F == [k \in 1 .. Len(x) |-> SegmentBytes(s, x[k])]
           G == [k \in 1 .. Len(y) |-> SegmentBytes(s, y[k])]
           H == [k \in 1 .. Len(z) |-> SegmentBytes(s, z[k])]
<1>1. /\ z \in Seq(Segments(s)) /\ Len(z) = Len(x) + Len(y)
      /\ \A i \in 1 .. Len(x) + Len(y) :
           z[i] = IF i <= Len(x) THEN x[i] ELSE y[i - Len(x)]
  BY ConcatProperties
<1> HIDE DEF z
<1>2. /\ Len(x) \in Nat /\ Sequences(F, Len(x), 0 .. 255)
      /\ Len(y) \in Nat /\ Sequences(G, Len(y), 0 .. 255)
  BY WritesEach
<1>3. ASSUME NEW k \in 1 .. Len(x)
      PROVE  H[k] = F[k]
  <2>1. k \in 1 .. Len(z) /\ k \in 1 .. Len(x) + Len(y) /\ k <= Len(x)
    BY <1>1, <1>2
  <2>2. z[k] = x[k]
    BY <1>1, <2>1
  <2> QED  BY <2>1, <2>2
<1>4. ASSUME NEW k \in 1 .. Len(y)
      PROVE  H[Len(x) + k] = G[k]
  <2>1. /\ Len(x) + k \in 1 .. Len(z) /\ Len(x) + k \in 1 .. Len(x) + Len(y)
        /\ ~(Len(x) + k <= Len(x)) /\ (Len(x) + k) - Len(x) = k
    BY <1>1, <1>2
  <2>2. z[Len(x) + k] = y[k]
    BY <1>1, <2>1
  <2> QED  BY <2>1, <2>2
<1>5. Flat(H, Len(x) + Len(y)) = Flat(F, Len(x)) \o Flat(G, Len(y))
  <2>1. Joins(F, Len(x), G, Len(y), H, Len(x) + Len(y), 0 .. 255)
    <3> HIDE DEF F, G, H
    <3> QED  BY <1>2, <1>3, <1>4 DEF Joins
  <2> HIDE DEF F, G, H
  <2> QED  BY <2>1, FlattenBoth
<1>6. Writes(s, z) = Flat(H, Len(x) + Len(y))
  BY <1>1 DEF Writes
<1>7. Writes(s, x) = Flat(F, Len(x)) /\ Writes(s, y) = Flat(G, Len(y))
  BY DEF Writes
<1> HIDE DEF F, G, H
<1>8. Writes(s, z) = Writes(s, x) \o Writes(s, y)
  BY <1>5, <1>6, <1>7
<1> QED  BY <1>1, <1>8 DEF z

\* One segment.
LEMMA WritesOne ==
  ASSUME NEW s \in Snapshots, NEW g \in Segments(s)
  PROVE  << g >> \in Seq(Segments(s)) /\ Writes(s, << g >>) = SegmentBytes(s, g)
<1> DEFINE one == << g >>
           F == [k \in 1 .. Len(one) |-> SegmentBytes(s, one[k])]
<1>1. one \in Seq(Segments(s)) /\ Len(one) = 1 /\ one[1] = g
  OBVIOUS
<1> HIDE DEF one
<1>2. Sequences(F, 0 + 1, 0 .. 255)
  <2>1. Sequences(F, Len(one), 0 .. 255)
    BY <1>1, WritesEach
  <2>2. 0 + 1 = 1
    OBVIOUS
  <2> HIDE DEF F
  <2> QED  BY <1>1, <2>1, <2>2
<1>3. Flat(F, 0 + 1) = Flat(F, 0) \o F[0 + 1]
  <2> HIDE DEF F
  <2> QED  BY <1>2, FlattenNext
<1>4. Flat(F, 0) = << >>
  <2> HIDE DEF F
  <2> QED  BY FlattenNone
<1>5. F[1] = SegmentBytes(s, g)
  BY <1>1
<1>6. SegmentBytes(s, g) \in ByteStrings
  BY SegmentType
<1>7. Writes(s, one) = Flat(F, 1)
  BY <1>1 DEF Writes
<1> HIDE DEF F
<1>8. << >> \o SegmentBytes(s, g) = SegmentBytes(s, g)
  BY <1>6, ConcatEmptySeq DEF ByteStrings
<1>9. 0 + 1 = 1
  OBVIOUS
<1>10. Writes(s, one) = SegmentBytes(s, g)
  BY <1>3, <1>4, <1>5, <1>7, <1>8, <1>9
<1> QED  BY <1>1, <1>10 DEF one

-----------------------------------------------------------------------------
(***************************************************************************)
(* The payloads inserted at one offset.                                    *)
(***************************************************************************)
\* The insertions of a file, with what the sweep relies on.
LEMMA InsertionsType ==
  ASSUME NEW r, NEW s, NEW n, IsBatch(r, s, n), NEW path
  PROVE  \A d \in Insertions(r, path) :
           /\ d.operation_index \in 1 .. n /\ d = r[d.operation_index]
           /\ IsResolved(d, s, d.operation_index) /\ d.destination = path
           /\ d.effect = "changed"
<1> SUFFICES ASSUME NEW d \in Insertions(r, path)
             PROVE  /\ d.operation_index \in 1 .. n /\ d = r[d.operation_index]
                    /\ IsResolved(d, s, d.operation_index) /\ d.destination = path
                    /\ d.effect = "changed"
  OBVIOUS
<1>1. d \in Range(r) /\ d.destination = path /\ d.effect = "changed"
  BY DEF Insertions
<1>2. d.operation_index \in 1 .. n /\ d = r[d.operation_index]
      /\ IsResolved(d, s, d.operation_index)
  BY <1>1, BatchMembers
<1> QED  BY <1>1, <1>2

\* The payload of a resolved operation is a segment of its source.
LEMMA PayloadIsSegment ==
  ASSUME NEW s \in Snapshots, NEW d, NEW i \in Nat, IsResolved(d, s, i)
  PROVE  /\ PayloadSlice(d) \in Segments(s)
         /\ SegmentBytes(s, PayloadSlice(d)) = d.selected
         /\ d.selected \in ByteStrings
<1>1. /\ d.operation_index \in Nat /\ d.source \in Paths
      /\ d.start \in Nat /\ d.end \in Nat
      /\ d.start <= d.end /\ d.end <= Len(s[d.source].bytes)
      /\ d.selected = Slice(s[d.source].bytes, d.start, d.end)
  BY DEF IsResolved
<1>2. s[d.source].bytes \in ByteStrings /\ Len(s[d.source].bytes) \in Nat
  BY <1>1, FileBytes
<1>3. d.end \in 0 .. Len(s[d.source].bytes)
  BY <1>1, <1>2
<1>4. d.selected \in ByteStrings
  BY <1>1, <1>2, <1>3, SliceType
<1>5. PayloadSlice(d) \in PayloadSegment
  BY <1>1, <1>4 DEF PayloadSlice, PayloadSegment
<1>6. /\ PayloadSlice(d).file = d.source /\ PayloadSlice(d).end = d.end
      /\ PayloadSlice(d).start = d.start
  BY DEF PayloadSlice
<1>7. PayloadSlice(d) \in Segments(s)
  BY <1>1, <1>5, <1>6 DEF Segments
<1>8. SegmentBytes(s, PayloadSlice(d)) = d.selected
  BY <1>1, <1>6 DEF SegmentBytes
<1> QED  BY <1>4, <1>7, <1>8

Here(r, path, o) == {op \in Insertions(r, path) : op.offset = o}

\* What the i-th operation inserts at an offset.
InsertedBy(r, path, o) ==
  [i \in DOMAIN r |-> IF r[i] \in Here(r, path, o) THEN r[i].selected ELSE << >>]

IndexOrder(S) == {p \in S \X S : p[1].operation_index < p[2].operation_index}

\* The operations that insert at an offset, in the order of their indices.
HereList(r, path, o) ==
  [k \in 1 .. Cardinality(Here(r, path, o)) |->
     CHOOSE op \in Here(r, path, o) :
       Cardinality({e \in Here(r, path, o) : e.operation_index < op.operation_index})
         = k - 1]

\* The insertions at one offset, each listed once.
LEMMA HereListed ==
  ASSUME NEW r, NEW s, NEW n, IsBatch(r, s, n), NEW path, NEW o
  PROVE  /\ IsFiniteSet(Here(r, path, o))
         /\ Lists(HereList(r, path, o), IndexOrder(Here(r, path, o)), Here(r, path, o))
<1> DEFINE H == Here(r, path, o)
           less == IndexOrder(H)
           seq == HereList(r, path, o)
<1>1. H \subseteq Range(r) /\ IsFiniteSet(H)
  <2>1. H \subseteq Range(r)
    BY DEF Here, Insertions
  <2> QED  BY <2>1, BatchMembers, FS_Subset
<1>2. \A d \in H : d.operation_index \in 1 .. n /\ d = r[d.operation_index]
  BY InsertionsType DEF Here
<1>3. seq = [k \in 1 .. Cardinality(H) |->
               CHOOSE d \in H :
                 Cardinality({e \in H : e.operation_index < d.operation_index}) = k - 1]
  BY DEF HereList
<1> HIDE DEF H, seq
<1>4. \A d, e \in H : <<d, e>> \in less <=> d.operation_index < e.operation_index
  BY DEF IndexOrder
<1>5. n \in Nat /\ \A d \in H : d.operation_index \in Nat
  BY <1>2 DEF IsBatch
<1> HIDE DEF less
<1>6. Orders(less, H)
  <2>1. \A x \in H : <<x, x>> \notin less
    BY <1>4, <1>5
  <2>2. \A x, y, z \in H : <<x, y>> \in less /\ <<y, z>> \in less => <<x, z>> \in less
    BY <1>4, <1>5
  <2>3. ASSUME NEW x \in H, NEW y \in H, x # y
        PROVE  <<x, y>> \in less \/ <<y, x>> \in less
    <3>1. x.operation_index # y.operation_index
      BY <1>2, <2>3
    <3> QED  BY <1>4, <1>5, <3>1
  <2> QED  BY <2>1, <2>2, <2>3 DEF Orders
<1>7. \A x \in H : {e \in H : e.operation_index < x.operation_index} = Below(less, H, x)
  BY <1>4 DEF Below
<1>8. ASSUME NEW k \in 1 .. Cardinality(H)
      PROVE  (\E x \in H : Cardinality(Below(less, H, x)) = k - 1) =>
               /\ seq[k] \in H
               /\ Cardinality(Below(less, H, seq[k])) = k - 1
  <2>1. (\E x \in H : Cardinality({e \in H : e.operation_index < x.operation_index}) = k - 1)
          => /\ seq[k] \in H
             /\ Cardinality({e \in H : e.operation_index < seq[k].operation_index}) = k - 1
    BY <1>3
  <2> QED  BY <1>7, <2>1
<1>9. DOMAIN seq = 1 .. Cardinality(H)
  BY <1>3
<1>10. Lists(seq, less, H)
  BY <1>1, <1>6, <1>8, <1>9, RankedLists
<1> QED  BY <1>1, <1>10 DEF H, seq, less

\* The segments at an offset write the payloads of the operations that insert
\* there, in the order of the operations.
LEMMA PayloadsInOrder ==
  ASSUME NEW s \in Snapshots, NEW r, NEW n, IsBatch(r, s, n), NEW path, NEW o
  PROVE  /\ InsertionsAt(Insertions(r, path), o) \in Seq(Segments(s))
         /\ Writes(s, InsertionsAt(Insertions(r, path), o))
              = Flat(InsertedBy(r, path, o), n)
         /\ Sequences(InsertedBy(r, path, o), n, 0 .. 255)
<1> DEFINE H == Here(r, path, o)
           c == Cardinality(H)
           list == HereList(r, path, o)
           segs == InsertionsAt(Insertions(r, path), o)
           F == InsertedBy(r, path, o)
           G == [k \in 1 .. c |-> list[k].selected]
<1>1. IsFiniteSet(H) /\ Lists(list, IndexOrder(H), H) /\ c \in Nat
  BY HereListed, FS_CardinalityType
<1>2. \A d \in H : /\ d.operation_index \in 1 .. n /\ d = r[d.operation_index]
                   /\ IsResolved(d, s, d.operation_index)
  BY InsertionsType DEF Here
<1>3. segs = [k \in 1 .. c |-> PayloadSlice(list[k])]
  BY DEF InsertionsAt, HereList, Here
<1>4. n \in Nat /\ DOMAIN r = 1 .. n
  BY DEF IsBatch
<1>5. F = [i \in 1 .. n |-> IF r[i] \in H THEN r[i].selected ELSE << >>]
  BY <1>4 DEF InsertedBy
<1> HIDE DEF H, c, list, segs, F
<1>6. \A d \in H : /\ PayloadSlice(d) \in Segments(s)
                   /\ SegmentBytes(s, PayloadSlice(d)) = d.selected
                   /\ d.selected \in ByteStrings
  <2> SUFFICES ASSUME NEW d \in H
               PROVE  /\ PayloadSlice(d) \in Segments(s)
                      /\ SegmentBytes(s, PayloadSlice(d)) = d.selected
                      /\ d.selected \in ByteStrings
    OBVIOUS
  <2>1. PICK i \in Nat : i = d.operation_index
    BY <1>2, <1>4
  <2>2. IsResolved(d, s, i)
    BY <1>2, <2>1
  <2> QED  BY <2>2, PayloadIsSegment
<1>7. \A k \in 1 .. c : list[k] \in H
  BY <1>1 DEF Lists, c
<1>8. segs \in Seq(Segments(s)) /\ Len(segs) = c
  <2>1. segs \in [1 .. c -> Segments(s)]
    BY <1>3, <1>6, <1>7
  <2> QED  BY <1>1, <2>1
<1>9. Sequences(G, c, 0 .. 255)
  BY <1>6, <1>7 DEF Sequences, ByteStrings
<1>10. Sequences(F, n, 0 .. 255)
  <2>1. << >> \in Seq(0 .. 255)
    OBVIOUS
  <2> QED  BY <1>5, <1>6, <2>1 DEF Sequences, ByteStrings
<1>11. Writes(s, segs) = Flat(G, c)
  <2>1. [k \in 1 .. c |-> SegmentBytes(s, segs[k])] = G
    BY <1>3, <1>6, <1>7
  <2> HIDE DEF G
  <2> QED  BY <1>8, <2>1 DEF Writes
<1>12. \A i, j \in 1 .. c : i < j <=> list[i].operation_index < list[j].operation_index
  BY <1>1, <1>7 DEF Lists, IndexOrder, c
<1>13. \A k \in 1 .. c : /\ list[k].operation_index \in 1 .. n
                         /\ list[k] = r[list[k].operation_index]
                         /\ G[k] = list[k].selected
  BY <1>2, <1>7
<1>14. \A d \in H : \E k \in 1 .. c : list[k] = d
  BY <1>1 DEF Lists, c
<1> HIDE DEF G
<1> DEFINE Upto(m, j) == \A k \in 1 .. c : k <= j <=> list[k].operation_index <= m
           Ok(m, j) == Upto(m, j) /\ Flat(F, m) = Flat(G, j)
           P == {m \in Nat : m <= n => \E j \in 0 .. c : Ok(m, j)}
<1>15. 0 \in P
  <2>1. Flat(F, 0) = << >> /\ Flat(G, 0) = << >>
    BY FlattenNone
  <2>2. Upto(0, 0)
    BY <1>4, <1>13
  <2>3. 0 \in 0 .. c
    BY <1>1
  <2> HIDE DEF Upto
  <2> QED  BY <2>1, <2>2, <2>3
<1>16. ASSUME NEW m \in Nat, m \in P
       PROVE  m + 1 \in P
  <2> SUFFICES ASSUME m + 1 <= n
               PROVE  \E j \in 0 .. c : Ok(m + 1, j)
    OBVIOUS
  <2>1. PICK j \in 0 .. c : Ok(m, j)
    BY <1>4, <1>16
  <2>2. Sequences(F, m + 1, 0 .. 255)
    BY <1>4, <1>10 DEF Sequences
  <2>3. Flat(F, m) \in Seq(0 .. 255) /\ Flat(F, m + 1) = Flat(F, m) \o F[m + 1]
    BY <2>2, FlattenNext
  <2>4. m + 1 \in 1 .. n
    BY <1>4
  <2>5. F[m + 1] = IF r[m + 1] \in H THEN r[m + 1].selected ELSE << >>
    BY <1>5, <2>4
  <2>6. CASE r[m + 1] \notin H
    <3>1. \A k \in 1 .. c : list[k].operation_index # m + 1
      BY <1>7, <1>13, <2>6
    <3>2. Upto(m + 1, j)
      BY <1>4, <1>13, <2>1, <3>1
    <3>3. Flat(F, m) \o << >> = Flat(F, m)
      BY <2>3
    <3>4. Flat(F, m + 1) = Flat(G, j)
      BY <2>1, <2>3, <2>5, <2>6, <3>3
    <3> HIDE DEF Upto
    <3> QED  BY <3>2, <3>4
  <2>7. CASE r[m + 1] \in H
    <3>1. PICK k \in 1 .. c : list[k] = r[m + 1]
      BY <1>14, <2>7
    <3>2. list[k].operation_index = m + 1
      <4>1. \A i \in 1 .. n : r[i].operation_index = i
        BY DEF IsBatch, IsResolved
      <4> QED  BY <2>4, <3>1, <4>1
    <3>3. j < k
      BY <1>1, <2>1, <3>2
    <3>4. k = j + 1
      <4> SUFFICES ASSUME j + 1 < k
                   PROVE  FALSE
        BY <1>1, <3>3
      <4>1. j + 1 \in 1 .. c
        BY <1>1
      <4>2. list[j + 1].operation_index < m + 1
        BY <1>12, <3>2, <4>1
      <4>3. list[j + 1].operation_index <= m
        BY <1>4, <1>13, <4>1, <4>2
      <4> QED  BY <2>1, <4>1, <4>3
    <3>5. ASSUME NEW i \in 1 .. c
          PROVE  i <= j + 1 <=> list[i].operation_index <= m + 1
      <4>1. i < k <=> list[i].operation_index < m + 1
        BY <1>12, <3>2
      <4>2. i = k => list[i].operation_index = m + 1
        BY <3>2
      <4>3. list[i].operation_index = m + 1 => list[i] = list[k]
        BY <1>13, <3>1
      <4>4. list[i] = list[k] => ~(k < i)
        BY <1>12, <1>13
      <4>5. list[i].operation_index \in Nat /\ i \in Nat /\ k \in Nat
        BY <1>13, <1>4
      <4> QED  BY <3>4, <4>1, <4>2, <4>3, <4>4, <4>5
    <3>6. Upto(m + 1, j + 1)
      BY <3>5
    <3>7. j + 1 \in 0 .. c /\ j \in Nat
      BY <1>1, <3>4
    <3>8. Sequences(G, j + 1, 0 .. 255)
      BY <1>1, <1>9, <3>7 DEF Sequences
    <3>9. Flat(G, j + 1) = Flat(G, j) \o G[j + 1]
      BY <3>7, <3>8, FlattenNext
    <3>10. G[j + 1] = r[m + 1].selected
      BY <1>13, <3>1, <3>4
    <3>11. Flat(F, m + 1) = Flat(G, j + 1)
      BY <2>1, <2>3, <2>5, <2>7, <3>9, <3>10
    <3> HIDE DEF Upto
    <3> QED  BY <3>6, <3>7, <3>11
  <2> QED  BY <2>6, <2>7
<1>17. n \in P
  <2>1. \A m \in Nat : m \in P
    <3> HIDE DEF P
    <3> QED  BY <1>15, <1>16, SetInduction
  <2> HIDE DEF P
  <2> QED  BY <1>4, <2>1
<1>18. Flat(F, n) = Flat(G, c)
  <2>1. PICK j \in 0 .. c : Ok(n, j)
    <3> HIDE DEF Ok
    <3> QED  BY <1>4, <1>17
  <2>2. j = c
    <3> SUFFICES ASSUME j < c
                 PROVE  FALSE
      BY <1>1
    <3>1. c \in 1 .. c
      BY <1>1
    <3>2. list[c].operation_index <= n
      BY <1>4, <1>13, <3>1
    <3> QED  BY <2>1, <3>1, <3>2
  <2> QED  BY <2>1, <2>2
<1> QED  BY <1>8, <1>10, <1>11, <1>18 DEF segs, F

-----------------------------------------------------------------------------
(***************************************************************************)
(* The sweep over the point events.                                        *)
(***************************************************************************)
SweepState(s, length) ==
  [segments : Seq(Segments(s)), cursor : 0 .. length, deleting : BOOLEAN]

Points(D, I) ==
  {d.start : d \in D} \cup {d.end : d \in D} \cup {i.offset : i \in I}

SweepStart == [segments |-> << >>, cursor |-> 0, deleting |-> FALSE]

SweepStep(path, D, I, state, k) ==
  IF k - 1 \in Points(D, I) THEN PointStep(path, D, I, state, k - 1) ELSE state

\* The state after each offset.
Sweeps(swept, path, length, D, I) ==
  /\ swept[0] = SweepStart
  /\ \A k \in 1 .. length + 1 :
       swept[k] = SweepStep(path, D, I, swept[k - 1], k)

\* The run after the last point.
Closing(path, length, state) ==
  IF state.cursor < length /\ ~state.deleting
  THEN << OriginalSlice(path, state.cursor, length) >> ELSE << >>

\* The run before a point.
Before(path, state, o) ==
  IF state.cursor < o /\ ~state.deleting
  THEN << OriginalSlice(path, state.cursor, o) >> ELSE << >>

\* The two are runs of the file.
LEMMA RunIsSegment ==
  ASSUME NEW s \in Snapshots, NEW path \in Paths,
         NEW from \in Nat, NEW to \in 0 .. Len(s[path].bytes), from <= to
  PROVE  /\ OriginalSlice(path, from, to) \in Segments(s)
         /\ SegmentBytes(s, OriginalSlice(path, from, to))
              = Slice(s[path].bytes, from, to)
<1>1. Len(s[path].bytes) \in Nat
  BY FileBytes
<1>2. OriginalSlice(path, from, to) \in OriginalSegment
  BY <1>1 DEF OriginalSlice, OriginalSegment
<1>3. /\ OriginalSlice(path, from, to).file = path
      /\ OriginalSlice(path, from, to).start = from
      /\ OriginalSlice(path, from, to).end = to
  BY DEF OriginalSlice
<1>4. to <= Len(s[path].bytes)
  BY <1>1
<1> QED  BY <1>2, <1>3, <1>4 DEF Segments, SegmentBytes

\* What a run writes.
LEMMA RunWrites ==
  ASSUME NEW s \in Snapshots, NEW path \in Paths,
         NEW from \in Nat, NEW to \in 0 .. Len(s[path].bytes), from <= to,
         NEW run, run = IF from < to THEN << OriginalSlice(path, from, to) >> ELSE << >>
  PROVE  /\ run \in Seq(Segments(s))
         /\ Writes(s, run) = Slice(s[path].bytes, from, to)
<1>1. s[path].bytes \in ByteStrings /\ Len(s[path].bytes) \in Nat
  BY FileBytes
<1>2. CASE from < to
  <2>1. OriginalSlice(path, from, to) \in Segments(s)
        /\ SegmentBytes(s, OriginalSlice(path, from, to))
             = Slice(s[path].bytes, from, to)
    BY RunIsSegment
  <2>2. /\ << OriginalSlice(path, from, to) >> \in Seq(Segments(s))
        /\ Writes(s, << OriginalSlice(path, from, to) >>)
             = SegmentBytes(s, OriginalSlice(path, from, to))
    BY <2>1, WritesOne
  <2> QED  BY <1>2, <2>1, <2>2
<1>3. CASE ~(from < to)
  <2>1. run = << >> /\ from >= to
    BY <1>1, <1>3
  <2>2. Slice(s[path].bytes, from, to) = << >>
    BY <1>1, <2>1, SliceType
  <2>3. << >> \in Seq(Segments(s))
    OBVIOUS
  <2> QED  BY <2>1, <2>2, <2>3, WritesNone
<1> QED  BY <1>2, <1>3

\* One point event.
LEMMA PointStepType ==
  ASSUME NEW s \in Snapshots, NEW r, NEW n, IsBatch(r, s, n), NEW path \in Paths,
         NEW state \in SweepState(s, Len(s[path].bytes)),
         NEW o \in 0 .. Len(s[path].bytes)
  PROVE  /\ PointStep(path, Deletions(r, path), Insertions(r, path), state, o)
              \in SweepState(s, Len(s[path].bytes))
         /\ Before(path, state, o) \in Seq(Segments(s))
<1> DEFINE length == Len(s[path].bytes)
           D == Deletions(r, path)
           I == Insertions(r, path)
           next == PointStep(path, D, I, state, o)
<1>1. length \in Nat
  BY FileBytes
<1>2. state.segments \in Seq(Segments(s)) /\ state.cursor \in 0 .. length
      /\ state.deleting \in BOOLEAN
  BY DEF SweepState
<1>3. Before(path, state, o) \in Seq(Segments(s))
  <2>1. << >> \in Seq(Segments(s))
    OBVIOUS
  <2>2. ASSUME state.cursor < o
        PROVE  << OriginalSlice(path, state.cursor, o) >> \in Seq(Segments(s))
    <3>1. state.cursor \in Nat /\ state.cursor <= o
      BY <1>1, <1>2, <2>2
    <3>2. OriginalSlice(path, state.cursor, o) \in Segments(s)
      BY <3>1, RunIsSegment
    <3> QED  BY <3>2
  <2> QED  BY <2>1, <2>2 DEF Before
<1>4. InsertionsAt(I, o) \in Seq(Segments(s))
  BY PayloadsInOrder
<1>5. /\ next.segments = state.segments \o Before(path, state, o) \o InsertionsAt(I, o)
      /\ next = [segments |-> next.segments, cursor |-> o, deleting |-> next.deleting]
  BY DEF PointStep, Before
<1>6. next.deleting \in BOOLEAN
  BY <1>2 DEF PointStep
<1> HIDE DEF next
<1>7. next.segments \in Seq(Segments(s))
  <2>1. state.segments \o Before(path, state, o) \in Seq(Segments(s))
    BY <1>2, <1>3, ConcatProperties
  <2> QED  BY <1>4, <1>5, <2>1, ConcatProperties
<1>8. next \in SweepState(s, length)
  <2>1. \A x \in Seq(Segments(s)), y \in BOOLEAN :
          [segments |-> x, cursor |-> o, deleting |-> y] \in SweepState(s, length)
    BY DEF SweepState
  <2> QED  BY <1>5, <1>6, <1>7, <2>1
<1> QED  BY <1>3, <1>8 DEF next

\* The sweep visits every offset, and the segments are those of its end.
LEMMA SweepRuns ==
  ASSUME NEW s \in Snapshots, NEW r, NEW n, IsBatch(r, s, n), NEW path \in Paths
  PROVE  LET length == Len(s[path].bytes)
             D == Deletions(r, path)
             I == Insertions(r, path)
         IN  \E swept \in [0 .. length + 1 -> SweepState(s, length)] :
               /\ Sweeps(swept, path, length, D, I)
               /\ build_segments(path, length, D, I)
                    = swept[length + 1].segments
                      \o Closing(path, length, swept[length + 1])
<1> DEFINE length == Len(s[path].bytes)
           D == Deletions(r, path)
           I == Insertions(r, path)
           S == SweepState(s, length)
           m == length + 1
           next == [a \in S \X (1 .. m) |-> SweepStep(path, D, I, a[1], a[2])]
           Eq(f) == f = [k \in 0 .. m |->
                           IF k = 0
                           THEN [segments |-> << >>, cursor |-> 0, deleting |-> FALSE]
                           ELSE IF k - 1 \in {d.start : d \in D} \cup {d.end : d \in D}
                                             \cup {i.offset : i \in I}
                           THEN PointStep(path, D, I, f[k - 1], k - 1)
                           ELSE f[k - 1]]
           g == CHOOSE f : Eq(f)
<1>1. length \in Nat /\ m \in Nat
  BY FileBytes
<1>2. build_segments(path, length, D, I) = g[m].segments \o Closing(path, length, g[m])
  BY DEF build_segments, Closing
<1>3. SweepStart \in S
  <2>1. << >> \in Seq(Segments(s)) /\ 0 \in 0 .. length
    BY <1>1
  <2> QED  BY <2>1 DEF SweepStart, SweepState
<1>4. next \in [S \X (1 .. m) -> S]
  <2> SUFFICES ASSUME NEW a \in S \X (1 .. m)
               PROVE  SweepStep(path, D, I, a[1], a[2]) \in S
    OBVIOUS
  <2>1. a[1] \in S /\ a[2] - 1 \in 0 .. length
    BY <1>1
  <2>2. PointStep(path, D, I, a[1], a[2] - 1) \in S
    BY <2>1, PointStepType
  <2> QED  BY <2>1, <2>2 DEF SweepStep
<1>5. PICK f \in [0 .. m -> S] : IsRun(f, SweepStart, next, m)
  <2> HIDE DEF S, next, m
  <2> QED  BY <1>1, <1>3, <1>4, RunExists
<1>6. f[0] = SweepStart
      /\ \A k \in 1 .. m : f[k] = SweepStep(path, D, I, f[k - 1], k)
  <2>1. ASSUME NEW k \in 1 .. m
        PROVE  f[k] = SweepStep(path, D, I, f[k - 1], k)
    <3>1. f[k - 1] \in S
      BY <1>1, <1>5
    <3> HIDE DEF S, m
    <3>2. next[<<f[k - 1], k>>] = SweepStep(path, D, I, f[k - 1], k)
      BY <3>1
    <3> HIDE DEF next
    <3> QED  BY <1>5, <3>2 DEF IsRun
  <2> QED  BY <1>5, <2>1 DEF IsRun
<1>7. Eq(f)
  <2>1. DOMAIN f = 0 .. m /\ f = [k \in 0 .. m |-> f[k]]
    BY <1>5
  <2>2. ASSUME NEW k \in 0 .. m
        PROVE  f[k] = IF k = 0
                      THEN [segments |-> << >>, cursor |-> 0, deleting |-> FALSE]
                      ELSE IF k - 1 \in {d.start : d \in D} \cup {d.end : d \in D}
                                        \cup {i.offset : i \in I}
                      THEN PointStep(path, D, I, f[k - 1], k - 1)
                      ELSE f[k - 1]
    <3> HIDE DEF D, I
    <3>1. k = 0 \/ k \in 1 .. m
      BY <1>1
    <3> QED  BY <1>6, <3>1 DEF SweepStart, SweepStep, Points
  <2> HIDE DEF D, I, m
  <2> QED  BY <2>1, <2>2
<1>8. Eq(g)
  <2> HIDE DEF Eq
  <2> QED  BY <1>7
<1> HIDE DEF g
<1>9. /\ DOMAIN g = 0 .. m /\ g = [k \in 0 .. m |-> g[k]]
      /\ g[0] = SweepStart
      /\ \A k \in 1 .. m : g[k] = SweepStep(path, D, I, g[k - 1], k)
  <2> HIDE DEF D, I
  <2>1. DOMAIN g = 0 .. m /\ g = [k \in 0 .. m |-> g[k]]
    BY <1>8
  <2>2. g[0] = SweepStart
    BY <1>1, <1>8 DEF SweepStart
  <2>3. ASSUME NEW k \in 1 .. m
        PROVE  g[k] = SweepStep(path, D, I, g[k - 1], k)
    <3>1. k \in 0 .. m /\ k # 0
      BY <1>1
    <3> QED  BY <1>8, <3>1 DEF SweepStep, Points
  <2> QED  BY <2>1, <2>2, <2>3
<1> DEFINE P == {k \in Nat : k <= m => g[k] \in S}
<1>10. 0 \in P
  BY <1>3, <1>9
<1>11. ASSUME NEW k \in Nat, k \in P
       PROVE  k + 1 \in P
  <2> SUFFICES ASSUME k + 1 <= m
               PROVE  g[k + 1] \in S
    OBVIOUS
  <2>1. k + 1 \in 1 .. m /\ (k + 1) - 1 = k /\ g[k] \in S
    BY <1>1, <1>11
  <2> HIDE DEF S, m
  <2>2. <<g[k], k + 1>> \in S \X (1 .. m)
    BY <2>1
  <2>3. next[<<g[k], k + 1>>] = SweepStep(path, D, I, g[k], k + 1)
    BY <2>2
  <2> HIDE DEF next
  <2>4. next[<<g[k], k + 1>>] \in S
    BY <1>4, <2>2
  <2> QED  BY <1>9, <2>1, <2>3, <2>4
<1>12. \A k \in Nat : k \in P
  <2> HIDE DEF P
  <2> QED  BY <1>10, <1>11, SetInduction
<1>13. g \in [0 .. m -> S]
  <2>1. \A k \in 0 .. m : g[k] \in S
    BY <1>1, <1>12
  <2> HIDE DEF S, m
  <2> QED  BY <1>9, <2>1
<1>14. Sweeps(g, path, length, D, I)
  BY <1>9 DEF Sweeps
<1> HIDE DEF D, I, S
<1> QED  BY <1>2, <1>13, <1>14 DEF D, I, S

\* A move takes the byte behind an offset.
Taken(D, o) == \E d \in D : d.start <= o /\ o < d.end

\* What validation and resolution say of the deletions of a file.
SoundDeletions(D) ==
  /\ \A d \in D : d.start \in Nat /\ d.end \in Nat /\ d.start < d.end
  /\ \A d, e \in D : \A b \in Nat :
       d.start <= b /\ b < d.end /\ e.start <= b /\ b < e.end => d = e

\* The deletions of a plan do not overlap.
LEMMA DeletionsAreSound ==
  ASSUME NEW r, NEW s, NEW n, IsBatch(r, s, n), NEW path,
         ~Overlaps(Deletions(r, path))
  PROVE  SoundDeletions(Deletions(r, path))
<1> DEFINE D == Deletions(r, path)
<1>1. /\ \A d \in D : /\ d.start \in Nat /\ d.end \in Nat /\ d.operation_index \in Nat
                      /\ d.start < d.end
      /\ \A d, e \in D : d.operation_index = e.operation_index => d = e
  BY DeletionsType
<1>2. ~Overlaps(D)
  OBVIOUS
<1> HIDE DEF D
<1>3. ASSUME NEW d \in D, NEW e \in D, NEW b \in Nat,
             d.start <= b, b < d.end, e.start <= b, b < e.end
      PROVE  d = e
  <2>1. b \in d.start .. d.end - 1 /\ b \in e.start .. e.end - 1
    BY <1>1, <1>3
  <2>2. d.operation_index = e.operation_index
    BY <1>2, <2>1 DEF Overlaps
  <2> QED  BY <1>1, <2>2
<1> QED  BY <1>1, <1>3 DEF SoundDeletions, D

\* Whether a move takes the byte behind a point.
LEMMA DeletingAt ==
  ASSUME NEW D, SoundDeletions(D), NEW o \in Nat, NEW deleting \in BOOLEAN,
         deleting <=> o > 0 /\ Taken(D, o - 1)
  PROVE  /\ Taken(D, o) <=> \/ deleting /\ ~(\E d \in D : d.end = o)
                            \/ \E d \in D : d.start = o
         /\ (\A d \in D : d.start # o /\ d.end # o) => (Taken(D, o) <=> deleting)
<1>1. /\ \A d \in D : d.start \in Nat /\ d.end \in Nat /\ d.start < d.end
      /\ \A d, e \in D : \A b \in Nat :
           d.start <= b /\ b < d.end /\ e.start <= b /\ b < e.end => d = e
  BY DEF SoundDeletions
<1>2. ASSUME Taken(D, o)
      PROVE  \/ deleting /\ ~(\E d \in D : d.end = o)
             \/ \E d \in D : d.start = o
  <2>1. PICK d \in D : d.start <= o /\ o < d.end
    BY <1>2 DEF Taken
  <2>2. CASE d.start = o
    BY <2>2
  <2>3. CASE d.start < o
    <3>1. o > 0 /\ o - 1 \in Nat /\ d.start <= o - 1 /\ o - 1 < d.end
      BY <1>1, <2>1, <2>3
    <3>2. deleting
      BY <3>1 DEF Taken
    <3>3. ASSUME NEW e \in D, e.end = o
          PROVE  FALSE
      <4>1. e.start <= o - 1 /\ o - 1 < e.end
        BY <1>1, <3>3
      <4>2. e = d
        BY <1>1, <3>1, <4>1
      <4> QED  BY <1>1, <2>1, <3>3, <4>2
    <3> QED  BY <3>2, <3>3
  <2> QED  BY <1>1, <2>1, <2>2, <2>3
<1>3. ASSUME deleting, ~(\E d \in D : d.end = o)
      PROVE  Taken(D, o)
  <2>1. PICK d \in D : d.start <= o - 1 /\ o - 1 < d.end
    BY <1>3 DEF Taken
  <2>2. d.start <= o /\ o < d.end
    BY <1>1, <1>3, <2>1
  <2> QED  BY <2>2 DEF Taken
<1>4. ASSUME NEW d \in D, d.start = o
      PROVE  Taken(D, o)
  <2>1. d.start <= o /\ o < d.end
    BY <1>1, <1>4
  <2> QED  BY <2>1 DEF Taken
<1> QED  BY <1>2, <1>3, <1>4

-----------------------------------------------------------------------------
(***************************************************************************)
(* The sweep writes what the batch means.                                  *)
(***************************************************************************)
\* What the batch means at the gap before byte g, and the byte.
KeptByte(s, r, path, g) ==
  IF g <= Len(s[path].bytes) /\ ~Taken(Deletions(r, path), g - 1)
  THEN << s[path].bytes[g] >> ELSE << >>

GapPieces(s, r, n, path) ==
  [g \in 1 .. Len(s[path].bytes) + 1 |->
     Flat(InsertedBy(r, path, g - 1), n) \o KeptByte(s, r, path, g)]

\* What the sweep has written and still holds after the first k gaps.
Held(s, path, state, k) ==
  IF state.deleting THEN << >>
  ELSE Slice(s[path].bytes, state.cursor,
             IF k <= Len(s[path].bytes) THEN k ELSE Len(s[path].bytes))

SweepInv(s, r, n, path, state, k) ==
  /\ state.deleting <=> k > 0 /\ Taken(Deletions(r, path), k - 1)
  /\ state.cursor <= k
  /\ Writes(s, state.segments) \o Held(s, path, state, k)
       = Flat(GapPieces(s, r, n, path), k)

\* A byte no move takes, as a slice.
LEMMA KeptByteIsSlice ==
  ASSUME NEW s \in Snapshots, NEW r, NEW path \in Paths,
         NEW o \in 0 .. Len(s[path].bytes)
  PROVE  /\ KeptByte(s, r, path, o + 1) \in ByteStrings
         /\ ~Taken(Deletions(r, path), o) =>
              KeptByte(s, r, path, o + 1)
                = Slice(s[path].bytes, o,
                        IF o + 1 <= Len(s[path].bytes) THEN o + 1
                        ELSE Len(s[path].bytes))
         /\ Taken(Deletions(r, path), o) => KeptByte(s, r, path, o + 1) = << >>
<1>1. s[path].bytes \in ByteStrings /\ Len(s[path].bytes) \in Nat
  BY FileBytes
<1>2. (o + 1) - 1 = o /\ o \in Nat
  BY <1>1
<1>3. << >> \in ByteStrings
  BY DEF ByteStrings
<1>4. CASE Taken(Deletions(r, path), o)
  BY <1>2, <1>3, <1>4 DEF KeptByte
<1>5. CASE ~Taken(Deletions(r, path), o) /\ o + 1 <= Len(s[path].bytes)
  <2>1. Slice(s[path].bytes, o, o + 1) = << s[path].bytes[o + 1] >>
    BY <1>1, <1>2, <1>5, SliceOne
  <2>2. Slice(s[path].bytes, o, o + 1) \in ByteStrings
    <3>1. o + 1 \in 0 .. Len(s[path].bytes)
      BY <1>1, <1>5
    <3> QED  BY <1>1, <1>2, <3>1, SliceType
  <2>3. KeptByte(s, r, path, o + 1) = << s[path].bytes[o + 1] >>
    BY <1>2, <1>5 DEF KeptByte
  <2> QED  BY <1>5, <2>1, <2>2, <2>3
<1>6. CASE ~Taken(Deletions(r, path), o) /\ ~(o + 1 <= Len(s[path].bytes))
  <2>1. o = Len(s[path].bytes)
    BY <1>1, <1>6
  <2>2. Slice(s[path].bytes, o, Len(s[path].bytes)) = << >>
    <3>1. Len(s[path].bytes) \in 0 .. Len(s[path].bytes) /\ o >= Len(s[path].bytes)
      BY <1>1, <2>1
    <3> QED  BY <1>1, <1>2, <3>1, SliceType
  <2>3. KeptByte(s, r, path, o + 1) = << >>
    BY <1>6 DEF KeptByte
  <2> QED  BY <1>3, <1>6, <2>2, <2>3
<1> QED  BY <1>4, <1>5, <1>6

\* Pieces written one after the other.
LEMMA Regroup ==
  /\ \A x, y, z \in ByteStrings : (x \o y) \o z = x \o (y \o z)
  /\ \A x, y \in ByteStrings : x \o y \in ByteStrings
  /\ \A x \in ByteStrings : x \o << >> = x /\ << >> \o x = x
<1>1. ASSUME NEW x \in ByteStrings, NEW y \in ByteStrings, NEW z \in ByteStrings
      PROVE  (x \o y) \o z = x \o (y \o z)
  BY ConcatAssociative DEF ByteStrings
<1>2. ASSUME NEW x \in ByteStrings, NEW y \in ByteStrings
      PROVE  x \o y \in ByteStrings
  BY ConcatProperties DEF ByteStrings
<1>3. ASSUME NEW x \in ByteStrings
      PROVE  x \o << >> = x /\ << >> \o x = x
  BY ConcatEmptySeq DEF ByteStrings
<1> QED  BY <1>1, <1>2, <1>3

\* The pieces between gaps are bytes.
LEMMA GapPiecesType ==
  ASSUME NEW s \in Snapshots, NEW r, NEW n, IsBatch(r, s, n), NEW path \in Paths,
         NEW o \in 0 .. Len(s[path].bytes)
  PROVE  /\ Flat(InsertedBy(r, path, o), n) \in ByteStrings
         /\ Flat(GapPieces(s, r, n, path), o) \in ByteStrings
         /\ Flat(GapPieces(s, r, n, path), o + 1)
              = Flat(GapPieces(s, r, n, path), o)
                \o (Flat(InsertedBy(r, path, o), n) \o KeptByte(s, r, path, o + 1))
<1> DEFINE N == Len(s[path].bytes)
           M == GapPieces(s, r, n, path)
<1>1. N \in Nat /\ n \in Nat
  BY FileBytes DEF IsBatch
<1>2. \A k \in 0 .. N : Flat(InsertedBy(r, path, k), n) \in ByteStrings
  <2> SUFFICES ASSUME NEW k \in 0 .. N
               PROVE  Flat(InsertedBy(r, path, k), n) \in ByteStrings
    OBVIOUS
  <2>1. Sequences(InsertedBy(r, path, k), n, 0 .. 255)
    BY PayloadsInOrder
  <2> QED  BY <1>1, <2>1, FlattenType DEF ByteStrings
<1>3. \A k \in 0 .. N : KeptByte(s, r, path, k + 1) \in ByteStrings
  BY KeptByteIsSlice
<1>4. \A k \in 0 .. N :
        M[k + 1] = Flat(InsertedBy(r, path, k), n) \o KeptByte(s, r, path, k + 1)
  <2> SUFFICES ASSUME NEW k \in 0 .. N
               PROVE  M[k + 1] = Flat(InsertedBy(r, path, k), n)
                                 \o KeptByte(s, r, path, k + 1)
    OBVIOUS
  <2>1. k + 1 \in 1 .. N + 1 /\ (k + 1) - 1 = k
    BY <1>1
  <2> QED  BY <2>1 DEF GapPieces
<1>5. \A k \in 0 .. N : M[k + 1] \in Seq(0 .. 255)
  <2>1. \A k \in 0 .. N : M[k + 1] \in ByteStrings
    <3> HIDE DEF M, N
    <3> QED  BY <1>2, <1>3, <1>4, Regroup
  <2> QED  BY <2>1 DEF ByteStrings
<1>6. Sequences(M, o + 1, 0 .. 255)
  <2> SUFFICES ASSUME NEW k \in 1 .. o + 1
               PROVE  M[k] \in Seq(0 .. 255)
    BY DEF Sequences
  <2>1. k - 1 \in 0 .. N /\ (k - 1) + 1 = k
    BY <1>1
  <2> HIDE DEF M, N
  <2> QED  BY <1>5, <2>1
<1>7. Flat(M, o) \in Seq(0 .. 255) /\ Flat(M, o + 1) = Flat(M, o) \o M[o + 1]
  <2>1. o \in Nat
    BY <1>1
  <2> HIDE DEF M
  <2> QED  BY <1>6, <2>1, FlattenNext
<1> QED  BY <1>2, <1>4, <1>7 DEF ByteStrings

\* Nothing happens at an offset that is no point.
LEMMA QuietStep ==
  ASSUME NEW s \in Snapshots, NEW r, NEW n, IsBatch(r, s, n), NEW path \in Paths,
         SoundDeletions(Deletions(r, path)),
         NEW o \in 0 .. Len(s[path].bytes),
         o \notin Points(Deletions(r, path), Insertions(r, path)),
         NEW state \in SweepState(s, Len(s[path].bytes)),
         SweepInv(s, r, n, path, state, o)
  PROVE  SweepInv(s, r, n, path, state, o + 1)
<1> DEFINE b == s[path].bytes
           N == Len(b)
           D == Deletions(r, path)
           M == GapPieces(s, r, n, path)
           W == Writes(s, state.segments)
<1>1. b \in ByteStrings /\ N \in Nat /\ n \in Nat /\ o \in Nat
  BY FileBytes DEF IsBatch
<1>2. state.segments \in Seq(Segments(s)) /\ state.cursor \in 0 .. N
      /\ state.deleting \in BOOLEAN
  BY DEF SweepState
<1>3. W \in ByteStrings
  BY <1>2, WritesType
<1>4. /\ state.deleting <=> o > 0 /\ Taken(D, o - 1)
      /\ state.cursor <= o
      /\ W \o Held(s, path, state, o) = Flat(M, o)
  BY DEF SweepInv
<1>5. Taken(D, o) <=> state.deleting
  <2>1. \A d \in D : d.start # o /\ d.end # o
    BY DEF Points
  <2> HIDE DEF D
  <2> QED  BY <1>1, <1>2, <1>4, <2>1, DeletingAt DEF D
<1>6. Flat(InsertedBy(r, path, o), n) = << >>
  <2>1. Here(r, path, o) = {}
    BY DEF Here, Points
  <2>2. \A i \in 1 .. n : InsertedBy(r, path, o)[i] = << >>
    BY <2>1 DEF InsertedBy, IsBatch
  <2> QED  BY <1>1, <2>2, FlattenEmpty
<1>7. /\ Flat(M, o) \in ByteStrings
      /\ Flat(M, o + 1) = Flat(M, o) \o (<< >> \o KeptByte(s, r, path, o + 1))
      /\ KeptByte(s, r, path, o + 1) \in ByteStrings
  <2>1. /\ Flat(M, o) \in ByteStrings
        /\ Flat(M, o + 1) = Flat(M, o) \o (Flat(InsertedBy(r, path, o), n)
                                           \o KeptByte(s, r, path, o + 1))
    BY GapPiecesType
  <2>2. KeptByte(s, r, path, o + 1) \in ByteStrings
    BY KeptByteIsSlice
  <2> HIDE DEF M
  <2> QED  BY <1>6, <2>1, <2>2
<1>8. Flat(M, o + 1) = Flat(M, o) \o KeptByte(s, r, path, o + 1)
  <2>1. << >> \o KeptByte(s, r, path, o + 1) = KeptByte(s, r, path, o + 1)
    BY <1>7, Regroup
  <2> QED  BY <1>7, <2>1
<1>9. W \o Held(s, path, state, o + 1) = Flat(M, o + 1)
  <2>1. CASE state.deleting
    <3>1. KeptByte(s, r, path, o + 1) = << >>
      BY <1>5, <2>1, KeptByteIsSlice
    <3>2. Flat(M, o + 1) = Flat(M, o)
      BY <1>7, <1>8, <3>1, Regroup
    <3>3. Held(s, path, state, o + 1) = << >> /\ Held(s, path, state, o) = << >>
      BY <2>1 DEF Held
    <3> HIDE DEF M, W
    <3> QED  BY <1>4, <3>2, <3>3
  <2>2. CASE ~state.deleting
    <3> DEFINE e == IF o + 1 <= N THEN o + 1 ELSE N
               x == Slice(b, state.cursor, o)
               y == Slice(b, o, e)
    <3>1. KeptByte(s, r, path, o + 1) = y
      BY <1>5, <2>2, KeptByteIsSlice
    <3>2. Held(s, path, state, o) = x
      <4>1. o <= N
        BY <1>1
      <4> QED  BY <2>2, <4>1 DEF Held
    <3>3. Held(s, path, state, o + 1) = Slice(b, state.cursor, e)
      BY <2>2 DEF Held
    <3>4. e \in 0 .. N /\ o <= e /\ state.cursor \in Nat
      BY <1>1, <1>2
    <3>5. x \o y = Slice(b, state.cursor, e)
      <4> HIDE DEF e, b, N
      <4> QED  BY <1>1, <1>4, <3>4, SliceJoin DEF N
    <3>6. x \in ByteStrings /\ y \in ByteStrings
      <4>1. o \in 0 .. N
        OBVIOUS
      <4> HIDE DEF e, b, N
      <4> QED  BY <1>1, <3>4, <4>1, SliceType DEF N
    <3> HIDE DEF x, y, W, M
    <3>7. (W \o x) \o y = W \o (x \o y)
      BY <1>3, <3>6, Regroup
    <3> QED  BY <1>4, <1>8, <3>1, <3>2, <3>3, <3>5, <3>7
  <2> QED  BY <1>2, <2>1, <2>2
<1>10. /\ state.deleting <=> o + 1 > 0 /\ Taken(D, (o + 1) - 1)
       /\ state.cursor <= o + 1
  <2>1. (o + 1) - 1 = o /\ o + 1 > 0
    BY <1>1
  <2>2. state.cursor <= o + 1
    BY <1>1, <1>2, <1>4
  <2> QED  BY <1>5, <2>1, <2>2
<1> QED  BY <1>9, <1>10 DEF SweepInv

\* A point event.
LEMMA EventStep ==
  ASSUME NEW s \in Snapshots, NEW r, NEW n, IsBatch(r, s, n), NEW path \in Paths,
         SoundDeletions(Deletions(r, path)),
         NEW o \in 0 .. Len(s[path].bytes),
         NEW state \in SweepState(s, Len(s[path].bytes)),
         SweepInv(s, r, n, path, state, o)
  PROVE  SweepInv(s, r, n, path,
                  PointStep(path, Deletions(r, path), Insertions(r, path), state, o),
                  o + 1)
<1> DEFINE b == s[path].bytes
           N == Len(b)
           D == Deletions(r, path)
           I == Insertions(r, path)
           M == GapPieces(s, r, n, path)
           W == Writes(s, state.segments)
           next == PointStep(path, D, I, state, o)
           run == Before(path, state, o)
           ins == InsertionsAt(I, o)
           F == Flat(InsertedBy(r, path, o), n)
           K == KeptByte(s, r, path, o + 1)
           held == Held(s, path, state, o)
<1>1. b \in ByteStrings /\ N \in Nat /\ n \in Nat /\ o \in Nat /\ o <= N
  BY FileBytes DEF IsBatch
<1>2. state.segments \in Seq(Segments(s)) /\ state.cursor \in 0 .. N
      /\ state.deleting \in BOOLEAN
  BY DEF SweepState
<1>3. W \in ByteStrings
  BY <1>2, WritesType
<1>4. /\ state.deleting <=> o > 0 /\ Taken(D, o - 1)
      /\ state.cursor <= o
      /\ W \o held = Flat(M, o)
  BY DEF SweepInv
<1>5. /\ next.segments = state.segments \o run \o ins
      /\ next.cursor = o
      /\ next.deleting = (\/ state.deleting /\ ~(\E d \in D : d.end = o)
                          \/ \E d \in D : d.start = o)
  BY DEF PointStep, Before
<1>6. next.deleting <=> Taken(D, o)
  <2> HIDE DEF D, next
  <2> QED  BY <1>1, <1>2, <1>4, <1>5, DeletingAt DEF D
<1>7. ins \in Seq(Segments(s)) /\ Writes(s, ins) = F
  BY PayloadsInOrder
<1>8. run \in Seq(Segments(s)) /\ Writes(s, run) = held
  <2>1. CASE state.deleting
    <3>1. run = << >> /\ held = << >>
      BY <2>1 DEF Before, Held
    <3>2. << >> \in Seq(Segments(s))
      OBVIOUS
    <3> QED  BY <3>1, <3>2, WritesNone
  <2>2. CASE ~state.deleting
    <3>1. run = IF state.cursor < o THEN << OriginalSlice(path, state.cursor, o) >>
                ELSE << >>
      BY <2>2 DEF Before
    <3>2. held = Slice(b, state.cursor, o)
      BY <1>1, <2>2 DEF Held
    <3>3. PICK from \in Nat : from = state.cursor
      BY <1>1, <1>2
    <3>4. PICK to \in 0 .. Len(s[path].bytes) : to = o
      OBVIOUS
    <3>5. run = IF from < to THEN << OriginalSlice(path, from, to) >> ELSE << >>
      BY <3>1, <3>3, <3>4
    <3>6. from <= to
      BY <1>4, <3>3, <3>4
    <3> HIDE DEF run, held, b
    <3>7. run \in Seq(Segments(s)) /\ Writes(s, run) = Slice(s[path].bytes, from, to)
      BY <3>5, <3>6, RunWrites
    <3> QED  BY <3>2, <3>3, <3>4, <3>7 DEF b
  <2> QED  BY <1>2, <2>1, <2>2
<1>9. F \in ByteStrings /\ K \in ByteStrings /\ Flat(M, o) \in ByteStrings
      /\ Flat(M, o + 1) = Flat(M, o) \o (F \o K)
  <2>1. F \in ByteStrings /\ Flat(M, o) \in ByteStrings /\ Flat(M, o + 1) = Flat(M, o) \o (F \o K)
    BY GapPiecesType
  <2>2. K \in ByteStrings
    BY KeptByteIsSlice
  <2> QED  BY <2>1, <2>2
<1>10. Writes(s, next.segments) = Flat(M, o) \o F
  <2> DEFINE front == state.segments \o run
  <2> HIDE DEF run, ins, F, M, W, held
  <2>1. front \in Seq(Segments(s)) /\ Writes(s, front) = W \o held
    BY <1>2, <1>8, WritesBoth DEF W
  <2> HIDE DEF front
  <2>2. Writes(s, front \o ins) = Writes(s, front) \o Writes(s, ins)
    BY <1>7, <2>1, WritesBoth
  <2>3. next.segments = front \o ins
    BY <1>5 DEF front
  <2> HIDE DEF next
  <2> QED  BY <1>4, <1>7, <2>1, <2>2, <2>3
<1>11. Held(s, path, next, o + 1) = K
  <2>1. CASE Taken(D, o)
    <3>1. K = << >>
      BY <2>1, KeptByteIsSlice
    <3> QED  BY <1>6, <2>1, <3>1 DEF Held
  <2>2. CASE ~Taken(D, o)
    <3>1. K = Slice(b, o, IF o + 1 <= N THEN o + 1 ELSE N)
      BY <2>2, KeptByteIsSlice
    <3> QED  BY <1>5, <1>6, <2>2, <3>1 DEF Held
  <2> QED  BY <2>1, <2>2
<1>12. Writes(s, next.segments) \o Held(s, path, next, o + 1) = Flat(M, o + 1)
  <2> HIDE DEF F, K, M, next
  <2>1. (Flat(M, o) \o F) \o K = Flat(M, o) \o (F \o K)
    BY <1>9, Regroup
  <2> QED  BY <1>9, <1>10, <1>11, <2>1
<1>13. /\ next.deleting <=> o + 1 > 0 /\ Taken(D, (o + 1) - 1)
       /\ next.cursor <= o + 1
  <2>1. (o + 1) - 1 = o /\ o + 1 > 0 /\ o <= o + 1
    BY <1>1
  <2> HIDE DEF next
  <2> QED  BY <1>5, <1>6, <2>1
<1> HIDE DEF next
<1>14. SweepInv(s, r, n, path, next, o + 1)
  BY <1>12, <1>13 DEF SweepInv
<1> QED  BY <1>14 DEF next

\* The segments of a file write every byte the moves left, and every payload
\* at its offset.
LEMMA SegmentsMean ==
  ASSUME NEW s \in Snapshots, NEW r, NEW n, IsBatch(r, s, n), NEW path \in Paths,
         SoundDeletions(Deletions(r, path))
  PROVE  LET length == Len(s[path].bytes)
             segs == build_segments(path, length, Deletions(r, path),
                                    Insertions(r, path))
         IN  /\ segs \in Seq(Segments(s))
             /\ Writes(s, segs) = Flat(GapPieces(s, r, n, path), length + 1)
<1> DEFINE b == s[path].bytes
           N == Len(b)
           D == Deletions(r, path)
           I == Insertions(r, path)
           segs == build_segments(path, N, D, I)
           M == GapPieces(s, r, n, path)
<1>1. N \in Nat
  BY FileBytes
<1>2. PICK swept \in [0 .. N + 1 -> SweepState(s, N)] :
        /\ Sweeps(swept, path, N, D, I)
        /\ segs = swept[N + 1].segments \o Closing(path, N, swept[N + 1])
  BY SweepRuns
<1> DEFINE P == {k \in Nat : k <= N + 1 => SweepInv(s, r, n, path, swept[k], k)}
<1>3. 0 \in P
  <2>1. swept[0] = SweepStart
    BY <1>2 DEF Sweeps
  <2>2. Writes(s, << >>) = << >> /\ Flat(M, 0) = << >>
    BY WritesNone, FlattenNone
  <2>3. Held(s, path, SweepStart, 0) = << >>
    <3>1. b \in ByteStrings /\ 0 \in 0 .. N /\ 0 <= N
      BY <1>1, FileBytes
    <3>2. Slice(b, 0, 0) = << >>
      BY <3>1, SliceType
    <3> QED  BY <3>1, <3>2 DEF Held, SweepStart
  <2>4. << >> \o << >> = << >>
    OBVIOUS
  <2>5. SweepInv(s, r, n, path, SweepStart, 0)
    <3>1. ~SweepStart.deleting /\ SweepStart.cursor = 0 /\ SweepStart.segments = << >>
      BY DEF SweepStart
    <3>2. SweepStart.deleting <=> 0 > 0 /\ Taken(D, 0 - 1)
      BY <3>1
    <3>3. Writes(s, SweepStart.segments) \o Held(s, path, SweepStart, 0) = Flat(M, 0)
      <4> HIDE DEF M
      <4> QED  BY <2>2, <2>3, <2>4, <3>1
    <3>4. SweepStart.cursor <= 0
      BY <3>1
    <3> QED  BY <3>2, <3>3, <3>4 DEF SweepInv
  <2> QED  BY <2>1, <2>5
<1>4. ASSUME NEW k \in Nat, k \in P
      PROVE  k + 1 \in P
  <2> SUFFICES ASSUME k + 1 <= N + 1
               PROVE  SweepInv(s, r, n, path, swept[k + 1], k + 1)
    OBVIOUS
  <2>1. k \in 0 .. N /\ k \in 0 .. N + 1 /\ k + 1 \in 1 .. N + 1 /\ (k + 1) - 1 = k
    BY <1>1
  <2>2. SweepInv(s, r, n, path, swept[k], k) /\ swept[k] \in SweepState(s, N)
    <3>1. k <= N + 1 => SweepInv(s, r, n, path, swept[k], k)
      BY <1>4
    <3>2. k <= N + 1
      BY <1>1
    <3> QED  BY <1>2, <2>1, <3>1, <3>2
  <2>3. swept[k + 1] = IF k \in Points(D, I) THEN PointStep(path, D, I, swept[k], k)
                       ELSE swept[k]
    BY <1>2, <2>1 DEF Sweeps, SweepStep
  <2> HIDE DEF P
  <2>4. CASE k \in Points(D, I)
    BY <2>1, <2>2, <2>3, <2>4, EventStep
  <2>5. CASE k \notin Points(D, I)
    BY <2>1, <2>2, <2>3, <2>5, QuietStep
  <2> QED  BY <2>4, <2>5
<1>5. SweepInv(s, r, n, path, swept[N + 1], N + 1)
  <2>1. \A k \in Nat : k \in P
    <3> HIDE DEF P
    <3> QED  BY <1>3, <1>4, SetInduction
  <2>2. N + 1 \in Nat /\ N + 1 <= N + 1
    BY <1>1
  <2> QED  BY <2>1, <2>2
<1> DEFINE end == swept[N + 1]
           last == Closing(path, N, end)
<1>6. end.segments \in Seq(Segments(s)) /\ end.cursor \in 0 .. N
      /\ end.deleting \in BOOLEAN
  <2>1. end \in SweepState(s, N)
    BY <1>1, <1>2
  <2> HIDE DEF end
  <2> QED  BY <2>1 DEF SweepState
<1>7. /\ Writes(s, end.segments) \o Held(s, path, end, N + 1) = Flat(M, N + 1)
  BY <1>5 DEF SweepInv
<1> HIDE DEF end
<1>8. last \in Seq(Segments(s)) /\ Writes(s, last) = Held(s, path, end, N + 1)
  <2>1. CASE end.deleting
    <3>1. last = << >> /\ Held(s, path, end, N + 1) = << >>
      BY <2>1 DEF Closing, Held
    <3>2. << >> \in Seq(Segments(s))
      OBVIOUS
    <3> QED  BY <3>1, <3>2, WritesNone
  <2>2. CASE ~end.deleting
    <3>1. last = IF end.cursor < N THEN << OriginalSlice(path, end.cursor, N) >>
                 ELSE << >>
      BY <2>2 DEF Closing
    <3>2. Held(s, path, end, N + 1) = Slice(b, end.cursor, N)
      BY <1>1, <2>2 DEF Held
    <3>3. PICK from \in Nat : from = end.cursor
      BY <1>1, <1>6
    <3>4. PICK to \in 0 .. Len(s[path].bytes) : to = N
      BY <1>1
    <3>5. last = IF from < to THEN << OriginalSlice(path, from, to) >> ELSE << >>
      BY <3>1, <3>3, <3>4
    <3>6. from <= to
      BY <1>1, <1>6, <3>3, <3>4
    <3> HIDE DEF last
    <3>7. last \in Seq(Segments(s)) /\ Writes(s, last) = Slice(s[path].bytes, from, to)
      BY <3>5, <3>6, RunWrites
    <3> QED  BY <3>2, <3>3, <3>4, <3>7
  <2> QED  BY <1>6, <2>1, <2>2
<1>9. segs \in Seq(Segments(s)) /\ Writes(s, segs) = Flat(M, N + 1)
  <2>1. segs = end.segments \o last
    BY <1>2 DEF end
  <2> HIDE DEF segs, last, M
  <2>2. end.segments \o last \in Seq(Segments(s))
        /\ Writes(s, end.segments \o last)
             = Writes(s, end.segments) \o Writes(s, last)
    BY <1>6, <1>8, WritesBoth
  <2> QED  BY <1>7, <1>8, <2>1, <2>2
<1> QED  BY <1>9

-----------------------------------------------------------------------------
(***************************************************************************)
(* One pass over the segments.                                             *)
(***************************************************************************)
\* Equal concatenations of equally long parts have equal parts.
LEMMA ConcatSplit ==
  ASSUME NEW x \in ByteStrings, NEW y \in ByteStrings, NEW u \in ByteStrings, NEW v \in ByteStrings,
         Len(x) = Len(u), x \o y = u \o v
  PROVE  x = u /\ y = v
<1>1. /\ Len(x) \in Nat /\ Len(y) \in Nat /\ Len(v) \in Nat
      /\ Len(x \o y) = Len(x) + Len(y)
      /\ \A i \in 1 .. Len(x) + Len(y) :
           (x \o y)[i] = IF i <= Len(x) THEN x[i] ELSE y[i - Len(x)]
  BY ConcatProperties DEF ByteStrings
<1>2. /\ Len(u \o v) = Len(u) + Len(v)
      /\ \A i \in 1 .. Len(u) + Len(v) :
           (u \o v)[i] = IF i <= Len(u) THEN u[i] ELSE v[i - Len(u)]
  BY ConcatProperties DEF ByteStrings
<1>3. Len(y) = Len(v)
  BY <1>1, <1>2
<1>4. \A i \in 1 .. Len(x) : x[i] = u[i]
  <2> SUFFICES ASSUME NEW i \in 1 .. Len(x)
               PROVE  x[i] = u[i]
    OBVIOUS
  <2>1. i \in 1 .. Len(x) + Len(y) /\ i <= Len(x)
    BY <1>1
  <2> QED  BY <1>1, <1>2, <1>3, <2>1
<1>5. \A i \in 1 .. Len(y) : y[i] = v[i]
  <2> SUFFICES ASSUME NEW i \in 1 .. Len(y)
               PROVE  y[i] = v[i]
    OBVIOUS
  <2>1. /\ Len(x) + i \in 1 .. Len(x) + Len(y) /\ ~(Len(x) + i <= Len(x))
        /\ (Len(x) + i) - Len(x) = i
    BY <1>1
  <2> QED  BY <1>1, <1>2, <1>3, <2>1
<1>6. x = u
  BY <1>4, SeqEqual DEF ByteStrings
<1>7. y = v
  BY <1>3, <1>5, SeqEqual DEF ByteStrings
<1> QED  BY <1>6, <1>7

\* The state of the pass: what it has hashed and whether the original starts
\* with it.
StreamState == [digest : ByteStrings, length : Nat, equals : BOOLEAN]

StreamInv(state, file, written) ==
  /\ state.digest = written /\ state.length = Len(written)
  /\ state.equals <=> /\ file.present /\ state.length <= Len(file.bytes)
                      /\ Slice(file.bytes, 0, state.length) = written

\* One chunk.
ChunkOf(file, state, bytes) ==
  [digest |-> state.digest \o bytes, length |-> state.length + Len(bytes),
   equals |-> /\ state.equals /\ state.length + Len(bytes) <= Len(file.bytes)
              /\ Slice(file.bytes, state.length, state.length + Len(bytes)) = bytes]

\* One chunk of the comparison with the original.
LEMMA ChunkStep ==
  ASSUME NEW file \in FileEntry, NEW state, NEW written \in ByteStrings, NEW bytes \in ByteStrings,
         StreamInv(state, file, written)
  PROVE  StreamInv(ChunkOf(file, state, bytes), file, written \o bytes)
<1> DEFINE next == ChunkOf(file, state, bytes)
           b == file.bytes
           l == state.length
           e == l + Len(bytes)
<1>1. b \in ByteStrings /\ Len(b) \in Nat /\ Len(bytes) \in Nat /\ Len(written) \in Nat
  BY DEF FileEntry, ByteStrings
<1>2. /\ next.digest = state.digest \o bytes /\ next.length = e
      /\ next.equals <=> /\ state.equals /\ e <= Len(b)
                         /\ Slice(b, l, e) = bytes
  BY DEF ChunkOf
<1>3. /\ state.digest = written /\ l = Len(written)
      /\ state.equals <=> file.present /\ l <= Len(b) /\ Slice(b, 0, l) = written
  BY DEF StreamInv
<1> HIDE DEF next, b
<1>4. e = Len(written \o bytes) /\ l \in Nat /\ l <= e
  <2>1. Len(written \o bytes) = Len(written) + Len(bytes)
    BY ConcatProperties DEF ByteStrings
  <2> QED  BY <1>1, <1>3, <2>1
<1>5. ASSUME e <= Len(b)
      PROVE  /\ Slice(b, 0, l) \in ByteStrings /\ Len(Slice(b, 0, l)) = l
             /\ Slice(b, l, e) \in ByteStrings
             /\ Slice(b, 0, l) \o Slice(b, l, e) = Slice(b, 0, e)
  <2>1. /\ e \in 0 .. Len(b) /\ l \in 0 .. Len(b) /\ 0 <= l /\ l \in Nat /\ e \in Nat
        /\ l - 0 = l
    BY <1>1, <1>4, <1>5
  <2> HIDE DEF e, l
  <2>2. Slice(b, 0, l) \in ByteStrings /\ Len(Slice(b, 0, l)) = l
    BY <1>1, <2>1, SliceType
  <2>3. Slice(b, l, e) \in ByteStrings
    BY <1>1, <2>1, SliceType
  <2>4. Slice(b, 0, l) \o Slice(b, l, e) = Slice(b, 0, e)
    BY <1>1, <1>4, <2>1, SliceJoin
  <2> QED  BY <2>2, <2>3, <2>4
<1>6. next.equals <=> file.present /\ e <= Len(b) /\ Slice(b, 0, e) = written \o bytes
  <2> HIDE DEF l, e
  <2>1. ASSUME next.equals
        PROVE  file.present /\ e <= Len(b) /\ Slice(b, 0, e) = written \o bytes
    <3>1. file.present /\ e <= Len(b) /\ Slice(b, 0, l) = written /\ Slice(b, l, e) = bytes
      BY <1>2, <1>3, <2>1
    <3> QED  BY <1>5, <3>1
  <2>2. ASSUME file.present, e <= Len(b), Slice(b, 0, e) = written \o bytes
        PROVE  next.equals
    <3>1. /\ Slice(b, 0, l) \in ByteStrings /\ Len(Slice(b, 0, l)) = Len(written)
          /\ Slice(b, l, e) \in ByteStrings
          /\ Slice(b, 0, l) \o Slice(b, l, e) = written \o bytes
      BY <1>3, <1>5, <2>2
    <3>2. Slice(b, 0, l) = written /\ Slice(b, l, e) = bytes
      BY <3>1, ConcatSplit
    <3>3. l <= Len(b)
      BY <1>1, <1>3, <1>4, <2>2 DEF e
    <3> QED  BY <1>2, <1>3, <2>2, <3>2, <3>3
  <2> QED  BY <2>1, <2>2
<1>7. next.length = Len(written \o bytes) /\ next.digest = written \o bytes
  BY <1>2, <1>3, <1>4
<1>8. StreamInv(next, file, written \o bytes)
  <2> HIDE DEF e, l
  <2> QED  BY <1>2, <1>6, <1>7 DEF StreamInv, b
<1> QED  BY <1>8 DEF next

\* At the end the two agree exactly when the original was written.
LEMMA StreamEnd ==
  ASSUME NEW file \in FileEntry, NEW state, NEW written \in ByteStrings,
         StreamInv(state, file, written)
  PROVE  state.equals /\ state.length = Len(file.bytes)
           <=> file.present /\ written = file.bytes
<1>1. file.bytes \in ByteStrings /\ Len(file.bytes) \in Nat /\ Len(written) \in Nat
  BY DEF FileEntry, ByteStrings
<1>2. Slice(file.bytes, 0, Len(file.bytes)) = file.bytes
  BY <1>1, SliceAll
<1>3. /\ state.length = Len(written)
      /\ state.equals <=> /\ file.present /\ state.length <= Len(file.bytes)
                          /\ Slice(file.bytes, 0, state.length) = written
  BY DEF StreamInv
<1>4. ASSUME state.equals, state.length = Len(file.bytes)
      PROVE  file.present /\ written = file.bytes
  BY <1>2, <1>3, <1>4
<1>5. ASSUME file.present, written = file.bytes
      PROVE  state.equals /\ state.length = Len(file.bytes)
  <2>1. state.length = Len(file.bytes) /\ state.length <= Len(file.bytes)
    BY <1>1, <1>3, <1>5
  <2> QED  BY <1>2, <1>3, <1>5, <2>1
<1> QED  BY <1>4, <1>5

\* The pass returns what the segments write, its length, and whether it is
\* the original.
LEMMA StreamOutput ==
  ASSUME NEW s \in Snapshots, NEW path \in Paths, NEW segs \in Seq(Segments(s))
  PROVE  LET streamed == stream_output(s, path, segs)
         IN  /\ streamed.digest = Writes(s, segs)
             /\ streamed.length = Len(Writes(s, segs))
             /\ streamed.equals <=> s[path].present /\ Writes(s, segs) = s[path].bytes
<1> DEFINE file == s[path]
           m == Len(segs)
           F == [k \in 1 .. m |-> SegmentBytes(s, segs[k])]
           start == [digest |-> << >>, length |-> 0, equals |-> file.present]
           next == [a \in StreamState \X (1 .. m) |-> ChunkOf(file, a[1], F[a[2]])]
           Eq(f) == f = [k \in 0 .. m |->
                           IF k = 0
                           THEN [digest |-> << >>, length |-> 0, equals |-> file.present]
                           ELSE ChunkOf(file, f[k - 1], SegmentBytes(s, segs[k]))]
           g == CHOOSE f : Eq(f)
<1>1. file \in FileEntry /\ file.bytes \in ByteStrings /\ Len(file.bytes) \in Nat
      /\ file.present \in BOOLEAN
  BY FileBytes DEF FileEntry
<1>2. m \in Nat /\ Sequences(F, m, 0 .. 255)
  BY WritesEach
<1>3. \A k \in 1 .. m : F[k] \in ByteStrings /\ F[k] = SegmentBytes(s, segs[k])
  BY <1>2 DEF Sequences, ByteStrings
<1>4. /\ stream_output(s, path, segs).digest = g[m].digest
      /\ stream_output(s, path, segs).length = g[m].length
      /\ stream_output(s, path, segs).equals
           = (g[m].equals /\ g[m].length = Len(file.bytes))
  BY DEF stream_output, ChunkOf
<1> HIDE DEF file, F
<1>5. start \in StreamState
  <2>1. << >> \in ByteStrings
    BY DEF ByteStrings
  <2> QED  BY <1>1, <2>1 DEF StreamState
<1>6. next \in [StreamState \X (1 .. m) -> StreamState]
  <2> SUFFICES ASSUME NEW a \in StreamState \X (1 .. m)
               PROVE  ChunkOf(file, a[1], F[a[2]]) \in StreamState
    OBVIOUS
  <2>1. /\ a[1].digest \in ByteStrings /\ a[1].length \in Nat /\ a[1].equals \in BOOLEAN
        /\ F[a[2]] \in ByteStrings
    BY <1>3 DEF StreamState
  <2>2. a[1].digest \o F[a[2]] \in ByteStrings
    BY <2>1, Regroup
  <2>3. a[1].length + Len(F[a[2]]) \in Nat
    BY <2>1 DEF ByteStrings
  <2>4. /\ a[1].equals /\ a[1].length + Len(F[a[2]]) <= Len(file.bytes)
        /\ Slice(file.bytes, a[1].length, a[1].length + Len(F[a[2]])) = F[a[2]]
        \in BOOLEAN
    OBVIOUS
  <2> QED  BY <2>2, <2>3, <2>4 DEF ChunkOf, StreamState
<1>7. PICK f \in [0 .. m -> StreamState] : IsRun(f, start, next, m)
  <2> HIDE DEF next, start, m
  <2> QED  BY <1>2, <1>5, <1>6, RunExists
<1>8. Eq(f)
  <2>1. f = [k \in 0 .. m |-> f[k]]
    BY <1>7
  <2>2. ASSUME NEW k \in 0 .. m
        PROVE  f[k] = IF k = 0 THEN start
                      ELSE ChunkOf(file, f[k - 1], SegmentBytes(s, segs[k]))
    <3>1. CASE k = 0
      BY <1>7, <3>1 DEF IsRun
    <3>2. CASE k # 0
      <4>1. k \in 1 .. m /\ k - 1 \in 0 .. m
        BY <1>2, <3>2
      <4>2. f[k - 1] \in StreamState
        BY <1>7, <4>1
      <4>3. next[<<f[k - 1], k>>] = ChunkOf(file, f[k - 1], F[k])
        BY <4>1, <4>2
      <4> HIDE DEF next
      <4>4. f[k] = next[<<f[k - 1], k>>]
        BY <1>7, <4>1 DEF IsRun
      <4> QED  BY <1>3, <3>2, <4>1, <4>3, <4>4
    <3> QED  BY <3>1, <3>2
  <2> QED  BY <2>1, <2>2
<1>9. Eq(g)
  <2> HIDE DEF Eq
  <2> QED  BY <1>8
<1> HIDE DEF g
<1>10. /\ g[0] = start
       /\ \A k \in 1 .. m : g[k] = ChunkOf(file, g[k - 1], F[k])
  <2>1. g[0] = start
    BY <1>2, <1>9
  <2>2. ASSUME NEW k \in 1 .. m
        PROVE  g[k] = ChunkOf(file, g[k - 1], F[k])
    <3>1. k \in 0 .. m /\ k # 0
      BY <1>2
    <3> QED  BY <1>3, <1>9, <3>1
  <2> QED  BY <2>1, <2>2
<1> DEFINE P == {k \in Nat : k <= m => Flat(F, k) \in ByteStrings
                                       /\ StreamInv(g[k], file, Flat(F, k))}
<1>11. 0 \in P
  <2>1. Flat(F, 0) = << >> /\ << >> \in ByteStrings /\ Len(<< >>) = 0
    BY FlattenNone DEF ByteStrings
  <2>2. Slice(file.bytes, 0, 0) = << >>
    <3>1. 0 \in 0 .. Len(file.bytes)
      BY <1>1
    <3> QED  BY <1>1, <3>1, SliceType
  <2>3. 0 <= Len(file.bytes)
    BY <1>1
  <2>4. StreamInv(start, file, << >>)
    BY <1>1, <2>1, <2>2, <2>3 DEF StreamInv
  <2> HIDE DEF start
  <2> QED  BY <1>10, <2>1, <2>4
<1>12. ASSUME NEW k \in Nat, k \in P
       PROVE  k + 1 \in P
  <2> SUFFICES ASSUME k + 1 <= m
               PROVE  Flat(F, k + 1) \in ByteStrings
                      /\ StreamInv(g[k + 1], file, Flat(F, k + 1))
    OBVIOUS
  <2>1. k + 1 \in 1 .. m /\ (k + 1) - 1 = k /\ k <= m
    BY <1>2
  <2>2. Flat(F, k) \in ByteStrings /\ StreamInv(g[k], file, Flat(F, k))
    BY <1>12, <2>1
  <2>3. Sequences(F, k + 1, 0 .. 255)
    BY <1>2, <2>1 DEF Sequences
  <2>4. Flat(F, k + 1) = Flat(F, k) \o F[k + 1]
    BY <2>3, FlattenNext
  <2>5. F[k + 1] \in ByteStrings /\ g[k + 1] = ChunkOf(file, g[k], F[k + 1])
    BY <1>3, <1>10, <2>1
  <2> HIDE DEF P
  <2>6. StreamInv(ChunkOf(file, g[k], F[k + 1]), file, Flat(F, k) \o F[k + 1])
    BY <1>1, <2>2, <2>5, ChunkStep
  <2>7. Flat(F, k) \o F[k + 1] \in ByteStrings
    BY <2>2, <2>5, Regroup
  <2> QED  BY <2>4, <2>5, <2>6, <2>7
<1>13. Flat(F, m) \in ByteStrings /\ StreamInv(g[m], file, Flat(F, m))
  <2>1. \A k \in Nat : k \in P
    <3> HIDE DEF P
    <3> QED  BY <1>11, <1>12, SetInduction
  <2> QED  BY <1>2, <2>1
<1>14. Flat(F, m) = Writes(s, segs)
  BY DEF Writes, F
<1>15. g[m].equals /\ g[m].length = Len(file.bytes)
         <=> file.present /\ Writes(s, segs) = file.bytes
  BY <1>1, <1>13, <1>14, StreamEnd
<1>16. g[m].digest = Writes(s, segs) /\ g[m].length = Len(Writes(s, segs))
  BY <1>13, <1>14 DEF StreamInv
<1> QED  BY <1>4, <1>15, <1>16 DEF file

\* What is planned for an output.
LEMMA OutputMeans ==
  ASSUME NEW s \in Snapshots, NEW r, NEW n, IsBatch(r, s, n), NEW path \in Paths,
         ~Overlaps(Deletions(r, path))
  PROVE  LET output == PlannedOutput(s, r, path)
             means == Flat(GapPieces(s, r, n, path), Len(s[path].bytes) + 1)
         IN  /\ output.path = path /\ output.digest = means
             /\ output.length = Len(means)
             /\ means \in ByteStrings
             /\ output.segments \in Seq(Segments(s))
             /\ Writes(s, output.segments) = means
             /\ output.change = "Unchanged"
                  <=> s[path].present /\ means = s[path].bytes
<1> DEFINE segs == build_segments(path, Len(s[path].bytes), Deletions(r, path),
                                  Insertions(r, path))
           streamed == stream_output(s, path, segs)
           output == PlannedOutput(s, r, path)
           means == Flat(GapPieces(s, r, n, path), Len(s[path].bytes) + 1)
<1>1. SoundDeletions(Deletions(r, path))
  BY DeletionsAreSound
<1>2. segs \in Seq(Segments(s)) /\ Writes(s, segs) = means
  BY <1>1, SegmentsMean
<1>3. /\ output.path = path /\ output.digest = streamed.digest
      /\ output.length = streamed.length /\ output.segments = segs
      /\ output.change = classify_output(s[path].present, streamed.length,
                                         streamed.equals)
  BY DEF PlannedOutput
<1> HIDE DEF segs
<1>4. /\ streamed.digest = Writes(s, segs)
      /\ streamed.length = Len(Writes(s, segs))
      /\ streamed.equals <=> s[path].present /\ Writes(s, segs) = s[path].bytes
  BY <1>2, StreamOutput
<1>5. means \in ByteStrings
  BY <1>2, WritesType
<1> HIDE DEF streamed, means, output
<1>6. output.change = "Unchanged" <=> s[path].present /\ means = s[path].bytes
  BY <1>2, <1>3, <1>4 DEF classify_output
<1> QED  BY <1>2, <1>3, <1>4, <1>5, <1>6 DEF means, output

-----------------------------------------------------------------------------
(***************************************************************************)
(* A plan and its meaning.                                                 *)
(***************************************************************************)
MeansOf(s, r, n, path) == Flat(GapPieces(s, r, n, path), Len(s[path].bytes) + 1)

\* The meaning of the planned batch, gap by gap.
LEMMA MeaningIsPieces ==
  ASSUME NEW n, IsBatch(planned.operations, snapshot, n), snapshot \in Snapshots,
         NEW path \in Paths
  PROVE  Meaning(path) = MeansOf(snapshot, planned.operations, n, path)
<1> DEFINE s == snapshot
           r == planned.operations
           b == s[path].bytes
           N == Len(b)
           Inserts(o) == [i \in DOMAIN r |->
                            IF r[i] \in Effective /\ r[i].destination = path
                               /\ r[i].offset = o
                            THEN r[i].selected ELSE << >>]
           Piece(g) == FlattenSeq(Inserts(g - 1)) \o
                       (IF g <= N /\ Takers(path, g - 1) = {} THEN << b[g] >>
                        ELSE << >>)
<1>1. N \in Nat /\ n \in Nat /\ DOMAIN r = 1 .. n
  BY FileBytes DEF IsBatch
<1>2. Meaning(path) = FlattenSeq([g \in 1 .. N + 1 |-> Piece(g)])
  BY DEF Meaning
<1>3. ASSUME NEW o
      PROVE  FlattenSeq(Inserts(o)) = Flat(InsertedBy(r, path, o), n)
  <2>1. \A i \in 1 .. n : r[i] \in Range(r)
    BY <1>1 DEF Range
  <2>2. \A i \in 1 .. n :
          r[i] \in Here(r, path, o) <=>
            r[i] \in Effective /\ r[i].destination = path /\ r[i].offset = o
    BY <2>1 DEF Here, Insertions, Effective
  <2>3. Inserts(o) = [k \in 1 .. n |-> InsertedBy(r, path, o)[k]]
    BY <1>1, <2>2 DEF InsertedBy
  <2> QED  BY <2>3 DEF Flat
<1>4. ASSUME NEW o
      PROVE  Takers(path, o) = {} <=> ~Taken(Deletions(r, path), o)
  <2>1. \A op : op \in Takers(path, o) <=>
                  op \in Deletions(r, path) /\ op.start <= o /\ o < op.end
    BY DEF Takers, Effective, Deletions
  <2> QED  BY <2>1 DEF Taken
<1>5. \A g \in 1 .. N + 1 : Piece(g) = GapPieces(s, r, n, path)[g]
  <2> SUFFICES ASSUME NEW g \in 1 .. N + 1
               PROVE  Piece(g) = GapPieces(s, r, n, path)[g]
    OBVIOUS
  <2>1. GapPieces(s, r, n, path)[g]
          = Flat(InsertedBy(r, path, g - 1), n) \o KeptByte(s, r, path, g)
    BY DEF GapPieces
  <2>2. FlattenSeq(Inserts(g - 1)) = Flat(InsertedBy(r, path, g - 1), n)
    BY <1>3
  <2>3. KeptByte(s, r, path, g)
          = IF g <= N /\ Takers(path, g - 1) = {} THEN << b[g] >> ELSE << >>
    BY <1>4 DEF KeptByte
  <2> QED  BY <2>1, <2>2, <2>3
<1>6. [g \in 1 .. N + 1 |-> Piece(g)] = [g \in 1 .. N + 1 |-> GapPieces(s, r, n, path)[g]]
  <2> HIDE DEF Piece
  <2> QED  BY <1>5
<1> HIDE DEF Piece
<1> QED  BY <1>2, <1>6 DEF Flat, MeansOf

\* A file that no operation changes keeps its bytes.
LEMMA UntouchedMeans ==
  ASSUME NEW s \in Snapshots, NEW r, NEW n, IsBatch(r, s, n), NEW path \in Paths,
         path \notin OutputPaths(r)
  PROVE  MeansOf(s, r, n, path) = s[path].bytes
<1> DEFINE b == s[path].bytes
           N == Len(b)
           M == GapPieces(s, r, n, path)
<1>1. b \in ByteStrings /\ N \in Nat
  BY FileBytes
<1>2. Deletions(r, path) = {} /\ Insertions(r, path) = {}
  BY DEF OutputPaths, Deletions, Insertions
<1>3. /\ SoundDeletions(Deletions(r, path))
      /\ Points(Deletions(r, path), Insertions(r, path)) = {}
      /\ \A o : ~Taken(Deletions(r, path), o)
  BY <1>2 DEF SoundDeletions, Points, Taken
<1>4. SweepStart \in SweepState(s, N)
  <2>1. << >> \in Seq(Segments(s)) /\ 0 \in 0 .. N
    BY <1>1
  <2> QED  BY <2>1 DEF SweepStart, SweepState
<1> DEFINE P == {k \in Nat : k <= N + 1 => SweepInv(s, r, n, path, SweepStart, k)}
<1>5. 0 \in P
  <2>1. Writes(s, << >>) = << >> /\ Flat(M, 0) = << >>
    BY WritesNone, FlattenNone
  <2>2. Held(s, path, SweepStart, 0) = << >>
    <3>1. b \in ByteStrings /\ 0 \in 0 .. N /\ 0 <= N
      BY <1>1, FileBytes
    <3>2. Slice(b, 0, 0) = << >>
      BY <3>1, SliceType
    <3> QED  BY <3>1, <3>2 DEF Held, SweepStart
  <2>3. << >> \o << >> = << >>
    OBVIOUS
  <2>4. ~SweepStart.deleting /\ SweepStart.cursor = 0 /\ SweepStart.segments = << >>
    BY DEF SweepStart
  <2>5. Writes(s, SweepStart.segments) \o Held(s, path, SweepStart, 0) = Flat(M, 0)
    <3> HIDE DEF M
    <3> QED  BY <2>1, <2>2, <2>3, <2>4
  <2>6. SweepStart.cursor <= 0
    BY <2>4
  <2>7. SweepInv(s, r, n, path, SweepStart, 0)
    BY <1>3, <2>4, <2>5, <2>6 DEF SweepInv
  <2> QED  BY <2>7
<1>6. ASSUME NEW k \in Nat, k \in P
      PROVE  k + 1 \in P
  <2> SUFFICES ASSUME k + 1 <= N + 1
               PROVE  SweepInv(s, r, n, path, SweepStart, k + 1)
    OBVIOUS
  <2>1. k \in 0 .. N /\ k <= N + 1
    BY <1>1
  <2>2. SweepInv(s, r, n, path, SweepStart, k)
    BY <1>6, <2>1
  <2> HIDE DEF P
  <2> QED  BY <1>3, <1>4, <2>1, <2>2, QuietStep
<1>7. SweepInv(s, r, n, path, SweepStart, N + 1)
  <2>1. \A k \in Nat : k \in P
    <3> HIDE DEF P
    <3> QED  BY <1>5, <1>6, SetInduction
  <2>2. N + 1 \in Nat /\ N + 1 <= N + 1
    BY <1>1
  <2> QED  BY <2>1, <2>2
<1>8. Writes(s, SweepStart.segments) = << >>
  BY WritesNone DEF SweepStart
<1>9. Held(s, path, SweepStart, N + 1) = b
  <2>1. Held(s, path, SweepStart, N + 1) = Slice(b, 0, N)
    BY <1>1 DEF Held, SweepStart
  <2> QED  BY <1>1, <2>1, SliceAll
<1>10. << >> \o b = b
  BY <1>1, Regroup
<1>11. Writes(s, SweepStart.segments) \o Held(s, path, SweepStart, N + 1) = Flat(M, N + 1)
  BY <1>7 DEF SweepInv
<1> HIDE DEF M
<1>12. Flat(M, N + 1) = b
  BY <1>8, <1>9, <1>10, <1>11
<1> QED  BY <1>12 DEF MeansOf, M

\* What an accepted plan consists of.
PlanParts(p, s, r, n) ==
  /\ IsBatch(r, s, n) /\ p.operations = r /\ p.outputs = OutputsOf(s, r)
  /\ \A path \in OutputPaths(r) : /\ path \in Paths
                                  /\ ~Overlaps(Deletions(r, path))
                                  /\ OutputError(s, r, path).ok

\* A plan of a batch has these parts.
LEMMA PartsOfPlan ==
  ASSUME NEW s \in Snapshots, NEW b \in Seq(Operations), plan(s, b).ok
  PROVE  PlanParts(plan(s, b), s, ResolvedAll(s, b), Len(b))
<1> DEFINE r == ResolvedAll(s, b)
           v(p) == validate_edit_conflicts(Deletions(r, p), Insertions(r, p))
<1>1. plan(s, b) = Accepted(s, r) /\ Unresolved(s, b).ok /\ OutputRefusal(s, r).ok
  BY AcceptedPlan
<1>2. IsBatch(r, s, Len(b))
  BY <1>1, ResolvedIsBatch
<1> HIDE DEF r
<1>3. \A p \in OutputPaths(r) : OutputError(s, r, p).ok
  BY <1>1, <1>2, OutputChecks
<1>4. ASSUME NEW p \in OutputPaths(r)
      PROVE  v(p).ok
  <2>1. ~v(p).ok => OutputError(s, r, p) = v(p)
    BY DEF OutputError
  <2> QED  BY <1>3, <2>1
<1>5. \A p \in OutputPaths(r) : ~Overlaps(Deletions(r, p))
  BY <1>2, <1>4, ConflictsAt
<1>6. OutputPaths(r) \subseteq Paths
  BY <1>2, OutputList
<1>7. plan(s, b).operations = r /\ plan(s, b).outputs = OutputsOf(s, r)
  BY <1>1 DEF Accepted
<1>8. PlanParts(plan(s, b), s, r, Len(b))
  BY <1>2, <1>3, <1>5, <1>6, <1>7 DEF PlanParts
<1> QED  BY <1>8 DEF r

\* Every output of a plan is that of a path the batch changes, and each such
\* path has one.
Listed(outputs, s, r) ==
  /\ \E m \in Nat : DOMAIN outputs = 1 .. m
  /\ \A k \in DOMAIN outputs :
       \E path \in OutputPaths(r) : outputs[k] = PlannedOutput(s, r, path)
  /\ \A path \in OutputPaths(r) :
       \E k \in DOMAIN outputs : outputs[k] = PlannedOutput(s, r, path)

\* The outputs of a plan are in this list.
LEMMA OutputsListed ==
  ASSUME NEW p, NEW s \in Snapshots, NEW r, NEW n, PlanParts(p, s, r, n)
  PROVE  Listed(p.outputs, s, r)
<1> DEFINE paths == InOrder(OutputPaths(r))
           m == Cardinality(OutputPaths(r))
<1>1. p.outputs = OutputsOf(s, r) /\ IsBatch(r, s, n)
  BY DEF PlanParts
<1>2. /\ m \in Nat /\ DOMAIN paths = 1 .. m
      /\ \A k \in 1 .. m : paths[k] \in OutputPaths(r)
      /\ \A path \in OutputPaths(r) : \E k \in 1 .. m : paths[k] = path
  BY <1>1, OutputList
<1>3. p.outputs = [k \in DOMAIN paths |-> PlannedOutput(s, r, paths[k])]
  BY <1>1 DEF OutputsOf
<1> HIDE DEF paths, m
<1>4. DOMAIN p.outputs = 1 .. m
      /\ \A k \in 1 .. m : p.outputs[k] = PlannedOutput(s, r, paths[k])
  BY <1>2, <1>3
<1> QED  BY <1>2, <1>4 DEF Listed

\* An output of a plan is what the batch means for its path.
LEMMA OutputOfPlan ==
  ASSUME NEW p, NEW s \in Snapshots, NEW r, NEW n, PlanParts(p, s, r, n),
         NEW k \in DOMAIN p.outputs
  PROVE  LET output == p.outputs[k]
         IN  /\ output.path \in OutputPaths(r) /\ output.path \in Paths
             /\ output = PlannedOutput(s, r, output.path)
             /\ output.digest = MeansOf(s, r, n, output.path)
             /\ output.digest \in ByteStrings
             /\ output.length = Len(output.digest)
             /\ output.segments \in Seq(Segments(s))
             /\ Writes(s, output.segments) = output.digest
             /\ output.change = "Unchanged"
                  <=> s[output.path].present /\ output.digest = s[output.path].bytes
             /\ output.change # "Unchanged" /\ s[output.path].present
                  => s[output.path].links = 1
<1>1. PICK path \in OutputPaths(r) : p.outputs[k] = PlannedOutput(s, r, path)
  <2>1. Listed(p.outputs, s, r)
    BY OutputsListed
  <2> QED  BY <2>1 DEF Listed
<1> DEFINE output == PlannedOutput(s, r, path)
<1>2. IsBatch(r, s, n) /\ path \in Paths /\ ~Overlaps(Deletions(r, path))
      /\ OutputError(s, r, path).ok
  BY DEF PlanParts
<1>3. /\ output.path = path /\ output.digest = MeansOf(s, r, n, path)
      /\ output.length = Len(output.digest)
      /\ output.digest \in ByteStrings
      /\ output.segments \in Seq(Segments(s))
      /\ Writes(s, output.segments) = output.digest
      /\ output.change = "Unchanged"
           <=> s[path].present /\ output.digest = s[path].bytes
  <2> DEFINE means == Flat(GapPieces(s, r, n, path), Len(s[path].bytes) + 1)
  <2>1. /\ output.path = path /\ output.digest = means
        /\ output.length = Len(means) /\ means \in ByteStrings
        /\ output.segments \in Seq(Segments(s))
        /\ Writes(s, output.segments) = means
        /\ output.change = "Unchanged" <=> s[path].present /\ means = s[path].bytes
    BY <1>2, OutputMeans
  <2>2. MeansOf(s, r, n, path) = means
    BY DEF MeansOf
  <2> HIDE DEF output, means
  <2> QED  BY <2>1, <2>2
<1>4. output.change # "Unchanged" /\ s[path].present => s[path].links = 1
  <2> SUFFICES ASSUME output.change # "Unchanged", s[path].present, s[path].links # 1
               PROVE  FALSE
    OBVIOUS
  <2>1. ~Refused("hard_link_not_supported").ok
    BY DEF Refused, ConflictAt
  <2>2. OutputError(s, r, path)
          = IF ~validate_edit_conflicts(Deletions(r, path), Insertions(r, path)).ok
            THEN validate_edit_conflicts(Deletions(r, path), Insertions(r, path))
            ELSE Refused("hard_link_not_supported")
    BY DEF OutputError
  <2> HIDE DEF output
  <2> QED  BY <1>2, <2>1, <2>2
<1> HIDE DEF output
<1> QED  BY <1>1, <1>2, <1>3, <1>4 DEF output

\* The result at a path is what the batch means there, whether it is an
\* output or not.
LEMMA ResultMeans ==
  ASSUME snapshot \in Snapshots, NEW p, NEW r, NEW n, PlanParts(p, snapshot, r, n),
         NEW path \in Paths
  PROVE  ResultOf(p, path) = MeansOf(snapshot, r, n, path)
<1> DEFINE here == {k \in DOMAIN p.outputs : p.outputs[k].path = path}
<1>1. IsBatch(r, snapshot, n)
  BY DEF PlanParts
<1>2. CASE here = {}
  <2>1. path \notin OutputPaths(r)
    <3> SUFFICES ASSUME path \in OutputPaths(r)
                 PROVE  FALSE
      OBVIOUS
    <3>1. PICK k \in DOMAIN p.outputs : p.outputs[k] = PlannedOutput(snapshot, r, path)
      <4>1. Listed(p.outputs, snapshot, r)
        BY OutputsListed
      <4> QED  BY <4>1 DEF Listed
    <3>2. p.outputs[k].path = path
      BY <3>1 DEF PlannedOutput
    <3> QED  BY <1>2, <3>2
  <2>2. MeansOf(snapshot, r, n, path) = snapshot[path].bytes
    BY <1>1, <2>1, UntouchedMeans
  <2> QED  BY <1>2, <2>2 DEF ResultOf
<1>3. CASE here # {}
  <2>1. ResultOf(p, path) = p.outputs[CHOOSE k \in here : TRUE].digest
    BY <1>3 DEF ResultOf
  <2>2. (CHOOSE k \in here : TRUE) \in here
    BY <1>3
  <2>3. PICK k \in DOMAIN p.outputs :
               p.outputs[k].path = path /\ ResultOf(p, path) = p.outputs[k].digest
    BY <2>1, <2>2
  <2>4. p.outputs[k].digest = MeansOf(snapshot, r, n, p.outputs[k].path)
    <3>1. PICK s \in Snapshots : s = snapshot
      OBVIOUS
    <3>2. PlanParts(p, s, r, n)
      BY <3>1
    <3>3. p.outputs[k].digest = MeansOf(s, r, n, p.outputs[k].path)
      BY <3>2, OutputOfPlan
    <3> QED  BY <3>1, <3>3
  <2> QED  BY <2>3, <2>4
<1> QED  BY <1>2, <1>3

\* The outputs of every plan are what its batch means, byte by byte, for every
\* snapshot, every batch and every number of files (plan, build_segments,
\* stream_output, classify_output).
THEOREM PlanRealizes == Spec => []PlanRealizesBatch
<1>1. PlanInv => PlanRealizesBatch
  <2> SUFFICES ASSUME PlanInv, planned.ok
               PROVE  PlanRealizesBatch
    BY DEF PlanRealizesBatch
  <2>1. /\ snapshot \in Snapshots /\ batch \in Seq(Operations)
        /\ planned = plan(snapshot, batch)
    <3>1. ~Nothing.ok
      BY DEF Nothing
    <3> QED  BY <3>1 DEF PlanInv
  <2> DEFINE r == ResolvedAll(snapshot, batch)
             n == Len(batch)
  <2>2. PlanParts(planned, snapshot, r, n)
    BY <2>1, PartsOfPlan
  <2> HIDE DEF r, n
  <2>3. planned.operations = r /\ IsBatch(r, snapshot, n)
    BY <2>2 DEF PlanParts
  <2>4. DOMAIN snapshot = Paths
    BY <2>1, RequestsAssumption
  <2>5. ASSUME NEW path \in DOMAIN snapshot
        PROVE  ResultOf(planned, path) = Meaning(path)
    <3>1. IsBatch(planned.operations, snapshot, n) /\ path \in Paths
      BY <2>3, <2>4
    <3>2. Meaning(path) = MeansOf(snapshot, planned.operations, n, path)
      BY <2>1, <3>1, MeaningIsPieces
    <3>3. ResultOf(planned, path) = MeansOf(snapshot, r, n, path)
      BY <2>1, <2>2, <3>1, ResultMeans
    <3> QED  BY <2>3, <3>2, <3>3
  <2>6. ASSUME NEW k \in DOMAIN planned.outputs
        PROVE  LET output == planned.outputs[k]
               IN  /\ output.length = Len(output.digest)
                   /\ (output.change = "Unchanged") =
                        (snapshot[output.path].present
                         /\ output.digest = snapshot[output.path].bytes)
                   /\ output.change # "Unchanged" /\ snapshot[output.path].present
                        => snapshot[output.path].links = 1
    <3> DEFINE output == planned.outputs[k]
    <3>1. /\ output.path \in Paths /\ output.length = Len(output.digest)
          /\ output.change = "Unchanged"
               <=> snapshot[output.path].present
                   /\ output.digest = snapshot[output.path].bytes
          /\ output.change # "Unchanged" /\ snapshot[output.path].present
               => snapshot[output.path].links = 1
      <4>1. snapshot \in Snapshots
        BY <2>1
      <4> HIDE DEF output
      <4> QED  BY <2>2, <4>1, OutputOfPlan DEF output
    <3>2. snapshot[output.path].present \in BOOLEAN
      BY <2>1, <3>1, FileBytes DEF FileEntry
    <3> HIDE DEF output
    <3>3. (output.change = "Unchanged") =
            (snapshot[output.path].present
             /\ output.digest = snapshot[output.path].bytes)
      BY <3>1, <3>2
    <3> QED  BY <3>1, <3>3 DEF output
  <2> QED  BY <2>5, <2>6 DEF PlanRealizesBatch
<1> QED  BY <1>1, PlanIsOfBatch, PTL

-----------------------------------------------------------------------------
(***************************************************************************)
(* Batches whose last two operations are exchanged.                        *)
(***************************************************************************)
Twin(n, i) == IF i = n THEN n - 1 ELSE IF i = n - 1 THEN n ELSE i

IsExchanged(b, c, n) ==
  /\ n \in Nat /\ n > 1 /\ DOMAIN b = 1 .. n /\ DOMAIN c = 1 .. n
  /\ \A i \in 1 .. n : c[i] = b[Twin(n, i)]

\* Twins are in pairs.
LEMMA TwinOf ==
  ASSUME NEW n \in Nat, n > 1, NEW i \in 1 .. n
  PROVE  Twin(n, i) \in 1 .. n /\ Twin(n, Twin(n, i)) = i
BY DEF Twin

\* To exchange is symmetric.
LEMMA ExchangedBack ==
  ASSUME NEW b, NEW c, NEW n, IsExchanged(b, c, n)
  PROVE  IsExchanged(c, b, n)
<1>1. n \in Nat /\ n > 1 /\ \A i \in 1 .. n : c[i] = b[Twin(n, i)]
  BY DEF IsExchanged
<1>2. \A i \in 1 .. n : b[i] = c[Twin(n, i)]
  BY <1>1, TwinOf
<1> QED  BY <1>2 DEF IsExchanged

\* The other order of a batch is a batch.
LEMMA ExchangedBatch ==
  ASSUME NEW b \in Seq(Operations), Len(b) > 1
  PROVE  /\ Exchanged(b) \in Seq(Operations) /\ Len(Exchanged(b)) = Len(b)
         /\ IsExchanged(b, Exchanged(b), Len(b))
<1> DEFINE n == Len(b)
           front == SubSeq(b, 1, n - 2)
           back == << b[n], b[n - 1] >>
<1>1. n \in Nat /\ n > 1 /\ DOMAIN b = 1 .. n /\ \A i \in 1 .. n : b[i] \in Operations
  OBVIOUS
<1>2. /\ front \in Seq(Operations) /\ Len(front) = n - 2
      /\ \A i \in 1 .. n - 2 : front[i] = b[i]
  <2>1. 1 \in 1 .. Len(b) + 1 /\ n - 2 \in 1 - 1 .. Len(b)
    BY <1>1
  <2> QED  BY <1>1, <2>1
<1>3. /\ back \in Seq(Operations) /\ Len(back) = 2
      /\ back[1] = b[n] /\ back[2] = b[n - 1]
  BY <1>1
<1>4. Exchanged(b) = front \o back
  BY DEF Exchanged
<1> HIDE DEF front, back, n
<1>5. /\ Exchanged(b) \in Seq(Operations) /\ Len(Exchanged(b)) = n
      /\ \A i \in 1 .. n : Exchanged(b)[i] = IF i <= n - 2 THEN front[i] ELSE back[i - (n - 2)]
  <2>1. /\ front \o back \in Seq(Operations)
        /\ Len(front \o back) = Len(front) + Len(back)
        /\ \A i \in 1 .. Len(front) + Len(back) :
             (front \o back)[i] = IF i <= Len(front) THEN front[i]
                                  ELSE back[i - Len(front)]
    BY <1>2, <1>3, ConcatProperties
  <2>2. Len(front) + Len(back) = n /\ Len(front) = n - 2
    BY <1>1, <1>2, <1>3
  <2> QED  BY <1>4, <2>1, <2>2
<1>6. ASSUME NEW i \in 1 .. n
      PROVE  Exchanged(b)[i] = b[Twin(n, i)]
  <2>1. CASE i = n
    BY <1>1, <1>3, <1>5, <2>1 DEF Twin
  <2>2. CASE i = n - 1
    BY <1>1, <1>3, <1>5, <2>2 DEF Twin
  <2>3. CASE i # n /\ i # n - 1
    <3>1. i \in 1 .. n - 2 /\ i <= n - 2
      BY <1>1, <2>3
    <3> QED  BY <1>2, <1>5, <2>3, <3>1 DEF Twin
  <2> QED  BY <2>1, <2>2, <2>3
<1>7. DOMAIN Exchanged(b) = 1 .. n
  BY <1>5
<1> QED  BY <1>1, <1>5, <1>6, <1>7 DEF IsExchanged, n

\* Each path of a batch has one precondition.
Consistent(b, n) ==
  \A i, j \in 1 .. n : \A p \in Preconditions(b[j]) : \A q \in Preconditions(b[i]) :
    p[1] = q[1] => p[2] = q[2]

\* The check of each operation against those before it finds every difference.
LEMMA ConsistencyExact ==
  ASSUME NEW n \in Nat, NEW b, DOMAIN b = 1 .. n
  PROVE  validate_precondition_consistency(b).ok <=> Consistent(b, n)
<1> DEFINE Clash(i) == \E j \in 1 .. i : \E p \in Preconditions(b[j]) :
                         \E q \in Preconditions(b[i]) : p[1] = q[1] /\ p[2] # q[2]
           checks == [i \in DOMAIN b |->
                        IF Clash(i) THEN ConflictAt("incompatible_preconditions", i)
                        ELSE Fine]
<1>1. validate_precondition_consistency(b) = FirstRefusal(checks)
  BY DEF validate_precondition_consistency
<1>2. \A i : ~ConflictAt("incompatible_preconditions", i).ok
  BY DEF ConflictAt
<1>3. Fine.ok
  BY DEF Fine
<1>4. Consistent(b, n) <=> \A i \in 1 .. n : ~Clash(i)
  <2>1. ASSUME Consistent(b, n), NEW i \in 1 .. n, Clash(i)
        PROVE  FALSE
    <3>1. PICK j \in 1 .. i : \E p \in Preconditions(b[j]) :
                 \E q \in Preconditions(b[i]) : p[1] = q[1] /\ p[2] # q[2]
      BY <2>1
    <3>2. j \in 1 .. n
      OBVIOUS
    <3> QED  BY <2>1, <3>1, <3>2 DEF Consistent
  <2>2. ASSUME \A i \in 1 .. n : ~Clash(i), NEW i \in 1 .. n, NEW j \in 1 .. n,
               NEW p \in Preconditions(b[j]), NEW q \in Preconditions(b[i]),
               p[1] = q[1], p[2] # q[2]
        PROVE  FALSE
    <3>1. j \in 1 .. i \/ i \in 1 .. j
      OBVIOUS
    <3>2. CASE j \in 1 .. i
      <4>1. Clash(i)
        BY <2>2, <3>2
      <4> QED  BY <2>2, <4>1
    <3>3. CASE i \in 1 .. j
      <4>1. q[1] = p[1] /\ q[2] # p[2]
        BY <2>2
      <4>2. Clash(j)
        BY <3>3, <4>1
      <4> QED  BY <2>2, <4>2
    <3> QED  BY <3>1, <3>2, <3>3
  <2> HIDE DEF Clash
  <2>3. (\A i \in 1 .. n : ~Clash(i)) => Consistent(b, n)
    BY <2>2 DEF Consistent
  <2> QED  BY <2>1, <2>3
<1> HIDE DEF Clash
<1>5. DOMAIN checks = 1 .. n /\ \A i \in 1 .. n : checks[i].ok <=> ~Clash(i)
  BY <1>2, <1>3
<1> HIDE DEF checks
<1>6. FirstRefusal(checks).ok <=> \A i \in 1 .. n : checks[i].ok
  BY <1>3, <1>5, RefusalCases
<1> QED  BY <1>1, <1>4, <1>5, <1>6

\* The preconditions agree in any order.
LEMMA ConsistentExchanged ==
  ASSUME NEW b, NEW c, NEW n, IsExchanged(b, c, n),
         validate_precondition_consistency(b).ok
  PROVE  validate_precondition_consistency(c).ok
<1>1. /\ n \in Nat /\ n > 1 /\ DOMAIN b = 1 .. n /\ DOMAIN c = 1 .. n
      /\ \A i \in 1 .. n : c[i] = b[Twin(n, i)] /\ Twin(n, i) \in 1 .. n
  BY TwinOf DEF IsExchanged
<1>2. Consistent(b, n)
  BY <1>1, ConsistencyExact
<1>3. Consistent(c, n)
  <2> SUFFICES ASSUME NEW i \in 1 .. n, NEW j \in 1 .. n,
                      NEW p \in Preconditions(c[j]), NEW q \in Preconditions(c[i]),
                      p[1] = q[1]
               PROVE  p[2] = q[2]
    BY DEF Consistent
  <2>1. p \in Preconditions(b[Twin(n, j)]) /\ q \in Preconditions(b[Twin(n, i)])
    BY <1>1
  <2>2. Twin(n, i) \in 1 .. n /\ Twin(n, j) \in 1 .. n
    BY <1>1
  <2> QED  BY <1>2, <2>1, <2>2 DEF Consistent
<1> QED  BY <1>1, <1>3, ConsistencyExact

\* Whether an operation can be resolved does not depend on its index.
LEMMA ResolvedExchanged ==
  ASSUME NEW s, NEW b, NEW c, NEW n, IsExchanged(b, c, n), Unresolved(s, b).ok
  PROVE  Unresolved(s, c).ok
<1>1. /\ n \in Nat /\ n > 1 /\ DOMAIN b = 1 .. n /\ DOMAIN c = 1 .. n
      /\ \A i \in 1 .. n : c[i] = b[Twin(n, i)] /\ Twin(n, i) \in 1 .. n
  BY TwinOf DEF IsExchanged
<1>2. ASSUME NEW d, DOMAIN d = 1 .. n
      PROVE  Unresolved(s, d).ok <=> \A i \in 1 .. n : ResolutionError(s, d[i], i).ok
  <2> DEFINE checks == [i \in DOMAIN d |-> ResolutionError(s, d[i], i)]
  <2>1. Unresolved(s, d) = FirstRefusal(checks)
    BY DEF Unresolved
  <2>2. DOMAIN checks = 1 .. n
        /\ \A i \in 1 .. n : checks[i] = ResolutionError(s, d[i], i)
    BY <1>2
  <2>3. Fine.ok
    BY DEF Fine
  <2> HIDE DEF checks
  <2>4. FirstRefusal(checks).ok <=> \A i \in 1 .. n : checks[i].ok
    BY <1>1, <2>2, <2>3, RefusalCases
  <2> QED  BY <2>1, <2>2, <2>4
<1>3. ASSUME NEW op, NEW i, NEW j, ResolutionError(s, op, i).ok
      PROVE  ResolutionError(s, op, j).ok
  <2>1. Fine.ok /\ \A reason, k : ~ConflictAt(reason, k).ok
    BY DEF Fine, ConflictAt
  <2>2. existing_source(s, op, i).ok <=> existing_source(s, op, j).ok
    BY <2>1 DEF existing_source
  <2>3. destination_state(s, op, i).ok <=> destination_state(s, op, j).ok
    BY <2>1 DEF destination_state
  <2> QED  BY <1>3, <2>1, <2>2, <2>3 DEF ResolutionError
<1>4. \A i \in 1 .. n : ResolutionError(s, c[i], i).ok
  BY <1>1, <1>2, <1>3
<1> QED  BY <1>1, <1>2, <1>4

\* Operations that differ in their index only.
Alike(d, e) ==
  /\ d.kind = e.kind /\ d.effect = e.effect
  /\ d.source = e.source /\ d.start = e.start /\ d.end = e.end
  /\ d.selected = e.selected
  /\ d.destination = e.destination /\ d.offset = e.offset

\* t are the operations of r with the last two exchanged.
IsRenumbered(r, t, s, n) ==
  /\ n > 1 /\ IsBatch(r, s, n) /\ IsBatch(t, s, n)
  /\ \A i \in 1 .. n : Alike(t[i], r[Twin(n, i)])

\* What is resolved of the other order.
LEMMA RenumberedBatch ==
  ASSUME NEW s \in Snapshots, NEW b \in Seq(Operations), NEW c \in Seq(Operations),
         NEW n, n = Len(b), n = Len(c), IsExchanged(b, c, n), Unresolved(s, b).ok
  PROVE  IsRenumbered(ResolvedAll(s, b), ResolvedAll(s, c), s, n)
<1>1. /\ n \in Nat /\ n > 1 /\ DOMAIN b = 1 .. n /\ DOMAIN c = 1 .. n
      /\ \A i \in 1 .. n : c[i] = b[Twin(n, i)] /\ Twin(n, i) \in 1 .. n
  BY TwinOf DEF IsExchanged
<1>2. Unresolved(s, c).ok
  BY ResolvedExchanged
<1>3. IsBatch(ResolvedAll(s, b), s, n) /\ IsBatch(ResolvedAll(s, c), s, n)
  BY <1>2, ResolvedIsBatch
<1>4. \A op, i, j : Alike(Resolved(s, op, i), Resolved(s, op, j))
  BY DEF Alike, Resolved
<1>5. \A i \in 1 .. n : /\ ResolvedAll(s, b)[i] = Resolved(s, b[i], i)
                        /\ ResolvedAll(s, c)[i] = Resolved(s, c[i], i)
  BY <1>1 DEF ResolvedAll
<1>6. \A i \in 1 .. n : Alike(ResolvedAll(s, c)[i], ResolvedAll(s, b)[Twin(n, i)])
  <2> SUFFICES ASSUME NEW i \in 1 .. n
               PROVE  Alike(ResolvedAll(s, c)[i], ResolvedAll(s, b)[Twin(n, i)])
    OBVIOUS
  <2>1. /\ ResolvedAll(s, c)[i] = Resolved(s, b[Twin(n, i)], i)
        /\ ResolvedAll(s, b)[Twin(n, i)] = Resolved(s, b[Twin(n, i)], Twin(n, i))
    BY <1>1, <1>5
  <2> QED  BY <1>4, <2>1
<1> QED  BY <1>1, <1>3, <1>6 DEF IsRenumbered

\* This is symmetric.
LEMMA RenumberedBack ==
  ASSUME NEW r, NEW t, NEW s, NEW n, IsRenumbered(r, t, s, n)
  PROVE  IsRenumbered(t, r, s, n)
<1>1. n \in Nat /\ n > 1 /\ \A i \in 1 .. n : Alike(t[i], r[Twin(n, i)])
  BY DEF IsRenumbered, IsBatch
<1>2. ASSUME NEW i \in 1 .. n
      PROVE  Alike(r[i], t[Twin(n, i)])
  <2>1. Twin(n, i) \in 1 .. n /\ Twin(n, Twin(n, i)) = i
    BY <1>1, TwinOf
  <2>2. Alike(t[Twin(n, i)], r[i])
    BY <1>1, <2>1
  <2> QED  BY <2>2 DEF Alike
<1> QED  BY <1>2 DEF IsRenumbered

\* Every operation is there in the other order, with the index of its twin.
LEMMA TwinOperation ==
  ASSUME NEW r, NEW t, NEW s, NEW n, IsRenumbered(r, t, s, n), NEW d \in Range(r)
  PROVE  /\ d.operation_index \in 1 .. n /\ d = r[d.operation_index]
         /\ Twin(n, d.operation_index) \in 1 .. n
         /\ t[Twin(n, d.operation_index)] \in Range(t)
         /\ t[Twin(n, d.operation_index)].operation_index = Twin(n, d.operation_index)
         /\ Alike(d, t[Twin(n, d.operation_index)])
<1>1. n \in Nat /\ n > 1 /\ IsBatch(r, s, n) /\ IsBatch(t, s, n)
  BY DEF IsRenumbered, IsBatch
<1>2. d.operation_index \in 1 .. n /\ d = r[d.operation_index]
  BY <1>1, BatchMembers
<1> DEFINE j == Twin(n, d.operation_index)
<1>3. j \in 1 .. n
  BY <1>1, <1>2, TwinOf
<1>4. Alike(d, t[j])
  <2>1. IsRenumbered(t, r, s, n)
    BY RenumberedBack
  <2> QED  BY <1>2, <2>1 DEF IsRenumbered
<1> HIDE DEF j
<1>5. t[j] \in Range(t) /\ t[j].operation_index = j
  <2>1. t[j] \in Range(t)
    BY <1>1, <1>3, BatchMembers
  <2>2. IsResolved(t[j], s, j)
    BY <1>1, <1>3 DEF IsBatch
  <2> QED  BY <2>1, <2>2 DEF IsResolved
<1> QED  BY <1>2, <1>3, <1>4, <1>5 DEF j

\* Both orders change the same files.
LEMMA SamePaths ==
  ASSUME NEW r, NEW t, NEW s, NEW n, IsRenumbered(r, t, s, n)
  PROVE  OutputPaths(r) = OutputPaths(t)
<1>1. ASSUME NEW x, NEW y, IsRenumbered(x, y, s, n), NEW path \in OutputPaths(x)
      PROVE  path \in OutputPaths(y)
  <2>1. PICK d \in Range(x) : /\ d.effect = "changed"
                              /\ \/ path = d.destination
                                 \/ d.kind = "move" /\ path = d.source
    BY DEF OutputPaths
  <2>2. PICK e \in Range(y) : Alike(d, e)
    BY <1>1, TwinOperation
  <2>3. /\ e.effect = "changed"
        /\ path = e.destination \/ (e.kind = "move" /\ path = e.source)
    BY <2>1, <2>2 DEF Alike
  <2> QED  BY <2>3 DEF OutputPaths
<1>2. IsRenumbered(t, r, s, n)
  BY RenumberedBack
<1> QED  BY <1>1, <1>2

\* Both orders conflict, or neither does.
LEMMA SameConflicts ==
  ASSUME NEW r, NEW t, NEW s, NEW n, IsRenumbered(r, t, s, n), AmbiguousBatch(r)
  PROVE  AmbiguousBatch(t)
<1>1. PICK d \in Range(r), e \in Range(r) :
        /\ d.kind = "move" /\ d.effect = "changed" /\ e.effect = "changed"
        /\ \/ /\ e.kind = "move" /\ d.operation_index # e.operation_index
              /\ d.source = e.source
              /\ \E b \in d.start .. d.end - 1 : b \in e.start .. e.end - 1
           \/ /\ e.destination = d.source
              /\ {e.offset - 1, e.offset} \subseteq d.start .. d.end - 1
  BY DEF AmbiguousBatch
<1> DEFINE x == t[Twin(n, d.operation_index)]
           y == t[Twin(n, e.operation_index)]
<1>2. x \in Range(t) /\ y \in Range(t) /\ Alike(d, x) /\ Alike(e, y)
  BY TwinOperation
<1>3. d.operation_index # e.operation_index => x.operation_index # y.operation_index
  <2>1. /\ x.operation_index = Twin(n, d.operation_index)
        /\ y.operation_index = Twin(n, e.operation_index)
        /\ d.operation_index \in 1 .. n /\ e.operation_index \in 1 .. n
    BY TwinOperation
  <2>2. n \in Nat /\ n > 1
    BY DEF IsRenumbered, IsBatch
  <2> HIDE DEF x, y
  <2>3. /\ Twin(n, Twin(n, d.operation_index)) = d.operation_index
        /\ Twin(n, Twin(n, e.operation_index)) = e.operation_index
    BY <2>1, <2>2, TwinOf
  <2> QED  BY <2>1, <2>3
<1> HIDE DEF x, y
<1>4. /\ x.kind = "move" /\ x.effect = "changed" /\ y.effect = "changed"
      /\ \/ /\ y.kind = "move" /\ x.operation_index # y.operation_index
            /\ x.source = y.source
            /\ \E b \in x.start .. x.end - 1 : b \in y.start .. y.end - 1
         \/ /\ y.destination = x.source
            /\ {y.offset - 1, y.offset} \subseteq x.start .. x.end - 1
  BY <1>1, <1>2, <1>3 DEF Alike
<1> QED  BY <1>2, <1>4 DEF AmbiguousBatch

\* The deletions of a file begin and end at the same places in both orders,
\* and the insertions are at the same offsets.
LEMMA SameEdits ==
  ASSUME NEW r, NEW t, NEW s, NEW n, IsRenumbered(r, t, s, n), NEW path
  PROVE  /\ {d.start : d \in Deletions(r, path)} = {d.start : d \in Deletions(t, path)}
         /\ {d.end : d \in Deletions(r, path)} = {d.end : d \in Deletions(t, path)}
         /\ \A o : Taken(Deletions(r, path), o) <=> Taken(Deletions(t, path), o)
         /\ Points(Deletions(r, path), Insertions(r, path))
              = Points(Deletions(t, path), Insertions(t, path))
<1>1. ASSUME NEW x, NEW y, IsRenumbered(x, y, s, n)
      PROVE  /\ \A d \in Deletions(x, path) : \E e \in Deletions(y, path) :
                  d.start = e.start /\ d.end = e.end
             /\ \A d \in Insertions(x, path) : \E e \in Insertions(y, path) :
                  d.offset = e.offset
  <2>1. \A d \in Range(x) : \E e \in Range(y) : Alike(d, e)
    BY <1>1, TwinOperation
  <2>2. ASSUME NEW d \in Deletions(x, path)
        PROVE  \E e \in Deletions(y, path) : d.start = e.start /\ d.end = e.end
    <3>1. d \in Range(x)
      BY DEF Deletions
    <3>2. PICK e \in Range(y) : Alike(d, e)
      BY <2>1, <3>1
    <3>3. e \in Deletions(y, path)
      BY <3>2 DEF Deletions, Alike
    <3> QED  BY <3>2, <3>3 DEF Alike
  <2>3. ASSUME NEW d \in Insertions(x, path)
        PROVE  \E e \in Insertions(y, path) : d.offset = e.offset
    <3>1. d \in Range(x)
      BY DEF Insertions
    <3>2. PICK e \in Range(y) : Alike(d, e)
      BY <2>1, <3>1
    <3>3. e \in Insertions(y, path)
      BY <3>2 DEF Insertions, Alike
    <3> QED  BY <3>2, <3>3 DEF Alike
  <2> QED  BY <2>2, <2>3
<1>2. IsRenumbered(t, r, s, n)
  BY RenumberedBack
<1> DEFINE D == Deletions(r, path)
           E == Deletions(t, path)
           I == Insertions(r, path)
           J == Insertions(t, path)
<1>3. /\ \A d \in D : \E e \in E : d.start = e.start /\ d.end = e.end
      /\ \A d \in I : \E e \in J : d.offset = e.offset
  BY <1>1
<1>4. /\ \A d \in E : \E e \in D : d.start = e.start /\ d.end = e.end
      /\ \A d \in J : \E e \in I : d.offset = e.offset
  BY <1>1, <1>2
<1> HIDE DEF D, E, I, J
<1>5. {d.start : d \in D} = {d.start : d \in E}
  BY <1>3, <1>4
<1>6. {d.end : d \in D} = {d.end : d \in E}
  BY <1>3, <1>4
<1>7. \A o : Taken(D, o) <=> Taken(E, o)
  BY <1>3, <1>4 DEF Taken
<1>8. {i.offset : i \in I} = {i.offset : i \in J}
  BY <1>3, <1>4
<1>9. Points(D, I) = Points(E, J)
  BY <1>5, <1>6, <1>8 DEF Points
<1> QED  BY <1>5, <1>6, <1>7, <1>9 DEF D, E, I, J

\* The last two of n operations insert at one offset.
Meet(r, n) ==
  /\ r[n].effect = "changed" /\ r[n - 1].effect = "changed"
  /\ r[n].destination = r[n - 1].destination /\ r[n].offset = r[n - 1].offset

\* The operations that insert at an offset.
LEMMA HereExactly ==
  ASSUME NEW r, NEW s, NEW n, IsBatch(r, s, n), NEW path, NEW o, NEW i \in 1 .. n
  PROVE  r[i] \in Here(r, path, o) <=>
           r[i].effect = "changed" /\ r[i].destination = path /\ r[i].offset = o
<1>1. r[i] \in Range(r)
  BY BatchMembers
<1> QED  BY <1>1 DEF Here, Insertions

\* Two operations that insert at different places write the same in both orders.
LEMMA SameInserted ==
  ASSUME NEW s \in Snapshots, NEW r, NEW t, NEW n, IsRenumbered(r, t, s, n),
         ~Meet(r, n), NEW path, NEW o
  PROVE  Flat(InsertedBy(r, path, o), n) = Flat(InsertedBy(t, path, o), n)
<1> DEFINE F == InsertedBy(r, path, o)
           G == InsertedBy(t, path, o)
           m == n - 2
           S == 0 .. 255
<1>1. /\ n \in Nat /\ n > 1 /\ IsBatch(r, s, n) /\ IsBatch(t, s, n)
      /\ DOMAIN r = 1 .. n /\ DOMAIN t = 1 .. n
      /\ \A i \in 1 .. n : Alike(t[i], r[Twin(n, i)]) /\ Twin(n, i) \in 1 .. n
  BY TwinOf DEF IsRenumbered, IsBatch
<1>2. Sequences(F, n, S) /\ Sequences(G, n, S)
  BY <1>1, PayloadsInOrder
<1>3. \A i \in 1 .. n :
        /\ F[i] = IF r[i] \in Here(r, path, o) THEN r[i].selected ELSE << >>
        /\ G[i] = IF t[i] \in Here(t, path, o) THEN t[i].selected ELSE << >>
  BY <1>1 DEF InsertedBy
<1> HIDE DEF F, G, S
<1>4. ASSUME NEW i \in 1 .. n
      PROVE  G[i] = F[Twin(n, i)]
  <2>1. t[i] \in Here(t, path, o) <=>
          t[i].effect = "changed" /\ t[i].destination = path /\ t[i].offset = o
    BY <1>1, HereExactly
  <2>2. r[Twin(n, i)] \in Here(r, path, o) <=>
          /\ r[Twin(n, i)].effect = "changed" /\ r[Twin(n, i)].destination = path
          /\ r[Twin(n, i)].offset = o
    BY <1>1, HereExactly
  <2>3. Alike(t[i], r[Twin(n, i)]) /\ Twin(n, i) \in 1 .. n
    BY <1>1
  <2> QED  BY <1>3, <2>1, <2>2, <2>3 DEF Alike
<1>5. m \in Nat /\ m + 1 = n - 1 /\ (m + 1) + 1 = n /\ n - 1 \in 1 .. n /\ n \in 1 .. n
  BY <1>1
<1>6. \A i \in 1 .. m : G[i] = F[i]
  <2> SUFFICES ASSUME NEW i \in 1 .. m
               PROVE  G[i] = F[i]
    OBVIOUS
  <2>1. i \in 1 .. n /\ Twin(n, i) = i
    BY <1>1 DEF Twin
  <2> QED  BY <1>4, <2>1
<1>7. G[n - 1] = F[n] /\ G[n] = F[n - 1]
  <2>1. Twin(n, n - 1) = n /\ Twin(n, n) = n - 1
    BY <1>1 DEF Twin
  <2> QED  BY <1>4, <1>5, <2>1
<1>8. F[n] = << >> \/ F[n - 1] = << >>
  <2>1. ASSUME NEW i \in 1 .. n
        PROVE  r[i] \in Here(r, path, o) <=>
                 r[i].effect = "changed" /\ r[i].destination = path /\ r[i].offset = o
    BY <1>1, HereExactly
  <2>2. ~(r[n] \in Here(r, path, o) /\ r[n - 1] \in Here(r, path, o))
    BY <1>5, <2>1 DEF Meet
  <2>3. /\ F[n] = IF r[n] \in Here(r, path, o) THEN r[n].selected ELSE << >>
        /\ F[n - 1] = IF r[n - 1] \in Here(r, path, o)
                      THEN r[n - 1].selected ELSE << >>
    BY <1>3, <1>5
  <2> QED  BY <2>2, <2>3
<1> HIDE DEF m
<1>9. ASSUME NEW H, Sequences(H, n, S)
      PROVE  /\ Flat(H, m) \in Seq(S) /\ H[n - 1] \in Seq(S) /\ H[n] \in Seq(S)
             /\ Flat(H, n) = (Flat(H, m) \o H[n - 1]) \o H[n]
  <2>1. Sequences(H, m + 1, S) /\ Sequences(H, (m + 1) + 1, S) /\ m + 1 \in Nat
    BY <1>1, <1>5, <1>9 DEF Sequences
  <2>2. Flat(H, m) \in Seq(S) /\ Flat(H, m + 1) = Flat(H, m) \o H[m + 1]
    BY <1>5, <2>1, FlattenNext
  <2>3. Flat(H, (m + 1) + 1) = Flat(H, m + 1) \o H[(m + 1) + 1]
    BY <2>1, FlattenNext
  <2>4. H[n - 1] \in Seq(S) /\ H[n] \in Seq(S)
    BY <1>5, <1>9 DEF Sequences
  <2> QED  BY <1>5, <2>2, <2>3, <2>4
<1>10. Flat(F, m) = Flat(G, m)
  BY <1>5, <1>6, FlattenSame
<1>11. Flat(F, m) \in Seq(S) /\ F[n - 1] \in Seq(S) /\ F[n] \in Seq(S)
  BY <1>2, <1>9
<1>12. /\ Flat(F, n) = (Flat(F, m) \o F[n - 1]) \o F[n]
       /\ Flat(G, n) = (Flat(F, m) \o F[n]) \o F[n - 1]
  BY <1>2, <1>7, <1>9, <1>10
<1>13. /\ \A x \in Seq(S) : x \o << >> = x
       /\ Flat(F, m) \o F[n - 1] \in Seq(S) /\ Flat(F, m) \o F[n] \in Seq(S)
  BY <1>11, ConcatEmptySeq, ConcatProperties
<1> QED  BY <1>8, <1>11, <1>12, <1>13 DEF F, G

\* So they mean the same for every file.
LEMMA SameMeaning ==
  ASSUME NEW s \in Snapshots, NEW r, NEW t, NEW n, IsRenumbered(r, t, s, n),
         ~Meet(r, n), NEW path \in Paths
  PROVE  MeansOf(s, r, n, path) = MeansOf(s, t, n, path)
<1> DEFINE N == Len(s[path].bytes)
<1>1. N \in Nat
  BY FileBytes
<1>2. \A o : Taken(Deletions(r, path), o) <=> Taken(Deletions(t, path), o)
  BY SameEdits
<1>3. ASSUME NEW g \in 1 .. N + 1
      PROVE  GapPieces(s, r, n, path)[g] = GapPieces(s, t, n, path)[g]
  <2>1. Flat(InsertedBy(r, path, g - 1), n) = Flat(InsertedBy(t, path, g - 1), n)
    BY SameInserted
  <2>2. KeptByte(s, r, path, g) = KeptByte(s, t, path, g)
    BY <1>2 DEF KeptByte
  <2>3. /\ GapPieces(s, r, n, path)[g]
             = Flat(InsertedBy(r, path, g - 1), n) \o KeptByte(s, r, path, g)
        /\ GapPieces(s, t, n, path)[g]
             = Flat(InsertedBy(t, path, g - 1), n) \o KeptByte(s, t, path, g)
    BY DEF GapPieces
  <2> QED  BY <2>1, <2>2, <2>3
<1>4. N + 1 \in Nat
  BY <1>1
<1>5. Flat(GapPieces(s, r, n, path), N + 1) = Flat(GapPieces(s, t, n, path), N + 1)
  <2> HIDE DEF N
  <2> QED  BY <1>3, <1>4, FlattenSame
<1> QED  BY <1>5 DEF MeansOf

\* As many operations insert at an offset in both orders.
LEMMA SameHere ==
  ASSUME NEW r, NEW t, NEW s, NEW n, IsRenumbered(r, t, s, n), NEW path, NEW o
  PROVE  Cardinality(Here(r, path, o)) = Cardinality(Here(t, path, o))
<1>1. ASSUME NEW x, NEW y, IsRenumbered(x, y, s, n)
      PROVE  Cardinality(Here(x, path, o)) <= Cardinality(Here(y, path, o))
  <2> DEFINE H == Here(x, path, o)
             K == Here(y, path, o)
             f == [d \in H |-> y[Twin(n, d.operation_index)]]
  <2>1. n \in Nat /\ n > 1 /\ IsBatch(x, s, n) /\ IsBatch(y, s, n)
    BY <1>1 DEF IsRenumbered, IsBatch
  <2>2. \A d \in H : /\ d \in Range(x) /\ d.effect = "changed"
                     /\ d.destination = path /\ d.offset = o
    BY DEF Here, Insertions
  <2>3. ASSUME NEW d \in H
        PROVE  /\ f[d] \in K /\ d.operation_index \in 1 .. n
               /\ d = x[d.operation_index]
               /\ f[d].operation_index = Twin(n, d.operation_index)
    <3>1. PICK e : e = y[Twin(n, d.operation_index)]
      OBVIOUS
    <3>2. /\ d.operation_index \in 1 .. n /\ d = x[d.operation_index]
          /\ e \in Range(y) /\ Alike(d, e)
          /\ e.operation_index = Twin(n, d.operation_index)
      BY <1>1, <2>2, <3>1, TwinOperation
    <3>3. e.effect = "changed" /\ e.destination = path /\ e.offset = o
      BY <2>2, <3>2 DEF Alike
    <3>4. e \in K
      BY <3>2, <3>3 DEF Here, Insertions
    <3> QED  BY <3>1, <3>2, <3>4
  <2>4. IsFiniteSet(K)
    BY <2>1, HereListed
  <2> HIDE DEF H, K
  <2>5. f \in [H -> K]
    BY <2>3
  <2>6. DOMAIN f = H
    OBVIOUS
  <2> HIDE DEF f
  <2>7. ASSUME NEW d \in H, NEW e \in H, f[d] = f[e]
        PROVE  d = e
    <3>1. Twin(n, d.operation_index) = Twin(n, e.operation_index)
      BY <2>3, <2>7
    <3>2. /\ Twin(n, Twin(n, d.operation_index)) = d.operation_index
          /\ Twin(n, Twin(n, e.operation_index)) = e.operation_index
      BY <2>1, <2>3, TwinOf
    <3>3. d.operation_index = e.operation_index
      BY <3>1, <3>2
    <3> QED  BY <2>3, <3>3
  <2>8. f \in Injection(H, K)
    BY <2>5, <2>6, <2>7 DEF Injection, IsInjective
  <2>9. Cardinality(H) <= Cardinality(K)
    BY <2>4, <2>8, FS_Injection
  <2> QED  BY <2>9 DEF H, K
<1>2. IsRenumbered(t, r, s, n)
  BY RenumberedBack
<1>3. /\ Cardinality(Here(r, path, o)) \in Nat
      /\ Cardinality(Here(t, path, o)) \in Nat
  BY HereListed, FS_CardinalityType DEF IsRenumbered
<1>4. /\ Cardinality(Here(r, path, o)) <= Cardinality(Here(t, path, o))
      /\ Cardinality(Here(t, path, o)) <= Cardinality(Here(r, path, o))
  BY <1>1, <1>2
<1> QED  BY <1>3, <1>4

\* One segment for each of them.
LEMMA InsertionsCount ==
  ASSUME NEW r, NEW s, NEW n, IsBatch(r, s, n), NEW path, NEW o
  PROVE  Len(InsertionsAt(Insertions(r, path), o)) = Cardinality(Here(r, path, o))
<1>1. Cardinality(Here(r, path, o)) \in Nat
  BY HereListed, FS_CardinalityType
<1>2. InsertionsAt(Insertions(r, path), o)
        = [k \in 1 .. Cardinality(Here(r, path, o)) |->
             PayloadSlice(HereList(r, path, o)[k])]
  BY DEF InsertionsAt, HereList, Here
<1> QED  BY <1>1, <1>2

\* The sweep is at the same place with as many segments.
SameSweep(a, b) ==
  /\ a.cursor = b.cursor /\ a.deleting = b.deleting
  /\ Len(a.segments) = Len(b.segments)

\* One offset.
LEMMA SameStep ==
  ASSUME NEW s \in Snapshots, NEW r, NEW t, NEW n, IsRenumbered(r, t, s, n),
         NEW path \in Paths, NEW k \in 1 .. Len(s[path].bytes) + 1,
         NEW a \in SweepState(s, Len(s[path].bytes)),
         NEW b \in SweepState(s, Len(s[path].bytes)), SameSweep(a, b)
  PROVE  SameSweep(SweepStep(path, Deletions(r, path), Insertions(r, path), a, k),
                   SweepStep(path, Deletions(t, path), Insertions(t, path), b, k))
<1> DEFINE length == Len(s[path].bytes)
           D == Deletions(r, path)
           E == Deletions(t, path)
           I == Insertions(r, path)
           J == Insertions(t, path)
           o == k - 1
<1>1. IsBatch(r, s, n) /\ IsBatch(t, s, n)
  BY DEF IsRenumbered
<1>2. o \in 0 .. length
  BY FileBytes
<1>3. /\ (\E d \in D : d.start = o) <=> (\E d \in E : d.start = o)
      /\ (\E d \in D : d.end = o) <=> (\E d \in E : d.end = o)
      /\ Points(D, I) = Points(E, J)
  <2> HIDE DEF o
  <2>1. {d.start : d \in D} = {d.start : d \in E}
    BY SameEdits
  <2>2. {d.end : d \in D} = {d.end : d \in E}
    BY SameEdits
  <2>3. Points(D, I) = Points(E, J)
    BY SameEdits
  <2> HIDE DEF D, E, I, J
  <2>4. (\E d \in D : d.start = o) <=> (\E d \in E : d.start = o)
    <3>1. \A S : (\E d \in S : d.start = o) <=> o \in {d.start : d \in S}
      OBVIOUS
    <3> QED  BY <2>1, <3>1
  <2>5. (\E d \in D : d.end = o) <=> (\E d \in E : d.end = o)
    <3>1. \A S : (\E d \in S : d.end = o) <=> o \in {d.end : d \in S}
      OBVIOUS
    <3> QED  BY <2>2, <3>1
  <2> QED  BY <2>3, <2>4, <2>5
<1>4. /\ a.segments \in Seq(Segments(s)) /\ b.segments \in Seq(Segments(s))
      /\ a.deleting \in BOOLEAN /\ b.deleting \in BOOLEAN
      /\ a.cursor = b.cursor /\ a.deleting = b.deleting
      /\ Len(a.segments) = Len(b.segments)
  BY DEF SweepState, SameSweep
<1>5. Before(path, a, o) = Before(path, b, o) /\ Before(path, a, o) \in Seq(Segments(s))
  <2>1. Before(path, a, o) = Before(path, b, o)
    BY <1>4 DEF Before
  <2>2. Before(path, a, o) \in Seq(Segments(s))
    <3> HIDE DEF o
    <3> QED  BY <1>1, <1>2, PointStepType DEF length
  <2> QED  BY <2>1, <2>2
<1>6. /\ InsertionsAt(I, o) \in Seq(Segments(s)) /\ InsertionsAt(J, o) \in Seq(Segments(s))
      /\ Len(InsertionsAt(I, o)) = Len(InsertionsAt(J, o))
  <2>1. InsertionsAt(I, o) \in Seq(Segments(s)) /\ InsertionsAt(J, o) \in Seq(Segments(s))
    BY <1>1, PayloadsInOrder
  <2>2. Len(InsertionsAt(I, o)) = Len(InsertionsAt(J, o))
    BY <1>1, SameHere, InsertionsCount
  <2> QED  BY <2>1, <2>2
<1> HIDE DEF D, E, I, J, o
<1> DEFINE x == PointStep(path, D, I, a, o)
           y == PointStep(path, E, J, b, o)
<1>7. /\ x.segments = (a.segments \o Before(path, a, o)) \o InsertionsAt(I, o)
      /\ y.segments = (b.segments \o Before(path, b, o)) \o InsertionsAt(J, o)
      /\ x.cursor = o /\ y.cursor = o
  BY DEF PointStep, Before
<1>8. x.deleting = y.deleting
  BY <1>3, <1>4 DEF PointStep
<1> HIDE DEF x, y
<1>9. Len(x.segments) = Len(y.segments)
  <2>1. ASSUME NEW u \in Seq(Segments(s)), NEW v \in Seq(Segments(s)),
               NEW w \in Seq(Segments(s))
        PROVE  Len((u \o v) \o w) = Len(u) + Len(v) + Len(w)
    <3>1. u \o v \in Seq(Segments(s)) /\ Len(u \o v) = Len(u) + Len(v)
      BY ConcatProperties
    <3> QED  BY <3>1, ConcatProperties
  <2>2. Len(x.segments) = Len(a.segments) + Len(Before(path, a, o)) + Len(InsertionsAt(I, o))
    <3>1. Len((a.segments \o Before(path, a, o)) \o InsertionsAt(I, o))
            = Len(a.segments) + Len(Before(path, a, o)) + Len(InsertionsAt(I, o))
      BY <1>4, <1>5, <1>6, <2>1
    <3> QED  BY <1>7, <3>1
  <2>3. Len(y.segments) = Len(b.segments) + Len(Before(path, a, o)) + Len(InsertionsAt(J, o))
    <3>1. y.segments = (b.segments \o Before(path, a, o)) \o InsertionsAt(J, o)
      BY <1>5, <1>7
    <3> QED  BY <1>4, <1>5, <1>6, <2>1, <3>1
  <2> QED  BY <1>4, <1>6, <2>2, <2>3
<1>10. SameSweep(x, y)
  BY <1>7, <1>8, <1>9 DEF SameSweep
<1>11. /\ SweepStep(path, D, I, a, k) = IF o \in Points(D, I) THEN x ELSE a
       /\ SweepStep(path, E, J, b, k) = IF o \in Points(E, J) THEN y ELSE b
  BY DEF SweepStep, x, y, o
<1>12. SameSweep(SweepStep(path, D, I, a, k), SweepStep(path, E, J, b, k))
  BY <1>3, <1>10, <1>11
<1> QED  BY <1>12 DEF D, E, I, J

\* A file has as many segments in both orders.
LEMMA SameSegmentCount ==
  ASSUME NEW s \in Snapshots, NEW r, NEW t, NEW n, IsRenumbered(r, t, s, n),
         NEW path \in Paths
  PROVE  Len(build_segments(path, Len(s[path].bytes), Deletions(r, path),
                            Insertions(r, path)))
           = Len(build_segments(path, Len(s[path].bytes), Deletions(t, path),
                                Insertions(t, path)))
<1> DEFINE N == Len(s[path].bytes)
           D == Deletions(r, path)
           E == Deletions(t, path)
           I == Insertions(r, path)
           J == Insertions(t, path)
<1>1. N \in Nat /\ IsBatch(r, s, n) /\ IsBatch(t, s, n)
  BY FileBytes DEF IsRenumbered
<1>2. PICK f \in [0 .. N + 1 -> SweepState(s, N)] :
        /\ Sweeps(f, path, N, D, I)
        /\ build_segments(path, N, D, I) = f[N + 1].segments \o Closing(path, N, f[N + 1])
  BY <1>1, SweepRuns
<1>3. PICK g \in [0 .. N + 1 -> SweepState(s, N)] :
        /\ Sweeps(g, path, N, E, J)
        /\ build_segments(path, N, E, J) = g[N + 1].segments \o Closing(path, N, g[N + 1])
  BY <1>1, SweepRuns
<1>4. ASSUME NEW k \in 1 .. N + 1, NEW a \in SweepState(s, N), NEW b \in SweepState(s, N),
             SameSweep(a, b)
      PROVE  SameSweep(SweepStep(path, D, I, a, k), SweepStep(path, E, J, b, k))
  BY <1>4, SameStep
<1> HIDE DEF N, D, E, I, J
<1> DEFINE P == {k \in Nat : k <= N + 1 => SameSweep(f[k], g[k])}
<1>5. 0 \in P
  BY <1>2, <1>3 DEF Sweeps, SameSweep
<1>6. ASSUME NEW k \in Nat, k \in P
      PROVE  k + 1 \in P
  <2> SUFFICES ASSUME k + 1 <= N + 1
               PROVE  SameSweep(f[k + 1], g[k + 1])
    OBVIOUS
  <2>1. k + 1 \in 1 .. N + 1 /\ (k + 1) - 1 = k /\ k \in 0 .. N + 1
    BY <1>1
  <2>2. SameSweep(f[k], g[k])
    BY <1>1, <1>6, <2>1
  <2>3. f[k] \in SweepState(s, N) /\ g[k] \in SweepState(s, N)
    BY <2>1
  <2>4. /\ f[k + 1] = SweepStep(path, D, I, f[k], k + 1)
        /\ g[k + 1] = SweepStep(path, E, J, g[k], k + 1)
    BY <1>2, <1>3, <2>1 DEF Sweeps
  <2> QED  BY <1>4, <2>1, <2>2, <2>3, <2>4
<1>7. SameSweep(f[N + 1], g[N + 1])
  <2>1. \A k \in Nat : k \in P
    <3> HIDE DEF P
    <3> QED  BY <1>5, <1>6, SetInduction
  <2>2. N + 1 \in Nat /\ N + 1 <= N + 1
    BY <1>1
  <2> QED  BY <2>1, <2>2
<1> DEFINE a == f[N + 1]
           b == g[N + 1]
<1>8. a \in SweepState(s, N) /\ b \in SweepState(s, N)
  <2>1. N + 1 \in 0 .. N + 1
    BY <1>1
  <2> QED  BY <2>1
<1>9. SameSweep(a, b)
  BY <1>7
<1>10. /\ build_segments(path, N, D, I) = a.segments \o Closing(path, N, a)
       /\ build_segments(path, N, E, J) = b.segments \o Closing(path, N, b)
  BY <1>2, <1>3
<1> HIDE DEF a, b
<1>11. Closing(path, N, a) = Closing(path, N, b)
  BY <1>9 DEF Closing, SameSweep
<1>12. PICK g0, c : c = Closing(path, N, a) /\ (c = << >> \/ c = << g0 >>)
  BY DEF Closing
<1>13. c \in Seq({g0})
  <2>1. << >> \in Seq({g0}) /\ << g0 >> \in Seq({g0})
    OBVIOUS
  <2> QED  BY <1>12, <2>1
<1>14. Len(a.segments \o c) = Len(b.segments \o c)
  <2>1. /\ a.segments \in Seq(Segments(s)) /\ b.segments \in Seq(Segments(s))
        /\ Len(a.segments) = Len(b.segments)
    BY <1>8, <1>9 DEF SweepState, SameSweep
  <2> DEFINE S == Segments(s) \cup {g0}
  <2>2. a.segments \in Seq(S) /\ b.segments \in Seq(S) /\ c \in Seq(S)
    BY <1>13, <2>1
  <2>3. /\ Len(a.segments \o c) = Len(a.segments) + Len(c)
        /\ Len(b.segments \o c) = Len(b.segments) + Len(c)
    <3> HIDE DEF S
    <3> QED  BY <2>2, ConcatProperties
  <2> QED  BY <2>1, <2>3
<1> QED  BY <1>10, <1>11, <1>12, <1>14 DEF N, D, E, I, J

\* A file comes out alike in both orders.
LEMMA SameOutputs ==
  ASSUME NEW s \in Snapshots, NEW r, NEW t, NEW n, IsRenumbered(r, t, s, n),
         ~Meet(r, n), NEW path \in Paths,
         ~Overlaps(Deletions(r, path)), ~Overlaps(Deletions(t, path))
  PROVE  LET x == PlannedOutput(s, r, path)
             y == PlannedOutput(s, t, path)
         IN  /\ x.length = y.length /\ Len(x.segments) = Len(y.segments)
             /\ x.change = "Unchanged" <=> y.change = "Unchanged"
<1> DEFINE x == PlannedOutput(s, r, path)
           y == PlannedOutput(s, t, path)
<1>1. IsBatch(r, s, n) /\ IsBatch(t, s, n)
  BY DEF IsRenumbered
<1>2. /\ x.length = Len(MeansOf(s, r, n, path))
      /\ x.change = "Unchanged" <=> s[path].present /\ MeansOf(s, r, n, path) = s[path].bytes
  BY <1>1, OutputMeans DEF MeansOf
<1>3. /\ y.length = Len(MeansOf(s, t, n, path))
      /\ y.change = "Unchanged" <=> s[path].present /\ MeansOf(s, t, n, path) = s[path].bytes
  BY <1>1, OutputMeans DEF MeansOf
<1>4. MeansOf(s, r, n, path) = MeansOf(s, t, n, path)
  BY SameMeaning
<1>5. /\ x.segments = build_segments(path, Len(s[path].bytes), Deletions(r, path),
                                     Insertions(r, path))
      /\ y.segments = build_segments(path, Len(s[path].bytes), Deletions(t, path),
                                     Insertions(t, path))
  BY DEF PlannedOutput
<1> HIDE DEF x, y
<1>6. Len(x.segments) = Len(y.segments)
  BY <1>5, SameSegmentCount
<1>7. /\ x.length = y.length /\ Len(x.segments) = Len(y.segments)
      /\ x.change = "Unchanged" <=> y.change = "Unchanged"
  BY <1>2, <1>3, <1>4, <1>6
<1> QED  BY <1>7 DEF x, y

\* What n operations use, and outputs with these lengths and segments, of which
\* these have changed.
UsageOf(n, m, lengths, counts, changed) ==
  [resulting_bytes_per_output |-> MaxSeq(lengths),
   planned_output_bytes |-> SumSeq(lengths),
   segments_per_output |-> MaxSeq(counts),
   segments |-> SumSeq(counts),
   changed_targets |-> SumSeq(changed),
   projected_response_bytes |->
     1024 + n * (1024 + 2 * PathBytes) + m * (512 + PathBytes) + 512 * SumSeq(counts),
   planning_memory_bytes |->
     n * (StructBytes.operation + 2 * PathBytes)
     + m * (StructBytes.output + PathBytes) + StructBytes.segment * SumSeq(counts)]

\* A plan uses as much in both orders.
LEMMA SameUsage ==
  ASSUME NEW s \in Snapshots, NEW r, NEW t, NEW n, IsRenumbered(r, t, s, n),
         Len(r) = Len(t), ~Meet(r, n),
         \A path \in OutputPaths(r) : ~Overlaps(Deletions(r, path)),
         \A path \in OutputPaths(r) : ~Overlaps(Deletions(t, path))
  PROVE  UsageRefusal(s, r) = UsageRefusal(s, t)
<1> DEFINE paths == InOrder(OutputPaths(r))
           m == Cardinality(OutputPaths(r))
           X == OutputsOf(s, r)
           Y == OutputsOf(s, t)
<1>1. IsBatch(r, s, n) /\ IsBatch(t, s, n) /\ OutputPaths(t) = OutputPaths(r)
  BY SamePaths DEF IsRenumbered
<1>2. /\ OutputPaths(r) \subseteq Paths
      /\ m \in Nat /\ DOMAIN paths = 1 .. m
      /\ \A k \in 1 .. m : paths[k] \in OutputPaths(r)
  BY <1>1, OutputList
<1>3. /\ X = [k \in DOMAIN paths |-> PlannedOutput(s, r, paths[k])]
      /\ Y = [k \in DOMAIN paths |-> PlannedOutput(s, t, paths[k])]
  BY <1>1 DEF OutputsOf
<1> HIDE DEF paths, m, X, Y
<1>4. /\ X = [k \in 1 .. m |-> X[k]] /\ Y = [k \in 1 .. m |-> Y[k]]
      /\ DOMAIN X = 1 .. m /\ DOMAIN Y = 1 .. m
      /\ \A k \in 1 .. m : /\ X[k] = PlannedOutput(s, r, paths[k])
                           /\ Y[k] = PlannedOutput(s, t, paths[k])
  BY <1>2, <1>3
<1>5. Len(X) = m /\ Len(Y) = m
  BY <1>2, <1>4
<1>6. ASSUME NEW k \in 1 .. m
      PROVE  /\ X[k].length = Y[k].length /\ Len(X[k].segments) = Len(Y[k].segments)
             /\ X[k].change = "Unchanged" <=> Y[k].change = "Unchanged"
  <2>1. PICK path : path = paths[k]
    OBVIOUS
  <2>2. /\ path \in Paths /\ ~Overlaps(Deletions(r, path)) /\ ~Overlaps(Deletions(t, path))
        /\ X[k] = PlannedOutput(s, r, path) /\ Y[k] = PlannedOutput(s, t, path)
    BY <1>2, <1>4, <2>1
  <2> QED  BY <2>2, SameOutputs
<1>7. [k \in DOMAIN X |-> X[k].length] = [k \in DOMAIN Y |-> Y[k].length]
  BY <1>4, <1>6
<1>8. [k \in DOMAIN X |-> Len(X[k].segments)] = [k \in DOMAIN Y |-> Len(Y[k].segments)]
  BY <1>4, <1>6
<1>9. [k \in DOMAIN X |-> IF X[k].change # "Unchanged" THEN 1 ELSE 0]
        = [k \in DOMAIN Y |-> IF Y[k].change # "Unchanged" THEN 1 ELSE 0]
  BY <1>4, <1>6
<1>10. calculate_usage(r, X) = calculate_usage(t, Y)
  <2>1. \A x, Z : calculate_usage(x, Z)
                    = UsageOf(Len(x), Len(Z),
                              [k \in DOMAIN Z |-> Z[k].length],
                              [k \in DOMAIN Z |-> Len(Z[k].segments)],
                              [k \in DOMAIN Z |->
                                 IF Z[k].change # "Unchanged" THEN 1 ELSE 0])
    BY DEF calculate_usage, UsageOf
  <2> DEFINE A == [k \in DOMAIN X |-> X[k].length]
             B == [k \in DOMAIN X |-> Len(X[k].segments)]
             C == [k \in DOMAIN X |-> IF X[k].change # "Unchanged" THEN 1 ELSE 0]
  <2>2. calculate_usage(r, X) = UsageOf(Len(r), Len(X), A, B, C)
    BY <2>1
  <2>3. calculate_usage(t, Y)
          = UsageOf(Len(t), Len(Y),
                    [k \in DOMAIN Y |-> Y[k].length],
                    [k \in DOMAIN Y |-> Len(Y[k].segments)],
                    [k \in DOMAIN Y |-> IF Y[k].change # "Unchanged" THEN 1 ELSE 0])
    BY <2>1
  <2>4. calculate_usage(t, Y) = UsageOf(Len(t), Len(Y), A, B, C)
    BY <1>7, <1>8, <1>9, <2>3
  <2> HIDE DEF A, B, C
  <2> QED  BY <1>5, <2>2, <2>4
<1> QED  BY <1>10 DEF UsageRefusal, X, Y

OutcomeErrors == {"hard_link_not_supported", "resource_limit_exceeded"}

\* If only one order is accepted, both last operations insert at one offset,
\* and the other order is refused for what it changes.
LEMMA SameAcceptance ==
  ASSUME NEW s \in Snapshots, NEW b \in Seq(Operations), NEW c \in Seq(Operations),
         NEW n, n = Len(b), n = Len(c), IsExchanged(b, c, n),
         plan(s, b).ok, ~plan(s, c).ok
  PROVE  Meet(ResolvedAll(s, b), n) /\ plan(s, c).error \in OutcomeErrors
<1> DEFINE r == ResolvedAll(s, b)
           t == ResolvedAll(s, c)
           v(p) == validate_edit_conflicts(Deletions(t, p), Insertions(t, p))
<1>1. /\ validate_precondition_consistency(b).ok /\ Unresolved(s, b).ok
      /\ OutputRefusal(s, r).ok /\ UsageRefusal(s, r).ok
  <2>1. /\ validate_precondition_consistency(b).ok /\ Unresolved(s, b).ok
        /\ OutputRefusal(s, r).ok
    BY AcceptedPlan
  <2>2. UsageRefusal(s, r).ok
    BY <2>1, PlanCases
  <2> QED  BY <2>1, <2>2
<1>2. validate_precondition_consistency(c).ok /\ Unresolved(s, c).ok
  BY <1>1, ConsistentExchanged, ResolvedExchanged
<1>3. IsRenumbered(r, t, s, n)
  BY <1>1, RenumberedBatch
<1>4. plan(s, c) = IF ~OutputRefusal(s, t).ok THEN OutputRefusal(s, t)
                   ELSE IF ~UsageRefusal(s, t).ok THEN UsageRefusal(s, t)
                   ELSE Accepted(s, t)
  BY <1>2, PlanCases
<1>5. Accepted(s, t).ok
  BY DEF Accepted
<1>6. ~AmbiguousBatch(r)
  BY ConflictsOfPlan
<1>7. Len(r) = Len(t)
  <2>1. DOMAIN b = 1 .. n /\ DOMAIN c = 1 .. n /\ n \in Nat
    BY DEF IsExchanged
  <2> QED  BY <2>1 DEF ResolvedAll
<1> HIDE DEF r, t
<1>8. /\ IsBatch(r, s, n) /\ IsBatch(t, s, n) /\ OutputPaths(r) = OutputPaths(t)
      /\ OutputPaths(t) \subseteq Paths
  BY <1>3, SamePaths, OutputList DEF IsRenumbered
<1>9. ~AmbiguousBatch(t)
  <2>1. IsRenumbered(t, r, s, n)
    BY <1>3, RenumberedBack
  <2> QED  BY <1>6, <2>1, SameConflicts
<1>10. ASSUME NEW p \in OutputPaths(t)
       PROVE  /\ ~Overlaps(Deletions(r, p)) /\ ~Overlaps(Deletions(t, p))
              /\ v(p).ok
  <2>1. ~Overlaps(Deletions(t, p)) /\ ~Splits(Deletions(t, p), Insertions(t, p))
    BY <1>8, <1>9, AmbiguousSomewhere
  <2>2. ~Overlaps(Deletions(r, p))
    BY <1>6, <1>8, AmbiguousSomewhere
  <2>3. v(p).ok
    BY <1>8, <2>1, ConflictsAt DEF Fine
  <2> QED  BY <2>1, <2>2, <2>3
<1>11. ASSUME NEW p \in OutputPaths(t)
       PROVE  OutputError(s, t, p)
                = IF /\ PlannedOutput(s, t, p).change # "Unchanged"
                     /\ s[p].present /\ s[p].links # 1
                  THEN Refused("hard_link_not_supported") ELSE Fine
  BY <1>10 DEF OutputError
<1>12. Fine.ok /\ \A reason : ~Refused(reason).ok /\ Refused(reason).error = reason
  BY DEF Fine, Refused, ConflictAt
<1>13. \/ OutputRefusal(s, t) = Fine
       \/ OutputRefusal(s, t) = Refused("hard_link_not_supported")
  BY <1>8, <1>11, <1>12, OutputChecks
<1>14. UsageRefusal(s, t) = Fine \/ UsageRefusal(s, t) = Refused("resource_limit_exceeded")
  BY DEF UsageRefusal, enforce_usage
<1>15. plan(s, c).error \in OutcomeErrors
  <2>1. CASE ~OutputRefusal(s, t).ok
    BY <1>4, <1>12, <1>13, <2>1 DEF OutcomeErrors
  <2>2. CASE OutputRefusal(s, t).ok
    <3>1. ~UsageRefusal(s, t).ok /\ plan(s, c) = UsageRefusal(s, t)
      BY <1>4, <1>5, <2>2
    <3> QED  BY <1>12, <1>14, <3>1 DEF OutcomeErrors
  <2> QED  BY <2>1, <2>2
<1>16. ASSUME ~Meet(r, n)
       PROVE  FALSE
  <2>1. UsageRefusal(s, t).ok
    <3>1. UsageRefusal(s, r) = UsageRefusal(s, t)
      BY <1>3, <1>7, <1>8, <1>10, <1>16, SameUsage
    <3> QED  BY <1>1, <3>1
  <2>2. \A p \in OutputPaths(r) : OutputError(s, r, p).ok
    BY <1>1, <1>8, OutputChecks
  <2>3. ASSUME NEW p \in OutputPaths(t)
        PROVE  OutputError(s, t, p).ok
    <3>1. OutputError(s, r, p).ok /\ p \in Paths
      BY <1>8, <2>2
    <3>2. PlannedOutput(s, r, p).change = "Unchanged"
            <=> PlannedOutput(s, t, p).change = "Unchanged"
      BY <1>3, <1>10, <1>16, <3>1, SameOutputs
    <3>3. ~(/\ PlannedOutput(s, r, p).change # "Unchanged"
            /\ s[p].present /\ s[p].links # 1)
      <4> DEFINE w == validate_edit_conflicts(Deletions(r, p), Insertions(r, p))
      <4>1. OutputError(s, r, p) = w \/ OutputError(s, r, p) = Refused("hard_link_not_supported")
            \/ ~(/\ PlannedOutput(s, r, p).change # "Unchanged"
                 /\ s[p].present /\ s[p].links # 1)
        BY DEF OutputError
      <4>2. w.ok \/ OutputError(s, r, p) = w
        BY DEF OutputError
      <4>3. w.ok
        BY <3>1, <4>2
      <4>4. OutputError(s, r, p)
              = IF /\ PlannedOutput(s, r, p).change # "Unchanged"
                   /\ s[p].present /\ s[p].links # 1
                THEN Refused("hard_link_not_supported") ELSE Fine
        BY <4>3 DEF OutputError
      <4> QED  BY <1>12, <3>1, <4>4
    <3> QED  BY <1>11, <1>12, <3>2, <3>3
  <2>4. OutputRefusal(s, t).ok
    BY <1>8, <1>12, <2>3, OutputChecks
  <2> QED  BY <1>4, <1>5, <2>1, <2>4
<1> QED  BY <1>15, <1>16 DEF r

\* The order of two operations that insert at different places changes
\* nothing, and the order of two at one offset never makes a conflict, for all
\* snapshots and batches (plan).
THEOREM OrderOnlyMatters == Spec => []OrderOnlyMattersAtOneOffset
<1>1. PlanInv => OrderOnlyMattersAtOneOffset
  <2> DEFINE b == batch
             c == Exchanged(batch)
             n == Len(batch)
             s == snapshot
             other == plan(s, c)
             r == ResolvedAll(s, b)
             t == ResolvedAll(s, c)
  <2> SUFFICES ASSUME PlanInv, n > 1, planned # Nothing
               PROVE  /\ planned.ok /\ ~other.ok =>
                           /\ MeetAtOneOffset(planned.operations)
                           /\ other.error \in OutcomeErrors
                      /\ other.ok /\ ~planned.ok =>
                           /\ MeetAtOneOffset(other.operations)
                           /\ planned.error \in OutcomeErrors
                      /\ planned.ok /\ other.ok /\ ~MeetAtOneOffset(planned.operations) =>
                           \A path \in DOMAIN s : ResultOf(planned, path) = ResultOf(other, path)
    BY DEF OrderOnlyMattersAtOneOffset, OutcomeErrors
  <2>1. s \in Snapshots /\ b \in Seq(Operations) /\ planned = plan(s, b) /\ DOMAIN s = Paths
    BY RequestsAssumption DEF PlanInv
  <2>2. /\ c \in Seq(Operations) /\ n = Len(b) /\ n = Len(c) /\ n \in Nat
        /\ IsExchanged(b, c, n) /\ IsExchanged(c, b, n)
    BY <2>1, ExchangedBatch, ExchangedBack
  <2>3. Len(r) = n /\ Len(t) = n
    <3>1. DOMAIN b = 1 .. n /\ DOMAIN c = 1 .. n
      BY <2>1, <2>2
    <3> HIDE DEF b, c, n, s
    <3> QED  BY <2>2, <3>1 DEF ResolvedAll
  <2> HIDE DEF b, c, n, r, t, other
  <2>4. planned.ok => planned.operations = r
    BY <2>1, AcceptedPlan DEF Accepted, r
  <2>5. other.ok => other.operations = t
    BY <2>1, AcceptedPlan DEF Accepted, t, other
  <2>6. (MeetAtOneOffset(r) <=> Meet(r, n)) /\ (MeetAtOneOffset(t) <=> Meet(t, n))
    BY <2>3 DEF MeetAtOneOffset, Meet
  <2>7. ASSUME planned.ok, ~other.ok
        PROVE  MeetAtOneOffset(planned.operations) /\ other.error \in OutcomeErrors
    <3>1. Meet(r, n) /\ other.error \in OutcomeErrors
      BY <2>1, <2>2, <2>7, SameAcceptance DEF r, other
    <3> QED  BY <2>4, <2>6, <2>7, <3>1
  <2>8. ASSUME other.ok, ~planned.ok
        PROVE  MeetAtOneOffset(other.operations) /\ planned.error \in OutcomeErrors
    <3>1. Meet(t, n) /\ planned.error \in OutcomeErrors
      BY <2>1, <2>2, <2>8, SameAcceptance DEF t, other
    <3> QED  BY <2>5, <2>6, <2>8, <3>1
  <2>9. ASSUME planned.ok, other.ok, ~MeetAtOneOffset(planned.operations),
               NEW path \in DOMAIN s
        PROVE  ResultOf(planned, path) = ResultOf(other, path)
    <3>1. PlanParts(planned, s, r, n) /\ PlanParts(other, s, t, n)
      BY <2>1, <2>2, <2>9, PartsOfPlan DEF r, t, other
    <3>2. ResultOf(planned, path) = MeansOf(s, r, n, path)
      BY <2>1, <2>9, <3>1, ResultMeans
    <3>3. ResultOf(other, path) = MeansOf(s, t, n, path)
      BY <2>1, <2>9, <3>1, ResultMeans
    <3>4. IsRenumbered(r, t, s, n)
      <4>1. Unresolved(s, b).ok
        BY <2>1, <2>9, AcceptedPlan
      <4> QED  BY <2>1, <2>2, <4>1, RenumberedBatch DEF r, t
    <3>5. ~Meet(r, n)
      BY <2>4, <2>6, <2>9
    <3> QED  BY <2>1, <2>9, <3>2, <3>3, <3>4, <3>5, SameMeaning
  <2> QED  BY <2>7, <2>8, <2>9
<1> QED  BY <1>1, PlanIsOfBatch, PTL

-----------------------------------------------------------------------------
(***************************************************************************)
(* Where the bytes of a file come from.                                    *)
(***************************************************************************)
PositionsOf(seq, byte) == {i \in DOMAIN seq : seq[i] = byte}

\* Positions that are moved are as many.
LEMMA ShiftedCount ==
  ASSUME NEW T, T \subseteq Nat, IsFiniteSet(T), NEW s \in Nat
  PROVE  /\ IsFiniteSet({i + s : i \in T})
         /\ Cardinality({i + s : i \in T}) = Cardinality(T)
<1> DEFINE U == {i + s : i \in T}
           f == [i \in T |-> i + s]
<1>1. f \in [T -> U]
  OBVIOUS
<1>2. \A i, j \in T : f[i] = f[j] => i = j
  OBVIOUS
<1>3. \A u \in U : \E i \in T : f[i] = u
  OBVIOUS
<1> HIDE DEF f, U
<1>4. f \in Bijection(T, U)
  <2>1. f \in Injection(T, U)
    BY <1>1, <1>2 DEF Injection, IsInjective
  <2>2. f \in Surjection(T, U)
    BY <1>1, <1>3 DEF Surjection
  <2> QED  BY <2>1, <2>2 DEF Bijection
<1>5. ExistsBijection(T, U)
  BY <1>4 DEF ExistsBijection
<1>6. IsFiniteSet(U) /\ Cardinality(U) = Cardinality(T)
  BY <1>5, FS_Bijection
<1> QED  BY <1>6 DEF U

\* A byte is at finitely many positions.
LEMMA PositionsFinite ==
  ASSUME NEW S, NEW seq \in Seq(S), NEW byte
  PROVE  /\ IsFiniteSet(PositionsOf(seq, byte))
         /\ PositionsOf(seq, byte) \subseteq 1 .. Len(seq)
<1>1. PositionsOf(seq, byte) \subseteq 1 .. Len(seq) /\ Len(seq) \in Nat
  BY DEF PositionsOf
<1>2. IsFiniteSet(1 .. Len(seq))
  BY <1>1, FS_Interval
<1> QED  BY <1>1, <1>2, FS_Subset

\* Of two sequences, one after the other.
LEMMA PositionsJoin ==
  ASSUME NEW S, NEW a \in Seq(S), NEW b \in Seq(S), NEW byte
  PROVE  Cardinality(PositionsOf(a \o b, byte))
           = Cardinality(PositionsOf(a, byte)) + Cardinality(PositionsOf(b, byte))
<1> DEFINE c == a \o b
           m == Len(a)
           n == Len(b)
           A == PositionsOf(a, byte)
           B == PositionsOf(b, byte)
           C == PositionsOf(c, byte)
           Moved == {i + m : i \in B}
<1>1. m \in Nat /\ n \in Nat /\ DOMAIN a = 1 .. m /\ DOMAIN b = 1 .. n
  OBVIOUS
<1>2. /\ c \in Seq(S) /\ Len(c) = m + n
      /\ \A i \in 1 .. m + n : c[i] = IF i <= m THEN a[i] ELSE b[i - m]
  BY ConcatProperties
<1>3. DOMAIN c = 1 .. m + n
  <2> HIDE DEF c
  <2> QED  BY <1>2
<1>4. /\ \A i : i \in A <=> i \in 1 .. m /\ a[i] = byte
      /\ \A i : i \in B <=> i \in 1 .. n /\ b[i] = byte
      /\ \A i : i \in C <=> i \in 1 .. m + n /\ c[i] = byte
  BY <1>1, <1>3 DEF PositionsOf
<1>5. IsFiniteSet(A) /\ IsFiniteSet(B)
  BY PositionsFinite
<1>6. B \subseteq Nat
  BY <1>4
<1> HIDE DEF A, B, C, c, m, n
<1>7. IsFiniteSet(Moved) /\ Cardinality(Moved) = Cardinality(B)
  BY <1>1, <1>5, <1>6, ShiftedCount
<1>8. \A i : i \in Moved <=> i \in m + 1 .. m + n /\ i - m \in B
  <2>1. ASSUME NEW i \in Moved
        PROVE  i \in m + 1 .. m + n /\ i - m \in B
    <3>1. PICK j \in B : i = j + m
      OBVIOUS
    <3>2. j \in 1 .. n
      BY <1>4
    <3>3. (j + m) - m = j /\ j + m \in m + 1 .. m + n
      BY <1>1, <3>2
    <3> QED  BY <3>1, <3>3
  <2>2. ASSUME NEW i \in m + 1 .. m + n, i - m \in B
        PROVE  i \in Moved
    <3>1. i = (i - m) + m
      BY <1>1
    <3> QED  BY <2>2, <3>1
  <2> QED  BY <2>1, <2>2
<1> HIDE DEF Moved
<1>9. C = A \cup Moved
  <2>1. ASSUME NEW i \in C
        PROVE  i \in A \cup Moved
    <3>1. i \in 1 .. m + n /\ c[i] = byte
      BY <1>4
    <3>2. CASE i <= m
      <4>1. i \in 1 .. m /\ a[i] = byte
        BY <1>1, <1>2, <3>1, <3>2
      <4> QED  BY <1>4, <4>1
    <3>3. CASE ~(i <= m)
      <4>1. b[i - m] = byte
        BY <1>2, <3>1, <3>3
      <4>2. i - m \in 1 .. n /\ i \in m + 1 .. m + n
        BY <1>1, <3>1, <3>3
      <4> QED  BY <1>4, <1>8, <4>1, <4>2
    <3> QED  BY <3>2, <3>3
  <2>2. ASSUME NEW i \in A
        PROVE  i \in C
    <3>1. i \in 1 .. m /\ a[i] = byte
      BY <1>4
    <3>2. i \in 1 .. m + n /\ i <= m
      BY <1>1, <3>1
    <3> QED  BY <1>2, <1>4, <3>1, <3>2
  <2>3. ASSUME NEW i \in Moved
        PROVE  i \in C
    <3>1. i \in m + 1 .. m + n /\ b[i - m] = byte
      BY <1>4, <1>8
    <3>2. i \in 1 .. m + n /\ ~(i <= m)
      BY <1>1, <3>1
    <3> QED  BY <1>2, <1>4, <3>1, <3>2
  <2> QED  BY <2>1, <2>2, <2>3
<1>10. A \cap Moved = {}
  <2> SUFFICES ASSUME NEW i \in A, i \in Moved
               PROVE  FALSE
    OBVIOUS
  <2>1. i \in 1 .. m /\ i \in m + 1 .. m + n
    BY <1>4, <1>8
  <2> QED  BY <1>1, <2>1
<1>11. Cardinality(C) = Cardinality(A) + Cardinality(Moved)
  BY <1>5, <1>7, <1>9, <1>10, DisjointUnion
<1>12. Cardinality(C) = Cardinality(A) + Cardinality(B)
  BY <1>7, <1>11
<1> QED  BY <1>12 DEF A, B, C, c

\* A family of finite sets, no two of which have something in common.
Disjoint(C, n) ==
  /\ \A k \in 1 .. n : IsFiniteSet(C[k])
  /\ \A j, k \in 1 .. n : j # k => C[j] \cap C[k] = {}

AllOf(C, n) == UNION {C[k] : k \in 1 .. n}

\* The members of F one after the other have a byte as often as there are
\* places in C, if that is so for each member.
LEMMA PositionsFlat ==
  ASSUME NEW S, NEW n \in Nat, NEW F, Sequences(F, n, S), NEW byte,
         NEW C, Disjoint(C, n),
         \A k \in 1 .. n : Cardinality(PositionsOf(F[k], byte)) = Cardinality(C[k])
  PROVE  /\ IsFiniteSet(AllOf(C, n))
         /\ Cardinality(PositionsOf(Flat(F, n), byte)) = Cardinality(AllOf(C, n))
<1> DEFINE Good(m) == /\ IsFiniteSet(AllOf(C, m))
                      /\ Cardinality(PositionsOf(Flat(F, m), byte))
                           = Cardinality(AllOf(C, m))
           P == {m \in Nat : m <= n => Good(m)}
<1>1. 0 \in P
  <2>1. AllOf(C, 0) = {}
    BY DEF AllOf
  <2>2. Flat(F, 0) = << >>
    BY FlattenNone
  <2>3. PositionsOf(<< >>, byte) = {}
    BY DEF PositionsOf
  <2> QED  BY <2>1, <2>2, <2>3, FS_EmptySet
<1>2. ASSUME NEW m \in Nat, m \in P
      PROVE  m + 1 \in P
  <2> SUFFICES ASSUME m + 1 <= n
               PROVE  Good(m + 1)
    OBVIOUS
  <2>1. Good(m)
    BY <1>2
  <2>2. m + 1 \in 1 .. n /\ 1 .. m + 1 = 1 .. m \cup {m + 1} /\ 1 .. m \subseteq 1 .. n
    OBVIOUS
  <2>3. Sequences(F, m + 1, S) /\ F[m + 1] \in Seq(S)
    BY <2>2 DEF Sequences
  <2>4. Flat(F, m) \in Seq(S) /\ Flat(F, m + 1) = Flat(F, m) \o F[m + 1]
    BY <2>3, FlattenNext
  <2>5. Cardinality(PositionsOf(Flat(F, m + 1), byte))
          = Cardinality(AllOf(C, m)) + Cardinality(C[m + 1])
    <3>1. Cardinality(PositionsOf(Flat(F, m) \o F[m + 1], byte))
            = Cardinality(PositionsOf(Flat(F, m), byte))
              + Cardinality(PositionsOf(F[m + 1], byte))
      BY <2>3, <2>4, PositionsJoin
    <3>2. Cardinality(PositionsOf(F[m + 1], byte)) = Cardinality(C[m + 1])
      BY <2>2
    <3> QED  BY <2>1, <2>4, <3>1, <3>2
  <2>6. AllOf(C, m + 1) = AllOf(C, m) \cup C[m + 1]
    BY <2>2 DEF AllOf
  <2>7. AllOf(C, m) \cap C[m + 1] = {}
    <3> SUFFICES ASSUME NEW x \in AllOf(C, m), x \in C[m + 1]
                 PROVE  FALSE
      OBVIOUS
    <3>1. PICK k \in 1 .. m : x \in C[k]
      BY DEF AllOf
    <3>2. k \in 1 .. n /\ k # m + 1
      BY <2>2
    <3> QED  BY <2>2, <3>1, <3>2 DEF Disjoint
  <2>8. IsFiniteSet(C[m + 1])
    BY <2>2 DEF Disjoint
  <2>9. IsFiniteSet(AllOf(C, m + 1))
    <3>1. IsFiniteSet(AllOf(C, m) \cup C[m + 1])
      BY <2>1, <2>8, FS_Union
    <3> QED  BY <2>6, <3>1
  <2>10. Cardinality(AllOf(C, m + 1)) = Cardinality(AllOf(C, m)) + Cardinality(C[m + 1])
    BY <2>1, <2>6, <2>7, <2>8, DisjointUnion
  <2> QED  BY <2>5, <2>9, <2>10
<1>3. n \in P
  <2> HIDE DEF P
  <2> QED  BY <1>1, <1>2, SetInduction
<1> QED  BY <1>3

Gathered(C, I) == UNION {C[i] : i \in I}

\* Two families of sets that have nothing in common within a family, of equal
\* sizes.
LEMMA FamilyCount ==
  ASSUME NEW I, IsFiniteSet(I), NEW A, NEW B,
         \A i \in I : /\ IsFiniteSet(A[i]) /\ IsFiniteSet(B[i])
                      /\ Cardinality(A[i]) = Cardinality(B[i]),
         \A i, j \in I : i # j => A[i] \cap A[j] = {} /\ B[i] \cap B[j] = {}
  PROVE  Cardinality(Gathered(A, I)) = Cardinality(Gathered(B, I))
<1> DEFINE UA == UNION {A[i] : i \in I}
           UB == UNION {B[i] : i \in I}
           of == [x \in UA |-> CHOOSE i \in I : x \in A[i]]
           f == [i \in I |-> CHOOSE g : g \in Bijection(A[i], B[i])]
           h == [x \in UA |-> f[of[x]][x]]
<1>1. \A x \in UA : of[x] \in I /\ x \in A[of[x]]
  OBVIOUS
<1>2. \A i \in I : f[i] \in Bijection(A[i], B[i])
  <2> SUFFICES ASSUME NEW i \in I
               PROVE  f[i] \in Bijection(A[i], B[i])
    OBVIOUS
  <2>1. ExistsBijection(A[i], B[i])
    BY FS_SameCardinalityBij
  <2> QED  BY <2>1 DEF ExistsBijection
<1>3. \A x \in UA, i \in I : x \in A[i] => of[x] = i
  <2> SUFFICES ASSUME NEW x \in UA, NEW i \in I, x \in A[i], of[x] # i
               PROVE  FALSE
    OBVIOUS
  <2> QED  BY <1>1
<1>4. \A i \in I : /\ \A x \in A[i] : f[i][x] \in B[i]
                   /\ \A x, y \in A[i] : f[i][x] = f[i][y] => x = y
                   /\ \A z \in B[i] : \E x \in A[i] : f[i][x] = z
  <2> SUFFICES ASSUME NEW i \in I
               PROVE  /\ \A x \in A[i] : f[i][x] \in B[i]
                      /\ \A x, y \in A[i] : f[i][x] = f[i][y] => x = y
                      /\ \A z \in B[i] : \E x \in A[i] : f[i][x] = z
    OBVIOUS
  <2>1. f[i] \in Bijection(A[i], B[i])
    BY <1>2
  <2> HIDE DEF f
  <2> QED  BY <2>1 DEF Bijection, Injection, Surjection, IsInjective
<1>5. \A x \in UA : h[x] = f[of[x]][x]
  OBVIOUS
<1>6. \A i \in I : A[i] \subseteq UA /\ B[i] \subseteq UB
  OBVIOUS
<1>7. \A z \in UB : \E i \in I : z \in B[i]
  OBVIOUS
<1>8. h = [x \in UA |-> h[x]]
  OBVIOUS
<1>9. IsFiniteSet(UA)
  <2>1. IsFiniteSet({A[i] : i \in I})
    <3> DEFINE g == [i \in I |-> A[i]]
    <3>1. g \in Surjection(I, {A[i] : i \in I})
      BY DEF Surjection
    <3> HIDE DEF g
    <3> QED  BY <3>1, FS_Surjection
  <2> QED  BY <2>1, FS_UNION
<1> HIDE DEF h, f, of, UA, UB
<1>10. h \in [UA -> UB]
  <2>1. \A x \in UA : h[x] \in UB
    BY <1>1, <1>4, <1>5, <1>6
  <2> QED  BY <1>8, <2>1
<1>11. \A x, y \in UA : h[x] = h[y] => x = y
  <2> SUFFICES ASSUME NEW x \in UA, NEW y \in UA, h[x] = h[y]
               PROVE  x = y
    OBVIOUS
  <2>1. h[x] \in B[of[x]] /\ h[y] \in B[of[y]]
    BY <1>1, <1>4, <1>5
  <2>2. of[x] = of[y]
    BY <1>1, <2>1
  <2> QED  BY <1>1, <1>4, <1>5, <2>2
<1>12. \A z \in UB : \E x \in UA : h[x] = z
  <2> SUFFICES ASSUME NEW z \in UB
               PROVE  \E x \in UA : h[x] = z
    OBVIOUS
  <2>1. PICK i \in I : z \in B[i]
    BY <1>7
  <2>2. PICK x \in A[i] : f[i][x] = z
    BY <1>4, <2>1
  <2>3. x \in UA /\ of[x] = i
    BY <1>3, <1>6
  <2> QED  BY <1>5, <2>2, <2>3
<1>13. h \in Bijection(UA, UB)
  BY <1>10, <1>11, <1>12 DEF Bijection, Injection, Surjection, IsInjective
<1>14. ExistsBijection(UA, UB)
  BY <1>13 DEF ExistsBijection
<1>15. Cardinality(UB) = Cardinality(UA)
  BY <1>9, <1>14, FS_Bijection
<1> QED  BY <1>15 DEF UA, UB, Gathered

\* A batch of moves that takes no byte twice.
IsMoves(r, s, n) ==
  /\ IsBatch(r, s, n)
  /\ \A i \in 1 .. n : r[i].kind = "move"
  /\ \A path \in Paths : ~Overlaps(Deletions(r, path))

\* The places a byte of a payload is taken from.
PayloadPlaces(s, d, byte) ==
  {d.source} \X {j \in d.start + 1 .. d.end : s[d.source].bytes[j] = byte}

\* The place of a byte that stays.
KeptPlaces(s, r, path, g, byte) ==
  {c \in {<< path, g >>} : /\ g <= Len(s[path].bytes)
                           /\ ~Taken(Deletions(r, path), g - 1)
                           /\ s[path].bytes[g] = byte}

InsertedPlaces(s, r, path, o, byte) ==
  [i \in DOMAIN r |-> IF r[i] \in Here(r, path, o) THEN PayloadPlaces(s, r[i], byte)
                      ELSE {}]

GapPlaces(s, r, n, path, byte) ==
  [g \in 1 .. Len(s[path].bytes) + 1 |->
     AllOf(InsertedPlaces(s, r, path, g - 1, byte), n) \cup KeptPlaces(s, r, path, g, byte)]

\* The places of the original files that what is written to a path comes from.
Origin(s, r, n, path, byte) ==
  AllOf(GapPlaces(s, r, n, path, byte), Len(s[path].bytes) + 1)

\* A payload has a byte as often as the range it is taken from.
LEMMA PayloadCount ==
  ASSUME NEW s \in Snapshots, NEW d, NEW i \in Nat, IsResolved(d, s, i), NEW byte
  PROVE  /\ IsFiniteSet(PayloadPlaces(s, d, byte))
         /\ Cardinality(PositionsOf(d.selected, byte))
              = Cardinality(PayloadPlaces(s, d, byte))
<1> DEFINE b == s[d.source].bytes
           w == d.selected
           P == PositionsOf(w, byte)
           C == PayloadPlaces(s, d, byte)
           f == [k \in P |-> << d.source, d.start + k >>]
<1>1. /\ d.source \in Paths /\ d.start \in Nat /\ d.end \in Nat
      /\ d.start <= d.end /\ d.end <= Len(b) /\ w = Slice(b, d.start, d.end)
  BY DEF IsResolved
<1>2. b \in ByteStrings /\ Len(b) \in Nat
  BY <1>1, FileBytes
<1>3. d.end \in 0 .. Len(b)
  BY <1>1, <1>2
<1> HIDE DEF b
<1>4. /\ w \in ByteStrings /\ Len(w) = d.end - d.start
      /\ \A k \in 1 .. d.end - d.start : w[k] = b[d.start + k]
  <2> DEFINE v == Slice(b, d.start, d.end)
  <2>1. /\ v \in ByteStrings /\ Len(v) = d.end - d.start
        /\ \A k \in 1 .. d.end - d.start : v[k] = b[d.start + k]
    BY <1>1, <1>2, <1>3, SliceType
  <2>2. w = v
    BY <1>1
  <2> HIDE DEF v, w
  <2> QED  BY <2>1, <2>2
<1>5. DOMAIN w = 1 .. d.end - d.start
  <2> HIDE DEF w
  <2> QED  BY <1>4 DEF ByteStrings
<1>6. \A k : k \in P <=> k \in 1 .. d.end - d.start /\ b[d.start + k] = byte
  <2>1. \A k : k \in P <=> k \in 1 .. d.end - d.start /\ w[k] = byte
    BY <1>5 DEF PositionsOf
  <2> HIDE DEF P, w
  <2> QED  BY <1>4, <2>1
<1>7. IsFiniteSet(P)
  BY <1>4, PositionsFinite DEF ByteStrings
<1>8. C = {d.source} \X {j \in d.start + 1 .. d.end : b[j] = byte}
  BY DEF PayloadPlaces, b
<1>9. \A k \in P : f[k] = << d.source, d.start + k >>
  OBVIOUS
<1>10. f = [k \in P |-> f[k]]
  OBVIOUS
<1> HIDE DEF P, C, f
<1>11. f \in [P -> C]
  <2> SUFFICES ASSUME NEW k \in P
               PROVE  f[k] \in C
    BY <1>10
  <2>1. k \in 1 .. d.end - d.start /\ b[d.start + k] = byte
    BY <1>6
  <2>2. d.start + k \in d.start + 1 .. d.end
    BY <1>1, <2>1
  <2> DEFINE j == d.start + k
  <2>3. j \in {l \in d.start + 1 .. d.end : b[l] = byte}
    BY <2>1, <2>2
  <2> HIDE DEF j
  <2>4. << d.source, j >> \in C
    BY <1>8, <2>3
  <2>5. f[k] = << d.source, j >>
    BY <1>9 DEF j
  <2> QED  BY <2>4, <2>5
<1>12. \A k, l \in P : f[k] = f[l] => k = l
  <2> SUFFICES ASSUME NEW k \in P, NEW l \in P, f[k] = f[l]
               PROVE  k = l
    OBVIOUS
  <2>1. d.start + k = d.start + l
    BY <1>9
  <2>2. k \in Int /\ l \in Int
    BY <1>6
  <2> QED  BY <1>1, <2>1, <2>2
<1>13. \A c \in C : \E k \in P : f[k] = c
  <2> SUFFICES ASSUME NEW c \in C
               PROVE  \E k \in P : f[k] = c
    OBVIOUS
  <2>1. c = << d.source, c[2] >> /\ c[2] \in d.start + 1 .. d.end /\ b[c[2]] = byte
    BY <1>8
  <2> DEFINE k == c[2] - d.start
  <2>2. k \in 1 .. d.end - d.start /\ d.start + k = c[2]
    BY <1>1, <2>1
  <2>3. k \in P
    BY <1>6, <2>1, <2>2
  <2>4. f[k] = c
    BY <1>9, <2>1, <2>2, <2>3
  <2> QED  BY <2>3, <2>4
<1>14. f \in Bijection(P, C)
  BY <1>11, <1>12, <1>13 DEF Bijection, Injection, Surjection, IsInjective
<1>15. ExistsBijection(P, C)
  BY <1>14 DEF ExistsBijection
<1>16. IsFiniteSet(C) /\ Cardinality(C) = Cardinality(P)
  BY <1>7, <1>15, FS_Bijection
<1> QED  BY <1>16 DEF P, C

\* So has a byte that stays.
LEMMA KeptCount ==
  ASSUME NEW s, NEW r, NEW path, NEW g, NEW byte
  PROVE  /\ IsFiniteSet(KeptPlaces(s, r, path, g, byte))
         /\ Cardinality(PositionsOf(KeptByte(s, r, path, g), byte))
              = Cardinality(KeptPlaces(s, r, path, g, byte))
<1> DEFINE here == g <= Len(s[path].bytes) /\ ~Taken(Deletions(r, path), g - 1)
           K == KeptPlaces(s, r, path, g, byte)
           P == PositionsOf(KeptByte(s, r, path, g), byte)
<1>1. CASE here /\ s[path].bytes[g] = byte
  <2>1. K = {<< path, g >>}
    BY <1>1 DEF KeptPlaces
  <2>2. KeptByte(s, r, path, g) = << byte >>
    BY <1>1 DEF KeptByte
  <2>3. P = {1}
    BY <2>2 DEF PositionsOf
  <2> HIDE DEF K, P
  <2>4. IsFiniteSet(K) /\ Cardinality(K) = 1 /\ Cardinality(P) = 1
    BY <2>1, <2>3, FS_Singleton
  <2> QED  BY <2>4 DEF K, P
<1>2. CASE here /\ s[path].bytes[g] # byte
  <2>1. K = {}
    BY <1>2 DEF KeptPlaces
  <2>2. KeptByte(s, r, path, g) = << s[path].bytes[g] >>
    BY <1>2 DEF KeptByte
  <2>3. P = {}
    BY <1>2, <2>2 DEF PositionsOf
  <2> HIDE DEF K, P
  <2>4. IsFiniteSet(K) /\ Cardinality(K) = Cardinality(P)
    BY <2>1, <2>3, FS_EmptySet
  <2> QED  BY <2>4 DEF K, P
<1>3. CASE ~here
  <2>1. K = {}
    BY <1>3 DEF KeptPlaces
  <2>2. KeptByte(s, r, path, g) = << >>
    BY <1>3 DEF KeptByte
  <2>3. P = {}
    BY <2>2 DEF PositionsOf
  <2> HIDE DEF K, P
  <2>4. IsFiniteSet(K) /\ Cardinality(K) = Cardinality(P)
    BY <2>1, <2>3, FS_EmptySet
  <2> QED  BY <2>4 DEF K, P
<1> QED  BY <1>1, <1>2, <1>3

\* The place a payload is taken from: a move deletes the byte there.
LEMMA PayloadTaken ==
  ASSUME NEW s \in Snapshots, NEW r, NEW n, IsMoves(r, s, n), NEW i \in 1 .. n,
         r[i].effect = "changed", NEW byte, NEW c \in PayloadPlaces(s, r[i], byte)
  PROVE  /\ c = << c[1], c[2] >> /\ c[1] \in Paths /\ c[2] \in 1 .. Len(s[c[1]].bytes)
         /\ s[c[1]].bytes[c[2]] = byte
         /\ r[i] \in Deletions(r, c[1])
         /\ r[i].start <= c[2] - 1 /\ c[2] - 1 < r[i].end
         /\ Taken(Deletions(r, c[1]), c[2] - 1)
<1>1. /\ IsResolved(r[i], s, i) /\ r[i].kind = "move" /\ r[i] \in Range(r)
      /\ IsBatch(r, s, n)
  BY BatchMembers DEF IsMoves, IsBatch
<1> DEFINE d == r[i]
<1>2. /\ d.source \in Paths /\ d.start \in Nat /\ d.end \in Nat
      /\ d.end <= Len(s[d.source].bytes) /\ d.start <= d.end
  BY <1>1 DEF IsResolved
<1>3. Len(s[d.source].bytes) \in Nat
  BY <1>2, FileBytes
<1>4. /\ c = << d.source, c[2] >> /\ c[2] \in d.start + 1 .. d.end
      /\ s[d.source].bytes[c[2]] = byte
  BY DEF PayloadPlaces
<1>5. c[1] = d.source /\ c = << c[1], c[2] >>
  BY <1>4
<1>6. d \in Deletions(r, d.source)
  BY <1>1 DEF Deletions
<1> HIDE DEF d
<1>7. /\ c[2] \in 1 .. Len(s[d.source].bytes)
      /\ d.start <= c[2] - 1 /\ c[2] - 1 < d.end
  BY <1>2, <1>3, <1>4
<1>8. Taken(Deletions(r, d.source), c[2] - 1)
  BY <1>6, <1>7 DEF Taken
<1> QED  BY <1>2, <1>4, <1>5, <1>6, <1>7, <1>8 DEF d

\* No place is taken by two moves.
LEMMA TakenOnce ==
  ASSUME NEW s \in Snapshots, NEW r, NEW n, IsMoves(r, s, n),
         NEW i \in 1 .. n, NEW j \in 1 .. n,
         r[i].effect = "changed", r[j].effect = "changed", NEW byte,
         NEW c, c \in PayloadPlaces(s, r[i], byte), c \in PayloadPlaces(s, r[j], byte)
  PROVE  i = j
<1>1. /\ c[1] \in Paths /\ c[2] \in 1 .. Len(s[c[1]].bytes)
      /\ r[i] \in Deletions(r, c[1])
      /\ r[i].start <= c[2] - 1 /\ c[2] - 1 < r[i].end
  BY PayloadTaken
<1>2. /\ r[j] \in Deletions(r, c[1])
      /\ r[j].start <= c[2] - 1 /\ c[2] - 1 < r[j].end
  BY PayloadTaken
<1>3. SoundDeletions(Deletions(r, c[1]))
  BY <1>1, DeletionsAreSound DEF IsMoves
<1>4. c[2] - 1 \in Nat
  BY <1>1
<1>5. r[i] = r[j]
  BY <1>1, <1>2, <1>3, <1>4 DEF SoundDeletions
<1>6. r[i].operation_index = i /\ r[j].operation_index = j
  BY DEF IsMoves, IsBatch, IsResolved
<1> QED  BY <1>5, <1>6

\* What is inserted at an offset has a byte as often as the places it is taken
\* from.
LEMMA InsertedCount ==
  ASSUME NEW s \in Snapshots, NEW r, NEW n, IsMoves(r, s, n), NEW path, NEW o,
         NEW byte
  PROVE  LET C == AllOf(InsertedPlaces(s, r, path, o, byte), n)
         IN  /\ IsFiniteSet(C)
             /\ Cardinality(PositionsOf(Flat(InsertedBy(r, path, o), n), byte))
                  = Cardinality(C)
<1> DEFINE C == InsertedPlaces(s, r, path, o, byte)
           F == InsertedBy(r, path, o)
<1>1. n \in Nat /\ DOMAIN r = 1 .. n /\ IsBatch(r, s, n)
  BY DEF IsMoves, IsBatch
<1>2. \A i \in 1 .. n : r[i] \in Here(r, path, o) => r[i].effect = "changed"
  BY DEF Here, Insertions
<1>3. /\ \A i \in 1 .. n : r[i] \in Here(r, path, o) =>
           C[i] = PayloadPlaces(s, r[i], byte) /\ F[i] = r[i].selected
      /\ \A i \in 1 .. n : r[i] \notin Here(r, path, o) => C[i] = {} /\ F[i] = << >>
  BY <1>1 DEF InsertedPlaces, InsertedBy
<1>4. Sequences(F, n, 0 .. 255)
  BY <1>1, PayloadsInOrder
<1> HIDE DEF C, F
<1>5. ASSUME NEW i \in 1 .. n
      PROVE  /\ IsFiniteSet(C[i])
             /\ Cardinality(PositionsOf(F[i], byte)) = Cardinality(C[i])
  <2>1. CASE r[i] \in Here(r, path, o)
    <3>1. IsResolved(r[i], s, i) /\ i \in Nat
      BY <1>1 DEF IsBatch
    <3>2. /\ IsFiniteSet(PayloadPlaces(s, r[i], byte))
          /\ Cardinality(PositionsOf(r[i].selected, byte))
               = Cardinality(PayloadPlaces(s, r[i], byte))
      BY <3>1, PayloadCount
    <3> QED  BY <1>3, <2>1, <3>2
  <2>2. CASE r[i] \notin Here(r, path, o)
    <3>1. PositionsOf(<< >>, byte) = {}
      BY DEF PositionsOf
    <3> QED  BY <1>3, <2>2, <3>1, FS_EmptySet
  <2> QED  BY <2>1, <2>2
<1>6. ASSUME NEW i \in 1 .. n, NEW j \in 1 .. n, i # j
      PROVE  C[i] \cap C[j] = {}
  <2> SUFFICES ASSUME NEW c, c \in C[i], c \in C[j]
               PROVE  FALSE
    OBVIOUS
  <2>1. /\ r[i] \in Here(r, path, o) /\ c \in PayloadPlaces(s, r[i], byte)
        /\ r[j] \in Here(r, path, o) /\ c \in PayloadPlaces(s, r[j], byte)
    BY <1>3
  <2>2. r[i].effect = "changed" /\ r[j].effect = "changed"
    BY <1>2, <2>1
  <2>3. i = j
    BY <2>1, <2>2, TakenOnce
  <2> QED  BY <1>6, <2>3
<1>7. Disjoint(C, n)
  BY <1>5, <1>6 DEF Disjoint
<1>8. /\ IsFiniteSet(AllOf(C, n))
      /\ Cardinality(PositionsOf(Flat(F, n), byte)) = Cardinality(AllOf(C, n))
  BY <1>1, <1>4, <1>5, <1>7, PositionsFlat
<1> QED  BY <1>8 DEF C, F

\* A place of a gap: a move to that gap takes it, or it stays there.
LEMMA GapPlace ==
  ASSUME NEW s \in Snapshots, NEW r, NEW n, IsMoves(r, s, n), NEW path \in Paths,
         NEW byte, NEW g \in 1 .. Len(s[path].bytes) + 1,
         NEW c \in GapPlaces(s, r, n, path, byte)[g]
  PROVE  \/ \E i \in 1 .. n : /\ c \in PayloadPlaces(s, r[i], byte)
                              /\ r[i].effect = "changed"
                              /\ r[i].destination = path /\ r[i].offset = g - 1
         \/ /\ c = << path, g >> /\ g <= Len(s[path].bytes) /\ s[path].bytes[g] = byte
            /\ ~Taken(Deletions(r, path), g - 1)
<1>1. DOMAIN r = 1 .. n
  BY DEF IsMoves, IsBatch
<1>2. \/ c \in AllOf(InsertedPlaces(s, r, path, g - 1, byte), n)
      \/ c \in KeptPlaces(s, r, path, g, byte)
  BY DEF GapPlaces
<1>3. ASSUME c \in AllOf(InsertedPlaces(s, r, path, g - 1, byte), n)
      PROVE  \E i \in 1 .. n : /\ c \in PayloadPlaces(s, r[i], byte)
                               /\ r[i].effect = "changed"
                               /\ r[i].destination = path /\ r[i].offset = g - 1
  <2>1. PICK i \in 1 .. n : c \in InsertedPlaces(s, r, path, g - 1, byte)[i]
    BY <1>3 DEF AllOf
  <2>2. r[i] \in Here(r, path, g - 1) /\ c \in PayloadPlaces(s, r[i], byte)
    BY <1>1, <2>1 DEF InsertedPlaces
  <2> QED  BY <2>2 DEF Here, Insertions
<1>4. ASSUME c \in KeptPlaces(s, r, path, g, byte)
      PROVE  /\ c = << path, g >> /\ g <= Len(s[path].bytes)
             /\ s[path].bytes[g] = byte /\ ~Taken(Deletions(r, path), g - 1)
  BY <1>4 DEF KeptPlaces
<1> QED  BY <1>2, <1>3, <1>4

\* Every place goes to one gap.
LEMMA OneGap ==
  ASSUME NEW s \in Snapshots, NEW r, NEW n, IsMoves(r, s, n), NEW byte,
         NEW path \in Paths, NEW g \in 1 .. Len(s[path].bytes) + 1,
         NEW other \in Paths, NEW h \in 1 .. Len(s[other].bytes) + 1,
         NEW c, c \in GapPlaces(s, r, n, path, byte)[g],
         c \in GapPlaces(s, r, n, other, byte)[h]
  PROVE  path = other /\ g = h
<1> DEFINE Moved(p, k) ==
             \E i \in 1 .. n : /\ c \in PayloadPlaces(s, r[i], byte)
                               /\ r[i].effect = "changed"
                               /\ r[i].destination = p /\ r[i].offset = k - 1
           Stays(p, k) == c = << p, k >> /\ ~Taken(Deletions(r, p), k - 1)
<1>1. Moved(path, g) \/ Stays(path, g)
  BY GapPlace
<1>2. Moved(other, h) \/ Stays(other, h)
  BY GapPlace
<1>3. Len(s[path].bytes) \in Nat /\ Len(s[other].bytes) \in Nat
  BY FileBytes
<1>4. g \in Int /\ h \in Int
  BY <1>3
<1>5. ASSUME NEW p, NEW k, Moved(p, k)
      PROVE  Taken(Deletions(r, c[1]), c[2] - 1)
  <2>1. PICK i \in 1 .. n : c \in PayloadPlaces(s, r[i], byte) /\ r[i].effect = "changed"
    BY <1>5
  <2> QED  BY <2>1, PayloadTaken
<1>6. ASSUME NEW p, NEW k, Stays(p, k)
      PROVE  ~Taken(Deletions(r, c[1]), c[2] - 1)
  <2>1. c[1] = p /\ c[2] = k
    BY <1>6
  <2> QED  BY <1>6, <2>1
<1>7. ASSUME Moved(path, g), Moved(other, h)
      PROVE  path = other /\ g = h
  <2>1. PICK i \in 1 .. n : /\ c \in PayloadPlaces(s, r[i], byte)
                            /\ r[i].effect = "changed"
                            /\ r[i].destination = path /\ r[i].offset = g - 1
    BY <1>7
  <2>2. PICK j \in 1 .. n : /\ c \in PayloadPlaces(s, r[j], byte)
                            /\ r[j].effect = "changed"
                            /\ r[j].destination = other /\ r[j].offset = h - 1
    BY <1>7
  <2>3. i = j
    BY <2>1, <2>2, TakenOnce
  <2>4. path = other /\ g - 1 = h - 1
    BY <2>1, <2>2, <2>3
  <2> QED  BY <1>4, <2>4
<1>8. ASSUME Stays(path, g), Stays(other, h)
      PROVE  path = other /\ g = h
  BY <1>8
<1> HIDE DEF Moved, Stays
<1> QED  BY <1>1, <1>2, <1>5, <1>6, <1>7, <1>8

\* What is written to a path has a byte as often as the places it comes from.
LEMMA OriginCount ==
  ASSUME NEW s \in Snapshots, NEW r, NEW n, IsMoves(r, s, n), NEW path \in Paths,
         NEW byte
  PROVE  /\ IsFiniteSet(Origin(s, r, n, path, byte))
         /\ MeansOf(s, r, n, path) \in ByteStrings
         /\ Cardinality(PositionsOf(MeansOf(s, r, n, path), byte))
              = Cardinality(Origin(s, r, n, path, byte))
<1> DEFINE N == Len(s[path].bytes)
           F == GapPieces(s, r, n, path)
           C == GapPlaces(s, r, n, path, byte)
<1>1. N \in Nat /\ N + 1 \in Nat /\ IsBatch(r, s, n)
  BY FileBytes DEF IsMoves
<1>2. ASSUME NEW g \in 1 .. N + 1
      PROVE  /\ F[g] \in Seq(0 .. 255) /\ IsFiniteSet(C[g])
             /\ Cardinality(PositionsOf(F[g], byte)) = Cardinality(C[g])
  <2> DEFINE A == AllOf(InsertedPlaces(s, r, path, g - 1, byte), n)
             K == KeptPlaces(s, r, path, g, byte)
             a == Flat(InsertedBy(r, path, g - 1), n)
             k == KeptByte(s, r, path, g)
  <2>1. F[g] = a \o k /\ C[g] = A \cup K
    BY DEF GapPieces, GapPlaces
  <2>2. g - 1 \in 0 .. N /\ (g - 1) + 1 = g
    BY <1>1
  <2>3. a \in ByteStrings
    BY <1>1, <2>2, GapPiecesType
  <2>4. k \in ByteStrings
    BY <2>2, KeptByteIsSlice
  <2>5. IsFiniteSet(A) /\ Cardinality(PositionsOf(a, byte)) = Cardinality(A)
    BY InsertedCount
  <2>6. IsFiniteSet(K) /\ Cardinality(PositionsOf(k, byte)) = Cardinality(K)
    BY KeptCount
  <2>7. A \cap K = {}
    <3> SUFFICES ASSUME NEW c, c \in A, c \in K
                 PROVE  FALSE
      OBVIOUS
    <3>1. c = << path, g >> /\ ~Taken(Deletions(r, path), g - 1)
      BY DEF KeptPlaces
    <3>2. PICK i \in 1 .. n : c \in InsertedPlaces(s, r, path, g - 1, byte)[i]
      BY DEF AllOf
    <3>3. r[i] \in Here(r, path, g - 1) /\ c \in PayloadPlaces(s, r[i], byte)
      BY <1>1, <3>2 DEF InsertedPlaces, IsBatch
    <3>4. r[i].effect = "changed"
      BY <3>3 DEF Here, Insertions
    <3>5. Taken(Deletions(r, c[1]), c[2] - 1)
      BY <3>3, <3>4, PayloadTaken
    <3>6. c[1] = path /\ c[2] = g
      BY <3>1
    <3> QED  BY <3>1, <3>5, <3>6
  <2> HIDE DEF A, K, a, k, F, C
  <2>8. /\ a \o k \in Seq(0 .. 255)
        /\ Cardinality(PositionsOf(a \o k, byte))
             = Cardinality(PositionsOf(a, byte)) + Cardinality(PositionsOf(k, byte))
    <3>1. a \in Seq(0 .. 255) /\ k \in Seq(0 .. 255)
      BY <2>3, <2>4 DEF ByteStrings
    <3>2. a \o k \in Seq(0 .. 255)
      BY <3>1, ConcatProperties
    <3> QED  BY <3>1, <3>2, PositionsJoin
  <2>9. IsFiniteSet(A \cup K)
    BY <2>5, <2>6, FS_Union
  <2>10. Cardinality(A \cup K) = Cardinality(A) + Cardinality(K)
    BY <2>5, <2>6, <2>7, DisjointUnion
  <2> QED  BY <2>1, <2>5, <2>6, <2>8, <2>9, <2>10
<1>3. Sequences(F, N + 1, 0 .. 255)
  BY <1>2 DEF Sequences
<1>4. ASSUME NEW g \in 1 .. N + 1, NEW h \in 1 .. N + 1, g # h
      PROVE  C[g] \cap C[h] = {}
  <2> SUFFICES ASSUME NEW c, c \in C[g], c \in C[h]
               PROVE  FALSE
    OBVIOUS
  <2>1. g = h
    BY OneGap
  <2> QED  BY <1>4, <2>1
<1>5. Disjoint(C, N + 1)
  BY <1>2, <1>4 DEF Disjoint
<1> HIDE DEF C, F, N
<1>6. /\ IsFiniteSet(AllOf(C, N + 1))
      /\ Cardinality(PositionsOf(Flat(F, N + 1), byte)) = Cardinality(AllOf(C, N + 1))
  <2> DEFINE M == N + 1
  <2>1. /\ M \in Nat /\ Sequences(F, M, 0 .. 255) /\ Disjoint(C, M)
        /\ \A g \in 1 .. M : Cardinality(PositionsOf(F[g], byte)) = Cardinality(C[g])
    BY <1>1, <1>2, <1>3, <1>5
  <2> HIDE DEF M
  <2>2. /\ IsFiniteSet(AllOf(C, M))
        /\ Cardinality(PositionsOf(Flat(F, M), byte)) = Cardinality(AllOf(C, M))
    BY <2>1, PositionsFlat
  <2> QED  BY <2>2 DEF M
<1>7. Flat(F, N + 1) \in ByteStrings
  BY <1>1, <1>3, FlattenType DEF ByteStrings
<1> QED  BY <1>6, <1>7 DEF Origin, MeansOf, C, F, N

\* No place goes to two paths.
LEMMA OriginsDisjoint ==
  ASSUME NEW s \in Snapshots, NEW r, NEW n, IsMoves(r, s, n), NEW byte,
         NEW path \in Paths, NEW other \in Paths, path # other
  PROVE  Origin(s, r, n, path, byte) \cap Origin(s, r, n, other, byte) = {}
<1> SUFFICES ASSUME NEW c, c \in Origin(s, r, n, path, byte),
                    c \in Origin(s, r, n, other, byte)
             PROVE  FALSE
  OBVIOUS
<1>1. PICK g \in 1 .. Len(s[path].bytes) + 1 : c \in GapPlaces(s, r, n, path, byte)[g]
  BY DEF Origin, AllOf
<1>2. PICK h \in 1 .. Len(s[other].bytes) + 1 : c \in GapPlaces(s, r, n, other, byte)[h]
  BY DEF Origin, AllOf
<1>3. path = other
  BY <1>1, <1>2, OneGap
<1> QED  BY <1>3

Origins(s, r, n, byte) == [path \in Paths |-> Origin(s, r, n, path, byte)]

\* The places of a byte in the original files, and in those that are written.
Originals(s, byte) == [path \in Paths |-> {path} \X PositionsOf(s[path].bytes, byte)]
Results(s, r, n, byte) ==
  [path \in Paths |-> {path} \X PositionsOf(MeansOf(s, r, n, path), byte)]

\* A place of the original files is the origin of one that is written.
LEMMA OriginsCover ==
  ASSUME NEW s \in Snapshots, NEW r, NEW n, IsMoves(r, s, n), NEW byte
  PROVE  Gathered(Origins(s, r, n, byte), Paths) = Gathered(Originals(s, byte), Paths)
<1>0. IsBatch(r, s, n) /\ DOMAIN r = 1 .. n
  BY DEF IsMoves, IsBatch
<1>1. \A path \in Paths : DOMAIN s[path].bytes = 1 .. Len(s[path].bytes)
                          /\ Len(s[path].bytes) \in Nat
  <2> SUFFICES ASSUME NEW path \in Paths
               PROVE  DOMAIN s[path].bytes = 1 .. Len(s[path].bytes)
                      /\ Len(s[path].bytes) \in Nat
    OBVIOUS
  <2>1. s[path].bytes \in ByteStrings
    BY FileBytes
  <2> QED  BY <2>1 DEF ByteStrings
<1>2. ASSUME NEW path \in Paths, NEW c \in Origin(s, r, n, path, byte)
      PROVE  \E p \in Paths : c \in {p} \X PositionsOf(s[p].bytes, byte)
  <2>1. PICK g \in 1 .. Len(s[path].bytes) + 1 : c \in GapPlaces(s, r, n, path, byte)[g]
    BY DEF Origin, AllOf
  <2>2. \/ \E i \in 1 .. n : /\ c \in PayloadPlaces(s, r[i], byte)
                             /\ r[i].effect = "changed"
                             /\ r[i].destination = path /\ r[i].offset = g - 1
        \/ /\ c = << path, g >> /\ g <= Len(s[path].bytes) /\ s[path].bytes[g] = byte
           /\ ~Taken(Deletions(r, path), g - 1)
    BY <2>1, GapPlace
  <2>3. CASE \E i \in 1 .. n : c \in PayloadPlaces(s, r[i], byte)
                               /\ r[i].effect = "changed"
    <3>1. /\ c = << c[1], c[2] >> /\ c[1] \in Paths
          /\ c[2] \in 1 .. Len(s[c[1]].bytes) /\ s[c[1]].bytes[c[2]] = byte
      BY <2>3, PayloadTaken
    <3>2. c[2] \in PositionsOf(s[c[1]].bytes, byte)
      BY <1>1, <3>1 DEF PositionsOf
    <3>3. c \in {c[1]} \X PositionsOf(s[c[1]].bytes, byte)
      BY <3>1, <3>2
    <3> QED  BY <3>1, <3>3
  <2>4. CASE c = << path, g >> /\ g <= Len(s[path].bytes) /\ s[path].bytes[g] = byte
    <3>1. g \in 1 .. Len(s[path].bytes)
      BY <1>1, <2>4
    <3>2. g \in PositionsOf(s[path].bytes, byte)
      BY <1>1, <2>4, <3>1 DEF PositionsOf
    <3> QED  BY <2>4, <3>2
  <2> QED  BY <2>2, <2>3, <2>4
<1>3. ASSUME NEW p \in Paths, NEW c \in {p} \X PositionsOf(s[p].bytes, byte)
      PROVE  \E path \in Paths : c \in Origin(s, r, n, path, byte)
  <2> DEFINE g == c[2]
             N == Len(s[p].bytes)
  <2>1. c = << p, g >> /\ g \in PositionsOf(s[p].bytes, byte)
    OBVIOUS
  <2>2. g \in 1 .. N /\ s[p].bytes[g] = byte
    BY <1>1, <2>1 DEF PositionsOf
  <2>3. N \in Nat
    BY <1>1
  <2>4. CASE ~Taken(Deletions(r, p), g - 1)
    <3>1. g <= N /\ g \in 1 .. N + 1
      BY <2>2, <2>3
    <3>2. c \in KeptPlaces(s, r, p, g, byte)
      BY <2>1, <2>2, <2>4, <3>1 DEF KeptPlaces
    <3>3. c \in GapPlaces(s, r, n, p, byte)[g]
      BY <3>1, <3>2 DEF GapPlaces
    <3>4. c \in Origin(s, r, n, p, byte)
      BY <3>1, <3>3 DEF Origin, AllOf
    <3> QED  BY <3>4
  <2>5. CASE Taken(Deletions(r, p), g - 1)
    <3>1. PICK d \in Deletions(r, p) : d.start <= g - 1 /\ g - 1 < d.end
      BY <2>5 DEF Taken
    <3>2. d \in Range(r) /\ d.source = p /\ d.effect = "changed"
      BY DEF Deletions
    <3>3. PICK i \in 1 .. n : d = r[i]
      BY <1>0, <3>2 DEF Range
    <3>4. /\ d.start \in Nat /\ d.end \in Nat /\ d.destination \in Paths
          /\ d.offset \in 0 .. Len(s[d.destination].bytes)
      BY <1>0, <3>3 DEF IsBatch, IsResolved
    <3> DEFINE q == d.destination
               h == d.offset + 1
    <3>5. q \in Paths /\ h \in 1 .. Len(s[q].bytes) + 1 /\ h - 1 = d.offset
      BY <1>1, <3>4
    <3>6. d \in Here(r, q, h - 1)
      BY <3>2, <3>5 DEF Here, Insertions
    <3>7. c \in PayloadPlaces(s, d, byte)
      <4>1. g \in d.start + 1 .. d.end
        BY <2>2, <2>3, <3>1, <3>4
      <4> QED  BY <2>1, <2>2, <3>2, <4>1 DEF PayloadPlaces
    <3> HIDE DEF h, q, g
    <3>8. c \in InsertedPlaces(s, r, q, h - 1, byte)[i]
      BY <1>0, <3>3, <3>6, <3>7 DEF InsertedPlaces
    <3>9. c \in GapPlaces(s, r, n, q, byte)[h]
      BY <3>5, <3>8 DEF GapPlaces, AllOf
    <3>10. c \in Origin(s, r, n, q, byte)
      BY <3>5, <3>9 DEF Origin, AllOf
    <3> QED  BY <3>5, <3>10
  <2> QED  BY <2>4, <2>5
<1>4. \A c : c \in Gathered(Origins(s, r, n, byte), Paths)
               <=> \E path \in Paths : c \in Origin(s, r, n, path, byte)
  BY DEF Gathered, Origins
<1>5. \A c : c \in Gathered(Originals(s, byte), Paths)
               <=> \E p \in Paths : c \in {p} \X PositionsOf(s[p].bytes, byte)
  BY DEF Gathered, Originals
<1>6. \A c : c \in Gathered(Origins(s, r, n, byte), Paths)
               <=> c \in Gathered(Originals(s, byte), Paths)
  BY <1>2, <1>3, <1>4, <1>5
<1> QED  BY <1>6

\* A byte of a path, with the path.
LEMMA PathPlaces ==
  ASSUME NEW path, NEW P, IsFiniteSet(P)
  PROVE  IsFiniteSet({path} \X P) /\ Cardinality({path} \X P) = Cardinality(P)
<1> DEFINE O == {path}
<1>1. IsFiniteSet(O) /\ Cardinality(O) = 1
  BY FS_Singleton
<1>2. Cardinality(P) \in Nat
  BY FS_CardinalityType
<1> HIDE DEF O
<1>3. IsFiniteSet(O \X P) /\ Cardinality(O \X P) = Cardinality(O) * Cardinality(P)
  BY <1>1, FS_Product
<1>4. Cardinality(O \X P) = Cardinality(P)
  BY <1>1, <1>2, <1>3
<1> QED  BY <1>3, <1>4 DEF O

\* A batch of moves writes every byte to as many places as it was at.
LEMMA PlacesConserved ==
  ASSUME NEW s \in Snapshots, NEW r, NEW n, IsMoves(r, s, n), NEW byte
  PROVE  Cardinality(Gathered(Results(s, r, n, byte), Paths))
           = Cardinality(Gathered(Originals(s, byte), Paths))
<1> DEFINE A == Results(s, r, n, byte)
           B == Origins(s, r, n, byte)
<1>1. IsFiniteSet(Paths)
  BY RequestsAssumption
<1>2. ASSUME NEW path \in Paths
      PROVE  /\ IsFiniteSet(A[path]) /\ IsFiniteSet(B[path])
             /\ Cardinality(A[path]) = Cardinality(B[path])
  <2> DEFINE P == PositionsOf(MeansOf(s, r, n, path), byte)
  <2>0. A[path] = {path} \X P /\ B[path] = Origin(s, r, n, path, byte)
    BY DEF Results, Origins
  <2>1. /\ IsFiniteSet(Origin(s, r, n, path, byte)) /\ MeansOf(s, r, n, path) \in ByteStrings
        /\ Cardinality(P) = Cardinality(Origin(s, r, n, path, byte))
    BY OriginCount
  <2>2. IsFiniteSet(P)
    BY <2>1, PositionsFinite DEF ByteStrings
  <2> HIDE DEF A, B, P
  <2>4. IsFiniteSet({path} \X P) /\ Cardinality({path} \X P) = Cardinality(P)
    BY <2>2, PathPlaces
  <2> QED  BY <2>0, <2>1, <2>4
<1>3. ASSUME NEW p \in Paths, NEW q \in Paths, p # q
      PROVE  A[p] \cap A[q] = {} /\ B[p] \cap B[q] = {}
  <2>1. B[p] \cap B[q] = {}
    BY <1>3, OriginsDisjoint DEF Origins
  <2>2. A[p] \cap A[q] = {}
    BY <1>3 DEF Results
  <2> QED  BY <2>1, <2>2
<1> HIDE DEF A, B
<1>4. Cardinality(Gathered(A, Paths)) = Cardinality(Gathered(B, Paths))
  BY <1>1, <1>2, <1>3, FamilyCount
<1>5. Cardinality(Gathered(A, Paths)) = Cardinality(Gathered(Originals(s, byte), Paths))
  BY <1>4, OriginsCover DEF B
<1> QED  BY <1>5 DEF A

\* The moves of an accepted batch take no byte twice.
LEMMA AcceptedMoves ==
  ASSUME NEW s \in Snapshots, NEW b \in Seq(Operations), plan(s, b).ok,
         \A i \in DOMAIN b : b[i].kind = "move"
  PROVE  IsMoves(ResolvedAll(s, b), s, Len(b))
<1> DEFINE r == ResolvedAll(s, b)
<1>1. PlanParts(plan(s, b), s, r, Len(b))
  BY PartsOfPlan
<1>2. IsBatch(r, s, Len(b))
  BY <1>1 DEF PlanParts
<1>3. ASSUME NEW i \in 1 .. Len(b)
      PROVE  r[i].kind = "move"
  <2>1. i \in DOMAIN b
    OBVIOUS
  <2>2. r[i] = Resolved(s, b[i], i)
    BY <2>1 DEF ResolvedAll
  <2>3. r[i].kind = b[i].kind
    BY <2>2 DEF Resolved
  <2> QED  BY <2>1, <2>3
<1> HIDE DEF r
<1>4. ASSUME NEW path \in Paths
      PROVE  ~Overlaps(Deletions(r, path))
  <2>1. CASE path \in OutputPaths(r)
    BY <1>1, <2>1 DEF PlanParts
  <2>2. CASE path \notin OutputPaths(r)
    <3>1. Deletions(r, path) = {}
      BY <2>2 DEF OutputPaths, Deletions
    <3> QED  BY <3>1 DEF Overlaps
  <2> QED  BY <2>1, <2>2
<1>5. IsMoves(r, s, Len(b))
  BY <1>2, <1>3, <1>4 DEF IsMoves
<1> QED  BY <1>5 DEF r

\* A batch of moves loses no byte and duplicates none, for every batch, every
\* snapshot and any number of files (validate_edit_conflicts, build_segments).
THEOREM MovesConserve == Spec => []MovesConserveBytes
<1>1. PlanInv => MovesConserveBytes
  <2> DEFINE before == [path \in DOMAIN snapshot |-> snapshot[path].bytes]
             after == [path \in DOMAIN snapshot |-> ResultOf(planned, path)]
  <2> SUFFICES ASSUME PlanInv, planned.ok,
                      \A i \in DOMAIN batch : batch[i].kind = "move", NEW byte
               PROVE  Cardinality(PlacesOf(before, byte))
                        = Cardinality(PlacesOf(after, byte))
    BY DEF MovesConserveBytes
  <2>1. /\ snapshot \in Snapshots /\ batch \in Seq(Operations)
        /\ planned = plan(snapshot, batch)
    <3>1. ~Nothing.ok
      BY DEF Nothing
    <3> QED  BY <3>1 DEF PlanInv
  <2> DEFINE r == ResolvedAll(snapshot, batch)
             n == Len(batch)
  <2>2. PlanParts(planned, snapshot, r, n) /\ IsMoves(r, snapshot, n)
    BY <2>1, PartsOfPlan, AcceptedMoves
  <2> HIDE DEF r, n
  <2>3. DOMAIN snapshot = Paths
    BY <2>1, RequestsAssumption
  <2>4. \A path \in Paths : ResultOf(planned, path) = MeansOf(snapshot, r, n, path)
    BY <2>1, <2>2, ResultMeans
  <2>5. PlacesOf(before, byte) = Gathered(Originals(snapshot, byte), Paths)
    <3>1. PlacesOf(before, byte)
            = UNION {{path} \X PositionsOf(before[path], byte) : path \in Paths}
      BY <2>3 DEF PlacesOf, PositionsOf
    <3>2. \A path \in Paths :
            {path} \X PositionsOf(before[path], byte) = Originals(snapshot, byte)[path]
      BY <2>3 DEF Originals
    <3> QED  BY <3>1, <3>2 DEF Gathered
  <2>6. PlacesOf(after, byte) = Gathered(Results(snapshot, r, n, byte), Paths)
    <3>1. PlacesOf(after, byte)
            = UNION {{path} \X PositionsOf(after[path], byte) : path \in Paths}
      BY <2>3 DEF PlacesOf, PositionsOf
    <3>2. \A path \in Paths :
            {path} \X PositionsOf(after[path], byte) = Results(snapshot, r, n, byte)[path]
      BY <2>3, <2>4 DEF Results
    <3> QED  BY <3>1, <3>2 DEF Gathered
  <2> QED  BY <2>1, <2>2, <2>5, <2>6, PlacesConserved
<1> QED  BY <1>1, PlanIsOfBatch, PTL
=============================================================================
