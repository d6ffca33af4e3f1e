------------------------- MODULE PreviewReportProofs -------------------------
(***************************************************************************)
(* Proofs about what preview reports of a plan, for all snapshots, all     *)
(* batches and all limits: a response with a text diff fits, the line      *)
(* counts of the review are those of the bytes that will be written, and a *)
(* complete diff describes the change.                                     *)
(***************************************************************************)
EXTENDS PreviewProofs

-----------------------------------------------------------------------------
(***************************************************************************)
(* The pieces of a diff.                                                   *)
(***************************************************************************)
TextLine == [full : ByteStrings, terminator : {"CR", "LF", "CRLF", "NONE"}]

\* The lines of a byte string.
LEMMA TextLinesType ==
  ASSUME NEW bytes \in ByteStrings
  PROVE  text_lines(bytes) \in Seq(TextLine)
<1> DEFINE B == Boundaries(bytes)
           Line(full) ==
             [full |-> full,
              terminator |-> IF Last(full) = CR THEN "CR"
                             ELSE IF Last(full) # LF THEN "NONE"
                             ELSE IF Len(full) > 1 /\ full[Len(full) - 1] = CR
                             THEN "CRLF" ELSE "LF"]
<1>1. B \in Seq(1 .. Len(bytes)) /\ Len(B) \in Nat /\ Len(bytes) \in Nat
  BY BoundariesAreEnds DEF LineList, ByteStrings
<1>2. \A k \in 1 .. Len(B) : Slice(bytes, line_start(B, k), line_end(B, k)) \in ByteStrings
  <2> SUFFICES ASSUME NEW k \in 1 .. Len(B)
               PROVE  Slice(bytes, line_start(B, k), line_end(B, k)) \in ByteStrings
    OBVIOUS
  <2> HIDE DEF B
  <2>1. \A i \in 1 .. Len(B) : B[i] \in 1 .. Len(bytes)
    BY <1>1
  <2>2. line_end(B, k) = B[k]
    BY DEF line_end
  <2>3. line_start(B, k) \in Nat
    <3>1. CASE k = 1
      BY <1>1, <3>1 DEF line_start
    <3>2. CASE k # 1
      <4>1. k - 1 \in 1 .. Len(B) /\ ~(k = 0 \/ k > Len(B))
        BY <1>1, <3>2
      <4> QED  BY <2>1, <3>2, <4>1 DEF line_start
    <3> QED  BY <3>1, <3>2
  <2>4. B[k] \in 0 .. Len(bytes)
    BY <1>1, <2>1
  <2> QED  BY <2>2, <2>3, <2>4, SliceType
<1>3. text_lines(bytes) =
        [k \in 1 .. Len(B) |-> Line(Slice(bytes, line_start(B, k), line_end(B, k)))]
  BY DEF text_lines
<1>4. \A full \in ByteStrings : Line(full) \in TextLine
  BY DEF TextLine
<1> HIDE DEF B, Line
<1>5. text_lines(bytes) \in [1 .. Len(B) -> TextLine]
  BY <1>2, <1>3, <1>4
<1> QED  BY <1>1, <1>5

\* A set of numbers with a bound that is not empty has a greatest member.
LEMMA MaxMember ==
  ASSUME NEW n \in Nat, NEW T, T \subseteq 0 .. n, T # {}
  PROVE  Max(T) \in T
<1> DEFINE I == {n - x : x \in T}
<1>1. I \subseteq Nat /\ I # {}
  OBVIOUS
<1>2. PICK i \in I : \A j \in I : i <= j
  <2> HIDE DEF I
  <2> QED  BY <1>1, LeastMember
<1>3. PICK x \in T : i = n - x
  BY <1>2
<1>4. \A y \in T : x >= y
  <2> SUFFICES ASSUME NEW y \in T
               PROVE  x >= y
    OBVIOUS
  <2>1. n - y \in I
    OBVIOUS
  <2>2. n - x <= n - y
    BY <1>2, <1>3, <2>1
  <2> QED  BY <2>2
<1>5. \E m \in T : \A y \in T : m >= y
  BY <1>4
<1> QED  BY <1>5 DEF Max

\* Common lines are lines of both, and equal.
LEMMA CommonLinesAgree ==
  ASSUME NEW left, NEW right, Len(left) \in Nat, Len(right) \in Nat
  PROVE  /\ CommonLines(left, right) \in Nat
         /\ CommonLines(left, right) <= Len(left)
         /\ CommonLines(left, right) <= Len(right)
         /\ \A k \in 1 .. CommonLines(left, right) : left[k].full = right[k].full
<1> DEFINE shorter == IF Len(left) < Len(right) THEN Len(left) ELSE Len(right)
           Equal(n) == \A k \in 1 .. n : left[k].full = right[k].full
           T == {n \in 0 .. shorter : Equal(n)}
<1>1. shorter \in Nat /\ shorter <= Len(left) /\ shorter <= Len(right)
  OBVIOUS
<1>2. T \subseteq 0 .. shorter /\ 0 \in T
  <2>1. 0 \in 0 .. shorter /\ 1 .. 0 = {}
    BY <1>1
  <2> HIDE DEF shorter
  <2> QED  BY <2>1
<1>3. CommonLines(left, right) = Max(T)
  BY DEF CommonLines
<1>4. \A n \in T : n \in 0 .. shorter /\ Equal(n)
  OBVIOUS
<1> HIDE DEF shorter, T
<1>5. Max(T) \in T
  BY <1>1, <1>2, MaxMember
<1>6. Max(T) \in 0 .. shorter /\ Equal(Max(T))
  BY <1>4, <1>5
<1> QED  BY <1>1, <1>3, <1>6

HunkSet == [prefix : Nat, before_end : Nat, after_end : Nat]

\* The hunk between old and new lines: the lines before it are equal, and so
\* are those after it.
IsHunk(hunk, before, after) ==
  /\ hunk \in HunkSet
  /\ hunk.prefix <= hunk.before_end /\ hunk.before_end <= Len(before)
  /\ hunk.prefix <= hunk.after_end /\ hunk.after_end <= Len(after)
  /\ Len(before) - hunk.before_end = Len(after) - hunk.after_end
  /\ \A n \in 1 .. hunk.prefix : before[n].full = after[n].full
  /\ \A n \in 1 .. Len(before) - hunk.before_end :
       before[hunk.before_end + n].full = after[hunk.after_end + n].full

\* The lines of x after a number of them, the last one first.
LEMMA ReversedRest ==
  ASSUME NEW S, NEW s \in Seq(S), NEW p \in Nat, p <= Len(s)
  PROVE  /\ Len(Reverse(SubSeq(s, p + 1, Len(s)))) = Len(s) - p
         /\ \A k \in 1 .. Len(s) - p :
              Reverse(SubSeq(s, p + 1, Len(s)))[k] = s[Len(s) - k + 1]
<1> DEFINE x == SubSeq(s, p + 1, Len(s))
           n == Len(s)
<1>1. n \in Nat
  OBVIOUS
<1>2. \A i \in p + 1 .. Len(s) : s[i] \in S
  BY ElementOfSeq
<1>3. /\ Len(x) = IF p + 1 <= n THEN n - (p + 1) + 1 ELSE 0
      /\ \A i \in 1 .. n - (p + 1) + 1 : x[i] = s[(p + 1) + i - 1]
  BY <1>1, <1>2, SubSeqProperties
<1> HIDE DEF x, n
<1>4. Len(x) = n - p /\ \A i \in 1 .. n - p : x[i] = s[p + i]
  BY <1>1, <1>3 DEF n
<1>5. Len(Reverse(x)) = Len(x)
  <2>1. Len(x) \in Nat
    BY <1>1, <1>4 DEF n
  <2> QED  BY <2>1 DEF Reverse
<1>6. ASSUME NEW k \in 1 .. n - p
      PROVE  Reverse(x)[k] = s[n - k + 1]
  <2>1. Reverse(x)[k] = x[(Len(x) - k) + 1]
    BY <1>4 DEF Reverse
  <2>2. (Len(x) - k) + 1 \in 1 .. n - p /\ p + ((Len(x) - k) + 1) = n - k + 1
    BY <1>1, <1>4 DEF n
  <2> QED  BY <1>4, <2>1, <2>2
<1> QED  BY <1>4, <1>5, <1>6 DEF x, n

\* What the scan for common lines finds is a hunk.
LEMMA HunkMeans ==
  ASSUME NEW S, NEW before \in Seq(S), NEW after \in Seq(S)
  PROVE  IsHunk(Hunk(before, after), before, after)
<1> DEFINE prefix == CommonLines(before, after)
           x == Reverse(SubSeq(before, prefix + 1, Len(before)))
           y == Reverse(SubSeq(after, prefix + 1, Len(after)))
           suffix == CommonLines(x, y)
           l == Len(before)
           r == Len(after)
<1>1. l \in Nat /\ r \in Nat
  OBVIOUS
<1>2. /\ prefix \in Nat /\ prefix <= l /\ prefix <= r
      /\ \A k \in 1 .. prefix : before[k].full = after[k].full
  BY <1>1, CommonLinesAgree
<1>3. Hunk(before, after) =
        [prefix |-> prefix, before_end |-> l - suffix, after_end |-> r - suffix]
  BY DEF Hunk
<1> HIDE DEF prefix
<1>4. Len(x) = l - prefix /\ \A k \in 1 .. l - prefix : x[k] = before[l - k + 1]
  BY <1>2, ReversedRest
<1>5. Len(y) = r - prefix /\ \A k \in 1 .. r - prefix : y[k] = after[r - k + 1]
  BY <1>2, ReversedRest
<1> HIDE DEF x, y, l, r
<1>6. /\ suffix \in Nat /\ suffix <= l - prefix /\ suffix <= r - prefix
      /\ \A k \in 1 .. suffix : x[k].full = y[k].full
  <2>1. Len(x) \in Nat /\ Len(y) \in Nat
    BY <1>1, <1>2, <1>4, <1>5
  <2> QED  BY <1>4, <1>5, <2>1, CommonLinesAgree
<1> HIDE DEF suffix
<1>7. ASSUME NEW n \in 1 .. suffix
      PROVE  before[(l - suffix) + n].full = after[(r - suffix) + n].full
  <2>1. PICK k \in 1 .. suffix : k = suffix - n + 1
    BY <1>6
  <2>2. k \in 1 .. l - prefix /\ k \in 1 .. r - prefix
    BY <1>1, <1>2, <1>6
  <2>3. x[k] = before[l - k + 1] /\ y[k] = after[r - k + 1] /\ x[k].full = y[k].full
    BY <1>4, <1>5, <1>6, <2>2
  <2>4. l - k + 1 = (l - suffix) + n /\ r - k + 1 = (r - suffix) + n
    BY <1>1, <1>6, <2>1
  <2> QED  BY <2>3, <2>4
<1> DEFINE h == Hunk(before, after)
<1>8. h.prefix = prefix /\ h.before_end = l - suffix /\ h.after_end = r - suffix
      /\ h \in HunkSet
  <2>1. l - suffix \in Nat /\ r - suffix \in Nat
    BY <1>1, <1>2, <1>6
  <2> QED  BY <1>2, <1>3, <2>1 DEF HunkSet
<1> HIDE DEF h
<1>9. l - h.before_end = suffix /\ r - h.after_end = suffix
  BY <1>1, <1>6, <1>8
<1>10. /\ h.prefix <= h.before_end /\ h.before_end <= l
       /\ h.prefix <= h.after_end /\ h.after_end <= r
  BY <1>1, <1>2, <1>6, <1>8
<1>11. \A n \in 1 .. l - h.before_end : before[h.before_end + n].full = after[h.after_end + n].full
  BY <1>7, <1>8, <1>9
<1> QED  BY <1>2, <1>8, <1>9, <1>10, <1>11 DEF IsHunk, h, l, r

Signs == {"---", "+++", "@@", "-", "+"}

HeaderPieces ==
  {HeaderPiece(a[1], a[2], a[3]) : a \in Signs \X Paths \X HunkSet}
LinePieces ==
  {LinePiece(a[1], a[2], a[3]) : a \in Signs \X Paths \X TextLine}
DiffPieces == HeaderPieces \cup LinePieces

\* The encoded sizes of a text.
Sizes(text) == [k \in DOMAIN text |-> text[k].encoded]

\* The sizes of a piece are numbers.
LEMMA PieceSizes ==
  ASSUME NEW piece \in DiffPieces
  PROVE  piece.bytes \in Nat /\ piece.encoded \in Nat
<1>1. CASE piece \in HeaderPieces
  BY <1>1 DEF HeaderPieces, HeaderPiece
<1>2. CASE piece \in LinePieces
  <2>1. PICK sign \in Signs, path \in Paths, line \in TextLine :
               piece = LinePiece(sign, path, line)
    BY <1>2 DEF LinePieces
  <2> DEFINE escaped == [i \in DOMAIN line.full |-> EscapedBytes(line.full[i])]
             encoded == [i \in DOMAIN line.full |-> EncodedBytes(line.full[i])]
             fixed == 5 + TerminatorBytes(line.terminator)
  <2>2. fixed \in Nat
    BY DEF TextLine, TerminatorBytes
  <2>3. Len(line.full) \in Nat /\ DOMAIN line.full = 1 .. Len(line.full)
    BY DEF TextLine, ByteStrings
  <2>4. \A byte : EscapedBytes(byte) \in Nat /\ EncodedBytes(byte) \in Nat
    BY DEF EscapedBytes, EncodedBytes
  <2>5. escaped \in [1 .. Len(line.full) -> Nat] /\ encoded \in [1 .. Len(line.full) -> Nat]
    BY <2>3, <2>4
  <2>6. escaped \in Seq(Nat) /\ encoded \in Seq(Nat)
    <3> HIDE DEF escaped, encoded
    <3> QED  BY <2>3, <2>5
  <2>7. piece.bytes = fixed + Total(escaped) /\ piece.encoded = fixed + 1 + Total(encoded)
    BY <2>1 DEF LinePiece
  <2> HIDE DEF escaped, encoded, fixed
  <2>8. Total(escaped) \in Nat /\ Total(encoded) \in Nat
    BY <2>6, BytesFinite
  <2> QED  BY <2>2, <2>7, <2>8
<1> QED  BY <1>1, <1>2 DEF DiffPieces

\* A piece more adds its size.
LEMMA SizesAppend ==
  ASSUME NEW text \in Seq(DiffPieces), NEW piece \in DiffPieces
  PROVE  /\ Sizes(text) \in Seq(Nat)
         /\ Append(text, piece) \in Seq(DiffPieces)
         /\ Total(Sizes(Append(text, piece))) = Total(Sizes(text)) + piece.encoded
<1> DEFINE longer == Append(text, piece)
<1>1. /\ longer \in Seq(DiffPieces) /\ Len(text) \in Nat
      /\ DOMAIN text = 1 .. Len(text)
      /\ DOMAIN longer = 1 .. Len(text) + 1
      /\ longer[Len(text) + 1] = piece
      /\ \A k \in 1 .. Len(text) : longer[k] = text[k] /\ text[k] \in DiffPieces
  OBVIOUS
<1> HIDE DEF longer
<1>2. Sizes(text) \in Seq(Nat) /\ Len(Sizes(text)) = Len(text)
  <2>1. \A k \in 1 .. Len(text) : text[k].encoded \in Nat
    BY <1>1, PieceSizes
  <2>2. Sizes(text) \in [1 .. Len(text) -> Nat]
    BY <1>1, <2>1 DEF Sizes
  <2> QED  BY <1>1, <2>2
<1>3. piece.encoded \in Nat
  BY PieceSizes
<1>4. DOMAIN Sizes(longer) = 1 .. Len(text) + 1
      /\ \A k \in 1 .. Len(text) + 1 :
           Sizes(longer)[k] = IF k = Len(text) + 1 THEN piece.encoded ELSE Sizes(text)[k]
  BY <1>1 DEF Sizes
<1>5. Sizes(longer) = Append(Sizes(text), piece.encoded)
  <2> DEFINE a == Append(Sizes(text), piece.encoded)
  <2>1. a \in Seq(Nat) /\ Len(a) = Len(text) + 1
        /\ \A k \in 1 .. Len(text) + 1 :
             a[k] = IF k = Len(text) + 1 THEN piece.encoded ELSE Sizes(text)[k]
    BY <1>2, <1>3
  <2>2. DOMAIN a = 1 .. Len(text) + 1 /\ a = [k \in DOMAIN a |-> a[k]]
    BY <2>1
  <2>3. Sizes(longer) = [k \in DOMAIN Sizes(longer) |-> Sizes(longer)[k]]
    BY DEF Sizes
  <2> HIDE DEF a
  <2>4. \A k \in 1 .. Len(text) + 1 : Sizes(longer)[k] = a[k]
    BY <1>4, <2>1
  <2>5. Sizes(longer) = a
    BY <1>4, <2>2, <2>3, <2>4
  <2> QED  BY <2>5 DEF a
<1>6. Total(Sizes(longer)) = Total(Sizes(text)) + piece.encoded
  BY <1>2, <1>3, <1>5, TotalAppend
<1> QED  BY <1>1, <1>2, <1>6 DEF longer

\* A writer counts the encoded size of what it holds and keeps it within its
\* maximum.
WriterSet(maximum) ==
  {w \in [text : Seq(DiffPieces), size : Nat, encoded : Nat, work : Nat,
          maximum : {maximum}, truncation : {"none", "work", "output"}] :
     w.encoded = Total(Sizes(w.text)) /\ w.encoded <= maximum}

\* What a writer is made of.
IsWriter(c, m) ==
  /\ c = [text |-> c.text, size |-> c.size, encoded |-> c.encoded, work |-> c.work,
          maximum |-> c.maximum, truncation |-> c.truncation]
  /\ c.text \in Seq(DiffPieces) /\ c.size \in Nat /\ c.encoded \in Nat
  /\ c.work \in Nat /\ c.maximum = m /\ c.truncation \in {"none", "work", "output"}
  /\ c.encoded = Total(Sizes(c.text)) /\ c.encoded <= m

\* The two descriptions of a writer agree.
LEMMA WriterMember ==
  ASSUME NEW m, NEW c
  PROVE  c \in WriterSet(m) <=> IsWriter(c, m)
<1> DEFINE R == [text : Seq(DiffPieces), size : Nat, encoded : Nat, work : Nat,
                 maximum : {m}, truncation : {"none", "work", "output"}]
<1>1. ASSUME IsWriter(c, m)
      PROVE  c \in R
  <2>1. PICK text \in Seq(DiffPieces), size \in Nat, encoded \in Nat, work \in Nat,
             truncation \in {"none", "work", "output"} :
          c = [text |-> text, size |-> size, encoded |-> encoded, work |-> work,
               maximum |-> m, truncation |-> truncation]
    BY <1>1 DEF IsWriter
  <2> QED  BY <2>1
<1>2. ASSUME c \in WriterSet(m)
      PROVE  IsWriter(c, m)
  BY <1>2 DEF WriterSet, IsWriter
<1>3. ASSUME IsWriter(c, m)
      PROVE  c \in WriterSet(m)
  <2>1. c.encoded = Total(Sizes(c.text)) /\ c.encoded <= m
    BY <1>3 DEF IsWriter
  <2>2. c \in R
    BY <1>1, <1>3
  <2>3. WriterSet(m) = {w \in R : w.encoded = Total(Sizes(w.text)) /\ w.encoded <= m}
    BY DEF WriterSet
  <2> HIDE DEF R
  <2> QED  BY <2>1, <2>2, <2>3
<1> QED  BY <1>2, <1>3

\* The writer before the first output.
LEMMA NewWriterFits ==
  ASSUME NEW m \in Nat
  PROVE  NewWriter(m) \in WriterSet(m)
<1>1. Sizes(<< >>) = << >>
  BY DEF Sizes
<1>2. Total(Sizes(<< >>)) = 0
  BY <1>1, TotalEmpty
<1>3. << >> \in Seq(DiffPieces)
  OBVIOUS
<1> QED  BY <1>2, <1>3 DEF NewWriter, WriterSet

\* Work is charged without a change of the text.
LEMMA ChargeFits ==
  ASSUME NEW m \in Nat, NEW w \in WriterSet(m), NEW units \in Nat
  PROVE  charge(w, units) \in WriterSet(m)
<1> DEFINE c == charge(w, units)
           work == w.work + units
<1>1. IsWriter(w, m)
  BY WriterMember
<1>2. PICK truncation \in {"none", "work", "output"} :
             truncation = IF w.truncation = "none" /\ work > DIFF_WORK_UNITS
                          THEN "work" ELSE w.truncation
  BY <1>1 DEF IsWriter
<1>3. c = [w EXCEPT !.work = work, !.truncation = truncation]
  BY <1>2 DEF charge
<1>4. work \in Nat
  BY <1>1 DEF IsWriter
<1> HIDE DEF c, work
<1>5. c = [text |-> w.text, size |-> w.size, encoded |-> w.encoded, work |-> work,
           maximum |-> w.maximum, truncation |-> truncation]
  <2>1. w = [text |-> w.text, size |-> w.size, encoded |-> w.encoded, work |-> w.work,
             maximum |-> w.maximum, truncation |-> w.truncation]
    BY <1>1 DEF IsWriter
  <2> QED  BY <1>3, <2>1
<1>6. IsWriter(c, m)
  BY <1>1, <1>2, <1>4, <1>5 DEF IsWriter
<1>7. c \in WriterSet(m)
  BY <1>6, WriterMember
<1> QED  BY <1>7 DEF c

\* A piece is pushed only when it fits.
LEMMA PushFits ==
  ASSUME NEW m \in Nat, NEW w \in WriterSet(m), NEW piece \in DiffPieces
  PROVE  push(w, piece) \in WriterSet(m)
<1> DEFINE c == charge(w, piece.bytes)
<1>1. piece.bytes \in Nat /\ piece.encoded \in Nat
  BY PieceSizes
<1>2. c \in WriterSet(m)
  BY <1>1, ChargeFits
<1>3. push(w, piece) =
        IF w.truncation # "none" THEN w
        ELSE IF c.truncation # "none" THEN c
        ELSE IF \/ c.size + piece.bytes > c.maximum
                \/ c.encoded + piece.encoded > c.maximum
        THEN [c EXCEPT !.truncation = "output"]
        ELSE [c EXCEPT !.text = Append(@, piece), !.size = @ + piece.bytes,
                       !.encoded = @ + piece.encoded]
  BY DEF push
<1> HIDE DEF c
<1>4. IsWriter(c, m)
  BY <1>2, WriterMember
<1>5. [c EXCEPT !.truncation = "output"] \in WriterSet(m)
  <2> DEFINE d == [c EXCEPT !.truncation = "output"]
  <2>1. d = [text |-> c.text, size |-> c.size, encoded |-> c.encoded, work |-> c.work,
             maximum |-> c.maximum, truncation |-> "output"]
    <3>1. c = [text |-> c.text, size |-> c.size, encoded |-> c.encoded, work |-> c.work,
               maximum |-> c.maximum, truncation |-> c.truncation]
      BY <1>4 DEF IsWriter
    <3> QED  BY <3>1
  <2> HIDE DEF d
  <2>2. IsWriter(d, m)
    BY <1>4, <2>1 DEF IsWriter
  <2>3. d \in WriterSet(m)
    BY <2>2, WriterMember
  <2> QED  BY <2>3 DEF d
<1>6. ASSUME c.encoded + piece.encoded <= c.maximum
      PROVE  [c EXCEPT !.text = Append(@, piece), !.size = @ + piece.bytes,
                       !.encoded = @ + piece.encoded] \in WriterSet(m)
  <2> DEFINE text == Append(c.text, piece)
             size == c.size + piece.bytes
             encoded == c.encoded + piece.encoded
             d == [c EXCEPT !.text = Append(@, piece), !.size = @ + piece.bytes,
                            !.encoded = @ + piece.encoded]
  <2>1. text \in Seq(DiffPieces) /\ Total(Sizes(text)) = Total(Sizes(c.text)) + piece.encoded
    BY <1>4, SizesAppend DEF IsWriter
  <2>2. size \in Nat /\ encoded \in Nat /\ encoded <= m /\ encoded = Total(Sizes(text))
    BY <1>1, <1>4, <1>6, <2>1 DEF IsWriter
  <2>3. d = [text |-> text, size |-> size, encoded |-> encoded, work |-> c.work,
             maximum |-> c.maximum, truncation |-> c.truncation]
    <3>1. c = [text |-> c.text, size |-> c.size, encoded |-> c.encoded, work |-> c.work,
               maximum |-> c.maximum, truncation |-> c.truncation]
      BY <1>4 DEF IsWriter
    <3>2. d = [c EXCEPT !.text = text, !.size = size, !.encoded = encoded]
      OBVIOUS
    <3> HIDE DEF text, size, encoded, d
    <3> QED  BY <3>1, <3>2
  <2> HIDE DEF text, size, encoded, d
  <2>4. IsWriter(d, m)
    BY <1>4, <2>1, <2>2, <2>3 DEF IsWriter
  <2>5. d \in WriterSet(m)
    BY <2>4, WriterMember
  <2> QED  BY <2>5 DEF d
<1>7. ~(c.encoded + piece.encoded > c.maximum) => c.encoded + piece.encoded <= c.maximum
  BY <1>1, <1>4 DEF IsWriter
<1> QED  BY <1>2, <1>3, <1>5, <1>6, <1>7

SignedLines(sign, path, lines) ==
  [k \in DOMAIN lines |-> LinePiece(sign, path, lines[k])]

HunkPieces(path, before, after, hunk) ==
  [k \in 1 .. 3 |-> HeaderPiece(<<"---", "+++", "@@">>[k], path, hunk)]
  \o SignedLines("-", path, SubSeq(before, hunk.prefix + 1, hunk.before_end))
  \o SignedLines("+", path, SubSeq(after, hunk.prefix + 1, hunk.after_end))

\* The lines of a hunk are pieces.
LEMMA SignedLinesType ==
  ASSUME NEW sign \in Signs, NEW path \in Paths, NEW lines \in Seq(TextLine),
         NEW from \in Nat, NEW to, to \in Nat, to <= Len(lines)
  PROVE  SignedLines(sign, path, SubSeq(lines, from + 1, to)) \in Seq(DiffPieces)
<1> DEFINE part == SubSeq(lines, from + 1, to)
           signed == SignedLines(sign, path, part)
<1>1. \A k \in from + 1 .. to : lines[k] \in TextLine
  BY ElementOfSeq
<1>2. part \in Seq(TextLine)
  BY <1>1, SubSeqProperties
<1> HIDE DEF part
<1>3. Len(part) \in Nat /\ DOMAIN part = 1 .. Len(part)
      /\ \A k \in 1 .. Len(part) : part[k] \in TextLine
  BY <1>2
<1>4. \A line \in TextLine : LinePiece(sign, path, line) \in DiffPieces
  <2> SUFFICES ASSUME NEW line \in TextLine
               PROVE  LinePiece(sign, path, line) \in DiffPieces
    OBVIOUS
  <2>1. PICK a \in Signs \X Paths \X TextLine : a = <<sign, path, line>>
    OBVIOUS
  <2>2. LinePiece(sign, path, line) = LinePiece(a[1], a[2], a[3])
    BY <2>1
  <2> QED  BY <2>2 DEF DiffPieces, LinePieces
<1>5. signed \in [1 .. Len(part) -> DiffPieces]
  BY <1>3, <1>4 DEF SignedLines
<1> HIDE DEF signed
<1>6. signed \in Seq(DiffPieces)
  BY <1>3, <1>5
<1> QED  BY <1>6 DEF signed, part

\* What is written of an output is a sequence of pieces.
LEMMA HunkPiecesType ==
  ASSUME NEW path \in Paths, NEW before \in Seq(TextLine), NEW after \in Seq(TextLine)
  PROVE  HunkPieces(path, before, after, Hunk(before, after)) \in Seq(DiffPieces)
<1> DEFINE hunk == Hunk(before, after)
           headers == [k \in 1 .. 3 |-> HeaderPiece(<<"---", "+++", "@@">>[k], path, hunk)]
           removed == SignedLines("-", path, SubSeq(before, hunk.prefix + 1, hunk.before_end))
           added == SignedLines("+", path, SubSeq(after, hunk.prefix + 1, hunk.after_end))
<1>1. /\ hunk \in HunkSet /\ hunk.before_end <= Len(before) /\ hunk.after_end <= Len(after)
  <2>1. IsHunk(hunk, before, after)
    BY HunkMeans
  <2> HIDE DEF hunk
  <2> QED  BY <2>1 DEF IsHunk
<1>2. hunk.prefix \in Nat /\ hunk.before_end \in Nat /\ hunk.after_end \in Nat
  <2> HIDE DEF hunk
  <2> QED  BY <1>1 DEF HunkSet
<1> HIDE DEF hunk
<1>3. \A sign \in Signs : HeaderPiece(sign, path, hunk) \in DiffPieces
  <2> SUFFICES ASSUME NEW sign \in Signs
               PROVE  HeaderPiece(sign, path, hunk) \in DiffPieces
    OBVIOUS
  <2>1. PICK a \in Signs \X Paths \X HunkSet : a = <<sign, path, hunk>>
    BY <1>1
  <2>2. HeaderPiece(sign, path, hunk) = HeaderPiece(a[1], a[2], a[3])
    BY <2>1
  <2> QED  BY <2>2 DEF DiffPieces, HeaderPieces
<1>4. headers \in Seq(DiffPieces)
  <2>1. \A k \in 1 .. 3 : <<"---", "+++", "@@">>[k] \in Signs
    BY DEF Signs
  <2>2. headers \in [1 .. 3 -> DiffPieces]
    BY <1>3, <2>1
  <2> HIDE DEF headers
  <2>3. PICK n \in Nat : n = 3
    OBVIOUS
  <2>4. headers \in [1 .. n -> DiffPieces]
    BY <2>2, <2>3
  <2> QED  BY <2>4
<1>5. removed \in Seq(DiffPieces)
  <2>1. "-" \in Signs
    BY DEF Signs
  <2> QED  BY <1>1, <1>2, <2>1, SignedLinesType
<1>6. added \in Seq(DiffPieces)
  <2>1. "+" \in Signs
    BY DEF Signs
  <2> QED  BY <1>1, <1>2, <2>1, SignedLinesType
<1>7. HunkPieces(path, before, after, hunk) = headers \o removed \o added
  BY DEF HunkPieces
<1> HIDE DEF headers, removed, added
<1>8. headers \o removed \in Seq(DiffPieces)
  BY <1>4, <1>5, ConcatProperties
<1>9. HunkPieces(path, before, after, hunk) \in Seq(DiffPieces)
  BY <1>6, <1>7, <1>8, ConcatProperties
<1> QED  BY <1>9 DEF hunk

\* What is written of an output.
PiecesOf(path, before, after) ==
  HunkPieces(path, text_lines(before), text_lines(after),
             Hunk(text_lines(before), text_lines(after)))

\* Writers that push one piece after the other.
PushRun(g, start, pieces) ==
  g[0] = start /\ \A k \in 1 .. Len(pieces) : g[k] = push(g[k - 1], pieces[k])

\* An output is written piece by piece.
LEMMA WriteRuns ==
  ASSUME NEW m \in Nat, NEW w \in WriterSet(m), NEW path \in Paths,
         NEW before \in ByteStrings, NEW after \in ByteStrings
  PROVE  /\ PiecesOf(path, before, after) \in Seq(DiffPieces)
         /\ charge(w, Len(before) + Len(after)) \in WriterSet(m)
         /\ \E g : /\ PushRun(g, charge(w, Len(before) + Len(after)),
                              PiecesOf(path, before, after))
                  /\ \A k \in 0 .. Len(PiecesOf(path, before, after)) :
                       g[k] \in WriterSet(m)
                  /\ write_output(w, path, before, after)
                       = g[Len(PiecesOf(path, before, after))]
<1> DEFINE S == WriterSet(m)
           x == text_lines(before)
           y == text_lines(after)
           pieces == HunkPieces(path, x, y, Hunk(x, y))
           n == Len(pieces)
           start == charge(w, Len(before) + Len(after))
           next == [a \in S \X (1 .. n) |-> push(a[1], pieces[a[2]])]
           Eq(f) == f = [k \in 0 .. n |->
                           IF k = 0 THEN start ELSE push(f[k - 1], pieces[k])]
           g == CHOOSE f : Eq(f)
<1>1. pieces \in Seq(DiffPieces)
  <2>1. x \in Seq(TextLine) /\ y \in Seq(TextLine)
    BY TextLinesType
  <2> HIDE DEF x, y
  <2> QED  BY <2>1, HunkPiecesType
<1>2. write_output(w, path, before, after) = g[n]
  BY DEF write_output, HunkPieces, SignedLines
<1> HIDE DEF pieces
<1>3. n \in Nat /\ \A k \in 1 .. n : pieces[k] \in DiffPieces
  BY <1>1
<1>4. start \in S
  <2>1. Len(before) + Len(after) \in Nat
    BY DEF ByteStrings
  <2> QED  BY <2>1, ChargeFits
<1>5. next \in [S \X (1 .. n) -> S]
  <2> SUFFICES ASSUME NEW a \in S \X (1 .. n)
               PROVE  push(a[1], pieces[a[2]]) \in S
    OBVIOUS
  <2>1. a[1] \in S /\ pieces[a[2]] \in DiffPieces
    BY <1>3
  <2> QED  BY <2>1, PushFits
<1> HIDE DEF start
<1>6. PICK f \in [0 .. n -> S] : IsRun(f, start, next, n)
  <2> HIDE DEF S, next, n
  <2> QED  BY <1>3, <1>4, <1>5, RunExists
<1>7. f[0] = start /\ \A k \in 1 .. n : f[k] = push(f[k - 1], pieces[k])
  <2>1. ASSUME NEW k \in 1 .. n
        PROVE  f[k] = push(f[k - 1], pieces[k])
    <3>1. f[k - 1] \in S
      BY <1>3, <1>6
    <3> HIDE DEF S, n
    <3>2. next[<<f[k - 1], k>>] = push(f[k - 1], pieces[k])
      BY <3>1
    <3> HIDE DEF next
    <3> QED  BY <1>6, <3>2 DEF IsRun
  <2> QED  BY <1>6, <2>1 DEF IsRun
<1>8. Eq(f)
  <2>1. DOMAIN f = 0 .. n /\ f = [k \in 0 .. n |-> f[k]]
    BY <1>6
  <2>2. ASSUME NEW k \in 0 .. n
        PROVE  f[k] = IF k = 0 THEN start ELSE push(f[k - 1], pieces[k])
    <3>1. k = 0 \/ k \in 1 .. n
      BY <1>3
    <3> QED  BY <1>7, <3>1
  <2> HIDE DEF n
  <2> QED  BY <2>1, <2>2
<1>9. Eq(g)
  <2> HIDE DEF Eq
  <2> QED  BY <1>8
<1> HIDE DEF g
<1>10. g[0] = start /\ \A k \in 1 .. n : g[k] = push(g[k - 1], pieces[k])
  <2>1. g[0] = start
    BY <1>3, <1>9
  <2>2. ASSUME NEW k \in 1 .. n
        PROVE  g[k] = push(g[k - 1], pieces[k])
    <3>1. k \in 0 .. n /\ k # 0
      BY <1>3
    <3> QED  BY <1>9, <3>1
  <2> QED  BY <2>1, <2>2
<1>11. \A k \in 0 .. n : g[k] \in S
  <2>1. ASSUME NEW k \in 1 .. n, g[k - 1] \in S
        PROVE  g[k] \in S
    <3>1. pieces[k] \in DiffPieces
      BY <1>3
    <3>2. push(g[k - 1], pieces[k]) \in S
      BY <2>1, <3>1, PushFits
    <3> QED  BY <1>10, <3>2
  <2>2. g[0] \in S
    BY <1>4, <1>10
  <2> HIDE DEF S, n
  <2> QED  BY <1>3, <2>1, <2>2, RunStays
<1>12. pieces = PiecesOf(path, before, after)
  BY DEF PiecesOf, pieces
<1>13. PushRun(g, start, pieces)
  BY <1>10 DEF PushRun
<1> HIDE DEF S
<1>14. \E h : /\ PushRun(h, start, pieces) /\ \A k \in 0 .. n : h[k] \in S
              /\ write_output(w, path, before, after) = h[n]
  BY <1>2, <1>11, <1>13
<1> QED  BY <1>1, <1>4, <1>12, <1>14 DEF S, start

\* What one output adds still fits.
LEMMA WriteFits ==
  ASSUME NEW m \in Nat, NEW w \in WriterSet(m), NEW path \in Paths,
         NEW before \in ByteStrings, NEW after \in ByteStrings
  PROVE  write_output(w, path, before, after) \in WriterSet(m)
<1> DEFINE n == Len(PiecesOf(path, before, after))
<1>1. PICK g : /\ \A k \in 0 .. n : g[k] \in WriterSet(m)
               /\ write_output(w, path, before, after) = g[n]
  BY WriteRuns
<1>2. n \in Nat
  <2>1. PiecesOf(path, before, after) \in Seq(DiffPieces)
    BY WriteRuns
  <2> QED  BY <2>1
<1>3. n \in 0 .. n
  <2> HIDE DEF n
  <2> QED  BY <1>2
<1> QED  BY <1>1, <1>3

\* The outputs of an accepted plan can be written.
Writable(outputs) ==
  \A k \in DOMAIN outputs : outputs[k].path \in Paths /\ outputs[k].digest \in ByteStrings

\* The writer after all outputs.
Written(outputs, s, m) ==
  LET changed == {k \in DOMAIN outputs : outputs[k].change # "Unchanged"}
      Continue(writer, output) ==
        IF writer.truncation # "none" THEN writer
        ELSE write_output(writer, output.path, s[output.path].bytes, output.digest)
      written[k \in 0 .. Len(outputs)] ==
        IF k = 0 THEN NewWriter(m)
        ELSE IF k \in changed THEN Continue(written[k - 1], outputs[k])
        ELSE written[k - 1]
  IN  written[Len(outputs)]

\* Writers that write one output after the other.
OutputRun(g, outputs, s, m, n) ==
  /\ g[0] = NewWriter(m)
  /\ \A k \in 1 .. n :
       g[k] = IF outputs[k].change # "Unchanged" /\ g[k - 1].truncation = "none"
              THEN write_output(g[k - 1], outputs[k].path, s[outputs[k].path].bytes,
                                outputs[k].digest)
              ELSE g[k - 1]

\* The outputs are written one after the other.
LEMMA OutputRuns ==
  ASSUME NEW s \in Snapshots, NEW outputs, NEW n \in Nat, Len(outputs) = n,
         DOMAIN outputs = 1 .. n, Writable(outputs), NEW m \in Nat
  PROVE  \E g : /\ OutputRun(g, outputs, s, m, n)
                /\ \A k \in 0 .. n : g[k] \in WriterSet(m)
                /\ Written(outputs, s, m) = g[n]
<1> DEFINE S == WriterSet(m)
           changed == {k \in DOMAIN outputs : outputs[k].change # "Unchanged"}
           Step(w, k) ==
             IF k \in changed
             THEN IF w.truncation # "none" THEN w
                  ELSE write_output(w, outputs[k].path, s[outputs[k].path].bytes,
                                    outputs[k].digest)
             ELSE w
           start == NewWriter(m)
           next == [a \in S \X (1 .. n) |-> Step(a[1], a[2])]
           Eq(f) == f = [k \in 0 .. n |->
                           IF k = 0 THEN start
                           ELSE IF k \in changed
                           THEN IF f[k - 1].truncation # "none" THEN f[k - 1]
                                ELSE write_output(f[k - 1], outputs[k].path,
                                                  s[outputs[k].path].bytes,
                                                  outputs[k].digest)
                           ELSE f[k - 1]]
           g == CHOOSE f : Eq(f)
<1>1. Written(outputs, s, m) = g[n]
  BY DEF Written
<1>2. start \in S
  BY NewWriterFits
<1>3. ASSUME NEW w \in S, NEW k \in 1 .. n
      PROVE  Step(w, k) \in S
  <2>1. outputs[k].path \in Paths /\ outputs[k].digest \in ByteStrings
    BY DEF Writable
  <2>2. s[outputs[k].path].bytes \in ByteStrings
    BY <2>1, FileBytes
  <2>3. write_output(w, outputs[k].path, s[outputs[k].path].bytes, outputs[k].digest) \in S
    BY <2>1, <2>2, WriteFits
  <2> HIDE DEF S, changed
  <2> QED  BY <2>3
<1>4. next \in [S \X (1 .. n) -> S]
  <2> SUFFICES ASSUME NEW a \in S \X (1 .. n)
               PROVE  Step(a[1], a[2]) \in S
    OBVIOUS
  <2>1. a[1] \in S /\ a[2] \in 1 .. n
    OBVIOUS
  <2> HIDE DEF S, Step
  <2> QED  BY <1>3, <2>1
<1> HIDE DEF start, changed
<1>5. PICK f \in [0 .. n -> S] : IsRun(f, start, next, n)
  <2> HIDE DEF S, next
  <2> QED  BY <1>2, <1>4, RunExists
<1>6. f[0] = start /\ \A k \in 1 .. n : f[k] = Step(f[k - 1], k)
  <2>1. ASSUME NEW k \in 1 .. n
        PROVE  f[k] = Step(f[k - 1], k)
    <3>1. f[k - 1] \in S
      BY <1>5
    <3> HIDE DEF S, Step
    <3>2. next[<<f[k - 1], k>>] = Step(f[k - 1], k)
      BY <3>1
    <3> HIDE DEF next
    <3> QED  BY <1>5, <3>2 DEF IsRun
  <2> QED  BY <1>5, <2>1 DEF IsRun
<1>7. Eq(f)
  <2>1. DOMAIN f = 0 .. n /\ f = [k \in 0 .. n |-> f[k]]
    BY <1>5
  <2>2. ASSUME NEW k \in 0 .. n
        PROVE  f[k] = IF k = 0 THEN start
                      ELSE IF k \in changed
                      THEN IF f[k - 1].truncation # "none" THEN f[k - 1]
                           ELSE write_output(f[k - 1], outputs[k].path,
                                             s[outputs[k].path].bytes,
                                             outputs[k].digest)
                      ELSE f[k - 1]
    <3>1. k = 0 \/ k \in 1 .. n
      OBVIOUS
    <3> QED  BY <1>6, <3>1
  <2> QED  BY <2>1, <2>2
<1>8. Eq(g)
  <2> HIDE DEF Eq
  <2> QED  BY <1>7
<1> HIDE DEF g
<1>9. g[0] = start /\ \A k \in 1 .. n : g[k] = Step(g[k - 1], k)
  <2>1. g[0] = start
    BY <1>8
  <2>2. ASSUME NEW k \in 1 .. n
        PROVE  g[k] = Step(g[k - 1], k)
    <3>1. k \in 0 .. n /\ k # 0
      OBVIOUS
    <3> QED  BY <1>8, <3>1
  <2> QED  BY <2>1, <2>2
<1>10. \A k \in 0 .. n : g[k] \in S
  <2> HIDE DEF S, Step
  <2>1. ASSUME NEW k \in 1 .. n, g[k - 1] \in S
        PROVE  g[k] \in S
    BY <1>3, <1>9, <2>1
  <2>2. g[0] \in S
    BY <1>2, <1>9
  <2> QED  BY <2>1, <2>2, RunStays
<1>11. OutputRun(g, outputs, s, m, n)
  <2>1. \A k \in 1 .. n : k \in changed <=> outputs[k].change # "Unchanged"
    BY DEF changed
  <2> HIDE DEF S
  <2> QED  BY <1>9, <2>1 DEF OutputRun, start
<1> HIDE DEF S
<1>12. \E h : /\ OutputRun(h, outputs, s, m, n) /\ \A k \in 0 .. n : h[k] \in S
              /\ Written(outputs, s, m) = h[n]
  BY <1>1, <1>10, <1>11
<1> QED  BY <1>12 DEF S

\* The writer holds no more than its maximum.
LEMMA AllWritesFit ==
  ASSUME NEW s \in Snapshots, NEW outputs, NEW n \in Nat, Len(outputs) = n,
         DOMAIN outputs = 1 .. n, Writable(outputs), NEW m \in Nat
  PROVE  Written(outputs, s, m) \in WriterSet(m)
<1>1. PICK g : /\ \A k \in 0 .. n : g[k] \in WriterSet(m)
               /\ Written(outputs, s, m) = g[n]
  BY OutputRuns
<1>2. n \in 0 .. n
  OBVIOUS
<1> QED  BY <1>1, <1>2

\* Every reason fits in the space reserved for the longest.
LEMMA ReasonsFit ==
  ASSUME NEW truncation, NEW m
  PROVE  /\ TruncationBytes("response_budget") \in Nat
         /\ TruncationBytes(diff_truncation_reason(truncation, m)) \in Nat
         /\ TruncationBytes(diff_truncation_reason(truncation, m))
              <= TruncationBytes("response_budget")
<1>1. TruncationBytes("response_budget") = 46
  BY DEF TruncationBytes, ReasonBytes
<1>2. TruncationBytes("diff_budget") = 38
  BY DEF TruncationBytes, ReasonBytes
<1>3. TruncationBytes("none") = 0
  BY DEF TruncationBytes
<1>4. diff_truncation_reason(truncation, m) \in {"none", "response_budget", "diff_budget"}
  BY DEF diff_truncation_reason
<1> QED  BY <1>1, <1>2, <1>3, <1>4

\* A text diff of a plan that changes something fits in the response.
LEMMA TextDiffFits ==
  ASSUME planned.ok, snapshot \in Snapshots, NEW n \in Nat,
         Len(planned.outputs) = n, DOMAIN planned.outputs = 1 .. n,
         Writable(planned.outputs), NEW no_diff \in BOOLEAN, NEW base \in BaseSizes,
         \E k \in DOMAIN planned.outputs : planned.outputs[k].change # "Unchanged",
         build_diff(no_diff, TRUE, base).kind = "text"
  PROVE  ResponseBytes(base, build_diff(no_diff, TRUE, base)) <= MAX_RESPONSE_BYTES
<1> DEFINE m == MaximumDiffBytes(base, TRUE)
           Reserved == TruncationBytes("response_budget")
           diff == build_diff(no_diff, TRUE, base)
           w == Written(planned.outputs, snapshot, m)
<1>1. base \in Nat /\ MAX_RESPONSE_BYTES \in Nat /\ DIFF_OUTPUT_BYTES \in Nat
  BY ResponseLimitsAssumption
<1>2. Reserved \in Nat
  BY ReasonsFit
<1>3. m \in Int /\ base + Reserved + m <= MAX_RESPONSE_BYTES
  <2> HIDE DEF Reserved
  <2>1. m = IF MAX_RESPONSE_BYTES - (base + Reserved) < DIFF_OUTPUT_BYTES
            THEN MAX_RESPONSE_BYTES - (base + Reserved) ELSE DIFF_OUTPUT_BYTES
    BY DEF MaximumDiffBytes, ReservedBytes, Reserved
  <2> HIDE DEF m
  <2> QED  BY <1>1, <1>2, <2>1
<1>4. m >= 0 /\ diff = Diff("text", w.text, diff_truncation_reason(w.truncation, m))
  <2> DEFINE changed == {k \in DOMAIN planned.outputs :
                           planned.outputs[k].change # "Unchanged"}
             large == \E k \in changed :
                        \/ Len(OriginalBytes(planned.outputs[k].path))
                             > DETAILED_DIFF_INPUT_BYTES
                        \/ planned.outputs[k].length > DETAILED_DIFF_INPUT_BYTES
             binary == \E k \in changed :
                         \/ is_binary(OriginalBytes(planned.outputs[k].path))
                         \/ is_binary(planned.outputs[k].digest)
  <2>1. diff = IF no_diff THEN Diff("omitted", << >>, "none")
               ELSE IF changed = {} THEN Diff("text", << >>, "none")
               ELSE IF large THEN Diff("summary", << >>, "detailed_input_limit")
               ELSE IF binary THEN Diff("binary", << >>, "binary_content")
               ELSE IF m < 0 THEN Diff("refused", << >>, "resource_limit_exceeded")
               ELSE Diff("text", w.text, diff_truncation_reason(w.truncation, m))
    BY DEF build_diff, Written, OriginalBytes
  <2>2. changed # {}
    OBVIOUS
  <2>3. \A kind, text, reason : Diff(kind, text, reason).kind = kind
    BY DEF Diff
  <2>4. diff.kind = "text"
    OBVIOUS
  <2> HIDE DEF changed, large, binary, m, w, diff
  <2>5. ~(m < 0) /\ diff = Diff("text", w.text, diff_truncation_reason(w.truncation, m))
    BY <2>1, <2>2, <2>3, <2>4
  <2> QED  BY <1>3, <2>5
<1>5. m \in Nat
  <2> HIDE DEF m, diff, w
  <2> QED  BY <1>3, <1>4
<1>6. w \in WriterSet(m)
  <2> HIDE DEF m
  <2> QED  BY <1>5, AllWritesFit
<1> HIDE DEF w
<1>8. /\ w.encoded = Total(Sizes(w.text)) /\ w.encoded <= m /\ w.encoded \in Nat
  <2>1. IsWriter(w, m)
    BY <1>6, WriterMember
  <2> QED  BY <2>1 DEF IsWriter
<1>9. diff.text = w.text /\ diff.reason = diff_truncation_reason(w.truncation, m)
  <2> HIDE DEF diff, m
  <2> QED  BY <1>4 DEF Diff
<1>10. ResponseBytes(base, diff) = base + TruncationBytes(diff.reason) + w.encoded
  <2> HIDE DEF diff
  <2> QED  BY <1>8, <1>9 DEF ResponseBytes, Sizes
<1>11. TruncationBytes(diff.reason) \in Nat /\ TruncationBytes(diff.reason) <= Reserved
  <2> HIDE DEF diff, m
  <2> QED  BY <1>9, ReasonsFit
<1> HIDE DEF m, Reserved, diff
<1>12. ResponseBytes(base, diff) <= MAX_RESPONSE_BYTES
  <2>1. PICK t \in Nat : t = TruncationBytes(diff.reason)
    BY <1>11
  <2>2. PICK e \in Nat : e = w.encoded
    BY <1>8
  <2> QED  BY <1>1, <1>2, <1>3, <1>8, <1>10, <1>11, <2>1, <2>2
<1> QED  BY <1>12 DEF diff

\* The outputs of a plan of the batch can be written.
LEMMA PlannedWritable ==
  ASSUME PlanInv, planned.ok
  PROVE  /\ snapshot \in Snapshots
         /\ Writable(planned.outputs)
         /\ \E n \in Nat : Len(planned.outputs) = n /\ DOMAIN planned.outputs = 1 .. n
<1>1. /\ snapshot \in Snapshots /\ batch \in Seq(Operations)
      /\ planned = plan(snapshot, batch)
  <2>1. ~Nothing.ok
    BY DEF Nothing
  <2> QED  BY <2>1 DEF PlanInv
<1> DEFINE r == ResolvedAll(snapshot, batch)
<1>2. PICK n : PlanParts(planned, snapshot, r, n)
  BY <1>1, PartsOfPlan
<1> HIDE DEF r
<1>3. Writable(planned.outputs)
  <2>1. ASSUME NEW k \in DOMAIN planned.outputs
        PROVE  planned.outputs[k].path \in Paths /\ planned.outputs[k].digest \in ByteStrings
    <3>1. PICK output : output = planned.outputs[k]
      OBVIOUS
    <3>2. output.path \in Paths /\ output.digest \in ByteStrings
      BY <1>1, <1>2, <3>1, OutputOfPlan
    <3> QED  BY <3>1, <3>2
  <2> QED  BY <2>1 DEF Writable
<1>4. \E n1 \in Nat : Len(planned.outputs) = n1 /\ DOMAIN planned.outputs = 1 .. n1
  <2>1. Listed(planned.outputs, snapshot, r)
    BY <1>1, <1>2, OutputsListed
  <2>2. PICK n1 \in Nat : DOMAIN planned.outputs = 1 .. n1
    BY <2>1 DEF Listed
  <2>3. \A s, j : j \in Nat /\ DOMAIN s = 1 .. j => Len(s) = j
    OBVIOUS
  <2> QED  BY <2>2, <2>3
<1> QED  BY <1>1, <1>3, <1>4

\* The invariant that a preview satisfies from the step that builds it.
FitsInv == PlanInv /\ SummaryResponseFits

\* Every step keeps it.
LEMMA NextFits == FitsInv /\ [Next]_vars => FitsInv'
<1> SUFFICES ASSUME FitsInv, [Next]_vars
             PROVE  FitsInv'
  OBVIOUS
<1>1. PlanInv /\ SummaryResponseFits /\ PlanInv'
  BY NextPlan DEF FitsInv
<1>2. CASE AddOperation
  <2>1. preview' = << >>
    BY <1>1, <1>2 DEF AddOperation, PlanInv, Nothing
  <2> QED  BY <1>1, <2>1 DEF FitsInv, SummaryResponseFits
<1>3. CASE PlanBatch
  <2>1. preview' = << >>
    BY <1>1, <1>3 DEF PlanBatch, PlanInv, Nothing
  <2> QED  BY <1>1, <2>1 DEF FitsInv, SummaryResponseFits
<1>4. CASE build_preview
  <2>1. planned.ok /\ planned' = planned
    BY <1>4 DEF build_preview
  <2>2. PICK no_diff \in BOOLEAN, include_summary \in BOOLEAN, base \in BaseSizes :
          \E diff \in {build_diff(no_diff, include_summary, base)} :
            preview' = [include_summary |-> include_summary,
                        review |-> build_review_summary, diff |-> diff,
                        bytes |-> ResponseBytes(base, diff),
                        complete |-> enforce_complete_summary_response(
                                       include_summary, base, diff)]
    BY <1>4 DEF build_preview
  <2> DEFINE diff == build_diff(no_diff, include_summary, base)
  <2>3. /\ preview'.include_summary = include_summary
        /\ preview'.diff = diff
        /\ preview'.complete = enforce_complete_summary_response(include_summary, base, diff)
    <3> HIDE DEF diff
    <3>1. preview' = [include_summary |-> include_summary,
                      review |-> build_review_summary, diff |-> diff,
                      bytes |-> ResponseBytes(base, diff),
                      complete |-> enforce_complete_summary_response(
                                     include_summary, base, diff)]
      BY <2>2 DEF diff
    <3> QED  BY <3>1
  <2>4. ASSUME include_summary, diff.kind = "text",
               \E k \in DOMAIN planned.outputs : planned.outputs[k].change # "Unchanged"
        PROVE  ResponseBytes(base, diff) <= MAX_RESPONSE_BYTES
    <3>1. include_summary = TRUE
      BY <2>4
    <3>2. /\ snapshot \in Snapshots /\ Writable(planned.outputs)
          /\ \E n \in Nat : Len(planned.outputs) = n /\ DOMAIN planned.outputs = 1 .. n
      BY <1>1, <2>1, PlannedWritable
    <3>3. PICK n \in Nat : Len(planned.outputs) = n /\ DOMAIN planned.outputs = 1 .. n
      BY <3>2
    <3>4. build_diff(no_diff, TRUE, base).kind = "text"
      BY <2>4, <3>1
    <3>5. ResponseBytes(base, build_diff(no_diff, TRUE, base)) <= MAX_RESPONSE_BYTES
      BY <2>1, <2>4, <3>2, <3>3, <3>4, TextDiffFits
    <3> QED  BY <3>1, <3>5
  <2> HIDE DEF diff
  <2>5. SummaryResponseFits'
    BY <2>1, <2>3, <2>4 DEF SummaryResponseFits, enforce_complete_summary_response
  <2> QED  BY <1>1, <2>5 DEF FitsInv
<1>5. CASE UNCHANGED vars
  <2>1. preview' = preview /\ planned' = planned
    BY <1>5 DEF vars
  <2> QED  BY <1>1, <2>1 DEF FitsInv, SummaryResponseFits
<1> QED  BY <1>2, <1>3, <1>4, <1>5 DEF Next

\* The space reserved for the diff is enough for every text diff, every size
\* of the rest of the response and every value of the limits: the response is
\* never refused for the diff in it (response_aware_diff_budget, push,
\* enforce_complete_summary_response).
THEOREM ResponseFits == Spec => []SummaryResponseFits
<1>1. Init => FitsInv
  <2>1. Init => preview = << >>
    BY DEF Init
  <2> QED  BY <2>1, InitPlan DEF FitsInv, SummaryResponseFits
<1>2. FitsInv => SummaryResponseFits
  BY DEF FitsInv
<1> QED  BY <1>1, <1>2, NextFits, PTL DEF Spec

-----------------------------------------------------------------------------
(***************************************************************************)
(* Line metrics.                                                           *)
(***************************************************************************)
\* The positions that end a terminated line.
Terms(bytes) ==
  {i \in 1 .. Len(bytes) :
     \/ bytes[i] = LF
     \/ bytes[i] = CR /\ ~(i < Len(bytes) /\ bytes[i + 1] = LF)}

\* The metrics of a byte string, from a scan.
Measured(bytes) ==
  [byte_count |-> Len(bytes), terminator_count |-> Cardinality(Terms(bytes)),
   first_byte |-> IF Len(bytes) = 0 THEN None ELSE bytes[1],
   last_byte |-> IF Len(bytes) = 0 THEN None ELSE bytes[Len(bytes)]]

\* What a byte string consists of.
LEMMA BytesAre ==
  ASSUME NEW bytes \in ByteStrings
  PROVE  /\ Len(bytes) \in Nat /\ DOMAIN bytes = 1 .. Len(bytes)
         /\ \A i \in 1 .. Len(bytes) : bytes[i] \in 0 .. 255
<1>1. Len(bytes) \in Nat /\ DOMAIN bytes = 1 .. Len(bytes)
  BY DEF ByteStrings
<1>2. \A i \in 1 .. Len(bytes) : bytes[i] \in 0 .. 255
  BY ElementOfSeq DEF ByteStrings
<1> QED  BY <1>1, <1>2

\* The positions are finitely many.
LEMMA TermsFinite ==
  ASSUME NEW bytes \in ByteStrings
  PROVE  /\ IsFiniteSet(Terms(bytes)) /\ Cardinality(Terms(bytes)) \in Nat
         /\ IsFiniteSet(LineEndings(bytes)) /\ Cardinality(LineEndings(bytes)) \in Nat
<1>1. Len(bytes) \in Nat
  BY DEF ByteStrings
<1>2. IsFiniteSet(1 .. Len(bytes))
  BY <1>1, FS_Interval
<1>3. Terms(bytes) \subseteq 1 .. Len(bytes) /\ LineEndings(bytes) \subseteq 1 .. Len(bytes)
  BY DEF Terms, LineEndings
<1>4. IsFiniteSet(Terms(bytes)) /\ IsFiniteSet(LineEndings(bytes))
  BY <1>2, <1>3, FS_Subset
<1> QED  BY <1>4, FS_CardinalityType

\* Metrics count the lines.
LEMMA MeasuredLines ==
  ASSUME NEW bytes \in ByteStrings
  PROVE  line_count(Measured(bytes)) = LinesOf(bytes)
<1> DEFINE n == Len(bytes)
<1>1. n \in Nat /\ \A i \in 1 .. n : bytes[i] \in 0 .. 255
  BY BytesAre
<1>2. LinesOf(bytes) = Cardinality(LineEndings(bytes))
  BY DEF LinesOf, LineEndings
<1>3. IsFiniteSet(Terms(bytes)) /\ Cardinality(Terms(bytes)) \in Nat
  BY TermsFinite
<1>4. CASE n = 0
  <2>1. Terms(bytes) = {} /\ LineEndings(bytes) = {}
    BY <1>4 DEF Terms, LineEndings
  <2>2. line_count(Measured(bytes)) = Cardinality(Terms(bytes))
    BY <1>3, <1>4 DEF line_count, Measured
  <2> QED  BY <1>2, <2>1, <2>2
<1>5. CASE n # 0 /\ IsTerminatorByte(bytes[n])
  <2>1. Terms(bytes) = LineEndings(bytes)
    <3>1. ASSUME NEW i \in 1 .. n
          PROVE  i \in Terms(bytes) <=> i \in LineEndings(bytes)
      <4>1. CASE i = n
        BY <1>1, <1>5, <4>1 DEF Terms, LineEndings, IsTerminatorByte
      <4>2. CASE i # n
        <5>1. i < n
          BY <1>1, <4>2
        <5> QED  BY <4>2, <5>1 DEF Terms, LineEndings
      <4> QED  BY <4>1, <4>2
    <3> QED  BY <3>1 DEF Terms, LineEndings
  <2>2. line_count(Measured(bytes)) = Cardinality(Terms(bytes))
    BY <1>3, <1>5 DEF line_count, Measured
  <2> QED  BY <1>2, <2>1, <2>2
<1>6. CASE n # 0 /\ ~IsTerminatorByte(bytes[n])
  <2>1. n \in 1 .. n /\ n \notin Terms(bytes)
    BY <1>1, <1>6 DEF Terms, IsTerminatorByte
  <2>2. LineEndings(bytes) = Terms(bytes) \cup {n}
    <3>1. ASSUME NEW i \in 1 .. n
          PROVE  i \in Terms(bytes) \cup {n} <=> i \in LineEndings(bytes)
      <4>1. CASE i = n
        BY <4>1 DEF LineEndings
      <4>2. CASE i # n
        <5>1. i < n
          BY <1>1, <4>2
        <5> QED  BY <4>2, <5>1 DEF Terms, LineEndings
      <4> QED  BY <4>1, <4>2
    <3>2. Terms(bytes) \cup {n} \subseteq 1 .. n /\ LineEndings(bytes) \subseteq 1 .. n
      BY <2>1 DEF Terms, LineEndings
    <3> QED  BY <3>1, <3>2
  <2>3. Cardinality(LineEndings(bytes)) = Cardinality(Terms(bytes)) + 1
    BY <1>3, <2>1, <2>2, FS_AddElement
  <2>4. bytes[n] # None
    <3>1. bytes[n] \in 0 .. 255
      BY <1>1, <2>1
    <3> HIDE DEF n
    <3> QED  BY <3>1 DEF None
  <2>5. line_count(Measured(bytes)) = Cardinality(Terms(bytes)) + 1
    BY <1>3, <1>6, <2>4 DEF line_count, Measured
  <2> QED  BY <1>2, <2>3, <2>5
<1> QED  BY <1>4, <1>5, <1>6

\* The metrics of two byte strings compose to those of both: a CR at the end
\* of the one and an LF at the start of the other end one line.
LEMMA AppendMeasures ==
  ASSUME NEW a \in ByteStrings, NEW b \in ByteStrings
  PROVE  try_append(Measured(a), Measured(b)) = Measured(a \o b)
<1> DEFINE c == a \o b
           m == Len(a)
           n == Len(b)
           Moved == {i + m : i \in Terms(b)}
<1>1. /\ m \in Nat /\ n \in Nat
      /\ \A i \in 1 .. m : a[i] \in 0 .. 255
      /\ \A i \in 1 .. n : b[i] \in 0 .. 255
  BY BytesAre
<1>2. /\ c \in ByteStrings /\ Len(c) = m + n
      /\ \A i \in 1 .. m : c[i] = a[i]
      /\ \A i \in 1 .. n : c[m + i] = b[i]
  <2>1. c \in ByteStrings /\ Len(c) = m + n
        /\ \A i \in 1 .. m + n : c[i] = IF i <= m THEN a[i] ELSE b[i - m]
    BY ConcatProperties DEF ByteStrings
  <2> HIDE DEF c
  <2>2. ASSUME NEW i \in 1 .. n
        PROVE  c[m + i] = b[i]
    <3>1. m + i \in 1 .. m + n /\ ~(m + i <= m) /\ (m + i) - m = i
      BY <1>1
    <3> QED  BY <2>1, <3>1
  <2>3. ASSUME NEW i \in 1 .. m
        PROVE  c[i] = a[i]
    <3>1. i \in 1 .. m + n /\ i <= m
      BY <1>1
    <3> QED  BY <2>1, <3>1
  <2> QED  BY <2>1, <2>2, <2>3
<1>3. /\ IsFiniteSet(Terms(a)) /\ Cardinality(Terms(a)) \in Nat
      /\ IsFiniteSet(Terms(b)) /\ Cardinality(Terms(b)) \in Nat
  BY TermsFinite
<1>4. IsFiniteSet(Moved) /\ Cardinality(Moved) = Cardinality(Terms(b))
  <2>1. Terms(b) \subseteq Nat
    BY <1>1 DEF Terms
  <2> QED  BY <1>1, <1>3, <2>1, ShiftedCount
<1>5. CASE n = 0
  <2>1. c = a
    <3>1. b = << >>
      BY <1>5 DEF ByteStrings
    <3> QED  BY <3>1 DEF ByteStrings
  <2>2. try_append(Measured(a), Measured(b)) = Measured(a)
    BY <1>5 DEF try_append, Measured
  <2> QED  BY <2>1, <2>2
<1>6. CASE n # 0 /\ m = 0
  <2>1. c = b
    <3>1. a = << >>
      BY <1>6 DEF ByteStrings
    <3> QED  BY <3>1 DEF ByteStrings
  <2>2. try_append(Measured(a), Measured(b)) = Measured(b)
    BY <1>6 DEF try_append, Measured
  <2> QED  BY <2>1, <2>2
<1>7. CASE n # 0 /\ m # 0
  <2> DEFINE Meets == a[m] = CR /\ b[1] = LF
  <2>1. c[m] = a[m] /\ c[m + 1] = b[1] /\ c[1] = a[1] /\ c[m + n] = b[n]
    <3>1. m \in 1 .. m /\ 1 \in 1 .. m /\ 1 \in 1 .. n /\ n \in 1 .. n
      BY <1>1, <1>7
    <3> HIDE DEF c
    <3> QED  BY <1>2, <3>1
  <2> HIDE DEF c
  <2>2. m \in Terms(a) \/ ~Meets
    BY <1>1, <1>7 DEF Terms
  <2>3. \A i \in 1 .. m : i \in Terms(c) <=> i \in Terms(a) /\ ~(i = m /\ Meets)
    <3> SUFFICES ASSUME NEW i \in 1 .. m
                 PROVE  i \in Terms(c) <=> i \in Terms(a) /\ ~(i = m /\ Meets)
      OBVIOUS
    <3>1. i \in 1 .. m + n /\ i < m + n /\ c[i] = a[i]
      BY <1>1, <1>2, <1>7
    <3>2. i \in Terms(c) <=> a[i] = LF \/ (a[i] = CR /\ ~(c[i + 1] = LF))
      BY <1>2, <3>1 DEF Terms
    <3>3. CASE i = m
      BY <1>1, <2>1, <3>2, <3>3 DEF Terms, LF, CR
    <3>4. CASE i # m
      <4>1. i < m /\ i + 1 \in 1 .. m
        BY <1>1, <3>4
      <4>2. c[i + 1] = a[i + 1]
        BY <1>2, <4>1
      <4> QED  BY <3>2, <3>4, <4>1, <4>2 DEF Terms
    <3> QED  BY <3>3, <3>4
  <2>4. \A i \in 1 .. n : m + i \in Terms(c) <=> i \in Terms(b)
    <3> SUFFICES ASSUME NEW i \in 1 .. n
                 PROVE  m + i \in Terms(c) <=> i \in Terms(b)
      OBVIOUS
    <3>1. m + i \in 1 .. m + n /\ c[m + i] = b[i]
      BY <1>1, <1>2
    <3>2. m + i < m + n <=> i < n
      BY <1>1
    <3>3. i < n => c[(m + i) + 1] = b[i + 1]
      <4> SUFFICES ASSUME i < n
                   PROVE  c[(m + i) + 1] = b[i + 1]
        OBVIOUS
      <4>1. i + 1 \in 1 .. n /\ (m + i) + 1 = m + (i + 1)
        BY <1>1
      <4> QED  BY <1>2, <4>1
    <3> QED  BY <1>2, <3>1, <3>2, <3>3 DEF Terms
  <2> DEFINE Left == IF Meets THEN Terms(a) \ {m} ELSE Terms(a)
  <2>5. IsFiniteSet(Left)
        /\ Cardinality(Left) = Cardinality(Terms(a)) - (IF Meets THEN 1 ELSE 0)
    <3>1. CASE Meets
      <4>1. m \in Terms(a)
        BY <2>2, <3>1
      <4> QED  BY <1>3, <3>1, <4>1, FS_RemoveElement
    <3>2. CASE ~Meets
      BY <1>3, <3>2
    <3> QED  BY <3>1, <3>2
  <2>6. Terms(c) = Left \cup Moved /\ Left \cap Moved = {}
    <3>1. Terms(a) \subseteq 1 .. m /\ Terms(b) \subseteq 1 .. n /\ Terms(c) \subseteq 1 .. m + n
      BY <1>2 DEF Terms
    <3>2. \A i \in 1 .. m : i \in Left <=> i \in Terms(c)
      BY <2>3
    <3>3. \A i \in Moved : i \notin 1 .. m /\ i \in Terms(c)
      <4> SUFFICES ASSUME NEW j \in Terms(b)
                   PROVE  j + m \notin 1 .. m /\ j + m \in Terms(c)
        OBVIOUS
      <4>1. j \in 1 .. n /\ j + m = m + j
        BY <1>1, <3>1
      <4>2. m + j \in Terms(c)
        BY <2>4, <4>1
      <4> QED  BY <1>1, <4>1, <4>2
    <3>4. \A i \in Terms(c) : i \notin 1 .. m => i \in Moved
      <4> SUFFICES ASSUME NEW i \in Terms(c), i \notin 1 .. m
                   PROVE  i \in Moved
        OBVIOUS
      <4>1. PICK j \in 1 .. n : i = m + j
        <5>1. i \in 1 .. m + n
          BY <3>1
        <5>2. i - m \in 1 .. n /\ i = m + (i - m)
          BY <1>1, <5>1
        <5> QED  BY <5>2
      <4>2. j \in Terms(b)
        BY <2>4, <4>1
      <4>3. i = j + m
        BY <1>1, <4>1
      <4> QED  BY <4>2, <4>3
    <3>5. Left \subseteq 1 .. m
      BY <3>1
    <3> HIDE DEF Left, Moved
    <3> QED  BY <3>2, <3>3, <3>4, <3>5
  <2>7. Cardinality(Terms(c)) = Cardinality(Left) + Cardinality(Terms(b))
    <3> HIDE DEF Left, Moved
    <3> QED  BY <1>4, <2>5, <2>6, DisjointUnion
  <2>8. Measured(c) = [byte_count |-> m + n, terminator_count |-> Cardinality(Terms(c)),
                       first_byte |-> a[1], last_byte |-> b[n]]
    <3>1. m + n # 0
      BY <1>1, <1>7
    <3> QED  BY <1>2, <2>1, <3>1 DEF Measured
  <2>9. try_append(Measured(a), Measured(b)) =
          [byte_count |-> m + n,
           terminator_count |-> Cardinality(Terms(a)) + Cardinality(Terms(b))
                                - (IF Meets THEN 1 ELSE 0),
           first_byte |-> a[1], last_byte |-> b[n]]
    BY <1>7 DEF try_append, Measured
  <2>10. Cardinality(Terms(c)) = Cardinality(Terms(a)) + Cardinality(Terms(b))
                                 - (IF Meets THEN 1 ELSE 0)
    <3> HIDE DEF Left, Meets
    <3> QED  BY <1>3, <2>5, <2>7
  <2>11. try_append(Measured(a), Measured(b)) = Measured(c)
    BY <2>8, <2>9, <2>10
  <2> QED  BY <2>11 DEF c
<1> QED  BY <1>5, <1>6, <1>7

\* A binary search in the index counts the ends of lines up to an offset.
LEMMA PartitionCounts ==
  ASSUME NEW bytes \in ByteStrings, NEW o \in Nat
  PROVE  /\ IsFiniteSet({i \in LineEndings(bytes) : i <= o})
         /\ PartitionPoint(Boundaries(bytes), o) = Cardinality({i \in LineEndings(bytes) : i <= o})
<1> DEFINE B == Boundaries(bytes)
           S == {k \in 1 .. Len(B) : B[k] <= o}
           T == {i \in LineEndings(bytes) : i <= o}
           f == [k \in S |-> B[k]]
<1>1. /\ Len(B) \in Nat
      /\ \A k \in 1 .. Len(B) : B[k] \in 1 .. Len(bytes) /\ B[k] \in LineEndings(bytes)
      /\ \A j, k \in 1 .. Len(B) : j < k => B[j] < B[k]
      /\ \A i \in LineEndings(bytes) : \E k \in 1 .. Len(B) : B[k] = i
  <2>1. LineList(B, bytes, 0)
    BY BoundariesAreEnds
  <2> HIDE DEF B
  <2>2. B \in Seq(1 .. Len(bytes))
    BY <2>1 DEF LineList
  <2>3. \A i \in LineEndings(bytes) : i > 0
    BY BytesAre DEF LineEndings
  <2>4. Len(B) \in Nat /\ \A k \in 1 .. Len(B) : B[k] \in 1 .. Len(bytes)
    BY <2>2
  <2> QED  BY <2>1, <2>3, <2>4 DEF LineList
<1>2. PartitionPoint(B, o) = Cardinality(S)
  BY DEF PartitionPoint
<1>3. IsFiniteSet(S)
  <2>1. IsFiniteSet(1 .. Len(B))
    BY <1>1, FS_Interval
  <2>2. S \subseteq 1 .. Len(B)
    OBVIOUS
  <2> HIDE DEF S
  <2> QED  BY <2>1, <2>2, FS_Subset
<1> HIDE DEF B
<1>4. Len(bytes) \in Nat
  BY BytesAre
<1>5. f \in [S -> T]
  BY <1>1
<1>6. \A j, k \in S : f[j] = f[k] => j = k
  <2> SUFFICES ASSUME NEW j \in S, NEW k \in S, f[j] = f[k], j # k
               PROVE  FALSE
    OBVIOUS
  <2>1. j \in 1 .. Len(B) /\ k \in 1 .. Len(B) /\ B[j] = B[k]
    OBVIOUS
  <2>2. j < k \/ k < j
    BY <1>1, <2>1
  <2>3. B[j] < B[k] \/ B[k] < B[j]
    BY <1>1, <2>1, <2>2
  <2> QED  BY <1>1, <1>4, <2>1, <2>3
<1>7. \A i \in T : \E k \in S : f[k] = i
  <2> SUFFICES ASSUME NEW i \in T
               PROVE  \E k \in S : f[k] = i
    OBVIOUS
  <2>1. PICK k \in 1 .. Len(B) : B[k] = i
    BY <1>1
  <2>2. k \in S
    BY <2>1
  <2> QED  BY <2>1, <2>2
<1> HIDE DEF f, S, T
<1>8. f \in Bijection(S, T)
  <2>1. f \in Injection(S, T)
    BY <1>5, <1>6 DEF Injection, IsInjective
  <2>2. f \in Surjection(S, T)
    BY <1>5, <1>7 DEF Surjection
  <2> QED  BY <2>1, <2>2 DEF Bijection
<1>9. ExistsBijection(S, T)
  BY <1>8 DEF ExistsBijection
<1>10. IsFiniteSet(T) /\ Cardinality(T) = Cardinality(S)
  BY <1>3, <1>9, FS_Bijection
<1> QED  BY <1>2, <1>10 DEF T, B

\* The index has an entry for every line.
LEMMA BoundariesCount ==
  ASSUME NEW bytes \in ByteStrings
  PROVE  Len(Boundaries(bytes)) = LinesOf(bytes)
<1> DEFINE B == Boundaries(bytes)
           n == Len(bytes)
<1>1. n \in Nat
  BY BytesAre
<1>2. Len(B) \in Nat /\ \A k \in 1 .. Len(B) : B[k] \in 1 .. n
  <2>1. B \in Seq(1 .. n)
    BY BoundariesAreEnds DEF LineList
  <2> HIDE DEF B
  <2> QED  BY <2>1
<1> HIDE DEF B
<1>3. {k \in 1 .. Len(B) : B[k] <= n} = 1 .. Len(B)
  BY <1>1, <1>2
<1>4. PartitionPoint(B, n) = Len(B)
  <2>1. Cardinality(1 .. Len(B)) = IF 1 > Len(B) THEN 0 ELSE Len(B) - 1 + 1
    BY <1>2, FS_Interval
  <2>2. Cardinality(1 .. Len(B)) = Len(B)
    BY <1>2, <2>1
  <2>3. PartitionPoint(B, n) = Cardinality({k \in 1 .. Len(B) : B[k] <= n})
    BY DEF PartitionPoint
  <2> HIDE DEF n
  <2> QED  BY <1>3, <2>2, <2>3
<1>5. {i \in LineEndings(bytes) : i <= n} = LineEndings(bytes)
  BY <1>1 DEF LineEndings
<1>6. PartitionPoint(B, n) = Cardinality(LineEndings(bytes))
  <2>1. PartitionPoint(B, n) = Cardinality({i \in LineEndings(bytes) : i <= n})
    BY <1>1, PartitionCounts DEF B
  <2> HIDE DEF n
  <2> QED  BY <1>5, <2>1
<1>7. LinesOf(bytes) = Cardinality(LineEndings(bytes))
  BY DEF LinesOf, LineEndings
<1> QED  BY <1>4, <1>6, <1>7 DEF B

\* The metrics that the index gives for a range are those of its bytes.
LEMMA RangeMeasures ==
  ASSUME NEW bytes \in ByteStrings, NEW start \in Nat, NEW end \in Nat,
         start <= end, end <= Len(bytes)
  PROVE  metrics_for_range(Boundaries(bytes), bytes, start, end)
           = Measured(Slice(bytes, start, end))
<1> DEFINE n == Len(bytes)
           w == Slice(bytes, start, end)
           Upto(o) == {i \in LineEndings(bytes) : i <= o}
           Within == {i \in LineEndings(bytes) : start < i /\ i <= end}
           Moved == {i + start : i \in Terms(w)}
           B == Boundaries(bytes)
<1>1. n \in Nat /\ \A i \in 1 .. n : bytes[i] \in 0 .. 255
  BY BytesAre
<1>2. /\ w \in ByteStrings /\ Len(w) = end - start
      /\ \A k \in 1 .. end - start : w[k] = bytes[start + k]
  <2>1. end \in 0 .. n
    BY <1>1
  <2> QED  BY <2>1, SliceType
<1> HIDE DEF w
<1>3. IsFiniteSet(Terms(w)) /\ Cardinality(Terms(w)) \in Nat
  BY <1>2, TermsFinite
<1>4. IsFiniteSet(Moved) /\ Cardinality(Moved) = Cardinality(Terms(w))
  <2>1. Terms(w) \subseteq Nat
    BY <1>2 DEF Terms
  <2> QED  BY <1>3, <2>1, ShiftedCount
<1>5. CASE start = end
  <2>1. Len(w) = 0
    BY <1>2, <1>5
  <2>2. Terms(w) = {}
    BY <2>1 DEF Terms
  <2>3. Cardinality(Terms(w)) = 0
    BY <2>2, FS_EmptySet
  <2>4. Measured(w) = EmptyMetrics
    BY <2>1, <2>3 DEF Measured, EmptyMetrics
  <2> QED  BY <1>5, <2>4 DEF metrics_for_range, w
<1>6. CASE start # end
  <2>0. start < end /\ Len(w) # 0 /\ end \in 1 .. n
    BY <1>1, <1>2, <1>6
  <2>1. /\ IsFiniteSet(Upto(start)) /\ PartitionPoint(B, start) = Cardinality(Upto(start))
        /\ IsFiniteSet(Upto(end)) /\ PartitionPoint(B, end) = Cardinality(Upto(end))
    BY PartitionCounts
  <2>2. IsFiniteSet(Within) /\ Cardinality(Within) \in Nat
    <3>1. Within \subseteq Upto(end)
      OBVIOUS
    <3>2. IsFiniteSet(Within)
      <4> HIDE DEF Within, Upto
      <4> QED  BY <2>1, <3>1, FS_Subset
    <3> QED  BY <3>2, FS_CardinalityType
  <2>3. Upto(end) = Upto(start) \cup Within /\ Upto(start) \cap Within = {}
    <3>1. LineEndings(bytes) \subseteq Nat
      BY <1>1 DEF LineEndings
    <3>2. \A i \in LineEndings(bytes) : i <= end <=> i <= start \/ (start < i /\ i <= end)
      BY <2>0, <3>1
    <3>3. \A i \in LineEndings(bytes) : ~(i <= start /\ start < i)
      BY <3>1
    <3> QED  BY <3>2, <3>3
  <2>4. PartitionPoint(B, end) = PartitionPoint(B, start) + Cardinality(Within)
    <3> HIDE DEF Within, Upto
    <3> QED  BY <2>1, <2>2, <2>3, DisjointUnion
  <2>5. PartitionPoint(B, start) \in Nat
    <3> HIDE DEF Upto, B
    <3> QED  BY <2>1, FS_CardinalityType
  <2>6. \A i \in Nat : i \in Moved <=>
          /\ start < i /\ i <= end
          /\ bytes[i] = LF \/ (bytes[i] = CR /\ ~(i < end /\ bytes[i + 1] = LF))
    <3> SUFFICES ASSUME NEW i \in Nat
                 PROVE  i \in Moved <=>
                          /\ start < i /\ i <= end
                          /\ bytes[i] = LF
                             \/ (bytes[i] = CR /\ ~(i < end /\ bytes[i + 1] = LF))
      OBVIOUS
    <3>1. CASE start < i /\ i <= end
      <4>1. PICK k \in 1 .. end - start : i = start + k
        <5>1. i - start \in 1 .. end - start /\ i = start + (i - start)
          BY <3>1
        <5> QED  BY <5>1
      <4>2. i \in Moved <=> k \in Terms(w)
        <5>1. k + start = i
          BY <4>1
        <5>2. \A j \in Terms(w) : j + start = i => j = k
          BY <1>2, <5>1 DEF Terms
        <5> QED  BY <5>1, <5>2
      <4>3. w[k] = bytes[i]
        BY <1>2, <4>1
      <4>4. k < end - start <=> i < end
        BY <4>1
      <4>5. k < end - start => w[k + 1] = bytes[i + 1]
        <5> SUFFICES ASSUME k < end - start
                     PROVE  w[k + 1] = bytes[i + 1]
          OBVIOUS
        <5>1. k + 1 \in 1 .. end - start /\ start + (k + 1) = i + 1
          BY <4>1
        <5> QED  BY <1>2, <5>1
      <4> HIDE DEF Moved
      <4> QED  BY <1>2, <3>1, <4>2, <4>3, <4>4, <4>5 DEF Terms
    <3>2. CASE ~(start < i /\ i <= end)
      <4>1. i \notin Moved
        <5> SUFFICES ASSUME NEW j \in Terms(w), i = j + start
                     PROVE  FALSE
          OBVIOUS
        <5>1. j \in 1 .. end - start
          BY <1>2 DEF Terms
        <5> QED  BY <3>2, <5>1
      <4> QED  BY <3>2, <4>1
    <3> QED  BY <3>1, <3>2
  <2>7. Moved \subseteq Nat /\ Within \subseteq Nat
    <3>1. Terms(w) \subseteq Nat /\ LineEndings(bytes) \subseteq Nat
      BY <1>1, <1>2 DEF Terms, LineEndings
    <3> QED  BY <3>1
  <2>8. \A i \in Nat : i \in Within <=>
          /\ start < i /\ i <= end
          /\ i = n \/ bytes[i] = LF \/ (bytes[i] = CR /\ bytes[i + 1] # LF)
    BY <1>1 DEF LineEndings
  <2>9. \A i \in Nat : i < end => (i \in Within <=> i \in Moved)
    <3> HIDE DEF Within, Moved
    <3> QED  BY <2>0, <2>6, <2>8
  <2>10. \A i \in Within : i <= end
    OBVIOUS
  <2>11. \A i \in Moved : i <= end
    <3> HIDE DEF Moved
    <3> QED  BY <2>6, <2>7
  <2>12. end \in Moved <=> bytes[end] = LF \/ bytes[end] = CR
    <3> HIDE DEF Moved
    <3> QED  BY <2>0, <2>6
  <2>13. end \in Within <=> end = n \/ bytes[end] = LF
                            \/ (bytes[end] = CR /\ bytes[end + 1] # LF)
    <3> HIDE DEF Within
    <3> QED  BY <2>0, <2>8
  <2>14. Within \ {end} = Moved \ {end}
    <3> HIDE DEF Within, Moved
    <3>1. ASSUME NEW i, i \in Within \/ i \in Moved, i # end
          PROVE  i \in Within <=> i \in Moved
      <4>1. i \in Nat /\ i <= end
        BY <2>7, <2>10, <2>11, <3>1
      <4>2. i < end
        BY <3>1, <4>1
      <4> QED  BY <2>9, <4>1, <4>2
    <3> QED  BY <3>1
  <2> DEFINE Extra == end = n /\ ~IsTerminatorByte(bytes[end])
             Cut == end < n /\ bytes[end] = CR /\ bytes[end + 1] = LF
  <2> HIDE DEF Within, Moved
  <2>15. Cardinality(Moved) = Cardinality(Within) - (IF Extra THEN 1 ELSE 0)
                                                  + (IF Cut THEN 1 ELSE 0)
    <3>1. CASE Extra
      <4>1. end \in Within /\ end \notin Moved /\ ~Cut
        BY <2>12, <2>13, <3>1 DEF IsTerminatorByte
      <4>2. Moved = Within \ {end}
        BY <2>14, <4>1
      <4>3. Cardinality(Within \ {end}) = Cardinality(Within) - 1
        BY <2>2, <4>1, FS_RemoveElement
      <4> QED  BY <2>2, <3>1, <4>1, <4>2, <4>3
    <3>2. CASE Cut
      <4>1. end \notin Within /\ end \in Moved /\ ~Extra
        <5>1. end # n /\ bytes[end] # LF
          BY <1>1, <2>0, <3>2 DEF CR, LF
        <5>2. ~Extra
          BY <5>1
        <5> QED  BY <2>12, <2>13, <3>2, <5>1, <5>2
      <4>2. Moved = Within \cup {end}
        BY <2>14, <4>1
      <4>3. Cardinality(Within \cup {end}) = Cardinality(Within) + 1
        BY <2>2, <4>1, FS_AddElement
      <4> QED  BY <2>2, <3>2, <4>1, <4>2, <4>3
    <3>3. CASE ~Extra /\ ~Cut
      <4>1. end \in Within <=> end \in Moved
        BY <1>1, <2>0, <2>12, <2>13, <3>3 DEF CR, LF, IsTerminatorByte
      <4>2. \A i : i \in Moved <=> i \in Within
        BY <2>14, <4>1
      <4>3. Moved = Within
        BY <4>2
      <4> QED  BY <2>2, <3>3, <4>3
    <3> QED  BY <3>1, <3>2, <3>3
  <2>16. w[1] = bytes[start + 1] /\ w[Len(w)] = bytes[end]
    <3>1. 1 \in 1 .. end - start /\ end - start \in 1 .. end - start
          /\ start + (end - start) = end
      BY <2>0
    <3> QED  BY <1>2, <3>1
  <2>17. metrics_for_range(B, bytes, start, end) =
           [byte_count |-> end - start,
            terminator_count |->
              PartitionPoint(B, end) - PartitionPoint(B, start)
              - (IF Extra THEN 1 ELSE 0) + (IF Cut THEN 1 ELSE 0),
            first_byte |-> bytes[start + 1], last_byte |-> bytes[end]]
    BY <1>6 DEF metrics_for_range
  <2>18. PartitionPoint(B, end) - PartitionPoint(B, start)
           - (IF Extra THEN 1 ELSE 0) + (IF Cut THEN 1 ELSE 0) = Cardinality(Terms(w))
    <3> HIDE DEF Extra, Cut, B
    <3> QED  BY <1>4, <2>2, <2>4, <2>5, <2>15
  <2>19. Measured(w) =
           [byte_count |-> end - start, terminator_count |-> Cardinality(Terms(w)),
            first_byte |-> bytes[start + 1], last_byte |-> bytes[end]]
    BY <1>2, <2>0, <2>16 DEF Measured
  <2>20. metrics_for_range(B, bytes, start, end) = Measured(w)
    BY <2>17, <2>18, <2>19
  <2> QED  BY <2>20 DEF w, B
<1> QED  BY <1>5, <1>6

-----------------------------------------------------------------------------
(***************************************************************************)
(* The review of an output, composed from the segments.                    *)
(***************************************************************************)
Measures == {Measured(b) : b \in ByteStrings}

\* The metrics of a segment are those of the bytes it stands for.
LEMMA SegmentMeasures ==
  ASSUME snapshot \in Snapshots, NEW g \in Segments(snapshot)
  PROVE  RangeMetrics(g.file, g.start, g.end) = Measured(SegmentBytes(snapshot, g))
<1>1. /\ g.file \in Paths /\ g.start \in Nat /\ g.end \in Nat
      /\ g.start <= g.end /\ g.end <= Len(snapshot[g.file].bytes)
  BY DEF Segments, OriginalSegment, PayloadSegment
<1>2. snapshot[g.file].bytes \in ByteStrings
  BY <1>1, FileBytes
<1>3. metrics_for_range(Boundaries(snapshot[g.file].bytes), snapshot[g.file].bytes,
                        g.start, g.end)
        = Measured(Slice(snapshot[g.file].bytes, g.start, g.end))
  BY <1>1, <1>2, RangeMeasures
<1> QED  BY <1>3 DEF RangeMetrics, SegmentBytes

Group == [offset : Nat, operations : Seq(Nat)]

\* A payload in its group.
LEMMA AddToGroupsType ==
  ASSUME NEW groups \in Seq(Group), NEW offset \in Nat, NEW i \in Nat
  PROVE  LET m == Len(groups)
             next == AddToGroups(groups, offset, i)
         IN  /\ m \in Nat /\ next \in Seq(Group)
             /\ \/ /\ m > 0 /\ groups[m].offset = offset /\ Len(next) = m
                   /\ next[m].offset = offset
                   /\ next[m].operations = Append(groups[m].operations, i)
                   /\ \A k \in 1 .. m - 1 : next[k] = groups[k]
                \/ /\ m = 0 \/ groups[m].offset # offset
                   /\ Len(next) = m + 1
                   /\ next[m + 1].offset = offset
                   /\ next[m + 1].operations = << i >>
                   /\ \A k \in 1 .. m : next[k] = groups[k]
<1> DEFINE m == Len(groups)
           next == AddToGroups(groups, offset, i)
<1>1. m \in Nat /\ \A k \in 1 .. m : groups[k] \in Group
  OBVIOUS
<1>2. groups # << >> <=> m > 0
  OBVIOUS
<1>3. CASE m > 0 /\ groups[m].offset = offset
  <2> DEFINE last == [groups[m] EXCEPT !.operations = Append(@, i)]
             front == SubSeq(groups, 1, m - 1)
  <2>1. next = front \o << last >>
    BY <1>2, <1>3 DEF AddToGroups, Last, Front
  <2>2. groups[m] \in Group
    BY <1>1, <1>3
  <2>3. last \in Group /\ last.offset = offset
        /\ last.operations = Append(groups[m].operations, i)
    <3>1. /\ groups[m].offset \in Nat /\ groups[m].operations \in Seq(Nat)
          /\ groups[m] = [offset |-> groups[m].offset,
                          operations |-> groups[m].operations]
      BY <2>2 DEF Group
    <3>2. PICK longer : longer = Append(groups[m].operations, i)
      OBVIOUS
    <3>3. last = [offset |-> groups[m].offset, operations |-> longer]
      <4>1. PICK group : group = groups[m]
        OBVIOUS
      <4>2. last = [group EXCEPT !.operations = longer]
        BY <3>2, <4>1
      <4>3. group = [offset |-> group.offset, operations |-> group.operations]
        BY <3>1, <4>1
      <4> HIDE DEF last
      <4>4. last = [offset |-> group.offset, operations |-> longer]
        BY <4>2, <4>3
      <4> QED  BY <4>1, <4>4
    <3>4. longer \in Seq(Nat)
      BY <3>1, <3>2
    <3> QED  BY <1>3, <3>1, <3>2, <3>3, <3>4 DEF Group
  <2>4. /\ front \in Seq(Group) /\ Len(front) = m - 1
        /\ \A k \in 1 .. m - 1 : front[k] = groups[k]
    <3>1. m - 1 \in Int /\ \A k \in 1 .. m - 1 : groups[k] \in Group
      BY <1>1, <1>3
    <3>2. /\ front \in Seq(Group) /\ Len(front) = IF 1 <= m - 1 THEN (m - 1) - 1 + 1 ELSE 0
          /\ \A k \in 1 .. (m - 1) - 1 + 1 : front[k] = groups[1 + k - 1]
      BY <3>1, SubSeqProperties
    <3> HIDE DEF front
    <3>3. \A k \in 1 .. m - 1 : k \in 1 .. (m - 1) - 1 + 1 /\ 1 + k - 1 = k
      BY <1>1
    <3>4. Len(front) = m - 1
      <4> HIDE DEF m
      <4> QED  BY <1>1, <1>3, <3>2
    <3> QED  BY <3>2, <3>3, <3>4
  <2> HIDE DEF last, front, next
  <2>5. /\ next \in Seq(Group) /\ Len(next) = m
        /\ next[m] = last /\ \A k \in 1 .. m - 1 : next[k] = front[k]
    BY <1>1, <1>3, <2>1, <2>3, <2>4
  <2> QED  BY <1>1, <1>3, <2>3, <2>4, <2>5 DEF next
<1>4. CASE ~(m > 0 /\ groups[m].offset = offset)
  <2> DEFINE last == [offset |-> offset, operations |-> << i >>]
  <2>1. next = Append(groups, last)
    BY <1>2, <1>4 DEF AddToGroups, Last
  <2>2. last \in Group /\ last.offset = offset /\ last.operations = << i >>
    BY DEF Group
  <2> HIDE DEF last, next
  <2>3. /\ next \in Seq(Group) /\ Len(next) = m + 1
        /\ next[m + 1] = last /\ \A k \in 1 .. m : next[k] = groups[k]
    BY <1>1, <2>1, <2>2
  <2>4. m = 0 \/ groups[m].offset # offset
    BY <1>1, <1>4
  <2> QED  BY <1>1, <2>2, <2>3, <2>4 DEF next
<1> QED  BY <1>3, <1>4

\* The groups of the payloads that were inserted so far: each at its offset,
\* in the order of the offsets, and together the list of the payloads.
OffsetsOf(groups, operations, list) ==
  /\ groups # << >> =>
       /\ list # << >>
       /\ groups[Len(groups)].offset = operations[list[Len(list)]].offset
  /\ \A g \in 2 .. Len(groups) : groups[g - 1].offset < groups[g].offset

Grouped(groups, operations, list) ==
  /\ groups \in Seq(Group) /\ list \in Seq(Nat)
  /\ Flat([g \in 1 .. Len(groups) |-> groups[g].operations], Len(groups)) = list
  /\ OffsetsOf(groups, operations, list)

\* Another payload, behind those before it.
LEMMA AddGroups ==
  ASSUME NEW groups, NEW operations, NEW list, Grouped(groups, operations, list),
         NEW i \in Nat, operations[i].offset \in Nat,
         list # << >> => operations[list[Len(list)]].offset <= operations[i].offset
  PROVE  Grouped(AddToGroups(groups, operations[i].offset, i), operations,
                 list \o << i >>)
<1> DEFINE m == Len(groups)
           offset == operations[i].offset
           next == AddToGroups(groups, offset, i)
           longer == list \o << i >>
           F == [g \in 1 .. m |-> groups[g].operations]
           G == [g \in 1 .. Len(next) |-> next[g].operations]
<1>1. groups \in Seq(Group) /\ list \in Seq(Nat) /\ Flat(F, m) = list
      /\ OffsetsOf(groups, operations, list)
  BY DEF Grouped
<1>2. /\ m \in Nat /\ next \in Seq(Group)
      /\ \/ /\ m > 0 /\ groups[m].offset = offset /\ Len(next) = m
            /\ next[m].offset = offset
            /\ next[m].operations = Append(groups[m].operations, i)
            /\ \A k \in 1 .. m - 1 : next[k] = groups[k]
         \/ /\ m = 0 \/ groups[m].offset # offset
            /\ Len(next) = m + 1
            /\ next[m + 1].offset = offset
            /\ next[m + 1].operations = << i >>
            /\ \A k \in 1 .. m : next[k] = groups[k]
  BY <1>1, AddToGroupsType
<1>3. /\ \A k \in 1 .. m : groups[k].offset \in Nat /\ groups[k].operations \in Seq(Nat)
      /\ \A k \in 1 .. Len(next) : next[k].operations \in Seq(Nat)
  <2>1. \A k \in 1 .. m : groups[k] \in Group
    BY <1>1
  <2>2. \A k \in 1 .. Len(next) : next[k] \in Group
    <3> HIDE DEF next
    <3> QED  BY <1>2
  <2>3. \A g \in Group : g.offset \in Nat /\ g.operations \in Seq(Nat)
    BY DEF Group
  <2> HIDE DEF next, m
  <2> QED  BY <2>1, <2>2, <2>3
<1>4. longer \in Seq(Nat) /\ longer # << >> /\ longer[Len(longer)] = i
  BY <1>1
<1> HIDE DEF next, longer
<1>5. Sequences(F, m, Nat) /\ Sequences(G, Len(next), Nat)
  BY <1>3 DEF Sequences
<1>6. next # << >> /\ next[Len(next)].offset = offset
  BY <1>2
<1>7. Flat(G, Len(next)) = longer
  <2>1. CASE Len(next) = m /\ m > 0
    <3>1. PICK n \in Nat : m = n + 1
      <4>1. m - 1 \in Nat /\ m = (m - 1) + 1
        BY <1>2, <2>1
      <4> QED  BY <4>1
    <3>2. F[m] = groups[m].operations /\ G[m] = Append(F[m], i) /\ F[m] \in Seq(Nat)
      <4>1. m \in 1 .. m
        BY <1>2, <2>1
      <4>2. next[m].operations = Append(groups[m].operations, i)
        BY <1>2, <2>1
      <4> QED  BY <1>3, <2>1, <4>1, <4>2
    <3>3. \A k \in 1 .. n : G[k] = F[k]
      <4>1. \A k \in 1 .. n : k \in 1 .. m /\ next[k] = groups[k]
        BY <1>2, <2>1, <3>1
      <4> QED  BY <2>1, <4>1
    <3> HIDE DEF F, G
    <3>4. Flat(G, n) = Flat(F, n)
      BY <3>3, FlattenSame
    <3>5. Flat(F, n) \in Seq(Nat) /\ Flat(F, n + 1) = Flat(F, n) \o F[n + 1]
      BY <1>5, <3>1, FlattenNext
    <3>6. Flat(G, n + 1) = Flat(G, n) \o G[n + 1]
      BY <1>5, <2>1, <3>1, FlattenNext
    <3>7. \A x, y \in Seq(Nat) : x \o Append(y, i) = (x \o y) \o << i >>
      OBVIOUS
    <3>8. Flat(G, m) = list \o << i >>
      <4>1. Flat(G, m) = Flat(F, n) \o Append(F[m], i)
        BY <3>1, <3>2, <3>4, <3>6
      <4>2. Flat(F, n) \o Append(F[m], i) = (Flat(F, n) \o F[m]) \o << i >>
        BY <3>2, <3>5, <3>7
      <4>3. Flat(F, n) \o F[m] = list
        BY <1>1, <3>1, <3>5
      <4> QED  BY <4>1, <4>2, <4>3
    <3> QED  BY <2>1, <3>8 DEF longer
  <2>2. CASE Len(next) = m + 1
    <3>1. G[m + 1] = << i >>
      <4>1. next[m + 1].operations = << i >>
        BY <1>2, <2>2
      <4>2. m + 1 \in 1 .. Len(next)
        BY <1>2, <2>2
      <4> QED  BY <4>1, <4>2
    <3>2. \A k \in 1 .. m : G[k] = F[k]
      <4>1. \A k \in 1 .. m : k \in 1 .. m + 1 /\ next[k] = groups[k]
        BY <1>2, <2>2
      <4> QED  BY <2>2, <4>1
    <3> HIDE DEF F, G
    <3>3. Flat(G, m) = Flat(F, m)
      BY <1>2, <3>2, FlattenSame
    <3>4. Flat(G, m + 1) = Flat(G, m) \o G[m + 1]
      BY <1>2, <1>5, <2>2, FlattenNext
    <3> QED  BY <1>1, <2>2, <3>1, <3>3, <3>4 DEF longer
  <2> QED  BY <1>2, <2>1, <2>2
<1>8. ASSUME NEW g \in 2 .. Len(next)
      PROVE  next[g - 1].offset < next[g].offset
  <2>1. \A k \in 2 .. m : groups[k - 1].offset < groups[k].offset
    BY <1>1 DEF OffsetsOf
  <2>2. CASE Len(next) = m /\ m > 0
    <3>1. /\ groups[m].offset = offset /\ next[m].offset = offset
          /\ \A k \in 1 .. m - 1 : next[k] = groups[k]
      BY <1>2, <2>2
    <3>2. g \in 2 .. m /\ g - 1 \in 1 .. m - 1 /\ (g = m \/ g \in 1 .. m - 1)
      BY <1>2, <2>2
    <3>3. next[g].offset = groups[g].offset /\ next[g - 1] = groups[g - 1]
      BY <3>1, <3>2
    <3> QED  BY <2>1, <3>2, <3>3
  <2>3. CASE Len(next) = m + 1
    <3>1. /\ m = 0 \/ groups[m].offset # offset
          /\ next[m + 1].offset = offset /\ \A k \in 1 .. m : next[k] = groups[k]
      BY <1>2, <2>3
    <3>2. g - 1 \in 1 .. m /\ m > 0 /\ (g = m + 1 \/ g \in 2 .. m)
      BY <1>2, <2>3
    <3>3. CASE g \in 2 .. m
      <4>1. g \in 1 .. m
        BY <3>3
      <4> QED  BY <2>1, <3>1, <3>2, <3>3, <4>1
    <3>4. CASE g = m + 1
      <4>1. groups # << >>
        BY <3>2
      <4>2. list # << >> /\ groups[m].offset = operations[list[Len(list)]].offset
        BY <1>1, <4>1 DEF OffsetsOf
      <4>3. groups[m].offset <= offset /\ groups[m].offset # offset
        BY <3>1, <3>2, <4>2
      <4>4. groups[m].offset \in Nat /\ offset \in Nat
        <5>1. m \in 1 .. m
          BY <1>2, <3>2
        <5> QED  BY <1>3, <5>1
      <4>5. g - 1 = m /\ next[m] = groups[m] /\ next[g].offset = offset
        BY <1>2, <3>1, <3>2, <3>4
      <4> QED  BY <4>3, <4>4, <4>5
    <3> QED  BY <3>2, <3>3, <3>4
  <2> QED  BY <1>2, <2>2, <2>3
<1>9. OffsetsOf(next, operations, longer)
  BY <1>4, <1>6, <1>8 DEF OffsetsOf
<1>10. Grouped(next, operations, longer)
  BY <1>2, <1>4, <1>7, <1>9 DEF Grouped
<1> QED  BY <1>10 DEF next, longer

-----------------------------------------------------------------------------
(***************************************************************************)
(* The payloads among the segments.                                        *)
(***************************************************************************)
\* The operation of a payload.
InsertOf(g) == IF g.slice = "original" THEN << >> ELSE << g.operation >>

\* The operations of the payloads, in the order of the segments.
InsertEach(segs) == [k \in 1 .. Len(segs) |-> InsertOf(segs[k])]
Inserts(segs) == Flat(InsertEach(segs), Len(segs))

\* Operations are numbers.
LEMMA InsertsEach ==
  ASSUME NEW s \in Snapshots, NEW segs \in Seq(Segments(s))
  PROVE  /\ Len(segs) \in Nat
         /\ Sequences(InsertEach(segs), Len(segs), Nat)
         /\ Inserts(segs) \in Seq(Nat)
<1>1. Len(segs) \in Nat /\ \A k \in 1 .. Len(segs) : segs[k] \in Segments(s)
  BY ElementOfSeq
<1>2. ASSUME NEW g \in Segments(s)
      PROVE  InsertOf(g) \in Seq(Nat)
  <2>1. CASE g.slice = "original"
    BY <2>1 DEF InsertOf
  <2>2. CASE g.slice # "original"
    <3>1. g.operation \in Nat
      BY <2>2 DEF Segments, OriginalSegment, PayloadSegment
    <3> QED  BY <2>2, <3>1 DEF InsertOf
  <2> QED  BY <2>1, <2>2
<1>3. Sequences(InsertEach(segs), Len(segs), Nat)
  BY <1>1, <1>2 DEF Sequences, InsertEach
<1>4. Inserts(segs) \in Seq(Nat)
  BY <1>1, <1>3, FlattenType DEF Inserts
<1> QED  BY <1>1, <1>3, <1>4

\* Payloads behind others.
LEMMA InsertsBoth ==
  ASSUME NEW s \in Snapshots, NEW x \in Seq(Segments(s)), NEW y \in Seq(Segments(s))
  PROVE  Inserts(x \o y) = Inserts(x) \o Inserts(y)
<1> DEFINE z == x \o y
           F == InsertEach(x)
           G == InsertEach(y)
           H == InsertEach(z)
<1>1. /\ z \in Seq(Segments(s)) /\ Len(z) = Len(x) + Len(y)
      /\ \A i \in 1 .. Len(x) + Len(y) :
           z[i] = IF i <= Len(x) THEN x[i] ELSE y[i - Len(x)]
  BY ConcatProperties
<1> HIDE DEF z
<1>2. /\ Len(x) \in Nat /\ Sequences(F, Len(x), Nat)
      /\ Len(y) \in Nat /\ Sequences(G, Len(y), Nat)
  BY InsertsEach
<1>3. ASSUME NEW k \in 1 .. Len(x)
      PROVE  H[k] = F[k]
  <2>1. k \in 1 .. Len(z) /\ k \in 1 .. Len(x) + Len(y) /\ k <= Len(x)
    BY <1>1, <1>2
  <2>2. z[k] = x[k]
    BY <1>1, <2>1
  <2> QED  BY <2>1, <2>2 DEF InsertEach
<1>4. ASSUME NEW k \in 1 .. Len(y)
      PROVE  H[Len(x) + k] = G[k]
  <2>1. /\ Len(x) + k \in 1 .. Len(z) /\ Len(x) + k \in 1 .. Len(x) + Len(y)
        /\ ~(Len(x) + k <= Len(x)) /\ (Len(x) + k) - Len(x) = k
    BY <1>1, <1>2
  <2>2. z[Len(x) + k] = y[k]
    BY <1>1, <2>1
  <2> QED  BY <2>1, <2>2 DEF InsertEach
<1> HIDE DEF F, G, H
<1>5. Joins(F, Len(x), G, Len(y), H, Len(x) + Len(y), Nat)
  BY <1>2, <1>3, <1>4 DEF Joins
<1>6. Flat(H, Len(x) + Len(y)) = Flat(F, Len(x)) \o Flat(G, Len(y))
  BY <1>5, FlattenBoth
<1>7. Inserts(z) = Inserts(x) \o Inserts(y)
  BY <1>1, <1>6 DEF Inserts, F, G, H
<1> QED  BY <1>7 DEF z

\* A run of the file inserts nothing.
LEMMA RunInserts ==
  ASSUME NEW path, NEW from, NEW to, NEW run,
         run \in {<< >>, << OriginalSlice(path, from, to) >>}
  PROVE  Inserts(run) = << >>
<1> DEFINE F == InsertEach(run)
<1>1. Len(run) \in Nat /\ \A k \in 1 .. Len(run) : run[k] = OriginalSlice(path, from, to)
  OBVIOUS
<1>2. InsertOf(OriginalSlice(path, from, to)) = << >>
  BY DEF InsertOf, OriginalSlice
<1>3. \A k \in 1 .. Len(run) : F[k] = << >>
  BY <1>1, <1>2 DEF InsertEach
<1> HIDE DEF F
<1>4. Flat(F, Len(run)) = << >>
  BY <1>1, <1>3, FlattenEmpty
<1> QED  BY <1>4 DEF Inserts, F

\* Sequences of one element each.
Singles(F, n, a, S) ==
  /\ n \in Nat /\ a \in [1 .. n -> S]
  /\ \A k \in 1 .. n : F[k] = << a[k] >>

\* Together they are the sequence of the elements.
LEMMA FlattenSingles ==
  ASSUME NEW S, NEW n, NEW a, NEW F, Singles(F, n, a, S)
  PROVE  /\ Flat(F, n) \in Seq(S) /\ Len(Flat(F, n)) = n
         /\ \A k \in 1 .. n : Flat(F, n)[k] = a[k]
<1> USE DEF Singles
<1> DEFINE Is(m) == /\ Flat(F, m) \in Seq(S) /\ Len(Flat(F, m)) = m
                    /\ \A k \in 1 .. m : Flat(F, m)[k] = a[k]
           P == {m \in Nat : m <= n => Is(m)}
<1>1. Sequences(F, n, S)
  <2>1. \A k \in 1 .. n : << a[k] >> \in Seq(S)
    OBVIOUS
  <2> QED  BY <2>1 DEF Sequences
<1>2. 0 \in P
  <2>1. Flat(F, 0) = << >>
    BY FlattenNone
  <2>2. PICK none : none = << >>
    OBVIOUS
  <2>3. /\ none \in Seq(S) /\ Len(none) = 0
        /\ \A k \in 1 .. 0 : none[k] = a[k]
    BY <2>2
  <2>4. Flat(F, 0) = none
    BY <2>1, <2>2
  <2>5. Is(0)
    BY <2>3, <2>4
  <2> HIDE DEF Is
  <2> QED  BY <2>5
<1>3. ASSUME NEW m \in Nat, m \in P
      PROVE  m + 1 \in P
  <2> SUFFICES ASSUME m + 1 <= n
               PROVE  Is(m + 1)
    OBVIOUS
  <2>1. Is(m)
    BY <1>3
  <2>2. Sequences(F, m + 1, S)
    BY <1>1 DEF Sequences
  <2>3. Flat(F, m + 1) = Flat(F, m) \o F[m + 1]
    BY <2>2, FlattenNext
  <2>4. m + 1 \in 1 .. n /\ F[m + 1] = << a[m + 1] >> /\ a[m + 1] \in S
    OBVIOUS
  <2>5. \A x \in Seq(S), y \in S :
          /\ x \o << y >> \in Seq(S) /\ Len(x \o << y >>) = Len(x) + 1
          /\ \A k \in 1 .. Len(x) : (x \o << y >>)[k] = x[k]
          /\ (x \o << y >>)[Len(x) + 1] = y
    OBVIOUS
  <2> DEFINE x == Flat(F, m)
             y == a[m + 1]
             z == Flat(F, m + 1)
  <2>6. x \in Seq(S) /\ Len(x) = m /\ \A k \in 1 .. m : x[k] = a[k]
    BY <2>1
  <2>7. z = x \o << y >> /\ y \in S
    BY <2>3, <2>4
  <2> HIDE DEF x, z
  <2>8. /\ z \in Seq(S) /\ Len(z) = m + 1
        /\ \A k \in 1 .. m : z[k] = x[k]
        /\ z[m + 1] = y
    BY <2>5, <2>6, <2>7
  <2>9. ASSUME NEW k \in 1 .. m + 1
        PROVE  z[k] = a[k]
    <3>1. k \in 1 .. m \/ k = m + 1
      OBVIOUS
    <3> QED  BY <2>6, <2>8, <3>1
  <2> QED  BY <2>8, <2>9 DEF z
<1>4. \A m \in Nat : m \in P
  <2> HIDE DEF P
  <2> QED  BY <1>2, <1>3, SetInduction
<1>5. Is(n)
  BY <1>4
<1> QED  BY <1>5

\* The payloads at one offset are those of the list.
LEMMA HereInserts ==
  ASSUME NEW r, NEW s, NEW n, IsBatch(r, s, n), NEW path, NEW o
  PROVE  LET c == Cardinality(Here(r, path, o))
             list == Inserts(InsertionsAt(Insertions(r, path), o))
         IN  /\ c \in Nat /\ list \in Seq(1 .. n) /\ Len(list) = c
             /\ \A k \in 1 .. c : /\ list[k] = HereList(r, path, o)[k].operation_index
                                  /\ r[list[k]] = HereList(r, path, o)[k]
                                  /\ HereList(r, path, o)[k] \in Here(r, path, o)
             /\ \A d \in Here(r, path, o) : \E k \in 1 .. c : HereList(r, path, o)[k] = d
             /\ \A i, j \in 1 .. c : i < j => list[i] < list[j]
<1> DEFINE H == Here(r, path, o)
           c == Cardinality(H)
           here == HereList(r, path, o)
           segs == InsertionsAt(Insertions(r, path), o)
           a == [k \in 1 .. c |-> here[k].operation_index]
           list == Inserts(segs)
<1>1. IsFiniteSet(H) /\ Lists(here, IndexOrder(H), H) /\ c \in Nat
  BY HereListed, FS_CardinalityType
<1>2. \A d \in H : d.operation_index \in 1 .. n /\ d = r[d.operation_index]
  BY InsertionsType DEF Here
<1>3. segs = [k \in 1 .. c |-> PayloadSlice(here[k])]
  BY DEF InsertionsAt, HereList, Here
<1> HIDE DEF H, here, segs, c
<1>4. \A k \in 1 .. c : here[k] \in H
  BY <1>1 DEF Lists, c
<1>5. \A d \in H : \E k \in 1 .. c : here[k] = d
  BY <1>1 DEF Lists, c
<1>6. \A i, j \in 1 .. c : i < j => here[i].operation_index < here[j].operation_index
  BY <1>1, <1>4 DEF Lists, IndexOrder, c
<1>7. a \in [1 .. c -> 1 .. n]
  BY <1>2, <1>4
<1>8. Len(segs) = c /\ \A k \in 1 .. c : segs[k] = PayloadSlice(here[k])
  BY <1>1, <1>3
<1>9. \A k \in 1 .. c : InsertEach(segs)[k] = << a[k] >>
  BY <1>8 DEF InsertEach, InsertOf, PayloadSlice
<1>10. /\ list \in Seq(1 .. n) /\ Len(list) = c
       /\ \A k \in 1 .. c : list[k] = a[k]
  <2> DEFINE F == InsertEach(segs)
  <2>1. \A k \in 1 .. c : F[k] = << a[k] >>
    BY <1>9
  <2>2. list = Flat(F, c)
    BY <1>8 DEF Inserts
  <2> HIDE DEF F, a, list
  <2>3. Singles(F, c, a, 1 .. n)
    BY <1>1, <1>7, <2>1 DEF Singles
  <2>4. /\ Flat(F, c) \in Seq(1 .. n) /\ Len(Flat(F, c)) = c
        /\ \A k \in 1 .. c : Flat(F, c)[k] = a[k]
    BY <2>3, FlattenSingles
  <2> QED  BY <2>2, <2>4
<1>11. \A k \in 1 .. c : list[k] = here[k].operation_index
  BY <1>10
<1>12. \A k \in 1 .. c : r[list[k]] = here[k]
  BY <1>2, <1>4, <1>11
<1> HIDE DEF list, a
<1>13. \A i, j \in 1 .. c : i < j => list[i] < list[j]
  BY <1>6, <1>11
<1> QED  BY <1>1, <1>4, <1>5, <1>10, <1>11, <1>12, <1>13 DEF list, H, here, segs, c

-----------------------------------------------------------------------------
(***************************************************************************)
(* The order of the payloads.                                              *)
(***************************************************************************)
\* By offset, and at one offset by operation.
Ordered(r, list) ==
  \A i, j \in 1 .. Len(list) : i < j =>
    \/ r[list[i]].offset < r[list[j]].offset
    \/ r[list[i]].offset = r[list[j]].offset /\ list[i] < list[j]

\* The payloads of the first k gaps.
InsertsInv(r, n, path, list, k) ==
  /\ list \in Seq(1 .. n) /\ Ordered(r, list)
  /\ \A d \in 1 .. n : (\E i \in 1 .. Len(list) : list[i] = d)
                         <=> r[d] \in Insertions(r, path) /\ r[d].offset < k

\* The payloads of the next gap.
LEMMA InsertsStep ==
  ASSUME NEW r, NEW s, NEW n, IsBatch(r, s, n), NEW path, NEW o \in Nat,
         NEW list, InsertsInv(r, n, path, list, o)
  PROVE  InsertsInv(r, n, path,
                    list \o Inserts(InsertionsAt(Insertions(r, path), o)), o + 1)
<1> DEFINE H == Here(r, path, o)
           c == Cardinality(H)
           here == HereList(r, path, o)
           new == Inserts(InsertionsAt(Insertions(r, path), o))
           m == Len(list)
           all == list \o new
<1>1. /\ c \in Nat /\ new \in Seq(1 .. n) /\ Len(new) = c
      /\ \A k \in 1 .. c : r[new[k]] = here[k] /\ here[k] \in H
                           /\ new[k] = here[k].operation_index
      /\ \A d \in H : \E k \in 1 .. c : here[k] = d
      /\ \A i, j \in 1 .. c : i < j => new[i] < new[j]
  BY HereInserts
<1>2. /\ list \in Seq(1 .. n) /\ Ordered(r, list)
      /\ \A d \in 1 .. n : (\E i \in 1 .. m : list[i] = d)
                             <=> r[d] \in Insertions(r, path) /\ r[d].offset < o
  BY DEF InsertsInv
<1>3. \A d \in H : d \in Insertions(r, path) /\ d.offset = o
  BY DEF Here
<1>4. \A d \in Insertions(r, path) : d.offset = o => d \in H
  BY DEF Here
<1>5. n \in Nat /\ \A d \in 1 .. n : r[d].operation_index = d
  BY DEF IsBatch, IsResolved
<1>6. \A d \in Insertions(r, path) : d.offset \in Nat
  <2>1. ASSUME NEW d \in Insertions(r, path)
        PROVE  d.offset \in Nat
    <3>1. IsResolved(d, s, d.operation_index)
      BY InsertionsType
    <3> QED  BY <3>1 DEF IsResolved
  <2> QED  BY <2>1
<1> HIDE DEF H, c, here, new
<1>7. m \in Nat /\ \A k \in 1 .. m : list[k] \in 1 .. n
  <2>1. list \in Seq(1 .. n)
    BY <1>2
  <2> QED  BY <2>1, ElementOfSeq, LenProperties
<1>8. /\ all \in Seq(1 .. n) /\ Len(all) = m + c
      /\ \A k \in 1 .. m : all[k] = list[k]
      /\ \A k \in 1 .. c : all[m + k] = new[k]
  <2>1. list \in Seq(1 .. n) /\ new \in Seq(1 .. n) /\ Len(new) = c /\ c \in Nat
    BY <1>1, <1>2
  <2>2. /\ all \in Seq(1 .. n) /\ Len(all) = m + c
        /\ \A k \in 1 .. m + c : all[k] = IF k <= m THEN list[k] ELSE new[k - m]
    BY <2>1, ConcatProperties
  <2> HIDE DEF all, m
  <2>3. \A k \in 1 .. m : k \in 1 .. m + c /\ k <= m
    BY <1>7, <2>1
  <2>4. \A k \in 1 .. c : m + k \in 1 .. m + c /\ ~(m + k <= m) /\ (m + k) - m = k
    BY <1>7, <2>1
  <2>5. \A k \in 1 .. m : all[k] = list[k]
    BY <2>2, <2>3
  <2>6. \A k \in 1 .. c : all[m + k] = new[k]
    BY <2>2, <2>4
  <2> QED  BY <2>2, <2>5, <2>6
<1> HIDE DEF all, m
<1>9. \A k \in 1 .. m : r[list[k]] \in Insertions(r, path) /\ r[list[k]].offset < o
  BY <1>2, <1>7
<1>10. \A k \in 1 .. c : r[new[k]] \in Insertions(r, path) /\ r[new[k]].offset = o
  BY <1>1, <1>3
<1>11. \A k \in 1 .. m + c : k \in 1 .. m \/ (k - m \in 1 .. c /\ m + (k - m) = k)
  BY <1>1, <1>7
<1>12. ASSUME NEW i \in 1 .. m + c, NEW j \in 1 .. m + c, i < j
       PROVE  \/ r[all[i]].offset < r[all[j]].offset
              \/ r[all[i]].offset = r[all[j]].offset /\ all[i] < all[j]
  <2>1. CASE i \in 1 .. m /\ j \in 1 .. m
    BY <1>2, <1>8, <1>12, <2>1 DEF Ordered, m
  <2>2. CASE i \in 1 .. m /\ j - m \in 1 .. c /\ m + (j - m) = j
    <3>1. all[i] = list[i] /\ all[j] = new[j - m]
      BY <1>8, <2>2
    <3> QED  BY <1>9, <1>10, <2>2, <3>1
  <2>3. CASE i - m \in 1 .. c /\ m + (i - m) = i /\ j - m \in 1 .. c /\ m + (j - m) = j
    <3>1. all[i] = new[i - m] /\ all[j] = new[j - m]
      BY <1>8, <2>3
    <3>2. i - m < j - m
      BY <1>7, <1>12
    <3>3. new[i - m] < new[j - m]
      BY <1>1, <2>3, <3>2
    <3> QED  BY <1>10, <2>3, <3>1, <3>3
  <2>4. ~(i - m \in 1 .. c /\ j \in 1 .. m)
    BY <1>7, <1>12
  <2> QED  BY <1>11, <2>1, <2>2, <2>3, <2>4
<1>13. ASSUME NEW d \in 1 .. n
       PROVE  (\E i \in 1 .. m + c : all[i] = d)
                <=> r[d] \in Insertions(r, path) /\ r[d].offset < o + 1
  <2>1. ASSUME NEW i \in 1 .. m + c, all[i] = d
        PROVE  r[d] \in Insertions(r, path) /\ r[d].offset < o + 1
    <3>1. CASE i \in 1 .. m
      <4>1. r[d] \in Insertions(r, path) /\ r[d].offset < o
        BY <1>8, <1>9, <2>1, <3>1
      <4> QED  BY <1>6, <4>1
    <3>2. CASE i - m \in 1 .. c /\ m + (i - m) = i
      <4>1. all[i] = new[i - m]
        BY <1>8, <3>2
      <4>2. r[d] \in Insertions(r, path) /\ r[d].offset = o
        BY <1>10, <2>1, <3>2, <4>1
      <4> QED  BY <4>2
    <3> QED  BY <1>11, <3>1, <3>2
  <2>2. ASSUME r[d] \in Insertions(r, path), r[d].offset < o + 1
        PROVE  \E i \in 1 .. m + c : all[i] = d
    <3>1. CASE r[d].offset < o
      <4>1. PICK i \in 1 .. m : list[i] = d
        BY <1>2, <2>2, <3>1 DEF m
      <4>2. i \in 1 .. m + c
        BY <1>1, <1>7
      <4> QED  BY <1>8, <4>1, <4>2
    <3>2. CASE r[d].offset = o
      <4>1. r[d] \in H
        BY <1>4, <2>2, <3>2
      <4>2. PICK k \in 1 .. c : here[k] = r[d]
        BY <1>1, <4>1
      <4>3. new[k] = d
        BY <1>1, <1>5, <4>2
      <4>4. m + k \in 1 .. m + c
        BY <1>1, <1>7
      <4> QED  BY <1>8, <4>3, <4>4
    <3>3. r[d].offset \in Nat
      BY <1>6, <2>2
    <3> QED  BY <2>2, <3>1, <3>2, <3>3
  <2> QED  BY <2>1, <2>2
<1>14. InsertsInv(r, n, path, all, o + 1)
  BY <1>8, <1>12, <1>13 DEF InsertsInv, Ordered
<1> QED  BY <1>14 DEF all, new

\* No payload at an offset without one.
LEMMA InsertsQuiet ==
  ASSUME NEW r, NEW s, NEW n, IsBatch(r, s, n), NEW path, NEW o \in Nat,
         \A d \in Insertions(r, path) : d.offset # o,
         NEW list, InsertsInv(r, n, path, list, o)
  PROVE  InsertsInv(r, n, path, list, o + 1)
<1>1. ASSUME NEW d \in Insertions(r, path)
      PROVE  d.offset < o <=> d.offset < o + 1
  <2>1. IsResolved(d, s, d.operation_index)
    BY InsertionsType
  <2>2. d.offset \in Nat /\ d.offset # o
    BY <2>1 DEF IsResolved
  <2> QED  BY <2>2
<1> QED  BY <1>1 DEF InsertsInv

\* The segments of a file hold every payload that is inserted into it once,
\* in the order of the offsets and the operations.
LEMMA SegmentsInsert ==
  ASSUME NEW s \in Snapshots, NEW r, NEW n, IsBatch(r, s, n), NEW path \in Paths
  PROVE  LET length == Len(s[path].bytes)
         IN  InsertsInv(r, n, path,
               Inserts(build_segments(path, length, Deletions(r, path),
                                      Insertions(r, path))),
               length + 1)
<1> DEFINE N == Len(s[path].bytes)
           D == Deletions(r, path)
           I == Insertions(r, path)
           segs == build_segments(path, N, D, I)
<1>1. N \in Nat /\ n \in Nat
  BY FileBytes DEF IsBatch
<1>2. PICK swept \in [0 .. N + 1 -> SweepState(s, N)] :
        /\ Sweeps(swept, path, N, D, I)
        /\ segs = swept[N + 1].segments \o Closing(path, N, swept[N + 1])
  BY SweepRuns
<1>3. \A d \in I : d.offset \in Nat
  <2>1. ASSUME NEW d \in I
        PROVE  d.offset \in Nat
    <3>1. IsResolved(d, s, d.operation_index)
      BY InsertionsType
    <3> QED  BY <3>1 DEF IsResolved
  <2> QED  BY <2>1
<1> DEFINE Inv(k) == InsertsInv(r, n, path, Inserts(swept[k].segments), k)
           P == {k \in Nat : k <= N + 1 => Inv(k)}
<1>4. 0 \in P
  <2>1. swept[0].segments = << >>
    BY <1>2 DEF Sweeps, SweepStart
  <2>2. Inserts(<< >>) = << >>
    BY RunInserts
  <2>3. << >> \in Seq(1 .. n) /\ Len(<< >>) = 0
    OBVIOUS
  <2>4. \A d \in 1 .. n : ~(r[d] \in I /\ r[d].offset < 0)
    BY <1>3
  <2>5. InsertsInv(r, n, path, << >>, 0)
    BY <2>3, <2>4 DEF InsertsInv, Ordered
  <2> QED  BY <2>1, <2>2, <2>5
<1>5. ASSUME NEW k \in Nat, k \in P
      PROVE  k + 1 \in P
  <2> SUFFICES ASSUME k + 1 <= N + 1
               PROVE  Inv(k + 1)
    OBVIOUS
  <2> DEFINE state == swept[k]
             next == swept[k + 1]
  <2>1. k \in 0 .. N /\ k \in 0 .. N + 1 /\ k + 1 \in 1 .. N + 1 /\ (k + 1) - 1 = k
    BY <1>1
  <2>2. Inv(k) /\ state \in SweepState(s, N)
    <3>1. k <= N + 1
      BY <1>1
    <3> QED  BY <1>2, <1>5, <2>1, <3>1
  <2>3. next = IF k \in Points(D, I) THEN PointStep(path, D, I, state, k) ELSE state
    BY <1>2, <2>1 DEF Sweeps, SweepStep
  <2>4. state.segments \in Seq(Segments(s))
    BY <2>2 DEF SweepState
  <2> HIDE DEF P, state, next
  <2>5. CASE k \in Points(D, I)
    <3> DEFINE run == Before(path, state, k)
               ins == InsertionsAt(I, k)
               front == state.segments \o run
    <3>1. next.segments = front \o ins
      BY <2>3, <2>5 DEF PointStep, Before
    <3>2. run \in Seq(Segments(s))
      BY <2>1, <2>2, PointStepType
    <3>3. ins \in Seq(Segments(s))
      BY PayloadsInOrder
    <3>4. Inserts(run) = << >>
      <4>1. run \in {<< >>, << OriginalSlice(path, state.cursor, k) >>}
        BY DEF Before
      <4> HIDE DEF run
      <4> QED  BY <4>1, RunInserts
    <3>5. front \in Seq(Segments(s))
      BY <2>4, <3>2, ConcatProperties
    <3> HIDE DEF run, ins
    <3>6. Inserts(front) = Inserts(state.segments)
      <4>1. Inserts(front) = Inserts(state.segments) \o Inserts(run)
        BY <2>4, <3>2, InsertsBoth
      <4>2. Inserts(state.segments) \in Seq(Nat)
        BY <2>4, InsertsEach
      <4> HIDE DEF front
      <4> QED  BY <3>4, <4>1, <4>2, ConcatEmptySeq
    <3> HIDE DEF front
    <3>7. Inserts(next.segments) = Inserts(state.segments) \o Inserts(ins)
      BY <3>1, <3>3, <3>5, <3>6, InsertsBoth
    <3>8. InsertsInv(r, n, path, Inserts(state.segments) \o Inserts(ins), k + 1)
      <4>1. InsertsInv(r, n, path, Inserts(state.segments), k)
        BY <2>2 DEF state
      <4> QED  BY <4>1, InsertsStep DEF ins
    <3> QED  BY <3>7, <3>8 DEF next
  <2>6. CASE k \notin Points(D, I)
    <3>1. \A d \in I : d.offset # k
      BY <2>6 DEF Points
    <3>2. InsertsInv(r, n, path, Inserts(state.segments), k)
      BY <2>2 DEF state
    <3>3. InsertsInv(r, n, path, Inserts(state.segments), k + 1)
      BY <3>1, <3>2, InsertsQuiet
    <3> QED  BY <2>3, <2>6, <3>3 DEF next
  <2> QED  BY <2>5, <2>6
<1>6. Inv(N + 1)
  <2>1. \A k \in Nat : k \in P
    <3> HIDE DEF P
    <3> QED  BY <1>4, <1>5, SetInduction
  <2>2. N + 1 \in Nat /\ N + 1 <= N + 1
    BY <1>1
  <2> QED  BY <2>1, <2>2
<1> DEFINE end == swept[N + 1]
           last == Closing(path, N, end)
<1>7. end \in SweepState(s, N) /\ end.segments \in Seq(Segments(s))
  <2>1. end \in SweepState(s, N)
    BY <1>1, <1>2
  <2> HIDE DEF end
  <2> QED  BY <2>1 DEF SweepState
<1> HIDE DEF end
<1>8. last \in Seq(Segments(s)) /\ Inserts(last) = << >>
  <2>1. last \in {<< >>, << OriginalSlice(path, end.cursor, N) >>}
    BY DEF Closing
  <2>2. Inserts(last) = << >>
    <3> HIDE DEF last
    <3> QED  BY <2>1, RunInserts
  <2>3. CASE end.cursor < N
    <3>1. end.cursor \in Nat /\ end.cursor <= N /\ N \in 0 .. N
      BY <1>1, <1>7, <2>3 DEF SweepState
    <3>2. OriginalSlice(path, end.cursor, N) \in Segments(s)
      BY <3>1, RunIsSegment
    <3>3. << OriginalSlice(path, end.cursor, N) >> \in Seq(Segments(s))
      BY <3>2
    <3>4. << >> \in Seq(Segments(s))
      OBVIOUS
    <3> QED  BY <2>1, <2>2, <3>3, <3>4
  <2>4. CASE ~(end.cursor < N)
    <3>1. last = << >>
      BY <2>4 DEF Closing
    <3> QED  BY <2>2, <3>1
  <2> QED  BY <2>3, <2>4
<1> HIDE DEF last, segs
<1>9. Inserts(segs) = Inserts(end.segments)
  <2>1. segs = end.segments \o last
    BY <1>2 DEF end, last
  <2>2. Inserts(segs) = Inserts(end.segments) \o Inserts(last)
    BY <1>7, <1>8, <2>1, InsertsBoth
  <2>3. Inserts(end.segments) \in Seq(Nat)
    BY <1>7, InsertsEach
  <2> QED  BY <1>8, <2>2, <2>3, ConcatEmptySeq
<1> QED  BY <1>6, <1>9 DEF end, segs

-----------------------------------------------------------------------------
(***************************************************************************)
(* One visit of the segments for the review.                               *)
(***************************************************************************)
\* A list of insertions in order, each at an offset.
SoundList(r, list) ==
  Ordered(r, list) /\ \A i \in 1 .. Len(list) : r[list[i]].offset \in Nat

\* So is its front.
LEMMA SoundFront ==
  ASSUME NEW r, NEW x \in Seq(Nat), NEW y \in Seq(Nat), SoundList(r, x \o y)
  PROVE  SoundList(r, x)
<1> DEFINE z == x \o y
<1>1. /\ Len(x) \in Nat /\ Len(z) = Len(x) + Len(y) /\ Len(y) \in Nat
      /\ \A i \in 1 .. Len(x) + Len(y) :
           z[i] = IF i <= Len(x) THEN x[i] ELSE y[i - Len(x)]
  BY ConcatProperties
<1> HIDE DEF z
<1>2. \A i \in 1 .. Len(x) : i \in 1 .. Len(z) /\ z[i] = x[i]
  BY <1>1
<1>3. /\ \A i, j \in 1 .. Len(z) : i < j =>
           \/ r[z[i]].offset < r[z[j]].offset
           \/ r[z[i]].offset = r[z[j]].offset /\ z[i] < z[j]
      /\ \A i \in 1 .. Len(z) : r[z[i]].offset \in Nat
  BY DEF z, SoundList, Ordered
<1>4. ASSUME NEW i \in 1 .. Len(x), NEW j \in 1 .. Len(x), i < j
      PROVE  \/ r[x[i]].offset < r[x[j]].offset
             \/ r[x[i]].offset = r[x[j]].offset /\ x[i] < x[j]
  <2>1. /\ i \in 1 .. Len(z) /\ z[i] = x[i]
        /\ j \in 1 .. Len(z) /\ z[j] = x[j]
    BY <1>2
  <2>2. \/ r[z[i]].offset < r[z[j]].offset
        \/ r[z[i]].offset = r[z[j]].offset /\ z[i] < z[j]
    BY <1>3, <1>4, <2>1
  <2> QED  BY <2>1, <2>2
<1>5. ASSUME NEW i \in 1 .. Len(x)
      PROVE  r[x[i]].offset \in Nat
  BY <1>2, <1>3
<1> QED  BY <1>4, <1>5 DEF SoundList, Ordered

\* And every list it grew from.
LEMMA SoundPrefixes ==
  ASSUME NEW r, NEW E, NEW n \in Nat, Sequences(E, n, Nat), SoundList(r, Flat(E, n))
  PROVE  \A k \in 0 .. n : Flat(E, k) \in Seq(Nat) /\ SoundList(r, Flat(E, k))
<1>1. ASSUME NEW k \in 0 .. n
      PROVE  Sequences(E, k, Nat) /\ Flat(E, k) \in Seq(Nat)
  <2>1. k \in Nat /\ Sequences(E, k, Nat)
    BY DEF Sequences
  <2> QED  BY <2>1, FlattenType
<1> DEFINE P == {j \in Nat : j <= n => SoundList(r, Flat(E, n - j))}
<1>2. 0 \in P
  <2>1. n - 0 = n
    OBVIOUS
  <2> QED  BY <2>1
<1>3. ASSUME NEW j \in Nat, j \in P
      PROVE  j + 1 \in P
  <2> SUFFICES ASSUME j + 1 <= n
               PROVE  SoundList(r, Flat(E, n - (j + 1)))
    OBVIOUS
  <2>1. PICK m \in Nat : m = n - (j + 1)
    OBVIOUS
  <2>2. m + 1 = n - j /\ m + 1 \in 0 .. n /\ m + 1 \in 1 .. m + 1
    BY <2>1
  <2>3. SoundList(r, Flat(E, m + 1))
    <3>1. j <= n
      OBVIOUS
    <3> QED  BY <1>3, <2>2, <3>1
  <2>4. Sequences(E, m + 1, Nat)
    BY <1>1, <2>2
  <2>5. Flat(E, m) \in Seq(Nat) /\ Flat(E, m + 1) = Flat(E, m) \o E[m + 1]
    BY <2>4, FlattenNext
  <2>6. E[m + 1] \in Seq(Nat)
    BY <2>2, <2>4 DEF Sequences
  <2>7. SoundList(r, Flat(E, m))
    BY <2>3, <2>5, <2>6, SoundFront
  <2> QED  BY <2>1, <2>7
<1>4. \A j \in Nat : j \in P
  <2> HIDE DEF P
  <2> QED  BY <1>2, <1>3, SetInduction
<1>5. ASSUME NEW k \in 0 .. n
      PROVE  SoundList(r, Flat(E, k))
  <2>1. n - k \in Nat /\ n - k <= n /\ n - (n - k) = k
    OBVIOUS
  <2>2. SoundList(r, Flat(E, n - (n - k)))
    BY <1>4, <2>1
  <2> QED  BY <2>1, <2>2
<1> QED  BY <1>1, <1>5

\* The next payload is behind the last one.
LEMMA SoundNext ==
  ASSUME NEW r, NEW list \in Seq(Nat), NEW i \in Nat, SoundList(r, list \o << i >>)
  PROVE  /\ r[i].offset \in Nat
         /\ list # << >> => r[list[Len(list)]].offset <= r[i].offset
<1> DEFINE all == list \o << i >>
<1>1. /\ Len(list) \in Nat /\ Len(all) = Len(list) + 1
      /\ \A k \in 1 .. Len(list) : all[k] = list[k]
      /\ all[Len(list) + 1] = i
  OBVIOUS
<1>2. SoundList(r, all)
  OBVIOUS
<1> HIDE DEF all
<1>3. r[i].offset \in Nat
  <2>1. Len(list) + 1 \in 1 .. Len(all)
    BY <1>1
  <2> QED  BY <1>1, <1>2, <2>1 DEF SoundList
<1>4. ASSUME list # << >>
      PROVE  r[list[Len(list)]].offset <= r[i].offset
  <2>1. Len(list) \in 1 .. Len(list)
    BY <1>4
  <2>2. /\ Len(list) \in 1 .. Len(all) /\ Len(list) + 1 \in 1 .. Len(all)
        /\ Len(list) < Len(list) + 1
    BY <1>1, <2>1
  <2>3. all[Len(list)] = list[Len(list)]
    BY <1>1, <2>1
  <2>4. r[list[Len(list)]].offset \in Nat
    BY <1>2, <2>2, <2>3 DEF SoundList
  <2>5. \/ r[list[Len(list)]].offset < r[i].offset
        \/ r[list[Len(list)]].offset = r[i].offset
    <3>1. \A a, b \in 1 .. Len(all) : a < b =>
            \/ r[all[a]].offset < r[all[b]].offset
            \/ r[all[a]].offset = r[all[b]].offset /\ all[a] < all[b]
      BY <1>2 DEF SoundList, Ordered
    <3>2. PICK a \in 1 .. Len(all) : a = Len(list)
      BY <2>2
    <3>3. PICK b \in 1 .. Len(all) : b = Len(list) + 1
      BY <2>2
    <3>4. a < b /\ all[a] = list[Len(list)] /\ all[b] = i
      BY <1>1, <2>2, <2>3, <3>2, <3>3
    <3>5. \/ r[all[a]].offset < r[all[b]].offset
          \/ r[all[a]].offset = r[all[b]].offset
      BY <3>1, <3>4
    <3> QED  BY <3>4, <3>5
  <2> QED  BY <1>3, <2>4, <2>5
<1> QED  BY <1>3, <1>4

ReviewState == [metrics : Measures, groups : Seq(Group)]

\* What a visit does to the state.
VisitOf(operations, state, g) ==
  [metrics |-> try_append(state.metrics, RangeMetrics(g.file, g.start, g.end)),
   groups |-> IF g.slice = "original" THEN state.groups
              ELSE AddToGroups(state.groups, operations[g.operation].offset,
                               g.operation)]

\* It keeps the type.
LEMMA VisitType ==
  ASSUME snapshot \in Snapshots, NEW operations, NEW state \in ReviewState,
         NEW g \in Segments(snapshot),
         g.slice # "original" => operations[g.operation].offset \in Nat
  PROVE  VisitOf(operations, state, g) \in ReviewState
<1>1. state.metrics \in Measures /\ state.groups \in Seq(Group)
  BY DEF ReviewState
<1>2. PICK b \in ByteStrings : state.metrics = Measured(b)
  BY <1>1 DEF Measures
<1>3. SegmentBytes(snapshot, g) \in ByteStrings
      /\ RangeMetrics(g.file, g.start, g.end) = Measured(SegmentBytes(snapshot, g))
  BY SegmentType, SegmentMeasures
<1>4. try_append(state.metrics, RangeMetrics(g.file, g.start, g.end)) \in Measures
  <2>1. try_append(state.metrics, RangeMetrics(g.file, g.start, g.end))
          = Measured(b \o SegmentBytes(snapshot, g))
    BY <1>2, <1>3, AppendMeasures
  <2>2. b \o SegmentBytes(snapshot, g) \in ByteStrings
    BY <1>3, Regroup
  <2> QED  BY <2>1, <2>2 DEF Measures
<1>5. ASSUME g.slice # "original"
      PROVE  AddToGroups(state.groups, operations[g.operation].offset, g.operation)
               \in Seq(Group)
  <2>1. g.operation \in Nat
    BY <1>5 DEF Segments, OriginalSegment, PayloadSegment
  <2> QED  BY <1>1, <1>5, <2>1, AddToGroupsType
<1>6. \A x \in Measures, y \in Seq(Group) : [metrics |-> x, groups |-> y] \in ReviewState
  BY DEF ReviewState
<1> QED  BY <1>1, <1>4, <1>5, <1>6 DEF VisitOf

ReviewStart == [metrics |-> EmptyMetrics, groups |-> << >>]

\* The states of the visit.
Visits(v, operations, segs) ==
  /\ v[0] = ReviewStart
  /\ \A k \in 1 .. Len(segs) : v[k] = VisitOf(operations, v[k - 1], segs[k])

\* The review is read off the last state.
LEMMA ReviewRuns ==
  ASSUME snapshot \in Snapshots, NEW output, NEW operations,
         output.segments \in Seq(Segments(snapshot)),
         \A k \in 1 .. Len(output.segments) :
           output.segments[k].slice # "original" =>
             operations[output.segments[k].operation].offset \in Nat
  PROVE  \E v : /\ Visits(v, operations, output.segments)
                /\ build_review_output(output, operations) =
                     LET state == v[Len(output.segments)]
                     IN  [before |-> IF snapshot[output.path].present
                                     THEN Len(Boundaries(snapshot[output.path].bytes))
                                     ELSE None,
                          after |-> line_count(state.metrics),
                          bytes |-> state.metrics.byte_count,
                          groups |-> state.groups]
<1> DEFINE segs == output.segments
           n == Len(segs)
           S == ReviewState
           start == [metrics |-> EmptyMetrics, groups |-> << >>]
           Step(state, g) == VisitOf(operations, state, g)
           next == [a \in S \X (1 .. n) |-> Step(a[1], segs[a[2]])]
           Eq(f) == f = [k \in 0 .. n |->
                           IF k = 0 THEN start
                           ELSE [metrics |-> try_append(f[k - 1].metrics,
                                   RangeMetrics(segs[k].file, segs[k].start, segs[k].end)),
                                 groups |-> IF segs[k].slice = "original"
                                            THEN f[k - 1].groups
                                            ELSE AddToGroups(f[k - 1].groups,
                                                   operations[segs[k].operation].offset,
                                                   segs[k].operation)]]
           g == CHOOSE f : Eq(f)
<1>1. build_review_output(output, operations) =
        [before |-> IF snapshot[output.path].present
                    THEN Len(Boundaries(snapshot[output.path].bytes)) ELSE None,
         after |-> line_count(g[n].metrics),
         bytes |-> g[n].metrics.byte_count,
         groups |-> g[n].groups]
  BY DEF build_review_output
<1>2. n \in Nat /\ \A k \in 1 .. n : segs[k] \in Segments(snapshot)
  BY ElementOfSeq, LenProperties
<1>3. start \in S
  <2>1. << >> \in ByteStrings /\ Len(<< >>) = 0
    BY DEF ByteStrings
  <2>2. Terms(<< >>) = {}
    BY DEF Terms
  <2>3. Measured(<< >>) = EmptyMetrics
    BY <2>1, <2>2, FS_EmptySet DEF Measured, EmptyMetrics
  <2>4. EmptyMetrics \in Measures
    BY <2>1, <2>3 DEF Measures
  <2>5. << >> \in Seq(Group)
    OBVIOUS
  <2> QED  BY <2>4, <2>5 DEF ReviewState
<1>4. \A k \in 1 .. n : segs[k].slice # "original" =>
                          operations[segs[k].operation].offset \in Nat
  OBVIOUS
<1> HIDE DEF segs, n
<1>5. next \in [S \X (1 .. n) -> S]
  <2> SUFFICES ASSUME NEW a \in S \X (1 .. n)
               PROVE  Step(a[1], segs[a[2]]) \in S
    OBVIOUS
  <2>1. a[1] \in S /\ a[2] \in 1 .. n
    OBVIOUS
  <2>2. /\ segs[a[2]] \in Segments(snapshot)
        /\ segs[a[2]].slice # "original" =>
             operations[segs[a[2]].operation].offset \in Nat
    BY <1>2, <1>4, <2>1
  <2> QED  BY <2>1, <2>2, VisitType
<1> HIDE DEF start
<1>6. PICK f \in [0 .. n -> S] : IsRun(f, start, next, n)
  <2> HIDE DEF S, next
  <2> QED  BY <1>2, <1>3, <1>5, RunExists
<1>7. f[0] = start /\ \A k \in 1 .. n : f[k] = Step(f[k - 1], segs[k])
  <2>1. ASSUME NEW k \in 1 .. n
        PROVE  f[k] = Step(f[k - 1], segs[k])
    <3>1. f[k - 1] \in S
      BY <1>2, <1>6
    <3> HIDE DEF S, Step
    <3>2. next[<<f[k - 1], k>>] = Step(f[k - 1], segs[k])
      BY <3>1
    <3> HIDE DEF next
    <3> QED  BY <1>6, <3>2 DEF IsRun
  <2> QED  BY <1>6, <2>1 DEF IsRun
<1>8. Eq(f)
  <2>1. DOMAIN f = 0 .. n /\ f = [k \in 0 .. n |-> f[k]]
    BY <1>6
  <2>2. ASSUME NEW k \in 0 .. n
        PROVE  f[k] = IF k = 0 THEN start
                      ELSE [metrics |-> try_append(f[k - 1].metrics,
                              RangeMetrics(segs[k].file, segs[k].start, segs[k].end)),
                            groups |-> IF segs[k].slice = "original"
                                       THEN f[k - 1].groups
                                       ELSE AddToGroups(f[k - 1].groups,
                                              operations[segs[k].operation].offset,
                                              segs[k].operation)]
    <3>1. k = 0 \/ k \in 1 .. n
      BY <1>2
    <3> QED  BY <1>7, <3>1 DEF VisitOf
  <2> QED  BY <2>1, <2>2
<1>9. Eq(g)
  <2> HIDE DEF Eq
  <2> QED  BY <1>8
<1> HIDE DEF g
<1>10. g[0] = start /\ \A k \in 1 .. n : g[k] = VisitOf(operations, g[k - 1], segs[k])
  <2>1. g[0] = start
    BY <1>2, <1>9
  <2>2. ASSUME NEW k \in 1 .. n
        PROVE  g[k] = VisitOf(operations, g[k - 1], segs[k])
    <3>1. k \in 0 .. n /\ k # 0
      BY <1>2
    <3> QED  BY <1>9, <3>1 DEF VisitOf
  <2> QED  BY <2>1, <2>2
<1>11. Visits(g, operations, segs)
  BY <1>10 DEF Visits, ReviewStart, start, n
<1> QED  BY <1>1, <1>11 DEF segs, n

\* The counts of the review are those of the bytes that the segments write,
\* and the groups list the payloads.
LEMMA ReviewCounts ==
  ASSUME snapshot \in Snapshots, NEW output, NEW operations,
         output.segments \in Seq(Segments(snapshot)),
         SoundList(operations, Inserts(output.segments))
  PROVE  LET review == build_review_output(output, operations)
             written == Writes(snapshot, output.segments)
         IN  /\ review.after = LinesOf(written)
             /\ review.bytes = Len(written)
             /\ review.before = IF snapshot[output.path].present
                                THEN Len(Boundaries(snapshot[output.path].bytes))
                                ELSE None
             /\ Grouped(review.groups, operations, Inserts(output.segments))
<1> DEFINE segs == output.segments
           n == Len(segs)
           F == [k \in 1 .. n |-> SegmentBytes(snapshot, segs[k])]
           E == InsertEach(segs)
           review == build_review_output(output, operations)
<1>1. /\ n \in Nat /\ Sequences(F, n, 0 .. 255) /\ Sequences(E, n, Nat)
      /\ \A k \in 1 .. n : segs[k] \in Segments(snapshot)
  <2>1. segs \in Seq(Segments(snapshot))
    OBVIOUS
  <2>2. \A k \in 1 .. n : segs[k] \in Segments(snapshot)
    BY <2>1, ElementOfSeq
  <2> HIDE DEF segs
  <2> QED  BY <2>1, <2>2, WritesEach, InsertsEach
<1>2. /\ Writes(snapshot, segs) = Flat(F, n) /\ Inserts(segs) = Flat(E, n)
      /\ SoundList(operations, Flat(E, n))
  BY DEF Writes, Inserts
<1>3. \A k \in 1 .. n : F[k] = SegmentBytes(snapshot, segs[k]) /\ E[k] = InsertOf(segs[k])
  BY DEF InsertEach
<1>4. segs \in Seq(Segments(snapshot))
  OBVIOUS
<1> HIDE DEF segs, n, F, E
<1>5. \A k \in 0 .. n : Flat(E, k) \in Seq(Nat) /\ SoundList(operations, Flat(E, k))
  BY <1>1, <1>2, SoundPrefixes
<1>6. ASSUME NEW k \in Nat, k + 1 <= n
      PROVE  /\ Flat(F, k) \in ByteStrings
             /\ Flat(F, k + 1) = Flat(F, k) \o SegmentBytes(snapshot, segs[k + 1])
             /\ Flat(E, k) \in Seq(Nat)
             /\ Flat(E, k + 1) = Flat(E, k) \o InsertOf(segs[k + 1])
             /\ SoundList(operations, Flat(E, k + 1))
             /\ segs[k + 1] \in Segments(snapshot)
  <2>1. k + 1 \in 1 .. n /\ k + 1 \in 0 .. n
    BY <1>1, <1>6
  <2>2. Sequences(F, k + 1, 0 .. 255) /\ Sequences(E, k + 1, Nat)
    BY <1>1, <2>1 DEF Sequences
  <2>3. Flat(F, k) \in Seq(0 .. 255) /\ Flat(F, k + 1) = Flat(F, k) \o F[k + 1]
    BY <2>2, FlattenNext
  <2>4. Flat(E, k) \in Seq(Nat) /\ Flat(E, k + 1) = Flat(E, k) \o E[k + 1]
    BY <2>2, FlattenNext
  <2>5. F[k + 1] = SegmentBytes(snapshot, segs[k + 1]) /\ E[k + 1] = InsertOf(segs[k + 1])
    BY <1>3, <2>1
  <2>6. SoundList(operations, Flat(E, k + 1)) /\ segs[k + 1] \in Segments(snapshot)
    BY <1>1, <1>5, <2>1
  <2> QED  BY <2>3, <2>4, <2>5, <2>6 DEF ByteStrings
<1>7. ASSUME NEW k \in Nat, k + 1 <= n, segs[k + 1].slice # "original"
      PROVE  LET g == segs[k + 1]
             IN  /\ g.operation \in Nat
                 /\ Flat(E, k + 1) = Flat(E, k) \o << g.operation >>
                 /\ operations[g.operation].offset \in Nat
                 /\ Flat(E, k) # << >> =>
                      operations[Flat(E, k)[Len(Flat(E, k))]].offset
                        <= operations[g.operation].offset
  <2>1. PICK g \in Segments(snapshot) : g = segs[k + 1]
    BY <1>6, <1>7
  <2>2. g.operation \in Nat
    BY <1>7, <2>1 DEF Segments, OriginalSegment, PayloadSegment
  <2>3. InsertOf(g) = << g.operation >>
    BY <1>7, <2>1 DEF InsertOf
  <2>4. PICK list \in Seq(Nat) : list = Flat(E, k)
    BY <1>6, <1>7
  <2>5. Flat(E, k + 1) = list \o << g.operation >>
        /\ SoundList(operations, list \o << g.operation >>)
    BY <1>6, <1>7, <2>1, <2>3, <2>4
  <2>6. /\ operations[g.operation].offset \in Nat
        /\ list # << >> =>
             operations[list[Len(list)]].offset <= operations[g.operation].offset
    BY <2>2, <2>5, SoundNext
  <2> QED  BY <2>1, <2>2, <2>4, <2>5, <2>6
<1>8. ASSUME NEW k \in 1 .. n, segs[k].slice # "original"
      PROVE  operations[segs[k].operation].offset \in Nat
  <2>1. k - 1 \in Nat /\ (k - 1) + 1 = k /\ (k - 1) + 1 <= n
    BY <1>1
  <2> QED  BY <1>7, <1>8, <2>1
<1>9. PICK v : /\ Visits(v, operations, segs)
               /\ review = LET state == v[n]
                           IN  [before |-> IF snapshot[output.path].present
                                           THEN Len(Boundaries(snapshot[output.path].bytes))
                                           ELSE None,
                                after |-> line_count(state.metrics),
                                bytes |-> state.metrics.byte_count,
                                groups |-> state.groups]
  BY <1>4, <1>8, ReviewRuns DEF segs, n
<1> HIDE DEF review
<1> DEFINE Is(k) == /\ v[k].metrics = Measured(Flat(F, k))
                    /\ Grouped(v[k].groups, operations, Flat(E, k))
           P == {k \in Nat : k <= n => Is(k)}
<1>10. 0 \in P
  <2>1. v[0].metrics = EmptyMetrics /\ v[0].groups = << >>
    BY <1>9 DEF Visits, ReviewStart
  <2>2. Flat(F, 0) = << >> /\ Flat(E, 0) = << >>
    BY FlattenNone
  <2>3. Measured(<< >>) = EmptyMetrics
    <3>1. Len(<< >>) = 0
      OBVIOUS
    <3>2. Terms(<< >>) = {}
      BY DEF Terms
    <3> QED  BY <3>1, <3>2, FS_EmptySet DEF Measured, EmptyMetrics
  <2>4. Grouped(<< >>, operations, << >>)
    <3>1. << >> \in Seq(Group) /\ << >> \in Seq(Nat) /\ Len(<< >>) = 0
      OBVIOUS
    <3>2. Flat([g \in 1 .. Len(<< >>) |-> << >>[g].operations], Len(<< >>)) = << >>
      BY <3>1, FlattenNone
    <3>3. OffsetsOf(<< >>, operations, << >>)
      BY <3>1 DEF OffsetsOf
    <3> QED  BY <3>1, <3>2, <3>3 DEF Grouped
  <2>5. Is(0)
    BY <2>1, <2>2, <2>3, <2>4
  <2> HIDE DEF Is
  <2> QED  BY <2>5
<1>11. ASSUME NEW k \in Nat, k \in P
       PROVE  k + 1 \in P
  <2> SUFFICES ASSUME k + 1 <= n
               PROVE  Is(k + 1)
    OBVIOUS
  <2> DEFINE g == segs[k + 1]
             w == SegmentBytes(snapshot, g)
             groups == v[k].groups
  <2>1. v[k].metrics = Measured(Flat(F, k)) /\ Grouped(groups, operations, Flat(E, k))
    <3>1. k <= n
      BY <1>1
    <3> QED  BY <1>11, <3>1
  <2>2. v[k + 1] = VisitOf(operations, v[k], g)
    <3>1. k + 1 \in 1 .. n /\ (k + 1) - 1 = k
      BY <1>1
    <3>2. \A j \in 1 .. n : v[j] = VisitOf(operations, v[j - 1], segs[j])
      BY <1>9 DEF Visits, n
    <3>3. v[k + 1] = VisitOf(operations, v[(k + 1) - 1], segs[k + 1])
      BY <3>1, <3>2
    <3> QED  BY <3>1, <3>3
  <2>3. /\ v[k + 1].metrics = try_append(v[k].metrics, RangeMetrics(g.file, g.start, g.end))
        /\ v[k + 1].groups = IF g.slice = "original" THEN groups
                             ELSE AddToGroups(groups, operations[g.operation].offset,
                                              g.operation)
    BY <2>2 DEF VisitOf
  <2>4. /\ Flat(F, k) \in ByteStrings /\ Flat(F, k + 1) = Flat(F, k) \o w
        /\ Flat(E, k) \in Seq(Nat) /\ Flat(E, k + 1) = Flat(E, k) \o InsertOf(g)
        /\ g \in Segments(snapshot)
    BY <1>6
  <2> HIDE DEF P, w, groups
  <2>5. v[k + 1].metrics = Measured(Flat(F, k + 1))
    <3>1. w \in ByteStrings /\ RangeMetrics(g.file, g.start, g.end) = Measured(w)
      BY <2>4, SegmentType, SegmentMeasures DEF w
    <3>2. try_append(Measured(Flat(F, k)), Measured(w)) = Measured(Flat(F, k) \o w)
      BY <2>4, <3>1, AppendMeasures
    <3> HIDE DEF g
    <3> QED  BY <2>1, <2>3, <2>4, <3>1, <3>2
  <2>6. Grouped(v[k + 1].groups, operations, Flat(E, k + 1))
    <3>1. CASE g.slice = "original"
      <4>1. InsertOf(g) = << >>
        BY <3>1 DEF InsertOf
      <4>2. Flat(E, k + 1) = Flat(E, k)
        BY <2>4, <4>1, ConcatEmptySeq
      <4> QED  BY <2>1, <2>3, <3>1, <4>2
    <3>2. CASE g.slice # "original"
      <4>1. PICK i : i = g.operation
        OBVIOUS
      <4>2. /\ i \in Nat /\ Flat(E, k + 1) = Flat(E, k) \o << i >>
            /\ operations[i].offset \in Nat
            /\ Flat(E, k) # << >> =>
                 operations[Flat(E, k)[Len(Flat(E, k))]].offset <= operations[i].offset
        BY <1>7, <3>2, <4>1
      <4>3. v[k + 1].groups = AddToGroups(groups, operations[i].offset, i)
        BY <2>3, <3>2, <4>1
      <4>4. PICK list : list = Flat(E, k)
        OBVIOUS
      <4>5. Grouped(AddToGroups(groups, operations[i].offset, i), operations,
                    list \o << i >>)
        <5>1. /\ Grouped(groups, operations, list) /\ i \in Nat
              /\ operations[i].offset \in Nat
              /\ list # << >> => operations[list[Len(list)]].offset <= operations[i].offset
          BY <2>1, <4>2, <4>4
        <5> QED  BY <5>1, AddGroups
      <4> QED  BY <4>2, <4>3, <4>4, <4>5
    <3> QED  BY <3>1, <3>2
  <2> QED  BY <2>5, <2>6
<1>12. Is(n)
  <2>1. \A k \in Nat : k \in P
    <3> HIDE DEF P
    <3> QED  BY <1>10, <1>11, SetInduction
  <2> HIDE DEF Is
  <2> QED  BY <1>1, <2>1
<1>13. Flat(F, n) \in ByteStrings
  <2>1. Flat(F, n) \in Seq(0 .. 255)
    BY <1>1, FlattenType
  <2> QED  BY <2>1 DEF ByteStrings
<1>14. /\ review.after = line_count(Measured(Flat(F, n)))
       /\ review.bytes = Measured(Flat(F, n)).byte_count
       /\ review.before = IF snapshot[output.path].present
                          THEN Len(Boundaries(snapshot[output.path].bytes)) ELSE None
       /\ Grouped(review.groups, operations, Flat(E, n))
  BY <1>9, <1>12
<1>15. Measured(Flat(F, n)).byte_count = Len(Flat(F, n))
  BY DEF Measured
<1>16. line_count(Measured(Flat(F, n))) = LinesOf(Flat(F, n))
  BY <1>13, MeasuredLines
<1> QED  BY <1>2, <1>14, <1>15, <1>16 DEF review, segs

\* The payloads of a whole file: each operation that inserts into it, once.
LEMMA InsertsOnce ==
  ASSUME NEW s \in Snapshots, NEW r, NEW n, IsBatch(r, s, n), NEW path \in Paths,
         NEW list, InsertsInv(r, n, path, list, Len(s[path].bytes) + 1)
  PROVE  /\ SoundList(r, list) /\ list \in Seq(Nat)
         /\ Len(list) = Cardinality(Range(list))
         /\ Range(list) = {op.operation_index : op \in Insertions(r, path)}
<1> DEFINE m == Len(list)
           R == {op.operation_index : op \in Insertions(r, path)}
<1>1. /\ list \in Seq(1 .. n) /\ Ordered(r, list) /\ n \in Nat
      /\ \A d \in 1 .. n : (\E i \in 1 .. m : list[i] = d)
           <=> r[d] \in Insertions(r, path) /\ r[d].offset < Len(s[path].bytes) + 1
  BY DEF InsertsInv, IsBatch
<1>2. /\ m \in Nat /\ DOMAIN list = 1 .. m /\ list \in [1 .. m -> 1 .. n]
      /\ \A i \in 1 .. m : list[i] \in 1 .. n
  <2>1. list \in Seq(1 .. n)
    BY <1>1
  <2> QED  BY <2>1, LenProperties, ElementOfSeq
<1>3. ASSUME NEW d \in Insertions(r, path)
      PROVE  /\ d.offset \in Nat /\ d.offset < Len(s[path].bytes) + 1
             /\ d.operation_index \in 1 .. n /\ d = r[d.operation_index]
  <2>1. /\ d.operation_index \in 1 .. n /\ d = r[d.operation_index]
        /\ IsResolved(d, s, d.operation_index) /\ d.destination = path
    BY InsertionsType
  <2>2. d.offset \in 0 .. Len(s[path].bytes)
    BY <2>1 DEF IsResolved
  <2>3. Len(s[path].bytes) \in Nat
    BY FileBytes
  <2> QED  BY <2>1, <2>2, <2>3
<1>4. \A i \in 1 .. m : r[list[i]] \in Insertions(r, path)
  BY <1>1, <1>2
<1>5. \A i \in 1 .. m : r[list[i]].offset \in Nat
  BY <1>3, <1>4
<1>6. SoundList(r, list)
  BY <1>1, <1>5 DEF SoundList
<1>7. list \in Seq(Nat)
  <2>1. list \in [1 .. m -> Nat]
    BY <1>2
  <2> HIDE DEF m
  <2> QED  BY <1>2, <2>1
<1>8. \A d \in 1 .. n : r[d].operation_index = d
  BY DEF IsBatch, IsResolved
<1>9. Range(list) = R
  <2>1. ASSUME NEW i \in 1 .. m
        PROVE  list[i] \in R
    <3>1. r[list[i]].operation_index = list[i]
      BY <1>2, <1>8
    <3> QED  BY <1>4, <3>1
  <2>2. ASSUME NEW d \in Insertions(r, path)
        PROVE  \E i \in 1 .. m : list[i] = d.operation_index
    BY <1>1, <1>3
  <2>3. Range(list) = {list[i] : i \in 1 .. m}
    BY <1>2 DEF Range
  <2> HIDE DEF m
  <2> QED  BY <2>1, <2>2, <2>3
<1>10. ASSUME NEW i \in 1 .. m, NEW j \in 1 .. m, i < j
       PROVE  list[i] # list[j]
  <2>1. \/ r[list[i]].offset < r[list[j]].offset
        \/ r[list[i]].offset = r[list[j]].offset /\ list[i] < list[j]
    BY <1>1, <1>10 DEF Ordered
  <2>2. r[list[i]].offset \in Nat /\ list[i] \in Nat
    BY <1>2, <1>5
  <2> QED  BY <2>1, <2>2
<1>11. m = Cardinality(Range(list))
  <2> DEFINE D == 1 .. m
             U == Range(list)
  <2>1. U = {list[i] : i \in D}
    BY <1>2 DEF Range
  <2>2. list \in [D -> U]
    BY <1>2, <2>1
  <2>3. \A i, j \in D : list[i] = list[j] => i = j
    <3> SUFFICES ASSUME NEW i \in D, NEW j \in D, list[i] = list[j], i # j
                 PROVE  FALSE
      OBVIOUS
    <3>1. i < j \/ j < i
      BY <1>2
    <3> QED  BY <1>10, <3>1
  <2>4. \A u \in U : \E i \in D : list[i] = u
    BY <2>1
  <2>5. IsFiniteSet(D) /\ Cardinality(D) = m
    <3>1. PICK c \in Nat : c = m
      BY <1>2
    <3>2. IsFiniteSet(1 .. c) /\ Cardinality(1 .. c) = IF 1 > c THEN 0 ELSE c - 1 + 1
      BY FS_Interval
    <3>3. Cardinality(1 .. c) = c
      BY <3>2
    <3> QED  BY <3>1, <3>2, <3>3
  <2> HIDE DEF D, U
  <2>6. list \in Bijection(D, U)
    <3>1. list \in Injection(D, U)
      BY <2>2, <2>3 DEF Injection, IsInjective
    <3>2. list \in Surjection(D, U)
      BY <2>2, <2>4 DEF Surjection
    <3> QED  BY <3>1, <3>2 DEF Bijection
  <2>7. ExistsBijection(D, U)
    BY <2>6 DEF ExistsBijection
  <2>8. Cardinality(U) = Cardinality(D)
    BY <2>5, <2>7, FS_Bijection
  <2> QED  BY <2>5, <2>8 DEF U
<1> QED  BY <1>6, <1>7, <1>9, <1>11

\* The segments of an output of a plan hold the payloads of its file.
LEMMA OutputInserts ==
  ASSUME NEW p, NEW s \in Snapshots, NEW r, NEW n, PlanParts(p, s, r, n),
         NEW k \in DOMAIN p.outputs
  PROVE  LET output == p.outputs[k]
         IN  InsertsInv(r, n, output.path, Inserts(output.segments),
                        Len(s[output.path].bytes) + 1)
<1> DEFINE output == p.outputs[k]
<1>1. output.path \in Paths /\ output = PlannedOutput(s, r, output.path)
  BY OutputOfPlan
<1> HIDE DEF output
<1>2. PICK path \in Paths : path = output.path
  BY <1>1
<1>3. output.segments = build_segments(path, Len(s[path].bytes), Deletions(r, path),
                                       Insertions(r, path))
  BY <1>1, <1>2 DEF PlannedOutput
<1>4. IsBatch(r, s, n)
  BY DEF PlanParts
<1>5. InsertsInv(r, n, path, Inserts(output.segments), Len(s[path].bytes) + 1)
  BY <1>3, <1>4, SegmentsInsert
<1> QED  BY <1>2, <1>5 DEF output

\* A review agrees with the outputs.
GroupedOf(review) ==
  FlattenSeq([g \in DOMAIN review.groups |-> review.groups[g].operations])

OutputAgrees(review, output, operations, s) ==
  /\ review.after = LinesOf(output.digest)
  /\ review.bytes = output.length
  /\ review.before # None => review.before = LinesOf(s[output.path].bytes)
  /\ \A g \in 2 .. Len(review.groups) :
       review.groups[g - 1].offset < review.groups[g].offset
  /\ Len(GroupedOf(review)) = Cardinality(Range(GroupedOf(review)))
  /\ Range(GroupedOf(review)) =
       {op.operation_index :
          op \in {e \in {c \in Range(operations) : c.effect = "changed"} :
                    e.destination = output.path}}

CountsAgree(review, operations, outputs, s) ==
  /\ \A i \in DOMAIN operations :
       review.operations[i].lines = LinesOf(operations[i].selected)
  /\ \A k \in DOMAIN outputs :
       OutputAgrees(review.outputs[k], outputs[k], operations, s)

\* The review of one output of a plan.
LEMMA ReviewOfOutput ==
  ASSUME NEW p, snapshot \in Snapshots, NEW r, NEW n, PlanParts(p, snapshot, r, n),
         NEW k \in DOMAIN p.outputs
  PROVE  OutputAgrees(build_review_output(p.outputs[k], r), p.outputs[k], r, snapshot)
<1> DEFINE output == p.outputs[k]
           review == build_review_output(output, r)
           list == Inserts(output.segments)
           F == [g \in 1 .. Len(review.groups) |-> review.groups[g].operations]
<1>1. /\ output.path \in Paths /\ output.digest \in ByteStrings
      /\ output.length = Len(output.digest)
      /\ output.segments \in Seq(Segments(snapshot))
      /\ Writes(snapshot, output.segments) = output.digest
  BY OutputOfPlan
<1>2. InsertsInv(r, n, output.path, list, Len(snapshot[output.path].bytes) + 1)
  BY OutputInserts
<1>3. IsBatch(r, snapshot, n)
  BY DEF PlanParts
<1> HIDE DEF output, list
<1>4. /\ SoundList(r, list) /\ list \in Seq(Nat)
      /\ Len(list) = Cardinality(Range(list))
      /\ Range(list) = {op.operation_index : op \in Insertions(r, output.path)}
  <2>1. PICK path \in Paths : path = output.path
    BY <1>1
  <2>2. InsertsInv(r, n, path, list, Len(snapshot[path].bytes) + 1)
    BY <1>2, <2>1
  <2>3. /\ SoundList(r, list) /\ list \in Seq(Nat)
        /\ Len(list) = Cardinality(Range(list))
        /\ Range(list) = {op.operation_index : op \in Insertions(r, path)}
    BY <1>3, <2>2, InsertsOnce
  <2> QED  BY <2>1, <2>3
<1>5. /\ review.after = LinesOf(output.digest)
      /\ review.bytes = output.length
      /\ review.before = IF snapshot[output.path].present
                         THEN Len(Boundaries(snapshot[output.path].bytes)) ELSE None
      /\ Grouped(review.groups, r, list)
  BY <1>1, <1>4, ReviewCounts DEF list
<1> HIDE DEF review
<1>6. ASSUME review.before # None
      PROVE  review.before = LinesOf(snapshot[output.path].bytes)
  <2>1. snapshot[output.path].bytes \in ByteStrings
    BY <1>1, FileBytes
  <2>2. Len(Boundaries(snapshot[output.path].bytes)) = LinesOf(snapshot[output.path].bytes)
    BY <2>1, BoundariesCount
  <2> QED  BY <1>5, <1>6, <2>2
<1>7. /\ review.groups \in Seq(Group) /\ Flat(F, Len(review.groups)) = list
      /\ \A g \in 2 .. Len(review.groups) :
           review.groups[g - 1].offset < review.groups[g].offset
  BY <1>5 DEF Grouped, OffsetsOf
<1>8. GroupedOf(review) = list
  <2>1. Len(review.groups) \in Nat /\ DOMAIN review.groups = 1 .. Len(review.groups)
    BY <1>7, LenProperties
  <2>2. GroupedOf(review) = FlattenSeq(F)
    BY <2>1 DEF GroupedOf
  <2>3. F = [g \in 1 .. Len(review.groups) |-> F[g]]
    OBVIOUS
  <2> HIDE DEF F
  <2>4. FlattenSeq(F) = Flat(F, Len(review.groups))
    BY <2>1, <2>3, FlattenOf
  <2> QED  BY <1>7, <2>2, <2>4
<1>9. Insertions(r, output.path)
        = {e \in {c \in Range(r) : c.effect = "changed"} : e.destination = output.path}
  BY DEF Insertions
<1>10. OutputAgrees(review, output, r, snapshot)
  BY <1>4, <1>5, <1>6, <1>7, <1>8, <1>9 DEF OutputAgrees
<1> QED  BY <1>10 DEF output, review

\* The review of one operation.
LEMMA ReviewOfOperation ==
  ASSUME snapshot \in Snapshots, NEW op, NEW i \in Nat, IsResolved(op, snapshot, i)
  PROVE  ReviewOperation(op).lines = LinesOf(op.selected)
<1>1. /\ op.source \in Paths /\ op.start \in Nat /\ op.end \in Nat
      /\ op.start <= op.end /\ op.end <= Len(snapshot[op.source].bytes)
      /\ op.selected = Slice(snapshot[op.source].bytes, op.start, op.end)
  BY DEF IsResolved
<1>2. snapshot[op.source].bytes \in ByteStrings
  BY <1>1, FileBytes
<1>3. RangeMetrics(op.source, op.start, op.end) = Measured(op.selected)
  <2>1. metrics_for_range(Boundaries(snapshot[op.source].bytes),
                          snapshot[op.source].bytes, op.start, op.end)
          = Measured(op.selected)
    BY <1>1, <1>2, RangeMeasures
  <2> QED  BY <2>1 DEF RangeMetrics
<1>4. op.selected \in ByteStrings
  BY PayloadIsSegment
<1>5. ReviewOperation(op).lines = line_count(RangeMetrics(op.source, op.start, op.end))
  BY DEF ReviewOperation
<1> QED  BY <1>3, <1>4, <1>5, MeasuredLines

\* The review of an accepted plan agrees with it.
LEMMA ReviewAgrees ==
  ASSUME PlanInv, planned.ok
  PROVE  CountsAgree(build_review_summary, planned.operations, planned.outputs, snapshot)
<1>1. /\ snapshot \in Snapshots /\ batch \in Seq(Operations)
      /\ planned = plan(snapshot, batch)
  <2>1. ~Nothing.ok
    BY DEF Nothing
  <2> QED  BY <2>1 DEF PlanInv
<1> DEFINE r == ResolvedAll(snapshot, batch)
           n == Len(batch)
           review == build_review_summary
<1>2. PlanParts(planned, snapshot, r, n)
  BY <1>1, PartsOfPlan
<1> HIDE DEF r, n
<1>3. planned.operations = r /\ IsBatch(r, snapshot, n)
  BY <1>2 DEF PlanParts
<1>4. /\ \A i \in DOMAIN r : review.operations[i] = ReviewOperation(r[i])
      /\ \A k \in DOMAIN planned.outputs :
           review.outputs[k] = build_review_output(planned.outputs[k], r)
  BY <1>3 DEF build_review_summary
<1> HIDE DEF review
<1>5. ASSUME NEW i \in DOMAIN r
      PROVE  review.operations[i].lines = LinesOf(r[i].selected)
  <2>1. PICK j \in Nat : j = i /\ j \in 1 .. n
    BY <1>3 DEF IsBatch
  <2>2. IsResolved(r[j], snapshot, j)
    BY <1>3, <2>1 DEF IsBatch
  <2>3. ReviewOperation(r[j]).lines = LinesOf(r[j].selected)
    BY <1>1, <2>2, ReviewOfOperation
  <2> QED  BY <1>4, <2>1, <2>3
<1>6. ASSUME NEW k \in DOMAIN planned.outputs
      PROVE  OutputAgrees(review.outputs[k], planned.outputs[k], r, snapshot)
  <2>1. PICK p : p = planned
    OBVIOUS
  <2>2. PlanParts(p, snapshot, r, n) /\ k \in DOMAIN p.outputs
    BY <1>2, <2>1
  <2>3. OutputAgrees(build_review_output(p.outputs[k], r), p.outputs[k], r, snapshot)
    BY <1>1, <2>2, ReviewOfOutput
  <2> QED  BY <1>4, <2>1, <2>3
<1>7. CountsAgree(review, planned.operations, planned.outputs, snapshot)
  BY <1>3, <1>5, <1>6 DEF CountsAgree
<1> QED  BY <1>7 DEF review

\* The invariant that a preview satisfies from the step that builds it.
LinesInv == PlanInv /\ LineCountsAgree

\* Every step keeps it.
LEMMA NextLines == LinesInv /\ [Next]_vars => LinesInv'
<1> SUFFICES ASSUME LinesInv, [Next]_vars
             PROVE  LinesInv'
  OBVIOUS
<1>1. PlanInv /\ LineCountsAgree /\ PlanInv'
  BY NextPlan DEF LinesInv
<1>2. LineCountsAgree <=>
        (preview # << >> =>
           CountsAgree(preview.review, planned.operations, planned.outputs, snapshot))
  BY DEF LineCountsAgree, CountsAgree, OutputAgrees, GroupedOf, Effective
<1>3. LineCountsAgree' <=>
        (preview' # << >> =>
           CountsAgree(preview'.review, planned'.operations, planned'.outputs, snapshot'))
  BY DEF LineCountsAgree, CountsAgree, OutputAgrees, GroupedOf, Effective
<1>4. CASE AddOperation
  <2>1. preview' = << >>
    BY <1>1, <1>4 DEF AddOperation, PlanInv, Nothing
  <2> QED  BY <1>1, <1>3, <2>1 DEF LinesInv
<1>5. CASE PlanBatch
  <2>1. preview' = << >>
    BY <1>1, <1>5 DEF PlanBatch, PlanInv, Nothing
  <2> QED  BY <1>1, <1>3, <2>1 DEF LinesInv
<1>6. CASE build_preview
  <2>1. planned.ok /\ planned' = planned /\ snapshot' = snapshot
    BY <1>6 DEF build_preview
  <2>2. preview'.review = build_review_summary
    <3>1. PICK no_diff \in BOOLEAN, include_summary \in BOOLEAN, base \in BaseSizes :
            \E diff \in {build_diff(no_diff, include_summary, base)} :
              preview' = [include_summary |-> include_summary,
                          review |-> build_review_summary, diff |-> diff,
                          bytes |-> ResponseBytes(base, diff),
                          complete |-> enforce_complete_summary_response(
                                         include_summary, base, diff)]
      BY <1>6 DEF build_preview
    <3>2. PICK diff : preview' = [include_summary |-> include_summary,
                                  review |-> build_review_summary, diff |-> diff,
                                  bytes |-> ResponseBytes(base, diff),
                                  complete |-> enforce_complete_summary_response(
                                                 include_summary, base, diff)]
      BY <3>1
    <3> QED  BY <3>2
  <2>3. CountsAgree(build_review_summary, planned.operations, planned.outputs, snapshot)
    BY <1>1, <2>1, ReviewAgrees
  <2> QED  BY <1>1, <1>3, <2>1, <2>2, <2>3 DEF LinesInv
<1>7. CASE UNCHANGED vars
  <2>1. preview' = preview /\ planned' = planned /\ snapshot' = snapshot
    BY <1>7 DEF vars
  <2> QED  BY <1>1, <1>2, <1>3, <2>1 DEF LinesInv
<1> QED  BY <1>4, <1>5, <1>6, <1>7 DEF Next

\* The counts of the review, composed from the metrics of the segments, are
\* those of the bytes that the plan writes, and the insertion groups list
\* every payload once in output order, for all snapshots and batches
\* (build_review_output, metrics_for_range, try_append).
THEOREM LinesAgree == Spec => []LineCountsAgree
<1>1. Init => LinesInv
  <2>1. Init => preview = << >>
    BY DEF Init
  <2> QED  BY <2>1, InitPlan DEF LinesInv, LineCountsAgree
<1>2. LinesInv => LineCountsAgree
  BY DEF LinesInv
<1> QED  BY <1>1, <1>2, NextLines, PTL DEF Spec

-----------------------------------------------------------------------------
(***************************************************************************)
(* What a diff describes.                                                  *)
(***************************************************************************)
\* The bytes of every line of a file.
LinesIn(bytes) == [n \in DOMAIN text_lines(bytes) |-> text_lines(bytes)[n].full]

\* The lines of a file are its bytes, one after the other.
LEMMA LinesFlatten ==
  ASSUME NEW bytes \in ByteStrings
  PROVE  FlattenSeq(LinesIn(bytes)) = bytes
<1> DEFINE B == Boundaries(bytes)
           N == Len(B)
           L == Len(bytes)
           F == LinesIn(bytes)
           From(k) == IF k = 1 THEN 0 ELSE B[k - 1]
<1>1. LineList(B, bytes, 0) /\ L \in Nat
  BY BoundariesAreEnds DEF ByteStrings
<1>2. F = [k \in 1 .. N |-> Slice(bytes, line_start(B, k), line_end(B, k))]
  <2> DEFINE Line(full) ==
               [full |-> full,
                terminator |-> IF Last(full) = CR THEN "CR"
                               ELSE IF Last(full) # LF THEN "NONE"
                               ELSE IF Len(full) > 1 /\ full[Len(full) - 1] = CR
                               THEN "CRLF" ELSE "LF"]
             Part(k) == Slice(bytes, line_start(B, k), line_end(B, k))
  <2>1. text_lines(bytes) = [k \in 1 .. N |-> Line(Part(k))]
    BY DEF text_lines
  <2>2. \A full : Line(full).full = full
    OBVIOUS
  <2> HIDE DEF Line, Part, N
  <2>3. F = [k \in 1 .. N |-> Part(k)]
    BY <2>1, <2>2 DEF LinesIn
  <2> QED  BY <2>3 DEF Part
<1> HIDE DEF B, F, L
<1>3. /\ N \in Nat /\ \A k \in 1 .. N : B[k] \in 1 .. L
      /\ \A j, k \in 1 .. N : j < k => B[j] < B[k]
  BY <1>1 DEF LineList, L
<1>4. \A i \in LineEndings(bytes) : i > 0 => \E k \in 1 .. N : B[k] = i
  BY <1>1 DEF LineList
<1> HIDE DEF N
<1>5. ASSUME NEW k \in 1 .. N
      PROVE  /\ F[k] = Slice(bytes, From(k), B[k])
             /\ From(k) \in 0 .. L /\ From(k) <= B[k] /\ B[k] \in 0 .. L
             /\ F[k] \in ByteStrings
  <2>1. line_end(B, k) = B[k]
    BY DEF line_end, N
  <2>2. line_start(B, k) = From(k)
    <3>1. ~(k = 0 \/ k > Len(B))
      BY <1>3 DEF N
    <3> QED  BY <3>1 DEF line_start
  <2>3. From(k) \in 0 .. L /\ From(k) <= B[k] /\ B[k] \in 0 .. L
    <3>1. B[k] \in 1 .. L
      BY <1>3
    <3>2. CASE k = 1
      BY <1>1, <3>1, <3>2 DEF L
    <3>3. CASE k # 1
      <4>1. k - 1 \in 1 .. N /\ k - 1 < k
        BY <1>3, <3>3
      <4>2. B[k - 1] \in 1 .. L /\ B[k - 1] < B[k]
        BY <1>3, <4>1
      <4> QED  BY <3>1, <3>3, <4>2
    <3> QED  BY <3>2, <3>3
  <2>4. F[k] = Slice(bytes, From(k), B[k])
    BY <1>2, <2>1, <2>2
  <2> HIDE DEF From
  <2>5. Slice(bytes, From(k), B[k]) \in ByteStrings
    <3>1. From(k) \in Nat /\ B[k] \in 0 .. Len(bytes)
      BY <2>3 DEF L
    <3> QED  BY <3>1, SliceType
  <2> QED  BY <2>3, <2>4, <2>5
<1>6. Sequences(F, N, 0 .. 255)
  BY <1>5 DEF Sequences, ByteStrings
<1> DEFINE To(k) == IF k = 0 THEN 0 ELSE B[k]
           P == {k \in Nat : k <= N => Flat(F, k) = Slice(bytes, 0, To(k))}
<1>7. 0 \in P
  <2>1. Slice(bytes, 0, 0) = << >>
    <3>1. 0 \in 0 .. Len(bytes) /\ 0 >= 0 /\ 0 \in Nat
      BY <1>1 DEF L
    <3> QED  BY <3>1, SliceType
  <2> QED  BY <2>1, FlattenNone
<1>8. ASSUME NEW k \in Nat, k \in P
      PROVE  k + 1 \in P
  <2> SUFFICES ASSUME k + 1 <= N
               PROVE  Flat(F, k + 1) = Slice(bytes, 0, To(k + 1))
    OBVIOUS
  <2>1. Flat(F, k) = Slice(bytes, 0, To(k))
    BY <1>3, <1>8
  <2>2. k + 1 \in 1 .. N /\ From(k + 1) = To(k) /\ To(k + 1) = B[k + 1]
    BY <1>3
  <2>3. Flat(F, k + 1) = Flat(F, k) \o F[k + 1]
    <3>1. Sequences(F, k + 1, 0 .. 255)
      BY <1>3, <1>6 DEF Sequences
    <3> QED  BY <3>1, FlattenNext
  <2>4. /\ F[k + 1] = Slice(bytes, To(k), B[k + 1])
        /\ To(k) \in 0 .. L /\ To(k) <= B[k + 1] /\ B[k + 1] \in 0 .. L
    <3> HIDE DEF From, To
    <3> QED  BY <1>5, <2>2
  <2> HIDE DEF To
  <2>5. Slice(bytes, 0, To(k)) \o Slice(bytes, To(k), B[k + 1]) = Slice(bytes, 0, B[k + 1])
    <3>1. To(k) \in Nat /\ 0 <= To(k) /\ B[k + 1] \in 0 .. Len(bytes)
      BY <1>1, <2>4 DEF L
    <3> QED  BY <2>4, <3>1, SliceJoin
  <2> QED  BY <2>1, <2>2, <2>3, <2>4, <2>5
<1>9. N \in P
  <2> HIDE DEF P
  <2> QED  BY <1>3, <1>7, <1>8, SetInduction
<1>10. Flat(F, N) = Slice(bytes, 0, To(N))
  BY <1>3, <1>9
<1>11. To(N) = L
  <2>1. CASE L = 0
    <3>1. N = 0
      BY <1>3, <2>1
    <3> QED  BY <2>1, <3>1
  <2>2. CASE L # 0
    <3>1. L \in LineEndings(bytes) /\ L > 0
      BY <1>1, <2>2 DEF LineEndings, L
    <3>2. PICK k \in 1 .. N : B[k] = L
      BY <1>4, <3>1
    <3>3. ~(k < N)
      <4>1. ASSUME k < N
            PROVE  FALSE
        <5>1. N \in 1 .. N /\ B[k] < B[N] /\ B[N] \in 1 .. L
          BY <1>3, <4>1
        <5> QED  BY <1>1, <3>2, <5>1
      <4> QED  BY <4>1
    <3>4. k = N /\ N # 0
      BY <1>3, <3>3
    <3> QED  BY <3>2, <3>4
  <2> QED  BY <2>1, <2>2
<1>12. FlattenSeq(F) = Flat(F, N)
  <2>1. F = [k \in 1 .. N |-> F[k]]
    BY <1>2 DEF N
  <2> QED  BY <1>3, <2>1, FlattenOf
<1>13. Slice(bytes, 0, L) = bytes
  BY SliceAll DEF L
<1> QED  BY <1>10, <1>11, <1>12, <1>13 DEF F

\* A piece that was pushed without a truncation is the last of the text.
LEMMA PushWrites ==
  ASSUME NEW m \in Nat, NEW w \in WriterSet(m), NEW piece \in DiffPieces,
         push(w, piece).truncation = "none"
  PROVE  w.truncation = "none" /\ push(w, piece).text = Append(w.text, piece)
<1> DEFINE c == charge(w, piece.bytes)
<1>1. push(w, piece) =
        IF w.truncation # "none" THEN w
        ELSE IF c.truncation # "none" THEN c
        ELSE IF \/ c.size + piece.bytes > c.maximum
                \/ c.encoded + piece.encoded > c.maximum
        THEN [c EXCEPT !.truncation = "output"]
        ELSE [c EXCEPT !.text = Append(@, piece), !.size = @ + piece.bytes,
                       !.encoded = @ + piece.encoded]
  BY DEF push
<1>2. piece.bytes \in Nat
  BY PieceSizes
<1>3. c \in WriterSet(m) /\ IsWriter(w, m)
  BY <1>2, ChargeFits, WriterMember
<1>4. c.text = w.text
  <2>1. w = [text |-> w.text, size |-> w.size, encoded |-> w.encoded, work |-> w.work,
             maximum |-> w.maximum, truncation |-> w.truncation]
    BY <1>3 DEF IsWriter
  <2> QED  BY <2>1 DEF charge
<1> HIDE DEF c
<1>5. c = [text |-> c.text, size |-> c.size, encoded |-> c.encoded, work |-> c.work,
           maximum |-> c.maximum, truncation |-> c.truncation]
  <2>1. IsWriter(c, m)
    BY <1>3, WriterMember
  <2> QED  BY <2>1 DEF IsWriter
<1>6. [c EXCEPT !.truncation = "output"].truncation = "output"
  BY <1>5
<1>7. [c EXCEPT !.text = Append(@, piece), !.size = @ + piece.bytes,
                !.encoded = @ + piece.encoded].text = Append(c.text, piece)
  BY <1>5
<1> QED  BY <1>1, <1>4, <1>6, <1>7

\* Work that was charged without a truncation.
LEMMA ChargeWrites ==
  ASSUME NEW m \in Nat, NEW w \in WriterSet(m), NEW units \in Nat
  PROVE  /\ charge(w, units).text = w.text
         /\ charge(w, units).truncation = "none" => w.truncation = "none"
<1> DEFINE truncation == IF w.truncation = "none" /\ w.work + units > DIFF_WORK_UNITS
                         THEN "work" ELSE w.truncation
<1>1. w = [text |-> w.text, size |-> w.size, encoded |-> w.encoded, work |-> w.work,
           maximum |-> w.maximum, truncation |-> w.truncation]
  <2>1. IsWriter(w, m)
    BY WriterMember
  <2> QED  BY <2>1 DEF IsWriter
<1>2. charge(w, units) = [w EXCEPT !.work = w.work + units, !.truncation = truncation]
  BY DEF charge
<1>3. truncation = "none" => w.truncation = "none"
  OBVIOUS
<1> HIDE DEF truncation
<1> QED  BY <1>1, <1>2, <1>3

\* A sequence of pieces pushed without a truncation.
LEMMA RunPushes ==
  ASSUME NEW m \in Nat, NEW pieces \in Seq(DiffPieces), NEW start, NEW g,
         PushRun(g, start, pieces), \A k \in 0 .. Len(pieces) : g[k] \in WriterSet(m),
         g[Len(pieces)].truncation = "none"
  PROVE  start.truncation = "none" /\ g[Len(pieces)].text = start.text \o pieces
<1> DEFINE n == Len(pieces)
           Upto(k) == SubSeq(pieces, 1, k)
           Good(k) == /\ start.truncation = "none"
                      /\ g[k].text = start.text \o Upto(k)
           P == {k \in Nat : k <= n /\ g[k].truncation = "none" => Good(k)}
<1>1. n \in Nat /\ \A k \in 1 .. n : pieces[k] \in DiffPieces
  OBVIOUS
<1>2. g[0] = start /\ \A k \in 1 .. n : g[k] = push(g[k - 1], pieces[k])
  BY DEF PushRun
<1>3. \A k \in 0 .. n : g[k] \in WriterSet(m)
  OBVIOUS
<1>4. start.text \in Seq(DiffPieces)
  <2>1. start \in WriterSet(m)
    BY <1>1, <1>2, <1>3
  <2>2. IsWriter(start, m)
    BY <2>1, WriterMember
  <2> QED  BY <2>2 DEF IsWriter
<1>5. Upto(0) = << >> /\ Upto(n) = pieces
  BY <1>1
<1>6. ASSUME NEW k \in Nat, k + 1 <= n
      PROVE  Upto(k) \in Seq(DiffPieces) /\ Upto(k + 1) = Append(Upto(k), pieces[k + 1])
  <2>1. \A i \in 1 .. k : pieces[i] \in DiffPieces
    BY <1>1, <1>6
  <2>2. Upto(k) \in Seq(DiffPieces)
    BY <2>1, SubSeqProperties
  <2>3. Upto(k + 1) = Append(Upto(k), pieces[k + 1])
    BY <1>1, <1>6
  <2> QED  BY <2>2, <2>3
<1> HIDE DEF n, Upto
<1>7. 0 \in P
  <2>1. start.text \o << >> = start.text
    BY <1>4, ConcatEmptySeq
  <2> QED  BY <1>2, <1>5, <2>1
<1>8. ASSUME NEW k \in Nat, k \in P
      PROVE  k + 1 \in P
  <2> SUFFICES ASSUME k + 1 <= n, g[k + 1].truncation = "none"
               PROVE  Good(k + 1)
    <3> HIDE DEF Good
    <3> QED  OBVIOUS
  <2>1. k + 1 \in 1 .. n /\ (k + 1) - 1 = k /\ k \in 0 .. n /\ k <= n
    BY <1>1
  <2>2. g[k + 1] = push(g[k], pieces[k + 1]) /\ g[k] \in WriterSet(m)
        /\ pieces[k + 1] \in DiffPieces
    BY <1>1, <1>2, <1>3, <2>1
  <2>3. g[k].truncation = "none" /\ g[k + 1].text = Append(g[k].text, pieces[k + 1])
    BY <2>2, PushWrites
  <2>4. start.truncation = "none" /\ g[k].text = start.text \o Upto(k)
    BY <1>8, <2>1, <2>3
  <2>5. \A a \in Seq(DiffPieces), b \in Seq(DiffPieces), e \in DiffPieces :
          Append(a \o b, e) = a \o Append(b, e)
    <3> SUFFICES ASSUME NEW a \in Seq(DiffPieces), NEW b \in Seq(DiffPieces),
                        NEW e \in DiffPieces
                 PROVE  Append(a \o b, e) = a \o Append(b, e)
      OBVIOUS
    <3>1. Append(b, e) = b \o << e >> /\ << e >> \in Seq(DiffPieces)
      OBVIOUS
    <3>2. a \o b \in Seq(DiffPieces)
      BY ConcatProperties
    <3>3. Append(a \o b, e) = (a \o b) \o << e >>
      BY <3>2
    <3>4. PICK t \in Seq(DiffPieces) : t = << e >>
      BY <3>1
    <3>5. (a \o b) \o t = a \o (b \o t)
      BY ConcatAssociative
    <3>6. Append(b, e) = b \o t /\ Append(a \o b, e) = (a \o b) \o t
      BY <3>1, <3>3, <3>4
    <3> QED  BY <3>5, <3>6
  <2>6. Upto(k) \in Seq(DiffPieces) /\ Upto(k + 1) = Append(Upto(k), pieces[k + 1])
    BY <1>6
  <2>7. g[k + 1].text = Append(start.text \o Upto(k), pieces[k + 1])
    BY <2>3, <2>4
  <2>8. Append(start.text \o Upto(k), pieces[k + 1])
          = start.text \o Append(Upto(k), pieces[k + 1])
    BY <1>4, <2>2, <2>5, <2>6
  <2> QED  BY <2>4, <2>6, <2>7, <2>8
<1>9. n \in P
  <2> HIDE DEF P
  <2> QED  BY <1>1, <1>7, <1>8, SetInduction
<1>10. n <= n /\ g[n].truncation = "none"
  BY <1>1 DEF n
<1>11. start.truncation = "none" /\ g[n].text = start.text \o Upto(n)
  BY <1>9, <1>10
<1> QED  BY <1>5, <1>11 DEF n

\* An output written without a truncation is there with all its pieces.
LEMMA OutputWrites ==
  ASSUME NEW m \in Nat, NEW w \in WriterSet(m), NEW path \in Paths,
         NEW before \in ByteStrings, NEW after \in ByteStrings,
         write_output(w, path, before, after).truncation = "none"
  PROVE  /\ w.truncation = "none"
         /\ PiecesOf(path, before, after) \in Seq(DiffPieces)
         /\ write_output(w, path, before, after).text
              = w.text \o PiecesOf(path, before, after)
<1> DEFINE pieces == PiecesOf(path, before, after)
           units == Len(before) + Len(after)
<1>1. pieces \in Seq(DiffPieces)
  BY WriteRuns
<1>2. PICK g : /\ PushRun(g, charge(w, units), pieces)
               /\ \A k \in 0 .. Len(pieces) : g[k] \in WriterSet(m)
               /\ write_output(w, path, before, after) = g[Len(pieces)]
  BY WriteRuns
<1>3. units \in Nat
  BY DEF ByteStrings
<1> HIDE DEF pieces, units
<1>4. /\ charge(w, units).truncation = "none"
      /\ g[Len(pieces)].text = charge(w, units).text \o pieces
  BY <1>1, <1>2, RunPushes
<1>5. charge(w, units).text = w.text /\ w.truncation = "none"
  BY <1>3, <1>4, ChargeWrites
<1> QED  BY <1>1, <1>2, <1>4, <1>5 DEF pieces

\* What a text without a truncation consists of, output by output.
TextPieces(outputs, s) ==
  [k \in DOMAIN outputs |->
     IF outputs[k].change # "Unchanged"
     THEN PiecesOf(outputs[k].path, s[outputs[k].path].bytes, outputs[k].digest)
     ELSE << >>]

\* A text without a truncation has the pieces of every changed output.
LEMMA TextIsComplete ==
  ASSUME NEW s \in Snapshots, NEW outputs, NEW n \in Nat, Len(outputs) = n,
         DOMAIN outputs = 1 .. n, Writable(outputs), NEW m \in Nat,
         Written(outputs, s, m).truncation = "none"
  PROVE  /\ Sequences(TextPieces(outputs, s), n, DiffPieces)
         /\ Written(outputs, s, m).text = Flat(TextPieces(outputs, s), n)
<1> DEFINE F == TextPieces(outputs, s)
<1>1. PICK g : /\ OutputRun(g, outputs, s, m, n)
               /\ \A k \in 0 .. n : g[k] \in WriterSet(m)
               /\ Written(outputs, s, m) = g[n]
  BY OutputRuns
<1>2. ASSUME NEW k \in 1 .. n
      PROVE  /\ outputs[k].path \in Paths /\ outputs[k].digest \in ByteStrings
             /\ s[outputs[k].path].bytes \in ByteStrings
  <2>1. outputs[k].path \in Paths /\ outputs[k].digest \in ByteStrings
    BY DEF Writable
  <2> QED  BY <2>1, FileBytes
<1>3. ASSUME NEW k \in 1 .. n
      PROVE  F[k] \in Seq(DiffPieces)
  <2>1. NewWriter(m) \in WriterSet(m)
    BY NewWriterFits
  <2>2. PiecesOf(outputs[k].path, s[outputs[k].path].bytes, outputs[k].digest)
          \in Seq(DiffPieces)
    BY <1>2, <2>1, WriteRuns
  <2>3. << >> \in Seq(DiffPieces)
    OBVIOUS
  <2> QED  BY <2>2, <2>3 DEF TextPieces
<1>4. Sequences(F, n, DiffPieces)
  BY <1>3 DEF Sequences
<1> DEFINE P == {k \in Nat : k <= n /\ g[k].truncation = "none" => g[k].text = Flat(F, k)}
<1>5. 0 \in P
  <2>1. g[0] = NewWriter(m)
    BY <1>1 DEF OutputRun
  <2>2. g[0].text = << >>
    BY <2>1 DEF NewWriter
  <2> QED  BY <2>2, FlattenNone
<1>6. ASSUME NEW k \in Nat, k \in P
      PROVE  k + 1 \in P
  <2> SUFFICES ASSUME k + 1 <= n, g[k + 1].truncation = "none"
               PROVE  g[k + 1].text = Flat(F, k + 1)
    OBVIOUS
  <2> DEFINE j == k + 1
             o == outputs[j]
             written == write_output(g[k], o.path, s[o.path].bytes, o.digest)
  <2>1. j \in 1 .. n /\ j - 1 = k /\ k \in 0 .. n /\ k <= n
    OBVIOUS
  <2>2. g[j] = IF o.change # "Unchanged" /\ g[k].truncation = "none"
               THEN written ELSE g[k]
    BY <1>1, <2>1 DEF OutputRun
  <2>3. g[k] \in WriterSet(m)
    BY <1>1, <2>1
  <2>4. Flat(F, k) \in Seq(DiffPieces) /\ Flat(F, j) = Flat(F, k) \o F[j]
    <3>1. Sequences(F, k + 1, DiffPieces)
      BY <1>4, <2>1 DEF Sequences
    <3> QED  BY <3>1, FlattenNext
  <2>5. CASE o.change # "Unchanged"
    <3>1. g[j] = written /\ g[k].truncation = "none"
      <4>1. CASE g[k].truncation = "none"
        BY <2>2, <2>5, <4>1
      <4>2. CASE g[k].truncation # "none"
        BY <2>2, <4>2
      <4> QED  BY <4>1, <4>2
    <3>2. F[j] = PiecesOf(o.path, s[o.path].bytes, o.digest)
      BY <2>1, <2>5 DEF TextPieces
    <3>3. written.truncation = "none"
      BY <3>1
    <3>4. written.text = g[k].text \o PiecesOf(o.path, s[o.path].bytes, o.digest)
      <4>1. o.path \in Paths /\ o.digest \in ByteStrings /\ s[o.path].bytes \in ByteStrings
        BY <1>2, <2>1
      <4>2. PICK path \in Paths, before \in ByteStrings, after \in ByteStrings, w \in WriterSet(m) :
              path = o.path /\ before = s[o.path].bytes /\ after = o.digest /\ w = g[k]
        BY <2>3, <4>1
      <4>3. write_output(w, path, before, after).truncation = "none"
        BY <3>3, <4>2
      <4>4. write_output(w, path, before, after).text = w.text \o PiecesOf(path, before, after)
        BY <4>3, OutputWrites
      <4> QED  BY <4>2, <4>4
    <3>5. g[k].text = Flat(F, k)
      BY <1>6, <2>1, <3>1
    <3>6. g[j].text = Flat(F, j)
      <4> HIDE DEF written, o, j, F
      <4> QED  BY <2>4, <3>1, <3>2, <3>4, <3>5
    <3> QED  BY <3>6
  <2>6. CASE ~(o.change # "Unchanged")
    <3>1. g[j] = g[k]
      BY <2>2, <2>6
    <3>2. F[j] = << >>
      BY <2>1, <2>6 DEF TextPieces
    <3>3. g[k].text = Flat(F, k)
      BY <1>6, <2>1, <3>1
    <3>4. Flat(F, k) \o << >> = Flat(F, k)
      BY <2>4, ConcatEmptySeq
    <3> HIDE DEF o, F
    <3> QED  BY <2>4, <3>1, <3>2, <3>3, <3>4
  <2> QED  BY <2>5, <2>6
<1>7. n \in P
  <2> HIDE DEF P
  <2> QED  BY <1>5, <1>6, SetInduction
<1>8. g[n].truncation = "none" /\ n <= n
  BY <1>1
<1>9. g[n].text = Flat(F, n)
  BY <1>7, <1>8
<1> QED  BY <1>1, <1>4, <1>9

\* The members of F[c] stand together in the concatenation, from at + 1 on, and
\* every other position holds a member of another F[d].
Stands(F, n, c, at) ==
  /\ at + Len(F[c]) <= Len(Flat(F, n))
  /\ \A i \in 1 .. Len(F[c]) : Flat(F, n)[at + i] = F[c][i]
  /\ \A j \in 1 .. Len(Flat(F, n)) : j \notin at + 1 .. at + Len(F[c]) =>
       \E d \in (1 .. n) \ {c} : \E i \in 1 .. Len(F[d]) : Flat(F, n)[j] = F[d][i]

\* Every member of a concatenation is a member of one of the sequences.
LEMMA FlatFrom ==
  ASSUME NEW S, NEW n \in Nat, NEW F, Sequences(F, n, S)
  PROVE  \A j \in 1 .. Len(Flat(F, n)) :
           \E d \in 1 .. n : \E i \in 1 .. Len(F[d]) : Flat(F, n)[j] = F[d][i]
<1> DEFINE From(k) == \A j \in 1 .. Len(Flat(F, k)) :
                        \E d \in 1 .. k : \E i \in 1 .. Len(F[d]) : Flat(F, k)[j] = F[d][i]
           P == {k \in Nat : k <= n => From(k)}
<1>1. 0 \in P
  <2>1. Flat(F, 0) = << >>
    BY FlattenNone
  <2>2. Len(<< >>) = 0
    OBVIOUS
  <2>3. From(0)
    BY <2>1, <2>2
  <2> HIDE DEF From
  <2> QED  BY <2>3
<1>2. ASSUME NEW k \in Nat, k \in P
      PROVE  k + 1 \in P
  <2> SUFFICES ASSUME k + 1 <= n
               PROVE  From(k + 1)
    <3> HIDE DEF From
    <3> QED  OBVIOUS
  <2>1. From(k)
    BY <1>2
  <2> DEFINE a == Flat(F, k)
             b == F[k + 1]
             t == Flat(F, k + 1)
  <2>2. a \in Seq(S) /\ b \in Seq(S) /\ t = a \o b
    <3>1. Sequences(F, k + 1, S) /\ k + 1 \in 1 .. n
      BY DEF Sequences
    <3>2. b \in Seq(S)
      BY <3>1 DEF Sequences
    <3> QED  BY <3>1, <3>2, FlattenNext
  <2>3. \A j \in 1 .. Len(a) :
          \E d \in 1 .. k : \E i \in 1 .. Len(F[d]) : a[j] = F[d][i]
    BY <2>1
  <2> SUFFICES ASSUME NEW j \in 1 .. Len(t)
               PROVE  \E d \in 1 .. k + 1 : \E i \in 1 .. Len(F[d]) : t[j] = F[d][i]
    OBVIOUS
  <2> HIDE DEF a, t
  <2>4. /\ Len(t) = Len(a) + Len(b) /\ Len(a) \in Nat /\ Len(b) \in Nat
        /\ t[j] = IF j <= Len(a) THEN a[j] ELSE b[j - Len(a)]
    BY <2>2, ConcatProperties
  <2>5. CASE j <= Len(a)
    <3>1. j \in 1 .. Len(a) /\ t[j] = a[j]
      BY <2>4, <2>5
    <3>2. PICK d \in 1 .. k : \E i \in 1 .. Len(F[d]) : a[j] = F[d][i]
      BY <2>3, <3>1
    <3>3. d \in 1 .. k + 1
      OBVIOUS
    <3> QED  BY <3>1, <3>2, <3>3
  <2>6. CASE ~(j <= Len(a))
    <3>1. j - Len(a) \in 1 .. Len(b) /\ t[j] = b[j - Len(a)]
      BY <2>4, <2>6
    <3>2. k + 1 \in 1 .. k + 1
      OBVIOUS
    <3> QED  BY <3>1, <3>2
  <2> QED  BY <2>5, <2>6
<1>3. n \in P
  <2> HIDE DEF P
  <2> QED  BY <1>1, <1>2, SetInduction
<1>4. From(n)
  <2> HIDE DEF From
  <2> QED  BY <1>3
<1> QED  BY <1>4

\* Each of the sequences stands in the concatenation.
LEMMA FlatStands ==
  ASSUME NEW S, NEW n \in Nat, NEW F, Sequences(F, n, S)
  PROVE  \A c \in 1 .. n : \E at \in Nat : Stands(F, n, c, at)
<1> DEFINE All(k) == \A c \in 1 .. k : \E at \in Nat : Stands(F, k, c, at)
           P == {k \in Nat : k <= n => All(k)}
<1>1. 0 \in P
  OBVIOUS
<1>2. ASSUME NEW k \in Nat, k \in P
      PROVE  k + 1 \in P
  <2> SUFFICES ASSUME k + 1 <= n
               PROVE  All(k + 1)
    <3> HIDE DEF All
    <3> QED  OBVIOUS
  <2>1. All(k)
    <3> HIDE DEF All
    <3> QED  BY <1>2
  <2> DEFINE a == Flat(F, k)
             b == F[k + 1]
             t == Flat(F, k + 1)
  <2>2. a \in Seq(S) /\ b \in Seq(S) /\ t = a \o b /\ Sequences(F, k, S)
    <3>1. Sequences(F, k + 1, S) /\ k + 1 \in 1 .. n /\ Sequences(F, k, S)
      BY DEF Sequences
    <3>2. b \in Seq(S)
      BY <3>1 DEF Sequences
    <3> QED  BY <3>1, <3>2, FlattenNext
  <2>3. \A j \in 1 .. Len(a) :
          \E d \in 1 .. k : \E i \in 1 .. Len(F[d]) : a[j] = F[d][i]
    BY <2>2, FlatFrom
  <2> HIDE DEF a, t
  <2>4. /\ Len(t) = Len(a) + Len(b) /\ Len(a) \in Nat /\ Len(b) \in Nat
        /\ \A j \in 1 .. Len(a) + Len(b) :
             t[j] = IF j <= Len(a) THEN a[j] ELSE b[j - Len(a)]
    BY <2>2, ConcatProperties
  <2> SUFFICES ASSUME NEW c \in 1 .. k + 1
               PROVE  \E at \in Nat : Stands(F, k + 1, c, at)
    OBVIOUS
  <2>5. CASE c = k + 1
    <3> DEFINE at == Len(a)
    <3>1. at + Len(F[c]) <= Len(t)
      BY <2>4, <2>5
    <3>2. \A i \in 1 .. Len(F[c]) : t[at + i] = F[c][i]
      <4> SUFFICES ASSUME NEW i \in 1 .. Len(b)
                   PROVE  t[at + i] = b[i]
        BY <2>5
      <4>1. at + i \in 1 .. Len(a) + Len(b) /\ ~(at + i <= Len(a)) /\ (at + i) - Len(a) = i
        BY <2>4
      <4> QED  BY <2>4, <4>1
    <3>3. ASSUME NEW j \in 1 .. Len(t), j \notin at + 1 .. at + Len(F[c])
          PROVE  \E d \in (1 .. k + 1) \ {c} : \E i \in 1 .. Len(F[d]) : t[j] = F[d][i]
      <4>1. j \in 1 .. Len(a) /\ t[j] = a[j]
        BY <2>4, <2>5, <3>3
      <4>2. PICK d \in 1 .. k : \E i \in 1 .. Len(F[d]) : a[j] = F[d][i]
        BY <2>3, <4>1
      <4>3. d \in (1 .. k + 1) \ {c}
        BY <2>5
      <4> QED  BY <4>1, <4>2, <4>3
    <3>4. Stands(F, k + 1, c, at)
      BY <3>1, <3>2, <3>3 DEF Stands, t
    <3> QED  BY <2>4, <3>4
  <2>6. CASE c # k + 1
    <3>1. c \in 1 .. k
      BY <2>6
    <3>2. PICK at \in Nat : Stands(F, k, c, at)
      BY <2>1, <3>1
    <3>3. /\ at + Len(F[c]) <= Len(a)
          /\ \A i \in 1 .. Len(F[c]) : a[at + i] = F[c][i]
          /\ \A j \in 1 .. Len(a) : j \notin at + 1 .. at + Len(F[c]) =>
               \E d \in (1 .. k) \ {c} : \E i \in 1 .. Len(F[d]) : a[j] = F[d][i]
      BY <3>2 DEF Stands, a
    <3>4. Len(F[c]) \in Nat
      <4>1. F[c] \in Seq(S)
        BY <2>2, <3>1 DEF Sequences
      <4> QED  BY <4>1
    <3>5. at + Len(F[c]) <= Len(t)
      BY <2>4, <3>3, <3>4
    <3>6. ASSUME NEW i \in 1 .. Len(F[c])
          PROVE  t[at + i] = F[c][i]
      <4>1. at + i \in 1 .. Len(a) + Len(b) /\ at + i <= Len(a)
        BY <2>4, <3>3, <3>4
      <4> QED  BY <2>4, <3>3, <4>1
    <3>7. ASSUME NEW j \in 1 .. Len(t), j \notin at + 1 .. at + Len(F[c])
          PROVE  \E d \in (1 .. k + 1) \ {c} : \E i \in 1 .. Len(F[d]) : t[j] = F[d][i]
      <4>1. CASE j <= Len(a)
        <5>1. j \in 1 .. Len(a) /\ t[j] = a[j]
          BY <2>4, <4>1
        <5>2. PICK d \in (1 .. k) \ {c} : \E i \in 1 .. Len(F[d]) : a[j] = F[d][i]
          BY <3>3, <3>7, <5>1
        <5>3. d \in (1 .. k + 1) \ {c}
          OBVIOUS
        <5> QED  BY <5>1, <5>2, <5>3
      <4>2. CASE ~(j <= Len(a))
        <5>1. j - Len(a) \in 1 .. Len(b) /\ t[j] = b[j - Len(a)]
          BY <2>4, <4>2
        <5>2. k + 1 \in (1 .. k + 1) \ {c}
          BY <2>6
        <5> QED  BY <5>1, <5>2
      <4> QED  BY <4>1, <4>2
    <3>8. Stands(F, k + 1, c, at)
      BY <3>5, <3>6, <3>7 DEF Stands, t
    <3> QED  BY <3>8
  <2> QED  BY <2>5, <2>6
<1>3. n \in P
  <2> HIDE DEF P
  <2> QED  BY <1>1, <1>2, SetInduction
<1>4. All(n)
  <2> HIDE DEF All
  <2> QED  BY <1>3
<1> QED  BY <1>4

\* A function on 1 .. m is a sequence of length m.
LEMMA FunctionIsSequence ==
  ASSUME NEW S, NEW m \in Nat, NEW f \in [1 .. m -> S]
  PROVE  f \in Seq(S) /\ Len(f) = m
<1>1. DOMAIN f = 1 .. m
  OBVIOUS
<1>2. f \in Seq(S)
  OBVIOUS
<1>3. \A g, j : j \in Nat /\ DOMAIN g = 1 .. j => Len(g) = j
  OBVIOUS
<1> QED  BY <1>1, <1>2, <1>3

\* Two sequences joined.
LEMMA Joined ==
  ASSUME NEW S, NEW s \in Seq(S), NEW t \in Seq(S), NEW j, j = s \o t
  PROVE  /\ j \in Seq(S) /\ Len(j) = Len(s) + Len(t)
         /\ \A i \in 1 .. Len(s) + Len(t) :
              j[i] = IF i <= Len(s) THEN s[i] ELSE t[i - Len(s)]
BY ConcatProperties

\* x and y agree before and after p .. b and p .. a, and added is what y has there.
Splices(x, y, p, b, a, added) ==
  /\ p <= b /\ b <= Len(x) /\ p <= a /\ a <= Len(y)
  /\ Len(x) - b = Len(y) - a
  /\ \A n \in 1 .. p : x[n] = y[n]
  /\ \A n \in 1 .. Len(x) - b : x[b + n] = y[a + n]
  /\ Len(added) = a - p
  /\ \A n \in 1 .. a - p : added[n] = y[p + n]

\* Old lines around the new ones of a hunk are the new lines.
LEMMA HunkSplices ==
  ASSUME NEW S, NEW x \in Seq(S), NEW y \in Seq(S), NEW p \in Nat, NEW b \in Nat,
         NEW a \in Nat, NEW added \in Seq(S), Splices(x, y, p, b, a, added)
  PROVE  SubSeq(x, 1, p) \o added \o SubSeq(x, b + 1, Len(x)) = y
<1>0. /\ p <= b /\ b <= Len(x) /\ p <= a /\ a <= Len(y)
      /\ Len(x) - b = Len(y) - a
      /\ \A n \in 1 .. p : x[n] = y[n]
      /\ \A n \in 1 .. Len(x) - b : x[b + n] = y[a + n]
      /\ Len(added) = a - p
      /\ \A n \in 1 .. a - p : added[n] = y[p + n]
  BY DEF Splices
<1> DEFINE l == Len(x)
           head == SubSeq(x, 1, p)
           tail == SubSeq(x, b + 1, l)
           front == head \o added
           all == front \o tail
<1>1. l \in Nat /\ Len(y) \in Nat
  OBVIOUS
<1>2. \A i \in 1 .. l : x[i] \in S
  BY ElementOfSeq
<1>3. head \in Seq(S) /\ Len(head) = p /\ \A i \in 1 .. p : head[i] = x[i]
  <2>1. \A i \in 1 .. p : x[i] \in S
    BY <1>0, <1>1, <1>2
  <2>2. /\ head \in Seq(S) /\ Len(head) = IF 1 <= p THEN p - 1 + 1 ELSE 0
        /\ \A i \in 1 .. p - 1 + 1 : head[i] = x[1 + i - 1]
    BY <2>1, SubSeqProperties
  <2> HIDE DEF head
  <2>3. Len(head) = p
    BY <2>2
  <2>4. ASSUME NEW i \in 1 .. p
        PROVE  head[i] = x[i]
    <3>1. i \in 1 .. p - 1 + 1 /\ 1 + i - 1 = i
      OBVIOUS
    <3> QED  BY <2>2, <3>1
  <2> QED  BY <2>2, <2>3, <2>4
<1>4. tail \in Seq(S) /\ Len(tail) = l - b /\ \A i \in 1 .. l - b : tail[i] = x[b + i]
  <2>1. \A i \in b + 1 .. l : x[i] \in S
    BY <1>0, <1>1, <1>2
  <2>2. /\ tail \in Seq(S) /\ Len(tail) = IF b + 1 <= l THEN l - (b + 1) + 1 ELSE 0
        /\ \A i \in 1 .. l - (b + 1) + 1 : tail[i] = x[(b + 1) + i - 1]
    BY <1>0, <1>1, <2>1, SubSeqProperties
  <2> HIDE DEF tail
  <2>3. Len(tail) = l - b
    BY <1>0, <1>1, <2>2
  <2>4. ASSUME NEW i \in 1 .. l - b
        PROVE  tail[i] = x[b + i]
    <3>1. i \in 1 .. l - (b + 1) + 1 /\ (b + 1) + i - 1 = b + i
      BY <1>1
    <3> QED  BY <2>2, <3>1
  <2> QED  BY <2>2, <2>3, <2>4
<1> HIDE DEF head, tail
<1>5. /\ front \in Seq(S) /\ Len(front) = p + (a - p)
      /\ \A i \in 1 .. p + (a - p) :
           front[i] = IF i <= p THEN head[i] ELSE added[i - p]
  <2>1. /\ front \in Seq(S) /\ Len(front) = Len(head) + Len(added)
        /\ \A i \in 1 .. Len(head) + Len(added) :
             front[i] = IF i <= Len(head) THEN head[i] ELSE added[i - Len(head)]
    <3>1. PICK s \in Seq(S), t \in Seq(S) : s = head /\ t = added
      BY <1>3
    <3>2. front = s \o t
      BY <3>1
    <3> HIDE DEF front
    <3>3. /\ front \in Seq(S) /\ Len(front) = Len(s) + Len(t)
          /\ \A i \in 1 .. Len(s) + Len(t) :
               front[i] = IF i <= Len(s) THEN s[i] ELSE t[i - Len(s)]
      BY <3>2, Joined
    <3> QED  BY <3>1, <3>3
  <2> HIDE DEF front
  <2>2. Len(head) = p /\ Len(added) = a - p
    BY <1>0, <1>3
  <2>3. ASSUME NEW i \in 1 .. p + (a - p)
        PROVE  front[i] = IF i <= p THEN head[i] ELSE added[i - p]
    <3>1. i \in 1 .. Len(head) + Len(added)
      BY <2>2
    <3>2. front[i] = IF i <= Len(head) THEN head[i] ELSE added[i - Len(head)]
      BY <2>1, <3>1
    <3> QED  BY <2>2, <3>2
  <2> QED  BY <2>1, <2>2, <2>3
<1> HIDE DEF front
<1>6. /\ all \in Seq(S) /\ Len(all) = Len(front) + (l - b)
      /\ \A i \in 1 .. Len(front) + (l - b) :
           all[i] = IF i <= Len(front) THEN front[i] ELSE tail[i - Len(front)]
  <2>1. /\ all \in Seq(S) /\ Len(all) = Len(front) + Len(tail)
        /\ \A i \in 1 .. Len(front) + Len(tail) :
             all[i] = IF i <= Len(front) THEN front[i] ELSE tail[i - Len(front)]
    <3>1. PICK s \in Seq(S), t \in Seq(S) : s = front /\ t = tail
      BY <1>4, <1>5
    <3>2. all = s \o t
      BY <3>1
    <3> HIDE DEF all
    <3>3. /\ all \in Seq(S) /\ Len(all) = Len(s) + Len(t)
          /\ \A i \in 1 .. Len(s) + Len(t) :
               all[i] = IF i <= Len(s) THEN s[i] ELSE t[i - Len(s)]
      BY <3>2, Joined
    <3> QED  BY <3>1, <3>3
  <2> HIDE DEF all
  <2> QED  BY <1>0, <1>4, <2>1
<1> HIDE DEF all
<1>7. Len(front) = a /\ Len(all) = Len(y)
  BY <1>0, <1>1, <1>5, <1>6 DEF l
<1>8. ASSUME NEW i \in 1 .. Len(all)
      PROVE  all[i] = y[i]
  <2>1. CASE i <= p
    <3>1. all[i] = front[i] /\ front[i] = head[i]
      BY <1>0, <1>1, <1>5, <1>6, <1>7, <2>1
    <3>2. i \in 1 .. p
      BY <2>1
    <3> QED  BY <1>0, <1>3, <3>1, <3>2
  <2>2. CASE ~(i <= p) /\ i <= a
    <3>1. all[i] = front[i] /\ front[i] = added[i - p]
      BY <1>0, <1>1, <1>5, <1>6, <1>7, <2>2
    <3>2. i - p \in 1 .. a - p /\ p + (i - p) = i
      BY <1>0, <2>2
    <3> QED  BY <1>0, <3>1, <3>2
  <2>3. CASE ~(i <= a)
    <3>1. all[i] = tail[i - a]
      BY <1>0, <1>6, <1>7, <2>3
    <3>2. i - a \in 1 .. l - b /\ a + (i - a) = i
      BY <1>0, <1>1, <1>7, <2>3 DEF l
    <3>3. tail[i - a] = x[b + (i - a)]
      BY <1>4, <3>2
    <3>4. x[b + (i - a)] = y[a + (i - a)]
      BY <1>0, <3>2 DEF l
    <3> QED  BY <3>1, <3>2, <3>3, <3>4
  <2> QED  BY <2>1, <2>2, <2>3
<1>9. all = y
  BY <1>6, <1>7, <1>8, SeqEqual
<1> QED  BY <1>9 DEF all, front, head, tail, l

\* The added lines of the hunk turn the old bytes into the new ones.
LEMMA PatchedIsAfter ==
  ASSUME NEW before \in ByteStrings, NEW after \in ByteStrings, NEW hunk,
         IsHunk(hunk, text_lines(before), text_lines(after)),
         NEW added, added = [n \in 1 .. hunk.after_end - hunk.prefix |->
                               text_lines(after)[hunk.prefix + n].full]
  PROVE  Patched(LinesIn(before), hunk, added) = after
<1> DEFINE u == text_lines(before)
           v == text_lines(after)
           x == LinesIn(before)
           y == LinesIn(after)
           p == hunk.prefix
           b == hunk.before_end
           a == hunk.after_end
<1>1. /\ p \in Nat /\ b \in Nat /\ a \in Nat /\ p <= b /\ b <= Len(u) /\ p <= a /\ a <= Len(v)
      /\ Len(u) - b = Len(v) - a
      /\ \A n \in 1 .. p : u[n].full = v[n].full
      /\ \A n \in 1 .. Len(u) - b : u[b + n].full = v[a + n].full
  BY DEF IsHunk, HunkSet
<1>2. u \in Seq(TextLine) /\ v \in Seq(TextLine)
  BY TextLinesType
<1>3. x = [n \in DOMAIN u |-> u[n].full] /\ y = [n \in DOMAIN v |-> v[n].full]
  BY DEF LinesIn
<1> HIDE DEF u, v, x, y
<1>4. \A line \in TextLine : line.full \in ByteStrings
  BY DEF TextLine, ByteStrings
<1>5. /\ Len(u) \in Nat /\ x \in Seq(ByteStrings) /\ Len(x) = Len(u)
      /\ \A n \in 1 .. Len(u) : x[n] = u[n].full
  <2>1. Len(u) \in Nat /\ DOMAIN u = 1 .. Len(u) /\ \A n \in 1 .. Len(u) : u[n] \in TextLine
    BY <1>2
  <2>2. x \in [1 .. Len(u) -> ByteStrings]
    BY <1>3, <1>4, <2>1
  <2> QED  BY <1>3, <2>1, <2>2
<1>6. /\ Len(v) \in Nat /\ y \in Seq(ByteStrings) /\ Len(y) = Len(v)
      /\ \A n \in 1 .. Len(v) : y[n] = v[n].full
  <2>1. Len(v) \in Nat /\ DOMAIN v = 1 .. Len(v) /\ \A n \in 1 .. Len(v) : v[n] \in TextLine
    BY <1>2
  <2>2. y \in [1 .. Len(v) -> ByteStrings]
    BY <1>3, <1>4, <2>1
  <2> QED  BY <1>3, <2>1, <2>2
<1>7. added = [n \in 1 .. a - p |-> v[p + n].full]
  BY DEF v
<1> HIDE DEF p, a, b
<1>8. \A n \in 1 .. a - p : p + n \in 1 .. Len(v) /\ y[p + n] = v[p + n].full
  <2> SUFFICES ASSUME NEW n \in 1 .. a - p
               PROVE  p + n \in 1 .. Len(v)
    BY <1>6
  <2> QED  BY <1>1, <1>6
<1>9. added \in Seq(ByteStrings) /\ Len(added) = a - p /\ \A n \in 1 .. a - p : added[n] = y[p + n]
  <2>1. PICK m \in Nat : m = a - p
    BY <1>1
  <2>2. ASSUME NEW n \in 1 .. m
        PROVE  added[n] = y[p + n] /\ y[p + n] \in ByteStrings
    <3>1. p + n \in 1 .. Len(y) /\ y[p + n] = v[p + n].full
      BY <1>6, <1>8, <2>1
    <3>2. y[p + n] \in ByteStrings
      BY <1>6, <3>1, ElementOfSeq
    <3>3. added[n] = v[p + n].full
      BY <1>7, <2>1
    <3> QED  BY <3>1, <3>2, <3>3
  <2>3. added \in [1 .. m -> ByteStrings]
    <3>1. added = [n \in 1 .. m |-> added[n]]
      BY <1>7, <2>1
    <3>2. \A n \in 1 .. m : added[n] \in ByteStrings
      BY <2>2
    <3> QED  BY <3>1, <3>2
  <2>4. added \in Seq(ByteStrings) /\ Len(added) = m
    BY <2>3, FunctionIsSequence
  <2> QED  BY <2>1, <2>2, <2>4
<1>10. \A n \in 1 .. p : x[n] = y[n]
  BY <1>1, <1>5, <1>6
<1>11. \A n \in 1 .. Len(x) - b : x[b + n] = y[a + n]
  <2> SUFFICES ASSUME NEW n \in 1 .. Len(u) - b
               PROVE  x[b + n] = y[a + n]
    BY <1>5
  <2>1. b + n \in 1 .. Len(u) /\ a + n \in 1 .. Len(v)
    BY <1>1, <1>5, <1>6
  <2>2. u[b + n].full = v[a + n].full
    BY <1>1
  <2> QED  BY <1>5, <1>6, <2>1, <2>2
<1>12. SubSeq(x, 1, p) \o added \o SubSeq(x, b + 1, Len(x)) = y
  <2>1. b <= Len(x) /\ a <= Len(y) /\ Len(x) - b = Len(y) - a
    BY <1>1, <1>5, <1>6
  <2>2. x \in Seq(ByteStrings) /\ y \in Seq(ByteStrings) /\ p \in Nat /\ b \in Nat /\ a \in Nat
        /\ p <= b /\ p <= a
    BY <1>1, <1>5, <1>6
  <2>3. Splices(x, y, p, b, a, added)
    BY <1>9, <1>10, <1>11, <2>1, <2>2 DEF Splices
  <2> QED  BY <1>9, <2>2, <2>3, HunkSplices
<1>13. FlattenSeq(y) = after
  BY LinesFlatten DEF y
<1> QED  BY <1>12, <1>13 DEF Patched, p, a, b, x

\* The pieces of an output: three headers, the removed and the added lines of
\* the hunk h from the lines u to the lines v.
AreOf(pieces, path, h, u, v) ==
  /\ Len(pieces) = 3 + (h.before_end - h.prefix) + (h.after_end - h.prefix)
  /\ pieces[3].sign = "@@" /\ pieces[3].hunk = h
  /\ \A n \in 1 .. h.before_end - h.prefix :
       pieces[3 + n].sign = "-" /\ pieces[3 + n].full = u[h.prefix + n].full
  /\ \A n \in 1 .. h.after_end - h.prefix :
       LET piece == pieces[3 + (h.before_end - h.prefix) + n]
       IN  piece.sign = "+" /\ piece.full = v[h.prefix + n].full
  /\ \A i \in 1 .. Len(pieces) : pieces[i].path = path

\* The lines after p and up to e, with a sign.
AreSigned(signed, sign, path, lines, p, e) ==
  /\ signed \in Seq(DiffPieces) /\ Len(signed) = e - p
  /\ \A n \in 1 .. e - p :
       /\ signed[n].sign = sign /\ signed[n].path = path
       /\ signed[n].full = lines[p + n].full

\* Signed lines keep their number and bytes.
LEMMA SignedLinesAre ==
  ASSUME NEW sign \in Signs, NEW path \in Paths, NEW lines \in Seq(TextLine),
         NEW p \in Nat, NEW e \in Nat, p <= e, e <= Len(lines),
         NEW signed, signed = SignedLines(sign, path, SubSeq(lines, p + 1, e))
  PROVE  AreSigned(signed, sign, path, lines, p, e)
<1> DEFINE part == SubSeq(lines, p + 1, e)
<1>0. signed = SignedLines(sign, path, part)
  OBVIOUS
<1>1. \A i \in p + 1 .. e : lines[i] \in TextLine
  BY ElementOfSeq
<1>2. /\ part \in Seq(TextLine)
      /\ Len(part) = IF p + 1 <= e THEN e - (p + 1) + 1 ELSE 0
      /\ \A i \in 1 .. e - (p + 1) + 1 : part[i] = lines[(p + 1) + i - 1]
  BY <1>1, SubSeqProperties
<1>3. signed \in Seq(DiffPieces)
  BY <1>0, SignedLinesType
<1> HIDE DEF part
<1>4. Len(part) = e - p
  BY <1>2
<1>5. DOMAIN signed = 1 .. e - p
  <2>1. DOMAIN part = 1 .. Len(part)
    BY <1>2
  <2> QED  BY <1>0, <1>4, <2>1 DEF SignedLines
<1>6. \A n \in 1 .. e - p : signed[n] = LinePiece(sign, path, part[n])
  BY <1>0, <1>5 DEF SignedLines
<1>7. Len(signed) = e - p
  <2>1. PICK m \in Nat : m = e - p
    OBVIOUS
  <2>2. \A g, j : j \in Nat /\ DOMAIN g = 1 .. j => Len(g) = j
    OBVIOUS
  <2> QED  BY <1>5, <2>1, <2>2
<1>8. ASSUME NEW n \in 1 .. e - p
      PROVE  /\ signed[n].sign = sign /\ signed[n].path = path
             /\ signed[n].full = lines[p + n].full
  <2>1. n \in 1 .. e - (p + 1) + 1 /\ (p + 1) + n - 1 = p + n
    OBVIOUS
  <2>2. part[n] = lines[p + n]
    BY <1>2, <2>1
  <2>3. \A line : /\ LinePiece(sign, path, line).sign = sign
                  /\ LinePiece(sign, path, line).path = path
                  /\ LinePiece(sign, path, line).full = line.full
    BY DEF LinePiece
  <2> QED  BY <1>6, <2>2, <2>3
<1> QED  BY <1>3, <1>7, <1>8 DEF AreSigned

\* What is written of an output are the lines of its hunk.
LEMMA PiecesAre ==
  ASSUME NEW path \in Paths, NEW before \in ByteStrings, NEW after \in ByteStrings
  PROVE  LET u == text_lines(before)
             v == text_lines(after)
         IN  /\ IsHunk(Hunk(u, v), u, v)
             /\ AreOf(PiecesOf(path, before, after), path, Hunk(u, v), u, v)
<1> DEFINE u == text_lines(before)
           v == text_lines(after)
           h == Hunk(u, v)
           headers == [k \in 1 .. 3 |-> HeaderPiece(<<"---", "+++", "@@">>[k], path, h)]
           r == h.before_end - h.prefix
           d == h.after_end - h.prefix
           removed == SignedLines("-", path, SubSeq(u, h.prefix + 1, h.before_end))
           added == SignedLines("+", path, SubSeq(v, h.prefix + 1, h.after_end))
           front == headers \o removed
           pieces == PiecesOf(path, before, after)
<1>1. u \in Seq(TextLine) /\ v \in Seq(TextLine)
  BY TextLinesType
<1>2. pieces = front \o added
  BY DEF PiecesOf, HunkPieces
<1> HIDE DEF pieces, u, v
<1>3. IsHunk(h, u, v)
  BY <1>1, HunkMeans
<1> HIDE DEF h
<1>4. /\ h \in HunkSet /\ h.prefix \in Nat /\ h.before_end \in Nat /\ h.after_end \in Nat
      /\ h.prefix <= h.before_end /\ h.before_end <= Len(u)
      /\ h.prefix <= h.after_end /\ h.after_end <= Len(v)
  BY <1>3 DEF IsHunk, HunkSet
<1>5. /\ headers \in Seq(DiffPieces) /\ Len(headers) = 3
      /\ headers[3].sign = "@@" /\ headers[3].hunk = h
      /\ \A k \in 1 .. 3 : headers[k].path = path
  <2>1. ASSUME NEW sign \in Signs
        PROVE  HeaderPiece(sign, path, h) \in DiffPieces
    <3>1. PICK a \in Signs \X Paths \X HunkSet : a = <<sign, path, h>>
      BY <1>4
    <3>2. HeaderPiece(sign, path, h) = HeaderPiece(a[1], a[2], a[3])
      BY <3>1
    <3> QED  BY <3>2 DEF DiffPieces, HeaderPieces
  <2>2. \A k \in 1 .. 3 : <<"---", "+++", "@@">>[k] \in Signs
    BY DEF Signs
  <2>3. headers \in [1 .. 3 -> DiffPieces]
    BY <2>1, <2>2
  <2>4. \A k \in 1 .. 3 : headers[k] = HeaderPiece(<<"---", "+++", "@@">>[k], path, h)
    OBVIOUS
  <2> HIDE DEF headers
  <2>5. headers \in Seq(DiffPieces) /\ Len(headers) = 3
    <3>1. PICK m \in Nat : m = 3
      OBVIOUS
    <3> QED  BY <2>3, <3>1, FunctionIsSequence
  <2>6. \A sign : HeaderPiece(sign, path, h).path = path
                  /\ HeaderPiece(sign, path, h).sign = sign
                  /\ HeaderPiece(sign, path, h).hunk = h
    BY DEF HeaderPiece
  <2>7. <<"---", "+++", "@@">>[3] = "@@" /\ 3 \in 1 .. 3
    OBVIOUS
  <2>8. headers[3] = HeaderPiece("@@", path, h)
    BY <2>4, <2>7
  <2> QED  BY <2>4, <2>5, <2>6, <2>8
<1>6. /\ removed \in Seq(DiffPieces) /\ Len(removed) = r
      /\ \A n \in 1 .. r : /\ removed[n].sign = "-" /\ removed[n].path = path
                           /\ removed[n].full = u[h.prefix + n].full
  <2>1. PICK sign \in Signs, p \in Nat, e \in Nat :
          sign = "-" /\ p = h.prefix /\ e = h.before_end /\ p <= e /\ e <= Len(u)
    BY <1>4 DEF Signs
  <2>2. PICK signed : signed = SignedLines(sign, path, SubSeq(u, p + 1, e))
    OBVIOUS
  <2>3. removed = signed
    BY <2>1, <2>2
  <2> HIDE DEF removed
  <2>4. AreSigned(signed, sign, path, u, p, e)
    BY <1>1, <2>1, <2>2, SignedLinesAre
  <2>5. r = e - p
    BY <2>1
  <2> HIDE DEF r
  <2>6. ASSUME NEW n \in 1 .. r
        PROVE  /\ removed[n].sign = "-" /\ removed[n].path = path
               /\ removed[n].full = u[h.prefix + n].full
    <3>1. h.prefix + n = p + n /\ n \in 1 .. e - p
      BY <2>1, <2>5
    <3> QED  BY <2>1, <2>3, <2>4, <3>1 DEF AreSigned
  <2> QED  BY <2>3, <2>4, <2>5, <2>6 DEF AreSigned
<1>7. /\ added \in Seq(DiffPieces) /\ Len(added) = d
      /\ \A n \in 1 .. d : /\ added[n].sign = "+" /\ added[n].path = path
                           /\ added[n].full = v[h.prefix + n].full
  <2>1. PICK sign \in Signs, p \in Nat, e \in Nat :
          sign = "+" /\ p = h.prefix /\ e = h.after_end /\ p <= e /\ e <= Len(v)
    BY <1>4 DEF Signs
  <2>2. PICK signed : signed = SignedLines(sign, path, SubSeq(v, p + 1, e))
    OBVIOUS
  <2>3. added = signed
    BY <2>1, <2>2
  <2> HIDE DEF added
  <2>4. AreSigned(signed, sign, path, v, p, e)
    BY <1>1, <2>1, <2>2, SignedLinesAre
  <2>5. d = e - p
    BY <2>1
  <2> HIDE DEF d
  <2>6. ASSUME NEW n \in 1 .. d
        PROVE  /\ added[n].sign = "+" /\ added[n].path = path
               /\ added[n].full = v[h.prefix + n].full
    <3>1. h.prefix + n = p + n /\ n \in 1 .. e - p
      BY <2>1, <2>5
    <3> QED  BY <2>1, <2>3, <2>4, <3>1 DEF AreSigned
  <2> QED  BY <2>3, <2>4, <2>5, <2>6 DEF AreSigned
<1>8. r \in Nat /\ d \in Nat
  BY <1>4
<1> HIDE DEF headers, removed, added
<1>9. /\ front \in Seq(DiffPieces) /\ Len(front) = Len(headers) + Len(removed)
      /\ \A i \in 1 .. Len(headers) + Len(removed) :
           front[i] = IF i <= Len(headers) THEN headers[i] ELSE removed[i - Len(headers)]
  <2>1. PICK s \in Seq(DiffPieces), t \in Seq(DiffPieces) : s = headers /\ t = removed
    BY <1>5, <1>6
  <2>2. front = s \o t
    BY <2>1
  <2> HIDE DEF front
  <2>3. /\ front \in Seq(DiffPieces) /\ Len(front) = Len(s) + Len(t)
        /\ \A i \in 1 .. Len(s) + Len(t) :
             front[i] = IF i <= Len(s) THEN s[i] ELSE t[i - Len(s)]
    BY <2>2, Joined
  <2> QED  BY <2>1, <2>3
<1> HIDE DEF front
<1>10. /\ Len(pieces) = Len(front) + Len(added)
       /\ \A i \in 1 .. Len(front) + Len(added) :
            pieces[i] = IF i <= Len(front) THEN front[i] ELSE added[i - Len(front)]
  <2>1. PICK s \in Seq(DiffPieces), t \in Seq(DiffPieces) : s = front /\ t = added
    BY <1>7, <1>9
  <2>2. pieces = s \o t
    BY <1>2, <2>1
  <2>3. /\ Len(pieces) = Len(s) + Len(t)
        /\ \A i \in 1 .. Len(s) + Len(t) :
             pieces[i] = IF i <= Len(s) THEN s[i] ELSE t[i - Len(s)]
    BY <2>2, Joined
  <2> QED  BY <2>1, <2>3
<1> HIDE DEF r, d
<1>11. Len(front) = 3 + r /\ Len(pieces) = 3 + r + d
  BY <1>5, <1>6, <1>7, <1>9, <1>10
<1>12. \A i \in 1 .. 3 : pieces[i] = headers[i]
  <2> SUFFICES ASSUME NEW i \in 1 .. 3
               PROVE  pieces[i] = headers[i]
    OBVIOUS
  <2>1. i \in 1 .. 3 + r + d /\ i <= 3 + r /\ i \in 1 .. 3 + r
    BY <1>8
  <2> QED  BY <1>5, <1>6, <1>7, <1>9, <1>10, <1>11, <2>1
<1>13. \A n \in 1 .. r : pieces[3 + n] = removed[n]
  <2> SUFFICES ASSUME NEW n \in 1 .. r
               PROVE  pieces[3 + n] = removed[n]
    OBVIOUS
  <2>1. 3 + n \in 1 .. 3 + r + d /\ 3 + n <= 3 + r /\ 3 + n \in 1 .. 3 + r
        /\ ~(3 + n <= 3) /\ (3 + n) - 3 = n
    BY <1>8
  <2> QED  BY <1>5, <1>6, <1>7, <1>9, <1>10, <1>11, <2>1
<1>14. \A n \in 1 .. d : pieces[3 + r + n] = added[n]
  <2> SUFFICES ASSUME NEW n \in 1 .. d
               PROVE  pieces[3 + r + n] = added[n]
    OBVIOUS
  <2>1. 3 + r + n \in 1 .. 3 + r + d /\ ~(3 + r + n <= 3 + r) /\ (3 + r + n) - (3 + r) = n
    BY <1>8
  <2> QED  BY <1>7, <1>10, <1>11, <2>1
<1>15. ASSUME NEW i \in 1 .. Len(pieces)
       PROVE  pieces[i].path = path
  <2>1. CASE i \in 1 .. 3
    BY <1>5, <1>12, <2>1
  <2>2. CASE i \in 4 .. 3 + r
    <3>1. i - 3 \in 1 .. r /\ 3 + (i - 3) = i
      BY <1>8, <2>2
    <3>2. pieces[i] = removed[i - 3]
      BY <1>13, <3>1
    <3> QED  BY <1>6, <3>1, <3>2
  <2>3. CASE i \in 4 + r .. 3 + r + d
    <3>1. i - (3 + r) \in 1 .. d /\ 3 + r + (i - (3 + r)) = i
      BY <1>8, <2>3
    <3>2. pieces[i] = added[i - (3 + r)]
      BY <1>14, <3>1
    <3> QED  BY <1>7, <3>1, <3>2
  <2> QED  BY <1>8, <1>11, <2>1, <2>2, <2>3
<1>16. pieces[3].sign = "@@" /\ pieces[3].hunk = h
  <2>1. pieces[3] = headers[3]
    BY <1>12
  <2> QED  BY <1>5, <2>1
<1>17. AreOf(pieces, path, h, u, v)
  BY <1>6, <1>7, <1>11, <1>13, <1>14, <1>15, <1>16 DEF AreOf, r, d
<1> QED  BY <1>3, <1>17 DEF pieces, h, u, v

\* No two outputs of a plan have the same path.
LEMMA OutputsDiffer ==
  ASSUME NEW p, NEW s \in Snapshots, NEW r, NEW n, PlanParts(p, s, r, n)
  PROVE  \A j, k \in DOMAIN p.outputs : p.outputs[j].path = p.outputs[k].path => j = k
<1> DEFINE paths == InOrder(OutputPaths(r))
<1>1. p.outputs = OutputsOf(s, r) /\ IsBatch(r, s, n)
  BY DEF PlanParts
<1>2. OutputPaths(r) \subseteq Nat /\ IsFiniteSet(OutputPaths(r))
  BY <1>1, OutputList, RequestsAssumption
<1>3. Lists(paths, Ascending, OutputPaths(r))
  BY <1>2, NumbersInOrder
<1>4. p.outputs = [k \in DOMAIN paths |-> PlannedOutput(s, r, paths[k])]
  BY <1>1 DEF OutputsOf
<1>5. \A path : PlannedOutput(s, r, path).path = path
  BY DEF PlannedOutput
<1> HIDE DEF paths
<1>6. DOMAIN p.outputs = DOMAIN paths
      /\ \A k \in DOMAIN paths : p.outputs[k].path = paths[k]
  BY <1>4, <1>5
<1>7. \A j, k \in DOMAIN paths : paths[j] = paths[k] => j = k
  <2>1. SUFFICES ASSUME NEW j \in DOMAIN paths, NEW k \in DOMAIN paths,
                        paths[j] = paths[k], j # k
                 PROVE  FALSE
    OBVIOUS
  <2>2. DOMAIN paths \subseteq Nat
    BY <1>3 DEF Lists
  <2>3. j < k \/ k < j
    BY <2>1, <2>2
  <2>4. << paths[j], paths[j] >> \in Ascending
    BY <1>3, <2>1, <2>3 DEF Lists
  <2> QED  BY <2>4 DEF Ascending
<1> QED  BY <1>6, <1>7

\* The text of a writer that was not truncated describes every changed output.
LEMMA TextDescribes ==
  ASSUME snapshot \in Snapshots, NEW outputs, NEW n \in Nat, Len(outputs) = n,
         DOMAIN outputs = 1 .. n, Writable(outputs),
         \A j, k \in 1 .. n : outputs[j].path = outputs[k].path => j = k,
         NEW m \in Nat, Written(outputs, snapshot, m).truncation = "none",
         NEW text, text = Written(outputs, snapshot, m).text,
         NEW c \in 1 .. n, outputs[c].change # "Unchanged"
  PROVE  DescribedIn(text, outputs[c].path, snapshot[outputs[c].path].bytes,
                     outputs[c].digest)
<1> DEFINE F == TextPieces(outputs, snapshot)
           Older(k) == snapshot[outputs[k].path].bytes
           Newer(k) == outputs[k].digest
           u == text_lines(Older(c))
           v == text_lines(Newer(c))
           h == Hunk(u, v)
           path == outputs[c].path
           L == Len(F[c])
           r == h.before_end - h.prefix
           d == h.after_end - h.prefix
           here == {i \in DOMAIN text : text[i].path = path}
<1>1. Sequences(F, n, DiffPieces) /\ text = Flat(F, n)
  BY TextIsComplete
<1>2. \A k \in 1 .. n : F[k] = IF outputs[k].change # "Unchanged"
                               THEN PiecesOf(outputs[k].path, Older(k), Newer(k))
                               ELSE << >>
  BY DEF TextPieces
<1> HIDE DEF F
<1>3. ASSUME NEW k \in 1 .. n
      PROVE  outputs[k].path \in Paths /\ Newer(k) \in ByteStrings /\ Older(k) \in ByteStrings
  <2>1. outputs[k].path \in Paths /\ outputs[k].digest \in ByteStrings
    BY DEF Writable
  <2> QED  BY <2>1, FileBytes
<1> HIDE DEF Older, Newer
<1>4. ASSUME NEW k \in 1 .. n, NEW i \in 1 .. Len(F[k])
      PROVE  F[k][i].path = outputs[k].path
  <2>1. CASE outputs[k].change # "Unchanged"
    <3>1. F[k] = PiecesOf(outputs[k].path, Older(k), Newer(k))
      BY <1>2, <2>1
    <3>2. PICK q \in Paths, b \in ByteStrings, a \in ByteStrings :
            q = outputs[k].path /\ b = Older(k) /\ a = Newer(k)
      BY <1>3
    <3>3. AreOf(PiecesOf(q, b, a), q, Hunk(text_lines(b), text_lines(a)),
                text_lines(b), text_lines(a))
      BY PiecesAre
    <3>4. \A j \in 1 .. Len(PiecesOf(q, b, a)) : PiecesOf(q, b, a)[j].path = q
      BY <3>3 DEF AreOf
    <3> QED  BY <3>1, <3>2, <3>4
  <2>2. CASE ~(outputs[k].change # "Unchanged")
    <3>1. F[k] = << >>
      BY <1>2, <2>2
    <3>2. Len(<< >>) = 0
      OBVIOUS
    <3>3. i \in 1 .. 0
      BY <3>1, <3>2
    <3> QED  BY <3>3
  <2> QED  BY <2>1, <2>2
<1>5. AreOf(F[c], path, h, u, v) /\ IsHunk(h, u, v)
  <2>1. PICK q \in Paths, b \in ByteStrings, a \in ByteStrings :
          q = path /\ b = Older(c) /\ a = Newer(c)
    BY <1>3
  <2>2. /\ AreOf(PiecesOf(q, b, a), q, Hunk(text_lines(b), text_lines(a)),
                 text_lines(b), text_lines(a))
        /\ IsHunk(Hunk(text_lines(b), text_lines(a)), text_lines(b), text_lines(a))
    BY PiecesAre
  <2>3. F[c] = PiecesOf(q, b, a)
    BY <1>2, <2>1
  <2> QED  BY <2>1, <2>2, <2>3
<1>6. PICK at \in Nat : Stands(F, n, c, at)
  BY <1>1, FlatStands
<1>7. text \in Seq(DiffPieces) /\ DOMAIN text = 1 .. Len(text) /\ Len(text) \in Nat
  <2>1. text \in Seq(DiffPieces)
    BY <1>1, FlattenType
  <2> HIDE DEF here
  <2> QED  BY <2>1
<1>8. /\ at + L <= Len(text)
      /\ \A i \in 1 .. L : text[at + i] = F[c][i]
      /\ \A j \in 1 .. Len(text) : j \notin at + 1 .. at + L =>
           \E e \in (1 .. n) \ {c} : \E i \in 1 .. Len(F[e]) : text[j] = F[e][i]
  BY <1>1, <1>6 DEF Stands
<1> HIDE DEF h, u, v
<1>9. /\ r \in Nat /\ d \in Nat
  <2>1. /\ h.prefix \in Nat /\ h.before_end \in Nat /\ h.after_end \in Nat
        /\ h.prefix <= h.before_end /\ h.prefix <= h.after_end
    BY <1>5 DEF IsHunk, HunkSet
  <2> QED  BY <2>1
<1>10. /\ L = 3 + r + d /\ F[c][3].sign = "@@" /\ F[c][3].hunk = h
       /\ \A i \in 1 .. r :
            F[c][3 + i].sign = "-" /\ F[c][3 + i].full = u[h.prefix + i].full
       /\ \A i \in 1 .. d : /\ F[c][3 + r + i].sign = "+"
                            /\ F[c][3 + r + i].full = v[h.prefix + i].full
       /\ \A i \in 1 .. L : F[c][i].path = path
  BY <1>5 DEF AreOf
<1> HIDE DEF L, r, d
<1>11. here = at + 1 .. at + L
  <2>1. ASSUME NEW j \in 1 .. Len(text), j \notin at + 1 .. at + L
        PROVE  text[j].path # path
    <3>1. PICK e \in (1 .. n) \ {c} : \E i \in 1 .. Len(F[e]) : text[j] = F[e][i]
      BY <1>8, <2>1
    <3>2. PICK i \in 1 .. Len(F[e]) : text[j] = F[e][i]
      BY <3>1
    <3>3. text[j].path = outputs[e].path
      BY <1>4, <3>1, <3>2
    <3>4. outputs[e].path # outputs[c].path
      BY <3>1
    <3> QED  BY <3>3, <3>4
  <2>2. ASSUME NEW j \in at + 1 .. at + L
        PROVE  j \in 1 .. Len(text) /\ text[j].path = path
    <3>1. j - at \in 1 .. L /\ at + (j - at) = j /\ j \in 1 .. Len(text)
      BY <1>7, <1>8, <1>9, <1>10
    <3>2. text[j] = F[c][j - at] /\ F[c][j - at].path = path
      BY <1>8, <1>10, <3>1
    <3> QED  BY <3>1, <3>2
  <2> HIDE DEF path
  <2> QED  BY <1>7, <2>1, <2>2
<1> HIDE DEF here
<1> DEFINE first == at + 1
           last == at + L
<1>12. first \in here /\ last \in here
  <2>1. first \in at + 1 .. at + L /\ last \in at + 1 .. at + L
    BY <1>9, <1>10
  <2> QED  BY <1>11, <2>1
<1>13. \A i \in 1 .. L : text[at + i] = F[c][i]
  BY <1>8
<1>14. text[first + 2] = F[c][3]
  <2>1. 3 \in 1 .. L /\ first + 2 = at + 3
    BY <1>9, <1>10
  <2> QED  BY <1>13, <2>1
<1>15. \A i \in 1 .. r : text[first + 2 + i] = F[c][3 + i]
  <2> SUFFICES ASSUME NEW i \in 1 .. r
               PROVE  text[first + 2 + i] = F[c][3 + i]
    OBVIOUS
  <2>1. 3 + i \in 1 .. L /\ first + 2 + i = at + (3 + i)
    BY <1>9, <1>10
  <2> QED  BY <1>13, <2>1
<1>16. \A i \in 1 .. d : text[first + 2 + r + i] = F[c][3 + r + i]
  <2> SUFFICES ASSUME NEW i \in 1 .. d
               PROVE  text[first + 2 + r + i] = F[c][3 + r + i]
    OBVIOUS
  <2>1. 3 + r + i \in 1 .. L /\ first + 2 + r + i = at + (3 + r + i)
    BY <1>9, <1>10
  <2> QED  BY <1>13, <2>1
<1>17. first + 2 <= last /\ last = first + 2 + r + d
  BY <1>9, <1>10
<1>18. LinesIn(Older(c)) = [i \in DOMAIN u |-> u[i].full]
  BY DEF LinesIn, u
<1> HIDE DEF first, last
<1> DEFINE added == [i \in 1 .. d |-> text[first + 2 + r + i].full]
<1>19. Patched(LinesIn(Older(c)), h, added) = Newer(c)
  <2>1. added = [i \in 1 .. d |-> v[h.prefix + i].full]
    BY <1>10, <1>16
  <2> HIDE DEF added
  <2>2. added = [i \in 1 .. h.after_end - h.prefix |-> text_lines(Newer(c))[h.prefix + i].full]
    BY <2>1 DEF d, v
  <2>3. IsHunk(h, text_lines(Older(c)), text_lines(Newer(c)))
    BY <1>5 DEF u, v
  <2> QED  BY <1>3, <2>2, <2>3, PatchedIsAfter
<1>20. \A i \in 1 .. r : LinesIn(Older(c))[h.prefix + i] = u[h.prefix + i].full
  <2>1. Len(u) \in Nat /\ DOMAIN u = 1 .. Len(u)
    <3>1. u \in Seq(TextLine)
      BY <1>3, TextLinesType DEF u
    <3> QED  BY <3>1
  <2>2. h.prefix \in Nat /\ h.before_end \in Nat /\ h.before_end <= Len(u)
    BY <1>5 DEF IsHunk, HunkSet
  <2>3. \A i \in 1 .. r : h.prefix + i \in DOMAIN u
    BY <2>1, <2>2 DEF r
  <2> QED  BY <1>18, <2>3
<1>21. Describes(text, first, last, Older(c), Newer(c))
  <2>1. /\ text[first + 2].hunk = h /\ text[first + 2].sign = "@@"
    BY <1>10, <1>14
  <2>2. \A i \in 1 .. r : /\ text[first + 2 + i].sign = "-"
                          /\ text[first + 2 + i].full = LinesIn(Older(c))[h.prefix + i]
    BY <1>10, <1>15, <1>20
  <2>3. \A i \in 1 .. d : text[first + 2 + r + i].sign = "+"
    BY <1>10, <1>16
  <2> HIDE DEF added
  <2> QED  BY <1>17, <1>18, <1>19, <2>1, <2>2, <2>3 DEF Describes, added, r, d, u
<1>22. here = first .. last
  BY <1>11 DEF first, last
<1>23. \E f, l \in here : here = f .. l /\ Describes(text, f, l, Older(c), Newer(c))
  BY <1>12, <1>21, <1>22
<1> QED  BY <1>23 DEF here, DescribedIn, Older, Newer

\* A text diff without a reason for a truncation describes every changed output.
LEMMA DiffDescribes ==
  ASSUME PlanInv, planned.ok, NEW no_diff \in BOOLEAN, NEW include_summary \in BOOLEAN,
         NEW base \in BaseSizes, NEW diff, diff = build_diff(no_diff, include_summary, base),
         diff.kind = "text", diff.reason = "none",
         NEW c \in DOMAIN planned.outputs, planned.outputs[c].change # "Unchanged"
  PROVE  LET output == planned.outputs[c]
         IN  DescribedIn(diff.text, output.path, OriginalBytes(output.path), output.digest)
<1> DEFINE m == MaximumDiffBytes(base, include_summary)
           outputs == planned.outputs
           w == Written(outputs, snapshot, m)
           changed == {k \in DOMAIN outputs : outputs[k].change # "Unchanged"}
           large == \E k \in changed :
                      \/ Len(OriginalBytes(outputs[k].path)) > DETAILED_DIFF_INPUT_BYTES
                      \/ outputs[k].length > DETAILED_DIFF_INPUT_BYTES
           binary == \E k \in changed :
                       \/ is_binary(OriginalBytes(outputs[k].path))
                       \/ is_binary(outputs[k].digest)
<1>1. diff = IF no_diff THEN Diff("omitted", << >>, "none")
             ELSE IF changed = {} THEN Diff("text", << >>, "none")
             ELSE IF large THEN Diff("summary", << >>, "detailed_input_limit")
             ELSE IF binary THEN Diff("binary", << >>, "binary_content")
             ELSE IF m < 0 THEN Diff("refused", << >>, "resource_limit_exceeded")
             ELSE Diff("text", w.text, diff_truncation_reason(w.truncation, m))
  BY DEF build_diff, Written, OriginalBytes
<1>2. changed # {}
  OBVIOUS
<1>3. \A kind, text, reason : /\ Diff(kind, text, reason).kind = kind
                              /\ Diff(kind, text, reason).text = text
                              /\ Diff(kind, text, reason).reason = reason
  BY DEF Diff
<1>4. m \in Int
  <2>1. TruncationBytes("response_budget") \in Nat
    BY ReasonsFit
  <2>2. base \in Nat /\ MAX_RESPONSE_BYTES \in Nat /\ DIFF_OUTPUT_BYTES \in Nat
    BY ResponseLimitsAssumption
  <2> QED  BY <2>1, <2>2 DEF MaximumDiffBytes, ReservedBytes
<1> HIDE DEF changed, large, binary, m, w
<1>5. ~(m < 0) /\ diff = Diff("text", w.text, diff_truncation_reason(w.truncation, m))
  BY <1>1, <1>2, <1>3
<1>6. m \in Nat
  BY <1>4, <1>5
<1>7. diff.text = w.text /\ w.truncation = "none"
  <2>1. diff.text = w.text /\ diff_truncation_reason(w.truncation, m) = "none"
    BY <1>3, <1>5
  <2> QED  BY <2>1 DEF diff_truncation_reason
<1>8. snapshot \in Snapshots /\ Writable(outputs)
      /\ \E n \in Nat : Len(outputs) = n /\ DOMAIN outputs = 1 .. n
  BY PlannedWritable
<1>9. PICK n \in Nat : Len(outputs) = n /\ DOMAIN outputs = 1 .. n
  BY <1>8
<1>10. \A j, k \in 1 .. n : outputs[j].path = outputs[k].path => j = k
  <2>1. batch \in Seq(Operations) /\ planned = plan(snapshot, batch)
    <3>1. ~Nothing.ok
      BY DEF Nothing
    <3> QED  BY <3>1 DEF PlanInv
  <2>2. PlanParts(planned, snapshot, ResolvedAll(snapshot, batch), Len(batch))
    BY <1>8, <2>1, PartsOfPlan
  <2> QED  BY <1>8, <1>9, <2>2, OutputsDiffer
<1>11. Written(outputs, snapshot, m).truncation = "none"
       /\ diff.text = Written(outputs, snapshot, m).text
  BY <1>7 DEF w
<1>12. c \in 1 .. n /\ outputs[c].change # "Unchanged"
  BY <1>9
<1>13. DescribedIn(diff.text, outputs[c].path, snapshot[outputs[c].path].bytes,
                   outputs[c].digest)
  <2> HIDE DEF outputs
  <2> QED  BY <1>6, <1>8, <1>9, <1>10, <1>11, <1>12, TextDescribes
<1> QED  BY <1>13 DEF OriginalBytes

\* The invariant that a preview satisfies from the step that builds it.
DiffInv == PlanInv /\ DiffReconstructs

\* Every step keeps it.
LEMMA NextDiff == DiffInv /\ [Next]_vars => DiffInv'
<1> SUFFICES ASSUME DiffInv, [Next]_vars
             PROVE  DiffInv'
  OBVIOUS
<1>1. PlanInv /\ DiffReconstructs /\ PlanInv'
  BY NextPlan DEF DiffInv
<1>2. CASE AddOperation
  <2>1. preview' = << >>
    BY <1>1, <1>2 DEF AddOperation, PlanInv, Nothing
  <2> QED  BY <1>1, <2>1 DEF DiffInv, DiffReconstructs
<1>3. CASE PlanBatch
  <2>1. preview' = << >>
    BY <1>1, <1>3 DEF PlanBatch, PlanInv, Nothing
  <2> QED  BY <1>1, <2>1 DEF DiffInv, DiffReconstructs
<1>4. CASE build_preview
  <2>1. planned.ok /\ planned' = planned /\ snapshot' = snapshot
    BY <1>4 DEF build_preview
  <2>2. PICK no_diff \in BOOLEAN, include_summary \in BOOLEAN, base \in BaseSizes :
          preview'.diff = build_diff(no_diff, include_summary, base)
    <3>1. PICK no_diff \in BOOLEAN, include_summary \in BOOLEAN, base \in BaseSizes :
            \E diff \in {build_diff(no_diff, include_summary, base)} :
              preview' = [include_summary |-> include_summary,
                          review |-> build_review_summary, diff |-> diff,
                          bytes |-> ResponseBytes(base, diff),
                          complete |-> enforce_complete_summary_response(
                                         include_summary, base, diff)]
      BY <1>4 DEF build_preview
    <3>2. PICK diff : /\ diff = build_diff(no_diff, include_summary, base)
                      /\ preview' = [include_summary |-> include_summary,
                           review |-> build_review_summary, diff |-> diff,
                           bytes |-> ResponseBytes(base, diff),
                           complete |-> enforce_complete_summary_response(
                                          include_summary, base, diff)]
      BY <3>1
    <3> QED  BY <3>2
  <2>3. PICK diff : diff = build_diff(no_diff, include_summary, base)
    OBVIOUS
  <2>4. preview'.diff = diff
    BY <2>2, <2>3
  <2>5. ASSUME diff.kind = "text", diff.reason = "none",
               NEW c \in DOMAIN planned.outputs, planned.outputs[c].change # "Unchanged"
        PROVE  LET output == planned.outputs[c]
               IN  DescribedIn(diff.text, output.path, OriginalBytes(output.path),
                               output.digest)
    BY <1>1, <2>1, <2>3, <2>5, DiffDescribes
  <2>6. DiffReconstructs'
    BY <2>1, <2>4, <2>5 DEF DiffReconstructs, OriginalBytes
  <2> QED  BY <1>1, <2>6 DEF DiffInv
<1>5. CASE UNCHANGED vars
  <2>1. preview' = preview /\ planned' = planned /\ snapshot' = snapshot
    BY <1>5 DEF vars
  <2> QED  BY <1>1, <2>1 DEF DiffInv, DiffReconstructs, OriginalBytes
<1> QED  BY <1>2, <1>3, <1>4, <1>5 DEF Next

\* A text diff that is not truncated describes every changed file: its header,
\* its removed and its added lines turn the old bytes into the new ones
\* (DiffWriter::write_output, push, diff_truncation_reason).
THEOREM DiffsReconstruct == Spec => []DiffReconstructs
<1>1. Init => DiffInv
  BY InitPlan DEF Init, DiffInv, DiffReconstructs
<1>2. DiffInv /\ [Next]_vars => DiffInv'
  BY NextDiff
<1>3. DiffInv => DiffReconstructs
  BY DEF DiffInv
<1> QED  BY <1>1, <1>2, <1>3, PTL DEF Spec
=============================================================================
