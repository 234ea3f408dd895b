------------------------------ MODULE Positions ------------------------------
(***************************************************************************)
(* Places in a text: byte offsets in the analyzer, lines and UTF-16 columns*)
(* in the editor (crates/analyzer-core/src/line_index.rs), lines and       *)
(* columns of characters in the compiler's output                          *)
(* (crates/analyzer-toolchain/src/locate.rs), and relative positions in    *)
(* semantic tokens (crates/compact-analyzer/src/semantic_tokens_legend.rs).*)
(*                                                                         *)
(* A character is what it takes: a byte; two bytes and one UTF-16 unit;    *)
(* four bytes and two units; or one of the line terminators.  Boundary k   *)
(* of a text is the place behind its first k characters.                   *)
(***************************************************************************)
EXTENDS Naturals, SequencesExt

CONSTANTS MaxLength,   \* bound: characters of the text
          MaxTokens    \* bound: semantic tokens considered together

ASSUME PositionsAssumption == {MaxLength, MaxTokens} \subseteq Nat

VARIABLE text

(* The j-th of a set of numbers, and a sequence restricted to such a set. *)
Nth(S, j) == CHOOSE i \in S : Cardinality({h \in S : h <= i}) = j
Where(seq, S) == [j \in 1 .. Cardinality(S) |-> seq[Nth(S, j)]]

Char == {"ascii", "accent", "astral", "cr", "nl"}
Bytes == [c \in Char |-> CASE c = "accent" -> 2 [] c = "astral" -> 4 [] OTHER -> 1]
Units == [c \in Char |-> IF c = "astral" THEN 2 ELSE 1]

Boundary == 0 .. Len(text)
(* What the characters between two boundaries take: pairs of one of them and
   one of its up to four bytes or units. *)
Taken(width, from, to) ==
  Cardinality({u \in (from + 1 .. to) \X (1 .. 4) : u[2] <= width[text[u[1]]]})
ByteAt(k) == Taken(Bytes, 0, k)

-----------------------------------------------------------------------------
(* LineIndex::new: the boundaries at which lines begin. *)
LineStarts == {0} \cup {k \in DOMAIN text : text[k] = "nl"}
LineOf(k) == Cardinality({s \in LineStarts : s <= k}) - 1
LineStart(line) == Nth(LineStarts, line + 1)
LineEnd(line) == IF line + 1 < Cardinality(LineStarts) THEN LineStart(line + 1) ELSE Len(text)

(* line_col: clamps to the end of the text and to the start of a character. *)
LineCol(offset) ==
  LET k == Max({j \in Boundary : ByteAt(j) <= offset})
  IN  [line |-> LineOf(k), col |-> Taken(Units, LineStart(LineOf(k)), k)]

(* A mutant: the terminator belongs to the content. *)
ContentEndRaw(line) == LineEnd(line)

(* The line without its terminator, as offset strips it. *)
ContentEnd(line) ==
  LET start == LineStart(line)
      end == LineEnd(line)
  IN  IF end = start \/ text[end] # "nl" THEN end
      ELSE IF end - 1 > start /\ text[end - 1] = "cr" THEN end - 2 ELSE end - 1

(* A mutant: columns are characters. *)
OffsetOfScalars(pos) ==
  LET ahead == {k \in LineStart(pos.line) .. LineEnd(pos.line) - 1 : k - LineStart(pos.line) >= pos.col}
  IN  ByteAt(IF ahead # {} THEN Min(ahead) ELSE ContentEnd(pos.line))

(* offset: the first character of the line, its terminator included, that
   begins at the column or behind it; or the end of the content.  (A line that
   is not there has no offset, here and in StartByte.) *)
Offset(pos) ==
  LET ahead == {k \in LineStart(pos.line) .. LineEnd(pos.line) - 1 :
                  Taken(Units, LineStart(pos.line), k) >= pos.col}
  IN  ByteAt(IF ahead # {} THEN Min(ahead) ELSE ContentEnd(pos.line))

-----------------------------------------------------------------------------
(* A mutant: the editor's columns, which locate.rs warns of. *)
StartByteOfUnits(line, col) == Offset([line |-> line - 1, col |-> col - 1])

(* line_start_byte and start_byte_for_col: line and column count from 1; the
   walk stops at a line feed or at the end. *)
StartByte(line, col) ==
  LET start == LineStart(line - 1)
      stops == {k \in start .. LineEnd(line - 1) :
                  k = start + col - 1 \/ k = Len(text) \/ text[k + 1] = "nl"}
  IN  ByteAt(Min(stops))

-----------------------------------------------------------------------------
(* range_to_lsp: a range from one boundary to another, as the editor sees it. *)
Spread(range) == [start |-> LineCol(ByteAt(range.from)), end |-> LineCol(ByteAt(range.to))]

(* A mutant: the point, not the token at it. *)
LocatePoint(line, col) ==
  LET k == CHOOSE k \in Boundary : ByteAt(k) = StartByte(line, col)
  IN  [from |-> k, to |-> k]

(* locate: the token that begins there (each character stands for a token), at
   the end of the text the last one, in an empty text the empty range. *)
IsPlace(line, col) == line \in 1 .. Cardinality(LineStarts) /\ col > 0
Locate(line, col) ==
  LET k == CHOOSE k \in Boundary : ByteAt(k) = StartByte(line, col)
      first == Min({k, Max({0, Len(text) - 1})})
  IN  [from |-> first, to |-> Min({first + 1, Len(text)})]

-----------------------------------------------------------------------------
(* A token is the boundaries it lies between; tokens come in document order. *)
Token == {t \in [from : Boundary, to : Boundary] : t.from < t.to}
InOrder(tokens) == \A i \in 1 .. Len(tokens) - 1 : tokens[i].to <= tokens[i + 1].from
Place(t) ==
  LET start == LineCol(ByteAt(t.from))
      end == LineCol(ByteAt(t.to))
  IN  [line |-> start.line, col |-> start.col,
       length |-> IF end.line = start.line THEN end.col - start.col ELSE 0]

(* A mutant: a token that is skipped moves the base of the next. *)
EncodeStepDrifting(acc, place) ==
  [line |-> place.line, col |-> place.col,
   out |-> IF place.length = 0 THEN acc.out
           ELSE Append(acc.out, [line |-> place.line - acc.line,
                                 col |-> IF place.line = acc.line THEN place.col - acc.col ELSE place.col,
                                 length |-> place.length])]

(* encode_semantic_tokens, one token: one that spans lines is skipped. *)
EncodeStep(acc, place) ==
  IF place.length = 0 THEN acc
  ELSE [line |-> place.line, col |-> place.col,
        out |-> Append(acc.out, [line |-> place.line - acc.line,
                                 col |-> IF place.line = acc.line THEN place.col - acc.col ELSE place.col,
                                 length |-> place.length])]

Encode(tokens) ==
  LET acc[i \in 0 .. Len(tokens)] ==
        IF i = 0 THEN [line |-> 0, col |-> 0, out |-> << >>]
        ELSE EncodeStep(acc[i - 1], Place(tokens[i]))
  IN  acc[Len(tokens)].out

(* What the editor makes of the relative tokens, by the protocol. *)
DecodeStep(acc, d) ==
  LET col == IF d.line = 0 THEN acc.col + d.col ELSE d.col
  IN  [line |-> acc.line + d.line, col |-> col,
       out |-> Append(acc.out, [line |-> acc.line + d.line, col |-> col, length |-> d.length])]

Decode(deltas) ==
  LET acc[i \in 0 .. Len(deltas)] ==
        IF i = 0 THEN [line |-> 0, col |-> 0, out |-> << >>]
        ELSE DecodeStep(acc[i - 1], deltas[i])
  IN  acc[Len(deltas)].out

-----------------------------------------------------------------------------
(* The document as it is typed. *)
Type(c) == Len(text) < MaxLength /\ text' = Append(text, c)

-----------------------------------------------------------------------------
Lines == 0 .. Cardinality(LineStarts) - 1
Columns == 0 .. Taken(Units, 0, Len(text)) + 1
Position == [line : Lines, col : Columns]

(* The editor gets a place and gives it back (line_col, then offset): rename
   edits, whole-document edits and selections are where the analyzer put them. *)
RoundTrip == \A k \in Boundary : Offset(LineCol(ByteAt(k))) = ByteAt(k)

(* A column beyond the line, in the middle of a surrogate pair or left over from
   an older text never leads to another line, nor behind the column asked for
   unless the line ends before it. *)
StaysInLine ==
  \A pos \in Position :
    LET back == LineCol(Offset(pos))
    IN  /\ back.line = pos.line
        /\ back.col >= pos.col \/ Offset(pos) >= ByteAt(ContentEnd(pos.line))

(* Between them, the editor's positions and the analyzer's bytes are the same
   places, also where they have no counterpart of their own. *)
ColumnsAgree == RoundTrip /\ StaysInLine

(* The compiler's line and column of a character lead to that character,
   whatever the width of those before it. *)
CompilerColumnsFit ==
  \A k \in Boundary : StartByte(LineOf(k) + 1, k - LineStart(LineOf(k)) + 1) = ByteAt(k)

(* The editor decodes the semantic tokens to where they are, without those that
   span lines; and no difference it is sent is negative, which the unsigned
   numbers of the protocol could not say. *)
Kept(tokens) == {i \in DOMAIN tokens : Place(tokens[i]).length > 0}
TokensSurvive ==
  \A tokens \in {ts \in BoundedSeq(Token, MaxTokens) : InOrder(ts)} :
    LET sent == Encode(tokens)
    IN  /\ Decode(sent) = Where([i \in DOMAIN tokens |-> Place(tokens[i])], Kept(tokens))
        /\ \A i \in DOMAIN sent : sent[i].line \in Nat /\ sent[i].col \in Nat

-----------------------------------------------------------------------------
(* line_index.rs on offset: "Columns past the end of the line clamp to the line
   end (before the line terminator)". *)
ColumnsClampToContent == \A pos \in Position : Offset(pos) <= ByteAt(ContentEnd(pos.line))

(* locate.rs: a column past the end "clamps to the byte offset at the line's
   content end (before its line terminator, if any)". *)
CompilerColumnsClamp ==
  \A pos \in Position : StartByte(pos.line + 1, pos.col + 1) <= ByteAt(ContentEnd(pos.line))
=============================================================================
