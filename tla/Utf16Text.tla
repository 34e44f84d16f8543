----------------------------- MODULE Utf16Text -----------------------------
(***************************************************************************)
(* Positions and edits between the language server, which keeps UTF-8 text *)
(* and byte offsets, and its client, which counts lines and UTF-16 code    *)
(* units (document.rs: byte_offset, utf16_position, apply_change;          *)
(* state.rs: workspace_text_edit, replacement_bounds).                     *)
(*                                                                         *)
(* A text is a sequence of characters; a character is what it costs in     *)
(* either encoding and whether it ends a line.                             *)
(***************************************************************************)
EXTENDS Integers, Sequences, SequencesExt, FiniteSetsExt

CONSTANTS
  Chars,     \* the characters used
  Newline,   \* the one that ends a line
  Utf8Len,   \* character -> bytes in UTF-8
  Utf16Len,  \* character -> UTF-16 code units
  Nothing,   \* Option::None
  MaxLen     \* bound on the characters of a text

ASSUME CharsAssumption ==
  /\ Newline \in Chars
  /\ Utf8Len \in [Chars -> 1..4]
  /\ Utf16Len \in [Chars -> 1..2]
  /\ Utf8Len[Newline] = 1 /\ Utf16Len[Newline] = 1
  /\ MaxLen \in Nat
ASSUME NothingAssumption ==
  Nothing \notin Seq(Chars) \cup Nat \cup (Nat \X Nat) \cup [line : Nat, character : Nat]

VARIABLE text   \* the text of the open document, or Nothing

AllTexts == UNION {[1..n -> Chars] : n \in 0..MaxLen}
Prefix(t, n) == SubSeq(t, 1, n)
Slice(t, m, n) == SubSeq(t, m + 1, n)   \* the characters after the m-th, up to the n-th

\* What the first characters of a text take in an encoding.
Costs(len, t) ==
  LET cost[n \in 0..Len(t)] == IF n = 0 THEN 0 ELSE cost[n - 1] + len[t[n]] IN cost
Bytes(t) == Costs(Utf8Len, t)[Len(t)]
Utf16Length(t) == Costs(Utf16Len, t)[Len(t)]

\* Byte offsets that are character boundaries, and the characters before one.
Boundaries(t) == {Bytes(Prefix(t, n)) : n \in 0..Len(t)}
CharsBefore(t, offset) == CHOOSE n \in 0..Len(t) : Bytes(Prefix(t, n)) = offset

Newlines(t) == {n \in 1..Len(t) : t[n] = Newline}

\* line_bounds, in characters: the line's first and the end before its newline.
LineBounds(t, line) ==
  IF line > Cardinality(Newlines(t)) THEN Nothing
  ELSE LET start == CHOOSE n \in 0..Len(t) :
                      /\ n = 0 \/ t[n] = Newline
                      /\ Cardinality(Newlines(Prefix(t, n))) = line
           later == {n \in Newlines(t) : n > start}
       IN <<start, IF later = {} THEN Len(t) ELSE Min(later) - 1>>

\* Variant used to test the properties: a position inside a surrogate pair is
\* moved to the character's start.
ByteOffsetRounded(t, p) ==
  LET line == LineBounds(t, p.line) IN
    IF line = Nothing THEN Nothing
    ELSE Bytes(Prefix(t, Max({n \in line[1]..line[2] :
                                Utf16Length(Slice(t, line[1], n)) <= p.character})))

\* byte_offset: the boundary in the line with exactly so many units before it.
ByteOffset(t, p) ==
  LET line == LineBounds(t, p.line)
      here == IF line = Nothing THEN {}
              ELSE {n \in line[1]..line[2] : Utf16Length(Slice(t, line[1], n)) = p.character}
  IN IF here = {} THEN Nothing ELSE Bytes(Prefix(t, Min(here)))

\* utf16_position: newlines before the offset, units since the last of them.
Utf16Position(t, offset) ==
  IF offset \notin Boundaries(t) THEN Nothing
  ELSE LET before == Prefix(t, CharsBefore(t, offset))
           last == IF Newlines(before) = {} THEN 0 ELSE Max(Newlines(before))
       IN [line |-> Cardinality(Newlines(before)),
           character |-> Utf16Length(Slice(before, last, Len(before)))]

LengthAgrees(length, t) == length = Nothing \/ length = Utf16Length(t)

\* apply_change: the whole text, or the bytes of a range; Nothing is a refusal.
ApplyChange(t, change) ==
  IF change.start = Nothing
  THEN IF LengthAgrees(change.length, t) THEN change.text ELSE Nothing
  ELSE LET start == ByteOffset(t, change.start)
           end == ByteOffset(t, change.end)
       IN IF start = Nothing \/ end = Nothing THEN Nothing
          ELSE IF start > end THEN Nothing
          ELSE LET m == CharsBefore(t, start)
                   n == CharsBefore(t, end)
               IN IF LengthAgrees(change.length, Slice(t, m, n))
                  THEN Prefix(t, m) \o change.text \o Slice(t, n, Len(t))
                  ELSE Nothing

-----------------------------------------------------------------------------
(* state.rs: the edit sent for a fix *)

SharedPrefix(before, after) ==
  Max({n \in 0..Min({Len(before), Len(after)}) : Prefix(before, n) = Prefix(after, n)})

\* Variant used to test the properties: the suffix may run into the prefix.
SharedSuffixUnbounded(before, after, prefix) ==
  Max({n \in 0..Min({Len(before), Len(after)}) :
         Slice(before, Len(before) - n, Len(before)) = Slice(after, Len(after) - n, Len(after))})

\* The suffix loop stops at the shared prefix of either text.
SharedSuffix(before, after, prefix) ==
  Max({n \in 0..(Min({Len(before), Len(after)}) - prefix) :
         Slice(before, Len(before) - n, Len(before)) = Slice(after, Len(after) - n, Len(after))})

\* replacement_bounds and workspace_text_edit, for a document that still has
\* the text the fix was computed from.
WorkspaceTextEdit(before, after) ==
  LET prefix == SharedPrefix(before, after)
      suffix == SharedSuffix(before, after, prefix)
  IN [start |-> Utf16Position(before, Bytes(Prefix(before, prefix))),
      end |-> Utf16Position(before, Bytes(Prefix(before, Len(before) - suffix))),
      length |-> Nothing,
      text |-> Slice(after, prefix, Len(after) - suffix)]

-----------------------------------------------------------------------------
(* A document receiving changes *)

Positions == [line : 0..(MaxLen + 1), character : 0..(2 * MaxLen + 1)]
Lengths == {Nothing} \cup 0..(2 * MaxLen)
ShortTexts == {t \in AllTexts : Len(t) <= 1}
RangeChange(p, q, length, new) == [start |-> p, end |-> q, length |-> length, text |-> new]
FullChange(length, new) == RangeChange(Nothing, Nothing, length, new)

Receives(change) ==
  /\ text # Nothing
  /\ LET result == ApplyChange(text, change) IN
       /\ result # Nothing
       /\ Len(result) <= MaxLen
       /\ text' = result

ReceivesFull == \E length \in Lengths, new \in ShortTexts : Receives(FullChange(length, new))
ReceivesRange ==
  \E p, q \in Positions, length \in Lengths, new \in ShortTexts :
    Receives(RangeChange(p, q, length, new))

DocumentInit == text \in ShortTexts
DocumentNext == ReceivesFull \/ ReceivesRange

DocumentSpec == DocumentInit /\ [][DocumentNext]_text

-----------------------------------------------------------------------------
(* Properties *)

\* The client's own view: UTF-16 code units.  A character of two units is its
\* two halves.
UnitsOf(c) == [half \in 1..Utf16Len[c] |-> <<c, half>>]
UnitsUpTo(t) ==
  LET units[n \in 0..Len(t)] == IF n = 0 THEN <<>> ELSE units[n - 1] \o UnitsOf(t[n]) IN units
Units(t) == UnitsUpTo(t)[Len(t)]
LineStart(u, line) ==
  CHOOSE n \in 0..Len(u) :
    /\ n = 0 \/ u[n][1] = Newline
    /\ Cardinality({k \in 1..n : u[k][1] = Newline}) = line
UnitOffset(u, p) == LineStart(u, p.line) + p.character

\* A change the server accepts does to the text what it does to the client's
\* array of code units, and a range that cuts a pair in half, runs past its
\* line or has another length is not accepted (apply_change).
ChangesAreUnitSplices ==
  text # Nothing =>
    LET u == Units(text) IN
      \A p, q \in {x \in Positions : ByteOffset(text, x) # Nothing},
         length \in Lengths, new \in ShortTexts :
        LET result == ApplyChange(text, RangeChange(p, q, length, new)) IN
          result # Nothing =>
            LET m == UnitOffset(u, p)
                n == UnitOffset(u, q)
            IN /\ m <= n /\ n <= Len(u)
               /\ length = Nothing \/ length = n - m
               /\ Units(result) = SubSeq(u, 1, m) \o Units(new) \o SubSeq(u, n + 1, Len(u))

\* The edit sent for a fix, applied by the rules the client and the server
\* share, turns the document into exactly the fixed text (replacement_bounds).
FixEditReconstructs ==
  text # Nothing =>
    \A after \in AllTexts \ {text} : ApplyChange(text, WorkspaceTextEdit(text, after)) = after
=============================================================================
