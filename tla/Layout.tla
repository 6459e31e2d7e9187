------------------------------- MODULE Layout -------------------------------
(***************************************************************************)
(* How the scroll's text is broken into the lines of the page              *)
(* (scroll-core/src/layout.rs).  A line is a range of bytes of the text; a *)
(* range that does not start and end between two characters would make the *)
(* renderer panic when it slices the text.                                 *)
(***************************************************************************)
EXTENDS Integers, FiniteSetsExt, Utf8

CONSTANTS
  columns,  \* characters that fit on a line
  CAPACITY  \* bytes that fit on the scroll disk

ASSUME ColumnsAssumption == columns \in Nat \ {0}
ASSUME CapacityAssumption == CAPACITY \in Nat \ {0}

VARIABLES
  text,   \* Scroll::text
  layout  \* Scroll::layout

layoutVars == <<text, layout>>

len_utf8(ch) == Len(encode_utf8[ch])

\* An empty line at a byte offset.
LineSpan(at, sep) == [start |-> at, end |-> at, is_separator |-> sep]

new == [lines |-> <<LineSpan(0, FALSE)>>, current_columns |-> 0]

NewLine(l, at) ==
  [lines |-> Append(l.lines, LineSpan(at, FALSE)), current_columns |-> 0]

\* The last column is not used.
MutWrap(l, byte_offset) ==
  IF l.current_columns + 1 = columns THEN NewLine(l, byte_offset) ELSE l

\* A full line is broken when the next character comes, not before.
Wrap(l, byte_offset) ==
  IF l.current_columns = columns THEN NewLine(l, byte_offset) ELSE l

\* A line ends one byte behind the start of its last character.
MutExtendByOne(l, byte_offset, ch) ==
  [l EXCEPT !.lines[Len(l.lines)].end = byte_offset + 1, !.current_columns = @ + 1]

\* A character takes as many columns as bytes.
MutExtendColumns(l, byte_offset, ch) ==
  [l EXCEPT !.lines[Len(l.lines)].end = byte_offset + len_utf8(ch),
            !.current_columns = @ + len_utf8(ch)]

Extend(l, byte_offset, ch) ==
  [l EXCEPT !.lines[Len(l.lines)].end = byte_offset + len_utf8(ch),
            !.current_columns = @ + 1]

\* One character, whose bytes start at byte_offset.  A newline opens a line; a
\* marker flags the line it starts and is left out of it; any other character
\* goes to the open line, or to a new one if that is full.
append(l, byte_offset, ch) ==
  LET after == byte_offset + len_utf8(ch)
  IN  CASE ch = "nl"   -> NewLine(l, after)
        [] ch = "mark" -> [l EXCEPT !.lines[Len(l.lines)] = LineSpan(after, TRUE)]
        [] OTHER       -> Extend(Wrap(l, byte_offset), byte_offset, ch)

\* The byte offset behind the first i characters of s.
Offset(s, i) == Len(as_bytes(SubSeq(s, 1, i)))

from_text(s) ==
  LET upto[i \in 0..Len(s)] ==
        IF i = 0 THEN new ELSE append(upto[i - 1], Offset(s, i - 1), s[i])
  IN  upto[Len(s)]

\* Line (counted from 0) and column.
cursor(l) == <<Len(l.lines) - 1, l.current_columns>>

\* append_raw, for one character: the text grows and the layout with it.
Push(ch) ==
  /\ text' = Append(text, ch)
  /\ layout' = append(layout, Len(as_bytes(text)), ch)

LayoutInit == text = <<>> /\ layout = new

\* A full scroll takes no more text.  The writer puts a marker only at the
\* start of a line.
LayoutNext ==
  /\ Len(as_bytes(text)) < CAPACITY
  /\ \E ch \in Char :
       /\ ch = "mark" /\ text # <<>> => text[Len(text)] = "nl"
       /\ Push(ch)

LayoutSpec == LayoutInit /\ [][LayoutNext]_layoutVars

-----------------------------------------------------------------------------
(***************************************************************************)
(* A reference that knows no spans: the cell of each character, counted    *)
(* from what stands before it.  A paragraph is what lies between newlines. *)
(***************************************************************************)
Inked(s) == {i \in 1..Len(s) : s[i] \notin {"nl", "mark"}}

Paragraph(s, i) == Cardinality({j \in 1..(i - 1) : s[j] = "nl"})

InkOf(s, p) == {i \in Inked(s) : Paragraph(s, i) = p}

\* An empty paragraph takes a row, too.
Height(s, p) ==
  IF InkOf(s, p) = {} THEN 1
  ELSE (Cardinality(InkOf(s, p)) + columns - 1) \div columns

\* The rows of the paragraphs before p.
FirstRow(s, p) ==
  LET upto[q \in 0..p] == IF q = 0 THEN 0 ELSE upto[q - 1] + Height(s, q - 1)
  IN  upto[p]

\* How many characters of its paragraph stand before an inked one.
Position(s, i) == Cardinality({j \in InkOf(s, Paragraph(s, i)) : j < i})

Row(s, i) == FirstRow(s, Paragraph(s, i)) + Position(s, i) \div columns

\* The characters whose bytes a line covers.
Covered(s, line) ==
  {i \in 1..Len(s) : Offset(s, i - 1) >= line.start /\ Offset(s, i) <= line.end}

-----------------------------------------------------------------------------
(***************************************************************************)
(* Properties                                                              *)
(***************************************************************************)
LayoutTypeOK ==
  /\ text \in Seq(Char)
  /\ layout.current_columns \in 0..columns
  /\ layout.lines \in Seq([start : Nat, end : Nat, is_separator : BOOLEAN])

(* Every line starts and ends between two characters of the text, so that  *)
(* render can slice the text (main.rs:198) without a panic, whatever mix   *)
(* of long and short characters, newlines and separators came before.      *)
SlicesAreWhole ==
  LET boundaries == {Offset(text, i) : i \in 0..Len(text)}
  IN  \A n \in 1..Len(layout.lines) :
        /\ {layout.lines[n].start, layout.lines[n].end} \subseteq boundaries
        /\ layout.lines[n].start <= layout.lines[n].end

(* Layout::append, which looks at one character at a time and never back,  *)
(* puts every character on the row the reference finds by counting, no     *)
(* line more and no line less, and flags exactly the first row of a        *)
(* paragraph that starts with a marker.                                    *)
LinesMatchText ==
  LET paragraphs == Paragraph(text, Len(text) + 1) + 1
      flagged == {FirstRow(text, Paragraph(text, i)) :
                    i \in {j \in 1..Len(text) : text[j] = "mark"}}
  IN  /\ Len(layout.lines) = FirstRow(text, paragraphs)
      /\ \A row \in 0..(Len(layout.lines) - 1) :
           /\ Covered(text, layout.lines[row + 1])
                = {i \in Inked(text) : Row(text, i) = row}
           /\ layout.lines[row + 1].is_separator <=> row \in flagged

(* The cursor is in the last row, right behind the last character there:   *)
(* the column count that append keeps apart from the spans agrees with     *)
(* them after every newline, wrap and separator.                           *)
CursorBehindInk ==
  LET n == Len(layout.lines)
  IN  cursor(layout) = <<n - 1, Cardinality(Covered(text, layout.lines[n]))>>
=============================================================================
