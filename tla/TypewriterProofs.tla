-------------------------- MODULE TypewriterProofs --------------------------
(***************************************************************************)
(* The page and its lines, for every screen of at least two rows, every    *)
(* alphabet without the marker and scrolls of any length.                  *)
(***************************************************************************)
EXTENDS Typewriter, Utf8Proofs, FiniteSetTheorems

Span == [start : Nat, end : Nat, is_separator : BOOLEAN]

Layouts == [lines : Seq(Span) \ {<<>>}, current_columns : 0..columns]

-----------------------------------------------------------------------------
(***************************************************************************)
(* Layout::append, one character at a time.                                *)
(***************************************************************************)
LEMMA LenUtf8 ==
  ASSUME NEW ch \in Char
  PROVE  len_utf8(ch) \in Nat /\ len_utf8(ch) >= 1
BY EncodeUtf8 DEF len_utf8

LEMMA LayoutParts ==
  ASSUME NEW l \in Layouts
  PROVE  /\ l = [lines |-> l.lines, current_columns |-> l.current_columns]
         /\ l.lines \in Seq(Span) /\ l.lines # <<>>
         /\ Len(l.lines) \in Nat /\ Len(l.lines) >= 1
         /\ l.lines[Len(l.lines)] \in Span
         /\ l.current_columns \in 0..columns
<1>1. l.lines \in Seq(Span) /\ l.lines # <<>> /\ l.current_columns \in 0..columns
  BY DEF Layouts
<1>2. Len(l.lines) \in Nat /\ Len(l.lines) >= 1
  BY <1>1, EmptySeq
<1>3. l.lines[Len(l.lines)] \in Span
  BY <1>1, <1>2, ElementOfSeq
<1> QED BY <1>1, <1>2, <1>3 DEF Layouts

LEMMA NewLineEffect ==
  ASSUME NEW l \in Layouts, NEW b \in Nat
  PROVE  LET r == NewLine(l, b)
             n == Len(l.lines)
         IN  /\ r \in Layouts /\ Len(r.lines) = n + 1 /\ r.current_columns = 0
             /\ \A k \in 1..n : r.lines[k] = l.lines[k]
             /\ r.lines[n + 1] = LineSpan(b, FALSE)
<1>1. LineSpan(b, FALSE) \in Span
  BY DEF LineSpan, Span
<1>2. /\ NewLine(l, b).lines = Append(l.lines, LineSpan(b, FALSE))
      /\ NewLine(l, b).current_columns = 0
      /\ NewLine(l, b) = [lines |-> Append(l.lines, LineSpan(b, FALSE)), current_columns |-> 0]
  BY DEF NewLine
<1>3. /\ Append(l.lines, LineSpan(b, FALSE)) \in Seq(Span) \ {<<>>}
      /\ Len(Append(l.lines, LineSpan(b, FALSE))) = Len(l.lines) + 1
      /\ \A k \in 1..Len(l.lines) : Append(l.lines, LineSpan(b, FALSE))[k] = l.lines[k]
      /\ Append(l.lines, LineSpan(b, FALSE))[Len(l.lines) + 1] = LineSpan(b, FALSE)
  <2>1. l.lines \in Seq(Span)
    BY LayoutParts
  <2>2. \A s \in Seq(Span), e \in Span :
          /\ Append(s, e) \in Seq(Span) \ {<<>>}
          /\ Len(Append(s, e)) = Len(s) + 1
          /\ \A k \in 1..Len(s) : Append(s, e)[k] = s[k]
          /\ Append(s, e)[Len(s) + 1] = e
    BY AppendProperties
  <2> QED BY <1>1, <2>1, <2>2, Zenon
<1>4. 0 \in 0..columns
  BY ColumnsAssumption
<1>5. NewLine(l, b) \in Layouts
  BY <1>2, <1>3, <1>4 DEF Layouts
<1> QED BY <1>2, <1>3, <1>5

LEMMA ExtendEffect ==
  ASSUME NEW l \in Layouts, NEW b \in Nat, NEW ch \in Char, l.current_columns < columns
  PROVE  LET r == Extend(l, b, ch)
             n == Len(l.lines)
         IN  /\ r \in Layouts /\ Len(r.lines) = n
             /\ r.current_columns = l.current_columns + 1
             /\ \A k \in 1..n : k # n => r.lines[k] = l.lines[k]
             /\ r.lines[n] = [start |-> l.lines[n].start, end |-> b + len_utf8(ch),
                              is_separator |-> l.lines[n].is_separator]
<1> DEFINE n == Len(l.lines)
           span == [start |-> l.lines[n].start, end |-> b + len_utf8(ch),
                    is_separator |-> l.lines[n].is_separator]
           q == [l.lines EXCEPT ![n] = span]
<1>1. span \in Span /\ n \in 1..Len(l.lines)
  BY LayoutParts, LenUtf8 DEF Span
<1>2. [l.lines[n] EXCEPT !.end = b + len_utf8(ch)] = span
  BY LayoutParts DEF Span
<1>3. [l.lines EXCEPT ![n].end = b + len_utf8(ch)] = q
  BY <1>1, <1>2, LayoutParts
<1>4. Extend(l, b, ch) = [lines |-> q, current_columns |-> l.current_columns + 1]
  <2>1. Extend(l, b, ch) = [[l EXCEPT !.lines = [l.lines EXCEPT ![n].end = b + len_utf8(ch)]]
                              EXCEPT !.current_columns = l.current_columns + 1]
    BY LayoutParts DEF Extend
  <2> QED BY <1>3, <2>1, LayoutParts
<1>5. /\ q \in Seq(Span) /\ Len(q) = n
      /\ \A k \in 1..n : q[k] = IF k = n THEN span ELSE l.lines[k]
  BY <1>1, LayoutParts, ExceptSeq
<1> HIDE DEF q, span
<1>6. q # <<>>
  BY <1>1, <1>5, EmptySeq
<1>7. l.current_columns + 1 \in 0..columns
  BY LayoutParts, ColumnsAssumption
<1>8. Extend(l, b, ch) \in Layouts
  BY <1>4, <1>5, <1>6, <1>7 DEF Layouts
<1> QED BY <1>1, <1>4, <1>5, <1>8 DEF span

\* What append leaves of a layout l when the bytes of ch start at b.
Appended(l, b, ch, r) ==
  LET n == Len(l.lines)
      after == b + len_utf8(ch)
      Added(span) == /\ Len(r.lines) = n + 1 /\ r.lines[n + 1] = span
                     /\ \A k \in 1..n : r.lines[k] = l.lines[k]
      Changed(span) == /\ Len(r.lines) = n /\ r.lines[n] = span
                       /\ \A k \in 1..n : k # n => r.lines[k] = l.lines[k]
  IN  \/ /\ ch = "nl" /\ Added(LineSpan(after, FALSE)) /\ r.current_columns = 0
      \/ /\ ch = "mark" /\ Changed(LineSpan(after, TRUE))
         /\ r.current_columns = l.current_columns
      \/ /\ ch \notin {"nl", "mark"} /\ l.current_columns = columns
         /\ Added([start |-> b, end |-> after, is_separator |-> FALSE])
         /\ r.current_columns = 1
      \/ /\ ch \notin {"nl", "mark"} /\ l.current_columns < columns
         /\ Changed([start |-> l.lines[n].start, end |-> after,
                     is_separator |-> l.lines[n].is_separator])
         /\ r.current_columns = l.current_columns + 1

\* A marker makes the open line an empty separator behind it.
LEMMA MarkEffect ==
  ASSUME NEW l \in Layouts, NEW after \in Nat
  PROVE  LET r == [l EXCEPT !.lines[Len(l.lines)] = LineSpan(after, TRUE)]
             n == Len(l.lines)
         IN  /\ r \in Layouts /\ Len(r.lines) = n
             /\ r.current_columns = l.current_columns
             /\ \A k \in 1..n : k # n => r.lines[k] = l.lines[k]
             /\ r.lines[n] = LineSpan(after, TRUE)
<1> DEFINE n == Len(l.lines)
           span == LineSpan(after, TRUE)
           q == [l.lines EXCEPT ![n] = span]
           r == [l EXCEPT !.lines[n] = span]
<1>1. span \in Span /\ n \in 1..Len(l.lines)
  BY LayoutParts DEF LineSpan, Span
<1> HIDE DEF span
<1>2. r = [lines |-> q, current_columns |-> l.current_columns]
  BY LayoutParts
<1>3. /\ q \in Seq(Span) /\ Len(q) = n
      /\ \A k \in 1..n : q[k] = IF k = n THEN span ELSE l.lines[k]
  BY <1>1, LayoutParts, ExceptSeq
<1> HIDE DEF q
<1>4. q # <<>>
  BY <1>1, <1>3, EmptySeq
<1>5. r \in Layouts
  BY <1>2, <1>3, <1>4, LayoutParts DEF Layouts
<1> QED BY <1>1, <1>2, <1>3, <1>5 DEF span

LEMMA AppendEffect ==
  ASSUME NEW l \in Layouts, NEW b \in Nat, NEW ch \in Char
  PROVE  append(l, b, ch) \in Layouts /\ Appended(l, b, ch, append(l, b, ch))
<1> DEFINE n == Len(l.lines)
           after == b + len_utf8(ch)
           r == append(l, b, ch)
<1>1. after \in Nat /\ n \in Nat
  BY LenUtf8, LayoutParts
<1>2. CASE ch = "nl"
  <2>1. r = NewLine(l, after)
    BY <1>2 DEF append
  <2> HIDE DEF r, after
  <2>2. /\ r \in Layouts /\ Len(r.lines) = n + 1 /\ r.current_columns = 0
        /\ \A k \in 1..n : r.lines[k] = l.lines[k]
        /\ r.lines[n + 1] = LineSpan(after, FALSE)
    BY <1>1, <2>1, NewLineEffect
  <2> QED BY <1>2, <2>2 DEF Appended, r, after
<1>3. CASE ch = "mark"
  <2>1. r = [l EXCEPT !.lines[n] = LineSpan(after, TRUE)]
    BY <1>3 DEF append
  <2> HIDE DEF r, after
  <2>2. /\ r \in Layouts /\ Len(r.lines) = n /\ r.current_columns = l.current_columns
        /\ \A k \in 1..n : k # n => r.lines[k] = l.lines[k]
        /\ r.lines[n] = LineSpan(after, TRUE)
    BY <1>1, <2>1, MarkEffect
  <2> QED BY <1>3, <2>2 DEF Appended, r, after
<1>4. CASE ch \notin {"nl", "mark"} /\ l.current_columns = columns
  <2> DEFINE m == NewLine(l, b)
  <2>1. r = Extend(m, b, ch)
    BY <1>4 DEF append, Wrap
  <2>2. /\ m \in Layouts /\ Len(m.lines) = n + 1 /\ m.current_columns = 0
        /\ \A k \in 1..n : m.lines[k] = l.lines[k]
        /\ m.lines[n + 1] = LineSpan(b, FALSE)
    BY NewLineEffect
  <2> HIDE DEF m, r, n
  <2>3. 0 < columns
    BY ColumnsAssumption
  <2>4. /\ r \in Layouts /\ Len(r.lines) = Len(m.lines)
        /\ r.current_columns = m.current_columns + 1
        /\ \A k \in 1..Len(m.lines) : k # Len(m.lines) => r.lines[k] = m.lines[k]
        /\ r.lines[Len(m.lines)] =
             [start |-> m.lines[Len(m.lines)].start, end |-> b + len_utf8(ch),
              is_separator |-> m.lines[Len(m.lines)].is_separator]
    BY <2>1, <2>2, <2>3, ExtendEffect
  <2>5. \A k \in 1..n : r.lines[k] = l.lines[k]
    BY <1>1, <2>2, <2>4
  <2>6. r.lines[n + 1] = [start |-> b, end |-> after, is_separator |-> FALSE]
    <3>1. m.lines[n + 1].start = b /\ m.lines[n + 1].is_separator = FALSE
      BY <2>2 DEF LineSpan
    <3> QED BY <2>2, <2>4, <3>1
  <2>7. Len(r.lines) = n + 1 /\ r.current_columns = 1
    BY <2>2, <2>4
  <2> QED BY <1>4, <2>4, <2>5, <2>6, <2>7 DEF Appended, r, n
<1>5. CASE ch \notin {"nl", "mark"} /\ l.current_columns < columns
  <2>1. Wrap(l, b) = l
    BY <1>5, LayoutParts, ColumnsAssumption DEF Wrap
  <2>2. r = Extend(l, b, ch)
    BY <1>5, <2>1 DEF append
  <2> HIDE DEF r
  <2>3. /\ r \in Layouts /\ Len(r.lines) = n
        /\ r.current_columns = l.current_columns + 1
        /\ \A k \in 1..n : k # n => r.lines[k] = l.lines[k]
        /\ r.lines[n] = [start |-> l.lines[n].start, end |-> b + len_utf8(ch),
                         is_separator |-> l.lines[n].is_separator]
    BY <1>5, <2>2, ExtendEffect
  <2> QED BY <1>5, <2>3 DEF Appended, r
<1>6. l.current_columns = columns \/ l.current_columns < columns
  BY LayoutParts, ColumnsAssumption
<1> QED BY <1>2, <1>3, <1>4, <1>5, <1>6

-----------------------------------------------------------------------------
(***************************************************************************)
(* Layout::from_text, which is append over and over.                       *)
(***************************************************************************)
LEMMA OffsetFacts ==
  ASSUME NEW s \in Seq(Char), NEW ch \in Char
  PROVE  /\ Offset(s, 0) = 0
         /\ Offset(s, Len(s)) = Len(as_bytes(s))
         /\ \A i \in 0..Len(s) : /\ Offset(s, i) \in Nat
                                 /\ Offset(Append(s, ch), i) = Offset(s, i)
         /\ Offset(Append(s, ch), Len(s) + 1) = Len(as_bytes(s)) + len_utf8(ch)
<1> DEFINE t == Append(s, ch)
<1>1. /\ t \in Seq(Char) /\ Len(t) = Len(s) + 1 /\ Len(s) \in Nat
      /\ \A i \in 1..Len(s) : t[i] = s[i]
  BY AppendProperties, LenProperties
<1> HIDE DEF t
<1>2. Offset(s, 0) = 0
  <2>1. SubSeq(s, 1, 0) = <<>>
    BY SubSeqEmpty
  <2>2. Len(<<>>) = 0
    OBVIOUS
  <2> QED BY <2>1, <2>2, BytesEmpty DEF Offset
<1>3. Offset(s, Len(s)) = Len(as_bytes(s))
  BY SubSeqFull DEF Offset
<1>4. \A i \in 0..Len(s) : /\ Offset(s, i) \in Nat
                           /\ Offset(t, i) = Offset(s, i)
  <2> TAKE i \in 0..Len(s)
  <2>1. /\ i \in Int /\ 1 \in Int
        /\ \A j \in 1..i : s[j] \in Char /\ t[j] \in Char /\ t[j] = s[j]
    BY <1>1, ElementOfSeq
  <2>2. /\ SubSeq(s, 1, i) \in Seq(Char) /\ SubSeq(t, 1, i) \in Seq(Char)
        /\ Len(SubSeq(s, 1, i)) = i /\ Len(SubSeq(t, 1, i)) = i
        /\ \A j \in 1..i : SubSeq(s, 1, i)[j] = s[j] /\ SubSeq(t, 1, i)[j] = t[j]
    BY <1>1, <2>1, SubSeqProperties
  <2>3. SubSeq(s, 1, i) = SubSeq(t, 1, i)
    BY <2>1, <2>2, SeqEqual
  <2> QED BY <2>2, <2>3, BytesType DEF Offset
<1>5. Offset(t, Len(s) + 1) = Len(as_bytes(s)) + len_utf8(ch)
  <2>1. Offset(t, Len(s) + 1) = Len(as_bytes(t))
    BY <1>1, SubSeqFull DEF Offset
  <2>2. as_bytes(t) = as_bytes(s) \o encode_utf8[ch]
    BY BytesAppend DEF t
  <2> QED BY <2>1, <2>2, BytesType, EncodeUtf8, ConcatProperties DEF len_utf8
<1> QED BY <1>2, <1>3, <1>4, <1>5 DEF t

LEMMA FromTextExist ==
  ASSUME NEW s, NEW k \in Nat
  PROVE  \E f : f = [i \in 0..k |->
                       IF i = 0 THEN new ELSE append(f[i - 1], Offset(s, i - 1), s[i])]
<1> DEFINE Ok(j) ==
             \E f : f = [i \in 0..j |->
                           IF i = 0 THEN new ELSE append(f[i - 1], Offset(s, i - 1), s[i])]
           S == {j \in Nat : Ok(j)}
<1>1. Ok(0)
  <2>1. [i \in 0..0 |-> new] =
          [i \in 0..0 |-> IF i = 0 THEN new
                          ELSE append([j \in 0..0 |-> new][i - 1], Offset(s, i - 1), s[i])]
    OBVIOUS
  <2> QED BY <2>1
<1>2. ASSUME NEW j \in Nat, Ok(j) PROVE Ok(j + 1)
  <2>1. PICK f : f = [i \in 0..j |->
                        IF i = 0 THEN new ELSE append(f[i - 1], Offset(s, i - 1), s[i])]
    BY <1>2
  <2> DEFINE g == [i \in 0..(j + 1) |->
                     IF i = 0 THEN new ELSE append(f[i - 1], Offset(s, i - 1), s[i])]
  <2>2. \A i \in 0..(j + 1) : i # 0 => i - 1 \in 0..j
    OBVIOUS
  <2>3. \A i \in 0..j : g[i] = f[i]
    BY <2>1
  <2>4. g = [i \in 0..(j + 1) |->
               IF i = 0 THEN new ELSE append(g[i - 1], Offset(s, i - 1), s[i])]
    BY <2>2, <2>3
  <2> QED BY <2>4
<1>3. 0 \in S /\ \A j \in Nat : j \in S => j + 1 \in S
  BY <1>1, <1>2
<1> HIDE DEF Ok
<1>4. k \in S
  <2> HIDE DEF S
  <2> QED BY <1>3, Lengths
<1> QED BY <1>4 DEF Ok

LEMMA FromTextDef ==
  ASSUME NEW s, Len(s) \in Nat
  PROVE  \E f : /\ f = [i \in 0..Len(s) |->
                          IF i = 0 THEN new ELSE append(f[i - 1], Offset(s, i - 1), s[i])]
                /\ from_text(s) = f[Len(s)]
<1> DEFINE Rec(f) == f = [i \in 0..Len(s) |->
                            IF i = 0 THEN new ELSE append(f[i - 1], Offset(s, i - 1), s[i])]
<1>1. \E f : Rec(f)
  BY FromTextExist
<1>2. from_text(s) = (CHOOSE f : Rec(f))[Len(s)]
  BY DEF from_text
<1>3. Rec(CHOOSE f : Rec(f))
  BY <1>1
<1> QED BY <1>2, <1>3

LEMMA FromTextEmpty == from_text(<<>>) = new
<1>1. Len(<<>>) = 0
  OBVIOUS
<1>2. PICK f : /\ f = [i \in 0..0 |->
                         IF i = 0 THEN new ELSE append(f[i - 1], Offset(<<>>, i - 1), <<>>[i])]
               /\ from_text(<<>>) = f[0]
  BY <1>1, FromTextDef
<1>3. f[0] = new
  BY <1>2
<1> QED BY <1>2, <1>3

LEMMA FromTextAppend ==
  ASSUME NEW s \in Seq(Char), NEW ch \in Char
  PROVE  from_text(Append(s, ch)) = append(from_text(s), Len(as_bytes(s)), ch)
<1> DEFINE k == Len(s)
           t == Append(s, ch)
<1>1. /\ k \in Nat /\ Len(t) = k + 1 /\ t[k + 1] = ch
      /\ \A i \in 1..k : t[i] = s[i]
  BY AppendProperties, LenProperties
<1>2. PICK f : /\ f = [i \in 0..k |->
                         IF i = 0 THEN new ELSE append(f[i - 1], Offset(s, i - 1), s[i])]
               /\ from_text(s) = f[k]
  BY <1>1, FromTextDef
<1>3. PICK g : /\ g = [i \in 0..(k + 1) |->
                         IF i = 0 THEN new ELSE append(g[i - 1], Offset(t, i - 1), t[i])]
               /\ from_text(t) = g[k + 1]
  <2>1. Len(t) \in Nat
    BY <1>1
  <2> HIDE DEF t
  <2> QED BY <1>1, <2>1, FromTextDef
<1>4. /\ \A i \in 0..k : Offset(t, i) = Offset(s, i)
      /\ Offset(s, k) = Len(as_bytes(s))
  BY OffsetFacts
<1> HIDE DEF k, t
<1> DEFINE S == {i \in 0..k : g[i] = f[i]}
<1>5. 0 \in S
  BY <1>1, <1>2, <1>3
<1>6. ASSUME NEW i \in 0..(k - 1), i \in S PROVE i + 1 \in S
  <2>1. /\ i + 1 \in 0..k /\ i + 1 \in 0..(k + 1) /\ i + 1 \in 1..k /\ i \in 0..k
        /\ i + 1 # 0 /\ (i + 1) - 1 = i
    BY <1>1
  <2>2. f[i + 1] = append(f[i], Offset(s, i), s[i + 1])
    BY <1>2, <2>1
  <2>3. g[i + 1] = append(g[i], Offset(t, i), t[i + 1])
    BY <1>3, <2>1
  <2> QED BY <1>1, <1>4, <1>6, <2>1, <2>2, <2>3
<1>7. k \in S
  <2>1. k \in 0..k
    BY <1>1
  <2> HIDE DEF S
  <2> QED BY <1>1, <1>5, <1>6, <2>1, LengthsUpto
<1>8. g[k + 1] = append(g[k], Offset(t, k), t[k + 1])
  <2>1. k + 1 \in 0..(k + 1) /\ k + 1 # 0 /\ (k + 1) - 1 = k
    BY <1>1
  <2> QED BY <1>3, <2>1
<1>9. k \in 0..k
  BY <1>1
<1> QED BY <1>1, <1>2, <1>3, <1>4, <1>7, <1>8, <1>9 DEF t, k

\* Every character takes at least a byte.
LEMMA OffsetGrows ==
  ASSUME NEW s \in Seq(Char), NEW i \in 0..Len(s), NEW j \in 0..Len(s), i < j
  PROVE  Offset(s, i) < Offset(s, j)
<1> DEFINE Ok(t) == \A x, y \in 0..Len(t) : x < y => Offset(t, x) < Offset(t, y)
           S == {t \in Seq(Char) : Ok(t)}
<1>1. <<>> \in S
  <2>1. \A x, y \in 0..0 : ~(x < y)
    OBVIOUS
  <2> QED BY <2>1, EmptySeq
<1>2. ASSUME NEW t \in Seq(Char), NEW ch \in Char, t \in S
      PROVE  Append(t, ch) \in S
  <2> DEFINE u == Append(t, ch)
  <2>1. u \in Seq(Char) /\ Len(u) = Len(t) + 1 /\ Len(t) \in Nat
    BY AppendProperties, LenProperties
  <2>2. /\ \A x \in 0..Len(t) : Offset(u, x) = Offset(t, x) /\ Offset(t, x) \in Nat
        /\ Offset(u, Len(t) + 1) = Offset(t, Len(t)) + len_utf8(ch)
    BY OffsetFacts
  <2>3. Ok(t) /\ len_utf8(ch) \in Nat /\ len_utf8(ch) >= 1
    BY <1>2, LenUtf8
  <2> HIDE DEF u
  <2>4. ASSUME NEW x \in 0..Len(u), NEW y \in 0..Len(u), x < y
        PROVE  Offset(u, x) < Offset(u, y)
    <3>1. CASE y \in 0..Len(t)
      <4>1. x \in 0..Len(t)
        BY <2>1, <2>4, <3>1
      <4> QED BY <2>2, <2>3, <2>4, <3>1, <4>1
    <3>2. CASE y = Len(t) + 1
      <4>1. x \in 0..Len(t) /\ Len(t) \in 0..Len(t)
        BY <2>1, <2>4, <3>2
      <4>2. Offset(t, x) <= Offset(t, Len(t))
        <5>1. CASE x = Len(t)
          BY <2>2, <4>1, <5>1
        <5>2. CASE x < Len(t)
          <6>1. Offset(t, x) < Offset(t, Len(t))
            BY <2>3, <4>1, <5>2
          <6> QED BY <2>2, <4>1, <6>1
        <5> QED BY <2>1, <4>1, <5>1, <5>2
      <4> QED BY <2>2, <2>3, <3>2, <4>1, <4>2
    <3> QED BY <2>1, <3>1, <3>2
  <2> QED BY <2>1, <2>4 DEF u
<1>3. s \in S
  <2> HIDE DEF S
  <2> QED BY <1>1, <1>2, Sequences
<1> QED BY <1>3

\* The lines of a text are whole, and the open one ends where the text ends.
Whole(s, l) ==
  /\ l \in Layouts
  /\ \A k \in 1..Len(l.lines) :
       /\ \E i \in 0..Len(s) : l.lines[k].start = Offset(s, i)
       /\ \E i \in 0..Len(s) : l.lines[k].end = Offset(s, i)
       /\ l.lines[k].start <= l.lines[k].end
  /\ l.lines[Len(l.lines)].end = Len(as_bytes(s))

LEMMA WholeAppend ==
  ASSUME NEW s \in Seq(Char), NEW ch \in Char, NEW l, Whole(s, l)
  PROVE  Whole(Append(s, ch), append(l, Len(as_bytes(s)), ch))
<1> DEFINE t == Append(s, ch)
           b == Len(as_bytes(s))
           r == append(l, b, ch)
           n == Len(l.lines)
           after == b + len_utf8(ch)
<1>1. b \in Nat /\ len_utf8(ch) \in Nat /\ after \in Nat /\ b <= after
  BY BytesType, LenUtf8
<1>2. l \in Layouts /\ n \in Nat /\ n >= 1 /\ l.lines[n] \in Span
  BY LayoutParts DEF Whole
<1>3. r \in Layouts /\ Appended(l, b, ch, r)
  BY <1>1, <1>2, AppendEffect
<1>4. /\ Len(t) = Len(s) + 1 /\ Len(s) \in Nat
      /\ \A i \in 0..Len(s) : i \in 0..Len(t) /\ Offset(t, i) = Offset(s, i)
      /\ Len(t) \in 0..Len(t) /\ Offset(t, Len(t)) = after
      /\ Len(s) \in 0..Len(t) /\ Offset(t, Len(s)) = b
      /\ after = Len(as_bytes(t))
  <2>1. t \in Seq(Char) /\ Len(t) = Len(s) + 1 /\ Len(s) \in Nat
    BY AppendProperties, LenProperties
  <2>2. Offset(t, Len(t)) = Len(as_bytes(t))
    BY <2>1, OffsetFacts
  <2>3. Offset(t, Len(s) + 1) = after /\ Offset(s, Len(s)) = b
        /\ \A i \in 0..Len(s) : Offset(t, i) = Offset(s, i)
    BY OffsetFacts
  <2> HIDE DEF t, after, b
  <2> QED BY <2>1, <2>2, <2>3
<1> DEFINE Good(span) ==
             /\ \E i \in 0..Len(t) : span.start = Offset(t, i)
             /\ \E i \in 0..Len(t) : span.end = Offset(t, i)
             /\ span.start <= span.end
<1>5. \A k \in 1..n : Good(l.lines[k])
  <2> HIDE DEF t
  <2> QED BY <1>4 DEF Whole
<1>6. Good(LineSpan(after, TRUE)) /\ Good(LineSpan(after, FALSE))
  <2> HIDE DEF t, after
  <2>1. /\ LineSpan(after, TRUE).start = after /\ LineSpan(after, TRUE).end = after
        /\ LineSpan(after, FALSE).start = after /\ LineSpan(after, FALSE).end = after
    BY DEF LineSpan
  <2>2. after <= after /\ \E i \in 0..Len(t) : after = Offset(t, i)
    BY <1>1, <1>4
  <2> QED BY <2>1, <2>2
<1>7. Good([start |-> b, end |-> after, is_separator |-> FALSE])
  <2> HIDE DEF t, after, b
  <2> QED BY <1>1, <1>4
<1>8. Good([start |-> l.lines[n].start, end |-> after,
            is_separator |-> l.lines[n].is_separator])
  <2>1. l.lines[n].start <= b /\ l.lines[n].start \in Nat
    BY <1>2 DEF Whole, Span
  <2>2. \E i \in 0..Len(t) : l.lines[n].start = Offset(t, i)
    <3> HIDE DEF t
    <3> QED BY <1>2, <1>5
  <2> HIDE DEF t, after, b
  <2> QED BY <1>1, <1>4, <2>1, <2>2
<1> DEFINE wrapped  == [start |-> b, end |-> after, is_separator |-> FALSE]
           extended == [start |-> l.lines[n].start, end |-> after,
                        is_separator |-> l.lines[n].is_separator]
<1>9. /\ LineSpan(after, TRUE).end = after /\ LineSpan(after, FALSE).end = after
      /\ wrapped.end = after /\ extended.end = after
  BY DEF LineSpan
<1>10. \/ /\ Len(r.lines) = n + 1 /\ \A k \in 1..n : r.lines[k] = l.lines[k]
          /\ r.lines[n + 1] = LineSpan(after, FALSE) \/ r.lines[n + 1] = wrapped
       \/ /\ Len(r.lines) = n /\ \A k \in 1..n : k # n => r.lines[k] = l.lines[k]
          /\ r.lines[n] = LineSpan(after, TRUE) \/ r.lines[n] = extended
  <2> HIDE DEF r
  <2> QED BY <1>3 DEF Appended
<1> HIDE DEF t, r, b, after, Good, wrapped, extended
<1>11. \A k \in 1..Len(r.lines) : Good(r.lines[k])
  <2>1. Good(wrapped) /\ Good(extended)
    BY <1>7, <1>8 DEF wrapped, extended
  <2>2. \A k \in 1..(n + 1) : k \in 1..n \/ k = n + 1
    BY <1>2
  <2> QED BY <1>5, <1>6, <1>10, <2>1, <2>2
<1>12. r.lines[Len(r.lines)].end = after
  BY <1>9, <1>10
<1> QED BY <1>3, <1>4, <1>11, <1>12 DEF Whole, Good, t, r, b

LEMMA WholeText ==
  ASSUME NEW s \in Seq(Char)
  PROVE  Whole(s, from_text(s))
<1> DEFINE S == {t \in Seq(Char) : Whole(t, from_text(t))}
<1>1. <<>> \in S
  <2>1. /\ <<>> \in Seq(Char) /\ Len(<<>>) = 0 /\ as_bytes(<<>>) = <<>>
        /\ from_text(<<>>) = new
    BY BytesEmpty, FromTextEmpty, EmptySeq
  <2>2. 0 \in 0..0 /\ Offset(<<>>, 0) = 0
    <3>1. "letter" \in Char
      BY DEF Char, encode_utf8
    <3>2. \A t \in Seq(Char) : Offset(t, 0) = 0
      BY <3>1, OffsetFacts
    <3>3. Offset(<<>>, 0) = 0
      BY <2>1, <3>2, Zenon
    <3> QED BY <3>3
  <2>3. new.lines = <<LineSpan(0, FALSE)>> /\ new.current_columns = 0
    BY DEF new
  <2>4. LineSpan(0, FALSE) \in Span /\ LineSpan(0, FALSE).start = 0 /\ LineSpan(0, FALSE).end = 0
    BY DEF LineSpan, Span
  <2>5. new \in Layouts
    <3>0. \A x \in Span : <<x>> \in Seq(Span) /\ <<x>> # <<>>
      OBVIOUS
    <3>1. <<LineSpan(0, FALSE)>> \in Seq(Span) /\ <<LineSpan(0, FALSE)>> # <<>>
      BY <2>4, <3>0, Zenon
    <3>2. 0 \in 0..columns
      BY ColumnsAssumption
    <3> QED BY <3>1, <3>2 DEF new, Layouts
  <2>6. /\ Len(new.lines) = 1
        /\ \A k \in 1..1 : new.lines[k] = LineSpan(0, FALSE)
    BY <2>3
  <2>7. Whole(<<>>, new)
    <3> DEFINE e == <<>>
    <3>1. /\ Len(e) = 0 /\ Offset(e, 0) = 0 /\ Len(as_bytes(e)) = 0
      BY <2>1, <2>2
    <3> HIDE DEF e
    <3>2. /\ \A k \in 1..Len(new.lines) : new.lines[k].start = 0 /\ new.lines[k].end = 0
          /\ new.lines[Len(new.lines)].end = 0
      <4>1. 1 \in 1..1
        OBVIOUS
      <4> QED BY <2>4, <2>6, <4>1
    <3>3. 0 \in 0..Len(e) /\ 0 <= 0
      BY <3>1
    <3>4. Whole(e, new)
      BY <2>5, <3>1, <3>2, <3>3 DEF Whole
    <3> QED BY <3>4 DEF e
  <2> QED BY <2>1, <2>7
<1>2. ASSUME NEW t \in Seq(Char), NEW ch \in Char, t \in S
      PROVE  Append(t, ch) \in S
  BY <1>2, WholeAppend, FromTextAppend, AppendProperties
<1>3. s \in S
  <2> HIDE DEF S
  <2> QED BY <1>1, <1>2, Sequences
<1> QED BY <1>3

-----------------------------------------------------------------------------
(***************************************************************************)
(* The cursor.  The column count is how many characters there are behind   *)
(* the start of the open line.  A marker resets the line and not the       *)
(* count, which is why it has to come first in a line.                     *)
(***************************************************************************)
Counted(s, l) ==
  /\ \E i \in 0..Len(s) : /\ l.lines[Len(l.lines)].start = Offset(s, i)
                          /\ l.current_columns = Len(s) - i
  /\ s = <<>> \/ s[Len(s)] = "nl" => l.current_columns = 0

LEMMA CountedAppend ==
  ASSUME NEW s \in Seq(Char), NEW ch \in Char, NEW l \in Layouts, Counted(s, l),
         ch = "mark" => s = <<>> \/ s[Len(s)] = "nl"
  PROVE  Counted(Append(s, ch), append(l, Len(as_bytes(s)), ch))
<1> DEFINE t == Append(s, ch)
           b == Len(as_bytes(s))
           r == append(l, b, ch)
           n == Len(l.lines)
           after == b + len_utf8(ch)
<1>1. b \in Nat /\ r \in Layouts /\ Appended(l, b, ch, r)
  BY BytesType, AppendEffect
<1>2. /\ Len(t) = Len(s) + 1 /\ Len(s) \in Nat /\ t[Len(t)] = ch /\ t # <<>>
      /\ \A i \in 0..Len(s) : i \in 0..Len(t) /\ Offset(t, i) = Offset(s, i)
      /\ Offset(t, Len(t)) = after
      /\ Offset(t, Len(s)) = b
  <2>1. /\ Len(t) = Len(s) + 1 /\ Len(s) \in Nat /\ t[Len(s) + 1] = ch /\ t # <<>>
    BY AppendProperties, LenProperties
  <2>2. Offset(t, Len(s) + 1) = after /\ Offset(s, Len(s)) = b
        /\ \A i \in 0..Len(s) : Offset(t, i) = Offset(s, i)
    BY OffsetFacts
  <2> HIDE DEF t, after, b
  <2> QED BY <2>1, <2>2
<1>3. PICK i \in 0..Len(s) : /\ l.lines[n].start = Offset(s, i)
                             /\ l.current_columns = Len(s) - i
  BY DEF Counted
<1>4. l.current_columns \in Nat
  BY LayoutParts, ColumnsAssumption
<1> HIDE DEF t, b, r
<1>5. CASE ch = "nl"
  <2>1. r.lines[Len(r.lines)].start = after /\ r.current_columns = 0
    BY <1>1, <1>5 DEF Appended, LineSpan
  <2>2. Len(t) \in 0..Len(t) /\ 0 = Len(t) - Len(t)
    BY <1>2
  <2> QED BY <1>2, <2>1, <2>2 DEF Counted, t, r, b
<1>6. CASE ch = "mark"
  <2>1. r.lines[Len(r.lines)].start = after /\ r.current_columns = l.current_columns
    BY <1>1, <1>6 DEF Appended, LineSpan
  <2>2. l.current_columns = 0
    BY <1>6 DEF Counted
  <2>3. Len(t) \in 0..Len(t) /\ 0 = Len(t) - Len(t)
    BY <1>2
  <2> QED BY <1>2, <1>6, <2>1, <2>2, <2>3 DEF Counted, t, r, b
<1>7. CASE ch \notin {"nl", "mark"} /\ l.current_columns = columns
  <2>1. r.lines[Len(r.lines)].start = b /\ r.current_columns = 1
    <3>1. ~(l.current_columns < columns)
      BY <1>7, ColumnsAssumption
    <3>2. /\ Len(r.lines) = n + 1 /\ r.current_columns = 1
          /\ r.lines[n + 1] = [start |-> b, end |-> after, is_separator |-> FALSE]
      BY <1>1, <1>7, <3>1 DEF Appended
    <3> QED BY <3>2
  <2>2. Len(s) \in 0..Len(t) /\ 1 = Len(t) - Len(s)
    BY <1>2
  <2> QED BY <1>2, <1>7, <2>1, <2>2 DEF Counted, t, r, b
<1>8. CASE ch \notin {"nl", "mark"} /\ l.current_columns # columns
  <2>1. /\ r.lines[Len(r.lines)].start = l.lines[n].start
        /\ r.current_columns = l.current_columns + 1
    <3>1. /\ Len(r.lines) = n /\ r.current_columns = l.current_columns + 1
          /\ r.lines[n] = [start |-> l.lines[n].start, end |-> after,
                           is_separator |-> l.lines[n].is_separator]
      BY <1>1, <1>8 DEF Appended
    <3> QED BY <3>1
  <2>2. i \in 0..Len(t) /\ r.current_columns = Len(t) - i
    BY <1>2, <1>3, <2>1
  <2>3. r.lines[Len(r.lines)].start = Offset(t, i)
    BY <1>2, <1>3, <2>1
  <2> QED BY <1>2, <1>8, <2>2, <2>3 DEF Counted, t, r, b
<1> QED BY <1>5, <1>6, <1>7, <1>8

LEMMA CountedText ==
  ASSUME NEW s \in Seq(Char), MarksLead(s)
  PROVE  Counted(s, from_text(s))
<1> DEFINE S == {t \in Seq(Char) : MarksLead(t) => Counted(t, from_text(t))}
<1>1. <<>> \in S
  <2>1. /\ <<>> \in Seq(Char) /\ Len(<<>>) = 0 /\ from_text(<<>>) = new
    BY FromTextEmpty, EmptySeq
  <2>2. Offset(<<>>, 0) = 0
    <3>1. "letter" \in Char
      BY DEF Char, encode_utf8
    <3>2. \A t \in Seq(Char) : Offset(t, 0) = 0
      BY <3>1, OffsetFacts
    <3> QED BY <2>1, <3>2, Zenon
  <2>3. /\ Len(new.lines) = 1 /\ new.lines[1].start = 0 /\ new.current_columns = 0
    BY DEF new, LineSpan
  <2> DEFINE e == <<>>
  <2>4. Len(e) = 0 /\ Offset(e, 0) = 0
    BY <2>1, <2>2
  <2> HIDE DEF e
  <2>5. 0 \in 0..Len(e) /\ 0 = Len(e) - 0
    BY <2>4
  <2>6. Counted(e, new)
    BY <2>3, <2>4, <2>5 DEF Counted
  <2> QED BY <2>1, <2>6 DEF e
<1>2. ASSUME NEW t \in Seq(Char), NEW ch \in Char, t \in S
      PROVE  Append(t, ch) \in S
  <2> DEFINE u == Append(t, ch)
  <2>1. /\ u \in Seq(Char) /\ Len(u) = Len(t) + 1 /\ Len(t) \in Nat
        /\ u[Len(t) + 1] = ch /\ \A i \in 1..Len(t) : u[i] = t[i]
    BY AppendProperties, LenProperties
  <2> SUFFICES ASSUME MarksLead(u) PROVE Counted(u, from_text(u))
    BY <2>1
  <2> HIDE DEF u
  <2>2. MarksLead(t)
    <3> SUFFICES ASSUME NEW i \in 2..Len(t), t[i] = "mark" PROVE t[i - 1] = "nl"
      BY DEF MarksLead
    <3>1. i \in 2..Len(u) /\ i \in 1..Len(t) /\ i - 1 \in 1..Len(t)
      BY <2>1
    <3> QED BY <2>1, <3>1 DEF MarksLead
  <2>3. Counted(t, from_text(t)) /\ from_text(t) \in Layouts
    BY <1>2, <2>2, WholeText DEF Whole
  <2>4. ch = "mark" => t = <<>> \/ t[Len(t)] = "nl"
    <3> SUFFICES ASSUME ch = "mark", t # <<>> PROVE t[Len(t)] = "nl"
      OBVIOUS
    <3>1. Len(t) >= 1
      BY EmptySeq
    <3>2. Len(t) + 1 \in 2..Len(u) /\ (Len(t) + 1) - 1 = Len(t) /\ Len(t) \in 1..Len(t)
      BY <2>1, <3>1
    <3> QED BY <2>1, <3>2 DEF MarksLead
  <2> QED BY <2>3, <2>4, CountedAppend, FromTextAppend DEF u
<1>3. s \in S
  <2> HIDE DEF S
  <2> QED BY <1>1, <1>2, Sequences
<1> QED BY <1>3

\* What is before a text can only push its lines down.
Ahead(a, b) ==
  \/ Len(a.lines) > Len(b.lines)
  \/ Len(a.lines) = Len(b.lines) /\ a.current_columns >= b.current_columns

LEMMA AheadAppend ==
  ASSUME NEW a \in Layouts, NEW b \in Layouts, Ahead(a, b),
         NEW x \in Nat, NEW y \in Nat, NEW ch \in Char
  PROVE  Ahead(append(a, x, ch), append(b, y, ch))
<1> DEFINE c == append(a, x, ch)
           d == append(b, y, ch)
<1>1. Appended(a, x, ch, c) /\ Appended(b, y, ch, d)
  BY AppendEffect
<1>2. /\ Len(a.lines) \in Nat /\ Len(b.lines) \in Nat
      /\ a.current_columns \in 0..columns /\ b.current_columns \in 0..columns
      /\ columns \in Nat
  BY LayoutParts, ColumnsAssumption
<1> HIDE DEF c, d
<1> DEFINE Step(l, r) ==
      \/ ch = "nl" /\ Len(r.lines) = Len(l.lines) + 1 /\ r.current_columns = 0
      \/ ch = "mark" /\ Len(r.lines) = Len(l.lines) /\ r.current_columns = l.current_columns
      \/ /\ ch \notin {"nl", "mark"} /\ l.current_columns = columns
         /\ Len(r.lines) = Len(l.lines) + 1 /\ r.current_columns = 1
      \/ /\ ch \notin {"nl", "mark"} /\ l.current_columns < columns
         /\ Len(r.lines) = Len(l.lines) /\ r.current_columns = l.current_columns + 1
<1>3. Step(a, c) /\ Step(b, d)
  BY <1>1 DEF Appended
<1>4. Ahead(c, d)
  <2>1. CASE ch = "nl"
    <3>1. /\ Len(c.lines) = Len(a.lines) + 1 /\ c.current_columns = 0
          /\ Len(d.lines) = Len(b.lines) + 1 /\ d.current_columns = 0
      BY <1>3, <2>1
    <3> QED BY <1>2, <3>1 DEF Ahead
  <2>2. CASE ch = "mark"
    <3>1. /\ Len(c.lines) = Len(a.lines) /\ c.current_columns = a.current_columns
          /\ Len(d.lines) = Len(b.lines) /\ d.current_columns = b.current_columns
      BY <1>3, <2>2
    <3> QED BY <3>1 DEF Ahead
  <2>3. CASE ch \notin {"nl", "mark"}
    <3>1. \/ a.current_columns = columns /\ Len(c.lines) = Len(a.lines) + 1
             /\ c.current_columns = 1
          \/ a.current_columns < columns /\ Len(c.lines) = Len(a.lines)
             /\ c.current_columns = a.current_columns + 1
      BY <1>3, <2>3
    <3>2. \/ b.current_columns = columns /\ Len(d.lines) = Len(b.lines) + 1
             /\ d.current_columns = 1
          \/ b.current_columns < columns /\ Len(d.lines) = Len(b.lines)
             /\ d.current_columns = b.current_columns + 1
      BY <1>3, <2>3
    <3> QED BY <1>2, <3>1, <3>2 DEF Ahead
  <2> QED BY <2>1, <2>2, <2>3
<1> QED BY <1>4 DEF c, d

LEMMA LinesGrow ==
  ASSUME NEW h \in Seq(Char), NEW s \in Seq(Char)
  PROVE  Len(from_text(h \o s).lines) >= Len(from_text(s).lines)
<1> DEFINE S == {t \in Seq(Char) : Ahead(from_text(h \o t), from_text(t))}
<1>1. <<>> \in S
  <2>1. <<>> \in Seq(Char) /\ h \o <<>> = h /\ from_text(<<>>) = new
    BY FromTextEmpty, EmptySeq, ConcatEmptySeq
  <2>2. from_text(h) \in Layouts
    BY WholeText DEF Whole
  <2>3. Len(new.lines) = 1 /\ new.current_columns = 0
    BY DEF new
  <2>4. Ahead(from_text(h), new)
    <3>1. /\ Len(from_text(h).lines) \in Nat /\ Len(from_text(h).lines) >= 1
          /\ from_text(h).current_columns \in 0..columns
      BY <2>2, LayoutParts
    <3>2. \A n \in Nat, c \in 0..columns : n >= 1 => n > 1 \/ (n = 1 /\ c >= 0)
      BY ColumnsAssumption
    <3>3. \/ Len(from_text(h).lines) > 1
          \/ Len(from_text(h).lines) = 1 /\ from_text(h).current_columns >= 0
      BY <3>1, <3>2
    <3> HIDE DEF new
    <3> QED BY <2>3, <3>3 DEF Ahead
  <2> QED BY <2>1, <2>4
<1>2. ASSUME NEW t \in Seq(Char), NEW ch \in Char, t \in S
      PROVE  Append(t, ch) \in S
  <2>1. /\ h \o Append(t, ch) = Append(h \o t, ch)
        /\ h \o t \in Seq(Char) /\ Append(t, ch) \in Seq(Char)
    BY AppendProperties, ConcatProperties
  <2>2. /\ from_text(h \o t) \in Layouts /\ from_text(t) \in Layouts
        /\ Ahead(from_text(h \o t), from_text(t))
    BY <1>2, <2>1, WholeText DEF Whole
  <2>3. /\ from_text(Append(h \o t, ch)) = append(from_text(h \o t), Len(as_bytes(h \o t)), ch)
        /\ from_text(Append(t, ch)) = append(from_text(t), Len(as_bytes(t)), ch)
    BY <2>1, FromTextAppend
  <2>4. Len(as_bytes(h \o t)) \in Nat /\ Len(as_bytes(t)) \in Nat
    BY <2>1, BytesType
  <2> QED BY <2>1, <2>2, <2>3, <2>4, AheadAppend
<1>3. s \in S
  <2> HIDE DEF S
  <2> QED BY <1>1, <1>2, Sequences
<1>4. from_text(h \o s) \in Layouts /\ from_text(s) \in Layouts
  BY WholeText, ConcatProperties DEF Whole
<1> QED BY <1>3, <1>4, LayoutParts DEF Ahead

-----------------------------------------------------------------------------
(***************************************************************************)
(* The inductive invariant of the main loop.  ScreenIsCurrent speaks of    *)
(* the end of a pass only; that it holds then is because, all through the  *)
(* pass, the screen is current or the pass is going to draw.               *)
(***************************************************************************)
PaperInv ==
  /\ layout = from_text(text)
  /\ MarksLead(history \o text)

DrawnInv == at = "idle" \/ ~dirty => screen = render

PageInv == TypeOK /\ PaperInv /\ ViewInRange /\ DrawnInv

\* What render draws depends on nothing else.
LEMMA RenderSame ==
  ASSUME UNCHANGED <<text, layout, full, trouble, view_offset>>, CursorCells' = CursorCells
  PROVE  render' = render
BY DEF render, EndLine, FirstLine, MaxTextRows, Lines

LEMMA SaturatingSub ==
  ASSUME NEW a \in Int, NEW b \in Int
  PROVE  saturating_sub(a, b) = IF a >= b THEN a - b ELSE 0
<1>1. a - b \in Int
  OBVIOUS
<1> QED BY <1>1 DEF saturating_sub, Max

LEMMA MinPair ==
  ASSUME NEW a \in Int, NEW b \in Int
  PROVE  Min({a, b}) = IF a <= b THEN a ELSE b
BY DEF Min

\* The numbers render works with.
LEMMA PageNumbers ==
  ASSUME TypeOK, PaperInv
  PROVE  /\ layout \in Layouts
         /\ Lines \in Nat /\ Lines >= 1 /\ view_offset \in Nat
         /\ rows \in Nat /\ rows >= 2 /\ full \in BOOLEAN
         /\ MaxOffset = IF Lines >= rows THEN Lines - rows ELSE 0
         /\ EndLine = IF Lines >= view_offset THEN Lines - view_offset ELSE 0
         /\ MaxTextRows = IF full THEN rows - 1 ELSE rows
         /\ FirstLine = IF EndLine >= MaxTextRows THEN EndLine - MaxTextRows ELSE 0
<1>1. layout \in Layouts
  BY WholeText DEF TypeOK, LayoutTypeOK, PaperInv, Whole
<1>2. Lines \in Nat /\ Lines >= 1
  BY <1>1, LayoutParts DEF Lines
<1>3. view_offset \in Nat /\ rows \in Nat /\ rows >= 2 /\ full \in BOOLEAN
  BY RowsAssumption DEF TypeOK
<1>4. MaxOffset = IF Lines >= rows THEN Lines - rows ELSE 0
  BY <1>2, <1>3, SaturatingSub DEF MaxOffset
<1>5. EndLine = IF Lines >= view_offset THEN Lines - view_offset ELSE 0
  BY <1>2, <1>3, SaturatingSub DEF EndLine
<1>6. MaxTextRows = IF full THEN rows - 1 ELSE rows
  BY <1>3, SaturatingSub DEF MaxTextRows
<1>7. EndLine \in Int /\ MaxTextRows \in Int
  BY <1>2, <1>3, <1>5, <1>6
<1>8. FirstLine = IF EndLine >= MaxTextRows THEN EndLine - MaxTextRows ELSE 0
  BY <1>7, SaturatingSub DEF FirstLine
<1> QED BY <1>1, <1>2, <1>3, <1>4, <1>5, <1>6, <1>8

-----------------------------------------------------------------------------
(***************************************************************************)
(* The text.  A marker leads its line, in the history and the text behind  *)
(* it, wherever the one ends and the other begins.                         *)
(***************************************************************************)
Kept == Typed \cup {"dash", "mark"}

LEMMA KeptChars ==
  Kept \subseteq Char /\ "nl" \in Char /\ "mark" \in Char /\ "dash" \in Char
BY TypedAssumption DEF Kept, Char, encode_utf8

LEMMA FoundText ==
  ASSUME NEW n \in Nat, NEW s \in Found(n)
  PROVE  s \in Seq(Kept) /\ s \in Seq(Char)
<1>1. PICK k \in 0..n : s \in [1..k -> Kept]
  BY DEF Found, Kept
<1>2. s \in Seq(Kept)
  BY <1>1, SeqDef
<1> QED BY <1>2, KeptChars, SeqMonotonic

\* The parts of a concatenation.
LEMMA TwoParts ==
  ASSUME NEW x \in Seq(Char), NEW y \in Seq(Char)
  PROVE  /\ x \o y \in Seq(Char) /\ Len(x \o y) = Len(x) + Len(y)
         /\ Len(x) \in Nat /\ Len(y) \in Nat
         /\ \A i \in 1..Len(x) : (x \o y)[i] = x[i]
         /\ \A i \in 1..Len(y) : (x \o y)[Len(x) + i] = y[i]
<1>1. /\ x \o y \in Seq(Char) /\ Len(x \o y) = Len(x) + Len(y)
      /\ Len(x) \in Nat /\ Len(y) \in Nat
      /\ \A i \in 1..(Len(x) + Len(y)) : (x \o y)[i] = IF i <= Len(x) THEN x[i] ELSE y[i - Len(x)]
  BY ConcatProperties, LenProperties
<1>2. \A i \in 1..Len(x) : i \in 1..(Len(x) + Len(y)) /\ i <= Len(x)
  BY <1>1
<1>3. \A i \in 1..Len(y) : /\ Len(x) + i \in 1..(Len(x) + Len(y)) /\ ~(Len(x) + i <= Len(x))
                            /\ (Len(x) + i) - Len(x) = i
  BY <1>1
<1> QED BY <1>1, <1>2, <1>3

\* Behind a text that is empty or ends a line, markers lead when they do so
\* before and behind the place.
LEMMA JoinLeads ==
  ASSUME NEW x \in Seq(Char), NEW y \in Seq(Char), MarksLead(x), MarksLead(y),
         x = <<>> \/ x[Len(x)] = "nl" \/ y = <<>> \/ y[1] # "mark"
  PROVE  x \o y \in Seq(Char) /\ MarksLead(x \o y)
<1> DEFINE z == x \o y
           n == Len(x)
           m == Len(y)
<1>1. /\ z \in Seq(Char) /\ Len(z) = n + m /\ n \in Nat /\ m \in Nat
      /\ \A i \in 1..n : z[i] = x[i]
      /\ \A i \in 1..m : z[n + i] = y[i]
  BY TwoParts
<1>2. /\ \A i \in 2..n : x[i] = "mark" => x[i - 1] = "nl"
      /\ \A i \in 2..m : y[i] = "mark" => y[i - 1] = "nl"
  BY DEF MarksLead
<1>3. n # 0 /\ m # 0 => x[n] = "nl" \/ y[1] # "mark"
  BY EmptySeq
<1> HIDE DEF z, n, m
<1>4. MarksLead(z)
  <2> SUFFICES ASSUME NEW i \in 2..Len(z), z[i] = "mark" PROVE z[i - 1] = "nl"
    BY DEF MarksLead
  <2>1. i \in 2..(n + m) /\ i \in Nat /\ i >= 2
    BY <1>1
  <2>2. CASE i <= n
    <3>1. i \in 1..n /\ i \in 2..n /\ i - 1 \in 1..n
      BY <1>1, <2>1, <2>2
    <3> QED BY <1>1, <1>2, <3>1
  <2>3. CASE i = n + 1
    <3>1. /\ 1 \in 1..m /\ n + 1 = i /\ n \in 1..n /\ i - 1 = n /\ n # 0 /\ m # 0
      BY <1>1, <2>1, <2>3
    <3>2. z[i] = y[1] /\ z[i - 1] = x[n]
      BY <1>1, <3>1
    <3> QED BY <1>3, <3>1, <3>2
  <2>4. CASE i > n + 1
    <3>1. PICK j \in 2..m : i = n + j
      <4>1. i - n \in 2..m /\ i = n + (i - n)
        BY <1>1, <2>1, <2>4
      <4> QED BY <4>1
    <3>2. /\ j \in 1..m /\ j - 1 \in 1..m /\ i - 1 = n + (j - 1)
      BY <1>1, <3>1
    <3> QED BY <1>1, <1>2, <3>1, <3>2
  <2> QED BY <1>1, <2>1, <2>2, <2>3, <2>4
<1> QED BY <1>1, <1>4 DEF z

\* Markers that lead their lines in a text do so in the end of it.
LEMMA SuffixLeads ==
  ASSUME NEW h \in Seq(Char), NEW s \in Seq(Char), MarksLead(h \o s)
  PROVE  MarksLead(s)
<1> SUFFICES ASSUME NEW i \in 2..Len(s), s[i] = "mark" PROVE s[i - 1] = "nl"
  BY DEF MarksLead
<1>1. /\ Len(h \o s) = Len(h) + Len(s) /\ Len(h) \in Nat /\ Len(s) \in Nat
      /\ \A k \in 1..Len(s) : (h \o s)[Len(h) + k] = s[k]
  BY TwoParts
<1>2. /\ i \in 1..Len(s) /\ i - 1 \in 1..Len(s)
      /\ Len(h) + i \in 2..(Len(h) + Len(s)) /\ (Len(h) + i) - 1 = Len(h) + (i - 1)
  BY <1>1
<1>3. (h \o s)[(Len(h) + i) - 1] = "nl"
  BY <1>1, <1>2 DEF MarksLead
<1> QED BY <1>1, <1>2, <1>3

\* Strings without a marker but for the first character.
LEMMA ShortLeads ==
  /\ <<>> \in Seq(Char) /\ MarksLead(<<>>)
  /\ \A ch \in Char : <<ch>> \in Seq(Char) /\ MarksLead(<<ch>>)
  /\ <<"nl", "nl">> \in Seq(Char) /\ MarksLead(<<"nl", "nl">>)
  /\ <<"mark", "dash", "nl">> \in Seq(Char) /\ MarksLead(<<"mark", "dash", "nl">>)
<1>1. <<>> \in Seq(Char) /\ Len(<<>>) = 0 /\ 2..0 = {}
  OBVIOUS
<1>2. \A ch \in Char : <<ch>> \in Seq(Char) /\ Len(<<ch>>) = 1
  OBVIOUS
<1>3. /\ 2..1 = {} /\ \A i \in 2..2 : i = 2
      /\ \A i \in 2..3 : i = 2 \/ i = 3
  OBVIOUS
<1>4. MarksLead(<<>>)
  BY <1>1 DEF MarksLead
<1>5. \A ch \in Char : MarksLead(<<ch>>)
  BY <1>2, <1>3 DEF MarksLead
<1>6. <<"nl", "nl">> \in Seq(Char) /\ MarksLead(<<"nl", "nl">>)
  <2> DEFINE x == <<"nl", "nl">>
  <2>1. x \in Seq(Char) /\ Len(x) = 2 /\ x[2] = "nl"
    BY KeptChars
  <2> HIDE DEF x
  <2>2. \A i \in 2..Len(x) : x[i] # "mark"
    BY <1>3, <2>1
  <2>3. MarksLead(x)
    BY <2>2 DEF MarksLead
  <2> QED BY <2>1, <2>3 DEF x
<1>7. <<"mark", "dash", "nl">> \in Seq(Char) /\ MarksLead(<<"mark", "dash", "nl">>)
  <2> DEFINE y == <<"mark", "dash", "nl">>
  <2>1. y \in Seq(Char) /\ Len(y) = 3 /\ y[2] = "dash" /\ y[3] = "nl"
    BY KeptChars
  <2> HIDE DEF y
  <2>2. \A i \in 2..Len(y) : y[i] # "mark"
    BY <1>3, <2>1
  <2>3. MarksLead(y)
    BY <2>2 DEF MarksLead
  <2> QED BY <2>1, <2>3 DEF y
<1> QED BY <1>1, <1>2, <1>4, <1>5, <1>6, <1>7

LEMMA AssociativeText ==
  ASSUME NEW a \in Seq(Char), NEW b \in Seq(Char), NEW c \in Seq(Char)
  PROVE  (a \o b) \o c = a \o (b \o c)
BY ONLY Associative

\* Newlines end a line.
LEMMA NewlinesClose ==
  ASSUME NEW x \in Seq(Char), MarksLead(x), NEW w \in {<<"nl">>, <<"nl", "nl">>}
  PROVE  /\ w \in Seq(Char) /\ x \o w \in Seq(Char) /\ MarksLead(x \o w)
         /\ (x \o w)[Len(x \o w)] = "nl"
<1>1. w \in Seq(Char) /\ MarksLead(w)
  BY ShortLeads, KeptChars
<1>2. Len(w) \in {1, 2} /\ w[1] = "nl" /\ w[Len(w)] = "nl"
  <2>1. Len(<<"nl">>) = 1 /\ <<"nl">>[1] = "nl"
    OBVIOUS
  <2>2. Len(<<"nl", "nl">>) = 2 /\ <<"nl", "nl">>[1] = "nl" /\ <<"nl", "nl">>[2] = "nl"
    OBVIOUS
  <2>3. CASE w = <<"nl">>
    BY <2>1, <2>3
  <2>4. CASE w = <<"nl", "nl">>
    BY <2>2, <2>4
  <2> QED BY <2>3, <2>4
<1>3. x \o w \in Seq(Char) /\ MarksLead(x \o w)
  BY <1>1, <1>2, JoinLeads
<1>4. Len(w) \in 1..Len(w) /\ Len(x \o w) = Len(x) + Len(w)
  BY <1>1, <1>2, TwoParts
<1>5. (x \o w)[Len(x) + Len(w)] = w[Len(w)]
  BY <1>1, <1>4, TwoParts
<1> QED BY <1>1, <1>2, <1>3, <1>4, <1>5

\* The scroll kernel_main has stamped.
LEMMA SeparatorLeads ==
  ASSUME NEW h \in Seq(Char), NEW x \in Seq(Char), MarksLead(h \o x), h # <<>> => x # <<>>
  PROVE  x \o separator(x) \in Seq(Char) /\ MarksLead(h \o (x \o separator(x)))
<1> DEFINE y == <<"mark", "dash", "nl">>
           g == h \o x
<1>1. y \in Seq(Char) /\ MarksLead(y) /\ g \in Seq(Char) /\ MarksLead(g)
  BY ShortLeads, ConcatProperties
<1>2. CASE x = <<>>
  <2>1. h = <<>> /\ separator(x) = <<>> \o y
    BY <1>2 DEF separator
  <2>2. \A t \in Seq(Char) : <<>> \o t = t
    BY ConcatEmptySeq
  <2> HIDE DEF y
  <2>3. x \o separator(x) = y /\ h \o (x \o separator(x)) = y
    BY <1>1, <1>2, <2>1, <2>2
  <2> QED BY <1>1, <2>3
<1>3. CASE x # <<>>
  <2>1. PICK w \in {<<"nl">>, <<"nl", "nl">>} : separator(x) = w \o y
    BY <1>3 DEF separator
  <2> HIDE DEF g, y
  <2>2. /\ w \in Seq(Char) /\ g \o w \in Seq(Char) /\ MarksLead(g \o w)
        /\ (g \o w)[Len(g \o w)] = "nl"
    BY <1>1, NewlinesClose
  <2>3. MarksLead((g \o w) \o y)
    BY <1>1, <2>2, JoinLeads
  <2>4. w \o y \in Seq(Char) /\ x \o (w \o y) \in Seq(Char)
    BY <1>1, <2>2, ConcatProperties
  <2>5. (g \o w) \o y = g \o (w \o y)
    <3>1. g \in Seq(Char) /\ w \in Seq(Char) /\ y \in Seq(Char)
      BY <1>1, <2>2
    <3> HIDE DEF g
    <3>2. \A c \in Seq(Char) : (g \o w) \o c = g \o (w \o c)
      BY ONLY <3>1, AssociativeText
    <3> QED BY ONLY <3>1, <3>2, Zenon
  <2>6. g \o (w \o y) = h \o (x \o (w \o y))
    BY <2>4, AssociativeText DEF g
  <2> QED BY <2>1, <2>3, <2>4, <2>5, <2>6
<1> QED BY <1>2, <1>3

\* A character that is no marker behind the text.
LEMMA InkLeads ==
  ASSUME NEW h \in Seq(Char), NEW x \in Seq(Char), NEW ch \in Char, ch # "mark",
         MarksLead(h \o x)
  PROVE  MarksLead(h \o Append(x, ch))
<1>1. <<ch>> \in Seq(Char) /\ MarksLead(<<ch>>) /\ <<ch>>[1] # "mark" /\ h \o x \in Seq(Char)
  BY ShortLeads, ConcatProperties
<1>2. MarksLead((h \o x) \o <<ch>>)
  BY <1>1, JoinLeads
<1>3. Append(x, ch) = x \o <<ch>>
  BY AppendIsConcat
<1>4. (h \o x) \o <<ch>> = h \o (x \o <<ch>>)
  BY ONLY <1>1, h \in Seq(Char), x \in Seq(Char), AssociativeText, Zenon
<1> QED BY ONLY <1>2, <1>3, <1>4, Zenon

LEMMA TextLeads ==
  ASSUME TypeOK, PaperInv
  PROVE  history \in Seq(Char) /\ text \in Seq(Char) /\ MarksLead(text)
<1>1. history \in Seq(Char) /\ text \in Seq(Char)
  BY KeptChars, SeqMonotonic DEF TypeOK, LayoutTypeOK, Kept
<1> QED BY <1>1, SuffixLeads DEF PaperInv

-----------------------------------------------------------------------------
(***************************************************************************)
(* The steps of the main loop.                                             *)
(***************************************************************************)
LEMMA FromTextType ==
  ASSUME NEW s \in Seq(Char)
  PROVE  /\ from_text(s) \in Layouts
         /\ from_text(s).current_columns \in 0..columns
         /\ from_text(s).lines \in Seq([start : Nat, end : Nat, is_separator : BOOLEAN])
BY WholeText, LayoutParts DEF Whole, Span

\* On a page that starts at or below the end of the scroll minus a screen.
LEMMA ZeroInRange ==
  ASSUME NEW n \in Nat
  PROVE  0 <= saturating_sub(n, rows)
BY SaturatingSub, RowsAssumption

LEMMA FullType ==
  ASSUME NEW h \in Seq(Char), NEW s \in Seq(Char)
  PROVE  (Len(as_bytes(h \o s)) >= CAPACITY) \in BOOLEAN
<1>1. h \o s \in Seq(Char)
  BY ConcatProperties
<1>2. Len(as_bytes(h \o s)) \in Int /\ CAPACITY \in Int
  BY <1>1, BytesType, CapacityAssumption
<1>3. \A a, b \in Int : (a >= b) \in BOOLEAN
  OBVIOUS
<1> QED BY <1>2, <1>3

LEMMA PageInitInv == Init => PageInv
<1> SUFFICES ASSUME Init PROVE PageInv
  OBVIOUS
<1>1. PICK tail \in Found(TAIL) :
        /\ history # <<>> => tail # <<>>
        /\ MarksLead(history \o tail)
        /\ \/ text = tail /\ trouble = FALSE
           \/ text = tail \o separator(tail) /\ trouble \in BOOLEAN
  BY DEF Init
<1>2. /\ history \in Found(HISTORY) /\ layout = from_text(text)
      /\ full = (Len(as_bytes(history \o text)) >= CAPACITY)
      /\ view_offset = 0 /\ cursor_on = TRUE /\ dirty = FALSE /\ at = "keys" /\ screen = render
  BY DEF Init
<1>3. history \in Seq(Kept) /\ history \in Seq(Char) /\ tail \in Seq(Char)
  BY <1>1, <1>2, FoundText, BoundsAssumption
<1>4. text \in Seq(Char) /\ MarksLead(history \o text)
  BY <1>1, <1>3, SeparatorLeads
<1>6. TypeOK
  <2>1. LayoutTypeOK
    BY <1>2, <1>4, FromTextType DEF LayoutTypeOK
  <2>2. full \in BOOLEAN
    BY <1>2, <1>3, <1>4, FullType
  <2>3. trouble \in BOOLEAN
    BY <1>1
  <2> QED BY <1>2, <1>3, <2>1, <2>2, <2>3 DEF TypeOK, Kept
<1>7. PaperInv
  BY <1>2, <1>4 DEF PaperInv
<1>8. ViewInRange
  <2>1. Lines \in Nat
    BY <1>6, <1>7, PageNumbers
  <2> QED BY <1>2, <2>1, ZeroInRange DEF ViewInRange, MaxOffset
<1> QED BY <1>2, <1>6, <1>7, <1>8 DEF PageInv, DrawnInv

\* A page is turned, to an offset that exists.
LEMMA TurnInv ==
  ASSUME PageInv, at = "keys", NEW new_offset \in Nat, new_offset <= MaxOffset, Turn(new_offset)
  PROVE  PageInv'
<1>1. /\ view_offset' = new_offset /\ dirty' = (dirty \/ new_offset # view_offset)
      /\ UNCHANGED <<text, layout, history, full, trouble, cursor_on, at, screen>>
  BY DEF Turn, paper
<1>2. TypeOK'
  <2>1. dirty' \in BOOLEAN
    BY <1>1
  <2> QED BY <1>1, <2>1 DEF PageInv, TypeOK, LayoutTypeOK
<1>3. PaperInv'
  BY <1>1 DEF PageInv, PaperInv
<1>4. ViewInRange'
  BY <1>1 DEF PageInv, ViewInRange, MaxOffset, Lines
<1>5. DrawnInv'
  <2> SUFFICES ASSUME ~dirty' PROVE screen' = render'
    BY <1>1 DEF DrawnInv
  <2>1. ~dirty /\ view_offset' = view_offset
    BY <1>1
  <2>2. CursorCells' = CursorCells
    BY <1>1, <2>1 DEF CursorCells, FirstLine, EndLine, MaxTextRows, Lines
  <2>3. render' = render
    BY <1>1, <2>1, <2>2, RenderSame
  <2> QED BY <1>1, <2>1, <2>3 DEF PageInv, DrawnInv
<1> QED BY <1>2, <1>3, <1>4, <1>5 DEF PageInv

LEMMA PageUpOffset ==
  ASSUME PageInv
  PROVE  LET o == Min({view_offset + saturating_sub(rows, 1), MaxOffset})
         IN  /\ o \in Nat /\ o <= MaxOffset
             /\ o <= view_offset + (rows - 1) /\ view_offset <= o
<1>1. /\ Lines \in Nat /\ view_offset \in Nat /\ rows \in Nat /\ rows >= 2
      /\ MaxOffset = IF Lines >= rows THEN Lines - rows ELSE 0
      /\ view_offset <= MaxOffset
  BY PageNumbers DEF PageInv, ViewInRange
<1>2. saturating_sub(rows, 1) = rows - 1
  BY <1>1, SaturatingSub
<1>3. MaxOffset \in Nat
  BY <1>1
<1>4. Min({view_offset + (rows - 1), MaxOffset})
        = IF view_offset + (rows - 1) <= MaxOffset THEN view_offset + (rows - 1) ELSE MaxOffset
  BY <1>1, <1>3, MinPair
<1> QED BY <1>1, <1>2, <1>3, <1>4

LEMMA PageDownOffset ==
  ASSUME PageInv
  PROVE  LET o == saturating_sub(view_offset, saturating_sub(rows, 1))
         IN  /\ o \in Nat /\ o <= MaxOffset
             /\ o <= view_offset /\ view_offset <= o + (rows - 1)
<1>1. /\ Lines \in Nat /\ view_offset \in Nat /\ rows \in Nat /\ rows >= 2
      /\ MaxOffset = IF Lines >= rows THEN Lines - rows ELSE 0
      /\ view_offset <= MaxOffset
  BY PageNumbers DEF PageInv, ViewInRange
<1>2. saturating_sub(rows, 1) = rows - 1
  BY <1>1, SaturatingSub
<1>3. saturating_sub(view_offset, rows - 1)
        = IF view_offset >= rows - 1 THEN view_offset - (rows - 1) ELSE 0
  BY <1>1, SaturatingSub
<1>4. MaxOffset \in Nat
  BY <1>1
<1> QED BY <1>1, <1>2, <1>3, <1>4

\* A key that inks brings the reader back to the live end and will be drawn.
LEMMA InkKeyInv ==
  ASSUME PageInv, NEW ch \in Typed, Ink(ch)
  PROVE  PageInv'
<1>1. /\ at = "keys" /\ view_offset' = 0 /\ dirty' = TRUE
      /\ UNCHANGED <<cursor_on, at, screen>> /\ append_char(ch)
  BY DEF Ink
<1>2. ch \in Char /\ ch # "mark"
  BY TypedAssumption
<1>3. /\ text \in Seq(Char) /\ layout = from_text(text) /\ history \in Seq(Char)
      /\ MarksLead(history \o text)
  BY TextLeads DEF PageInv, PaperInv
<1>4. /\ text' \in Seq(Char) /\ layout' = from_text(text') /\ MarksLead(history' \o text')
      /\ history' = history /\ full' \in BOOLEAN /\ trouble' \in BOOLEAN
  <2>1. CASE full /\ UNCHANGED paper
    BY <1>3, <2>1 DEF paper, PageInv, TypeOK, PaperInv
  <2>2. CASE ~full /\ Push(ch) /\ history' = history
             /\ full' = (Len(as_bytes(history \o text')) >= CAPACITY)
             /\ trouble' \in {trouble, TRUE}
    <3>1. /\ text' = Append(text, ch) /\ layout' = append(layout, Len(as_bytes(text)), ch)
      BY <2>2 DEF Push
    <3>2. text' \in Seq(Char)
      BY <1>2, <1>3, <3>1, AppendProperties
    <3>3. layout' = from_text(text')
      BY <1>2, <1>3, <3>1, FromTextAppend
    <3>4. MarksLead(history' \o text')
      BY <1>2, <1>3, <2>2, <3>1, InkLeads
    <3>5. full' \in BOOLEAN /\ trouble' \in BOOLEAN
      <4>1. full' = (Len(as_bytes(history \o text')) >= CAPACITY)
        BY <2>2
      <4>2. full' \in BOOLEAN
        BY <1>3, <3>2, <4>1, FullType
      <4>3. trouble' \in BOOLEAN
        BY <2>2 DEF PageInv, TypeOK
      <4> QED BY <4>2, <4>3
    <3> QED BY <2>2, <3>2, <3>3, <3>4, <3>5
  <2> QED BY <1>1, <2>1, <2>2 DEF append_char
<1>5. TypeOK'
  <2>1. LayoutTypeOK'
    BY <1>4, FromTextType DEF LayoutTypeOK
  <2> QED BY <1>1, <1>4, <2>1 DEF PageInv, TypeOK
<1>6. PaperInv'
  BY <1>4 DEF PaperInv
<1>7. ViewInRange'
  <2>1. Lines' \in Nat
    BY <1>4, FromTextType, LayoutParts DEF Lines
  <2> QED BY <1>1, <2>1, ZeroInRange DEF ViewInRange, MaxOffset
<1>8. DrawnInv'
  BY <1>1 DEF DrawnInv
<1> QED BY <1>5, <1>6, <1>7, <1>8 DEF PageInv

\* A toggle that is no reason to draw changes no cell.
LEMMA BlinkInv == PageInv /\ Blink => PageInv'
<1> SUFFICES ASSUME PageInv, Blink PROVE PageInv'
  OBVIOUS
<1>1. /\ at = "keys" /\ at' = "show"
      /\ UNCHANGED <<text, layout, history, full, trouble, view_offset, screen>>
      /\ \/ cursor_on' = cursor_on /\ dirty' = dirty
         \/ cursor_on' = ~cursor_on /\ dirty' = (dirty \/ (view_offset = 0 /\ ~full))
  BY DEF Blink, paper
<1>2. {full, trouble, cursor_on, dirty} \subseteq BOOLEAN
  BY DEF PageInv, TypeOK
<1>3. cursor_on' \in BOOLEAN /\ dirty' \in BOOLEAN
  <2>1. CASE cursor_on' = cursor_on /\ dirty' = dirty
    BY <1>2, <2>1
  <2>2. CASE cursor_on' = ~cursor_on /\ dirty' = (dirty \/ (view_offset = 0 /\ ~full))
    BY <2>2
  <2> QED BY <1>1, <2>1, <2>2
<1>4. TypeOK'
  BY <1>1, <1>3 DEF PageInv, TypeOK, LayoutTypeOK
<1>5. PaperInv' /\ ViewInRange'
  BY <1>1 DEF PageInv, PaperInv, ViewInRange, MaxOffset, Lines
<1>6. DrawnInv'
  <2> SUFFICES ASSUME ~dirty' PROVE screen' = render'
    BY <1>1 DEF DrawnInv
  <2>1. ~dirty /\ (cursor_on' = cursor_on \/ ~(view_offset = 0 /\ ~full))
    <3>1. CASE cursor_on' = cursor_on /\ dirty' = dirty
      BY <3>1
    <3>2. CASE dirty' = (dirty \/ (view_offset = 0 /\ ~full))
      BY <3>2
    <3> QED BY <1>1, <3>1, <3>2
  <2>2. CursorCells' = CursorCells
    <3>1. CASE cursor_on' = cursor_on
      BY <1>1, <3>1 DEF CursorCells, FirstLine, EndLine, MaxTextRows, Lines
    <3>2. CASE ~(view_offset = 0 /\ ~full)
      <4>1. CursorCells = {}
        BY <3>2 DEF CursorCells
      <4>2. CursorCells' = {}
        BY <1>1, <3>2 DEF CursorCells
      <4> QED BY <4>1, <4>2
    <3> QED BY <2>1, <3>1, <3>2
  <2>3. render' = render
    BY <1>1, <2>2, RenderSame
  <2> QED BY <1>1, <2>1, <2>3 DEF PageInv, DrawnInv
<1> QED BY <1>4, <1>5, <1>6 DEF PageInv

LEMMA ShowInv == PageInv /\ Show => PageInv'
<1> SUFFICES ASSUME PageInv, Show PROVE PageInv'
  OBVIOUS
<1>1. /\ at = "show" /\ at' = "idle" /\ screen' = IF dirty THEN render ELSE screen
      /\ UNCHANGED <<text, layout, history, full, trouble, view_offset, cursor_on, dirty>>
  BY DEF Show, paper, view
<1>2. TypeOK' /\ PaperInv' /\ ViewInRange'
  BY <1>1 DEF PageInv, TypeOK, LayoutTypeOK, PaperInv, ViewInRange, MaxOffset, Lines
<1>3. CursorCells' = CursorCells
  BY <1>1 DEF CursorCells, FirstLine, EndLine, MaxTextRows, Lines
<1>4. render' = render
  BY <1>1, <1>3, RenderSame
<1>5. screen' = render
  BY <1>1 DEF PageInv, DrawnInv
<1>6. DrawnInv'
  BY <1>4, <1>5 DEF DrawnInv
<1> QED BY <1>2, <1>6 DEF PageInv

\* The history pushes lines down and takes none away, so the page stays in
\* range although nobody looks at view_offset.
LEMMA IdleInv == PageInv /\ Idle => PageInv'
<1> SUFFICES ASSUME PageInv, Idle PROVE PageInv'
  OBVIOUS
<1>1. /\ at = "idle" /\ at' = "keys" /\ dirty' = FALSE
      /\ view_offset' = view_offset /\ cursor_on' = cursor_on
  BY DEF Idle, view
<1>2. CASE UNCHANGED <<paper, screen>>
  <2>1. UNCHANGED <<text, layout, history, full, trouble, screen>>
    BY <1>2 DEF paper
  <2>2. TypeOK' /\ PaperInv' /\ ViewInRange'
    BY <1>1, <2>1 DEF PageInv, TypeOK, LayoutTypeOK, PaperInv, ViewInRange, MaxOffset, Lines
  <2>3. CursorCells' = CursorCells
    BY <1>1, <2>1 DEF CursorCells, FirstLine, EndLine, MaxTextRows, Lines
  <2>4. render' = render
    BY <1>1, <2>1, <2>3, RenderSame
  <2>5. DrawnInv'
    BY <1>1, <2>1, <2>4 DEF PageInv, DrawnInv
  <2> QED BY <2>2, <2>5 DEF PageInv
<1>3. CASE /\ ~fully_loaded /\ text' = history \o text /\ layout' = from_text(text')
           /\ history' = <<>> /\ UNCHANGED <<full, trouble>> /\ screen' = render'
  <2>1. /\ text \in Seq(Char) /\ history \in Seq(Char) /\ MarksLead(history \o text)
        /\ layout = from_text(text)
    BY TextLeads DEF PageInv, PaperInv
  <2>2. text' \in Seq(Char) /\ MarksLead(history' \o text')
    <3>1. text' \in Seq(Char)
      BY <1>3, <2>1, ConcatProperties
    <3>2. history' \o text' = text'
      BY <1>3, <3>1, ConcatEmptySeq
    <3> QED BY <1>3, <2>1, <3>1, <3>2
  <2>3. TypeOK'
    <3>1. LayoutTypeOK'
      BY <1>3, <2>2, FromTextType DEF LayoutTypeOK
    <3>2. history' \in Seq(Typed \cup {"dash", "mark"})
      BY <1>3, EmptySeq
    <3> QED BY <1>1, <1>3, <3>1, <3>2 DEF PageInv, TypeOK
  <2>4. PaperInv'
    BY <1>3, <2>2 DEF PaperInv
  <2>5. ViewInRange'
    <3>2. Lines' >= Lines
      BY <1>3, <2>1, LinesGrow DEF Lines
    <3>3. Lines' \in Nat /\ Lines \in Nat /\ rows \in Nat /\ view_offset \in Nat
      BY <1>3, <2>1, <2>2, FromTextType, LayoutParts, RowsAssumption DEF Lines, PageInv, TypeOK
    <3>4. /\ view_offset <= saturating_sub(Lines, rows)
          /\ saturating_sub(Lines, rows) = IF Lines >= rows THEN Lines - rows ELSE 0
          /\ saturating_sub(Lines', rows) = IF Lines' >= rows THEN Lines' - rows ELSE 0
      <4>1. view_offset <= saturating_sub(Lines, rows)
        BY DEF PageInv, ViewInRange, MaxOffset
      <4>2. Lines \in Int /\ Lines' \in Int /\ rows \in Int
        BY <3>3
      <4>3. saturating_sub(Lines, rows) = IF Lines >= rows THEN Lines - rows ELSE 0
        BY ONLY <4>2, SaturatingSub
      <4>4. saturating_sub(Lines', rows) = IF Lines' >= rows THEN Lines' - rows ELSE 0
        BY ONLY <4>2, SaturatingSub
      <4> QED BY <4>1, <4>3, <4>4, Zenon
    <3>5. \A a, b, r, v \in Nat : b >= a /\ v <= (IF a >= r THEN a - r ELSE 0)
                                  => v <= (IF b >= r THEN b - r ELSE 0)
      OBVIOUS
    <3>6. view_offset <= saturating_sub(Lines', rows)
      <4>1. PICK a \in Nat, b \in Nat : a = Lines /\ b = Lines'
        BY <3>3
      <4>2. /\ b >= a /\ view_offset <= (IF a >= rows THEN a - rows ELSE 0)
            /\ saturating_sub(Lines', rows) = IF b >= rows THEN b - rows ELSE 0
        BY <3>2, <3>4, <4>1
      <4> QED BY <3>3, <3>5, <4>2
    <3> QED BY <1>1, <3>6 DEF ViewInRange, MaxOffset
  <2>6. DrawnInv'
    BY <1>3 DEF DrawnInv
  <2> QED BY <2>3, <2>4, <2>5, <2>6 DEF PageInv
<1> QED BY <1>2, <1>3 DEF Idle

LEMMA PageNextInv == PageInv /\ [Next]_vars => PageInv'
<1> SUFFICES ASSUME PageInv, [Next]_vars PROVE PageInv'
  OBVIOUS
<1>1. CASE PageUp
  BY <1>1, PageUpOffset, TurnInv DEF PageUp
<1>2. CASE PageDown
  BY <1>2, PageDownOffset, TurnInv DEF PageDown
<1>3. ASSUME NEW ch \in Typed, Ink(ch) PROVE PageInv'
  BY <1>3, InkKeyInv
<1>4. CASE Blink
  BY <1>4, BlinkInv
<1>5. CASE Show
  BY <1>5, ShowInv
<1>6. CASE Idle
  BY <1>6, IdleInv
<1>7. CASE UNCHANGED vars
  <2>1. UNCHANGED <<text, layout, history, full, trouble, view_offset, cursor_on, dirty, at,
                    screen>>
    BY <1>7 DEF vars, paper, view, loop
  <2>2. TypeOK' /\ PaperInv' /\ ViewInRange'
    BY <2>1 DEF PageInv, TypeOK, LayoutTypeOK, PaperInv, ViewInRange, MaxOffset, Lines
  <2>3. CursorCells' = CursorCells
    BY <2>1 DEF CursorCells, FirstLine, EndLine, MaxTextRows, Lines
  <2>4. render' = render
    BY <2>1, <2>3, RenderSame
  <2> QED BY <2>1, <2>2, <2>4 DEF PageInv, DrawnInv
<1> QED BY <1>1, <1>2, <1>3, <1>4, <1>5, <1>6, <1>7 DEF Next

-----------------------------------------------------------------------------
(* The inductive invariant holds in every reachable state of the main      *)
(* loop.                                                                   *)
THEOREM PageInvariance == Spec => []PageInv
BY PageInitInv, PageNextInv, PTL DEF Spec

(* The text, its lines and the page keep their types.                      *)
THEOREM TypeCorrect == Spec => []TypeOK
<1>1. PageInv => TypeOK
  BY DEF PageInv
<1> QED BY <1>1, PageInvariance, PTL

(* Whenever the main loop is about to sleep, the screen shows what render  *)
(* would draw: no reason to draw is ever missed.                           *)
THEOREM ScreenStaysCurrent == Spec => []ScreenIsCurrent
<1>1. PageInv => ScreenIsCurrent
  BY DEF PageInv, DrawnInv, ScreenIsCurrent
<1> QED BY <1>1, PageInvariance, PTL

(* The page never leaves the scroll, whatever is typed, loaded or turned.  *)
THEOREM ViewStaysInRange == Spec => []ViewInRange
<1>1. PageInv => ViewInRange
  BY DEF PageInv
<1> QED BY <1>1, PageInvariance, PTL

(* Turning a page up or down skips no line, with or without the message of *)
(* a full scroll.                                                          *)
THEOREM PagesAlwaysMeet == Spec => PagesMeet
<1>1. ASSUME PageInv, PageInv', PageUp \/ PageDown
      PROVE  FirstLine <= EndLine' /\ FirstLine' <= EndLine
  <2>1. /\ Lines \in Nat /\ Lines >= 1 /\ rows \in Nat /\ rows >= 2 /\ full \in BOOLEAN
        /\ view_offset \in Nat
        /\ EndLine = IF Lines >= view_offset THEN Lines - view_offset ELSE 0
        /\ MaxTextRows = IF full THEN rows - 1 ELSE rows
        /\ FirstLine = IF EndLine >= MaxTextRows THEN EndLine - MaxTextRows ELSE 0
    BY <1>1, PageNumbers DEF PageInv
  <2>2. /\ view_offset' \in Nat
        /\ view_offset' <= view_offset + (rows - 1) /\ view_offset <= view_offset' + (rows - 1)
    BY <1>1, <2>1, PageUpOffset, PageDownOffset DEF PageUp, PageDown, Turn
  <2>3. UNCHANGED <<text, layout, full>>
    BY <1>1 DEF PageUp, PageDown, Turn, paper
  <2>4. Lines' = Lines /\ MaxTextRows' = MaxTextRows
    BY <2>3 DEF Lines, MaxTextRows
  <2>5. EndLine' = IF Lines >= view_offset' THEN Lines - view_offset' ELSE 0
    <3>1. Lines \in Int /\ view_offset' \in Int
      BY <2>1, <2>2
    <3>2. EndLine' = saturating_sub(Lines, view_offset')
      BY <2>4 DEF EndLine
    <3>3. saturating_sub(Lines, view_offset')
            = IF Lines >= view_offset' THEN Lines - view_offset' ELSE 0
      BY ONLY <3>1, SaturatingSub
    <3> QED BY <3>2, <3>3, Zenon
  <2>6. FirstLine' = IF EndLine' >= MaxTextRows THEN EndLine' - MaxTextRows ELSE 0
    <3>1. EndLine' \in Int /\ MaxTextRows \in Int
      BY <2>1, <2>2, <2>5
    <3>2. FirstLine' = saturating_sub(EndLine', MaxTextRows)
      BY <2>4 DEF FirstLine
    <3>3. saturating_sub(EndLine', MaxTextRows)
            = IF EndLine' >= MaxTextRows THEN EndLine' - MaxTextRows ELSE 0
      BY ONLY <3>1, SaturatingSub
    <3> QED BY <3>2, <3>3, Zenon
  <2>7. MaxTextRows \in Nat /\ MaxTextRows >= rows - 1
    BY <2>1
  <2>8. \A n, v, w, r \in Nat : r >= 1 /\ v <= w + (r - 1)
           => (IF n >= w THEN n - w ELSE 0) <= (IF n >= v THEN n - v ELSE 0) + (r - 1)
    OBVIOUS
  <2>9. /\ EndLine \in Nat /\ EndLine' \in Nat
        /\ EndLine <= EndLine' + (rows - 1) /\ EndLine' <= EndLine + (rows - 1)
    <3>1. PICK n \in Nat, v \in Nat, w \in Nat :
             n = Lines /\ v = view_offset /\ w = view_offset'
      BY <2>1, <2>2
    <3>2. /\ EndLine = IF n >= v THEN n - v ELSE 0
          /\ EndLine' = IF n >= w THEN n - w ELSE 0
          /\ w <= v + (rows - 1) /\ v <= w + (rows - 1) /\ rows \in Nat /\ rows >= 1
      <4>1. EndLine = IF n >= v THEN n - v ELSE 0
        BY <2>1, <3>1
      <4>2. EndLine' = IF n >= w THEN n - w ELSE 0
        BY <2>5, <3>1
      <4>3. w <= v + (rows - 1) /\ v <= w + (rows - 1)
        BY <2>2, <3>1
      <4>4. rows \in Nat /\ rows >= 1
        BY <2>1
      <4> QED BY <4>1, <4>2, <4>3, <4>4
    <3>3. EndLine \in Nat /\ EndLine' \in Nat
      BY <3>2
    <3> QED BY <2>8, <3>2, <3>3
  <2>10. \A a, b, m, r \in Nat : r >= 1 /\ m >= r - 1 /\ a <= b + (r - 1)
            => (IF a >= m THEN a - m ELSE 0) <= b
    OBVIOUS
  <2>11. PICK a \in Nat, b \in Nat, m \in Nat :
            a = EndLine /\ b = EndLine' /\ m = MaxTextRows
    BY <2>7, <2>9
  <2>12. /\ FirstLine = IF a >= m THEN a - m ELSE 0
         /\ FirstLine' = IF b >= m THEN b - m ELSE 0
         /\ a <= b + (rows - 1) /\ b <= a + (rows - 1)
         /\ m >= rows - 1 /\ rows \in Nat /\ rows >= 1
    <3>1. FirstLine = IF a >= m THEN a - m ELSE 0
      BY <2>1, <2>11
    <3>2. FirstLine' = IF b >= m THEN b - m ELSE 0
      BY <2>6, <2>11
    <3>3. a <= b + (rows - 1) /\ b <= a + (rows - 1)
      BY <2>9, <2>11
    <3>4. m >= rows - 1
      BY <2>7, <2>11
    <3>5. rows \in Nat /\ rows >= 1
      BY <2>1
    <3> QED BY <3>1, <3>2, <3>3, <3>4, <3>5
  <2>13. FirstLine <= b /\ FirstLine' <= a
    BY <2>10, <2>12
  <2> QED BY <2>11, <2>13
<1>2. PageInv /\ PageInv' /\ [Next]_vars
        => [PageUp \/ PageDown => FirstLine <= EndLine' /\ FirstLine' <= EndLine]_vars
  BY <1>1
<1> QED BY <1>2, PageInvariance, PTL DEF Spec, PagesMeet

(* render never slices the text inside a character: every line starts and  *)
(* ends between two characters.                                            *)
THEOREM SlicesStayWhole == Spec => []SlicesAreWhole
<1>1. PageInv => SlicesAreWhole
  <2> SUFFICES ASSUME PageInv PROVE SlicesAreWhole
    OBVIOUS
  <2>1. Whole(text, layout)
    BY WholeText DEF PageInv, TypeOK, LayoutTypeOK, PaperInv
  <2> QED BY <2>1 DEF Whole, SlicesAreWhole
<1> QED BY <1>1, PageInvariance, PTL

(* The column append keeps is the number of characters on the open line:   *)
(* the cursor is right behind the ink.                                     *)
THEOREM CursorStaysBehindInk == Spec => []CursorBehindInk
<1>1. PageInv => CursorBehindInk
  <2> SUFFICES ASSUME PageInv PROVE CursorBehindInk
    OBVIOUS
  <2>1. /\ text \in Seq(Char) /\ Len(text) \in Nat
        /\ Whole(text, layout) /\ Counted(text, layout)
    BY WholeText, CountedText, LenProperties, TextLeads DEF PageInv, PaperInv
  <2> DEFINE line == layout.lines[Len(layout.lines)]
  <2>2. PICK k \in 0..Len(text) : /\ line.start = Offset(text, k)
                                  /\ layout.current_columns = Len(text) - k
    BY <2>1 DEF Counted
  <2>3. line.end = Offset(text, Len(text))
    <3>1. "letter" \in Char
      BY DEF Char, encode_utf8
    <3>2. Offset(text, Len(text)) = Len(as_bytes(text))
      BY <2>1, <3>1, OffsetFacts
    <3> QED BY <2>1, <3>2 DEF Whole
  <2>4. \A i \in 0..Len(text) : Offset(text, i) \in Nat
    <3>1. "letter" \in Char
      BY DEF Char, encode_utf8
    <3> QED BY <2>1, <3>1, OffsetFacts
  <2> HIDE DEF line
  <2>5. Covered(text, line) = (k + 1)..Len(text)
    <3>1. ASSUME NEW i \in 1..Len(text)
          PROVE  /\ Offset(text, i - 1) >= line.start <=> i >= k + 1
                 /\ Offset(text, i) <= line.end
      <4>1. i - 1 \in 0..Len(text) /\ i \in 0..Len(text) /\ Len(text) \in 0..Len(text)
        BY <2>1
      <4>2. i - 1 < k => Offset(text, i - 1) < Offset(text, k)
        BY <2>1, <4>1, OffsetGrows
      <4>3. k < i - 1 => Offset(text, k) < Offset(text, i - 1)
        BY <2>1, <4>1, OffsetGrows
      <4>4. i < Len(text) => Offset(text, i) < Offset(text, Len(text))
        BY <2>1, <4>1, OffsetGrows
      <4>5. /\ Offset(text, i - 1) \in Nat /\ Offset(text, i) \in Nat
            /\ Offset(text, k) \in Nat /\ Offset(text, Len(text)) \in Nat
        BY <2>4, <4>1
      <4>6. i - 1 = k => Offset(text, i - 1) = Offset(text, k)
        OBVIOUS
      <4>7. i = Len(text) => Offset(text, i) = Offset(text, Len(text))
        OBVIOUS
      <4>8. Offset(text, i - 1) >= Offset(text, k) <=> i >= k + 1
        BY <2>1, <4>2, <4>3, <4>5, <4>6
      <4>9. Offset(text, i) <= Offset(text, Len(text))
        BY <2>1, <4>4, <4>5, <4>7
      <4> QED BY <2>2, <2>3, <4>8, <4>9
    <3>2. (k + 1)..Len(text) \subseteq 1..Len(text)
      BY <2>1
    <3>3. \A i \in 1..Len(text) : i \in (k + 1)..Len(text) <=> i >= k + 1
      BY <2>1
    <3> QED BY <3>1, <3>2, <3>3 DEF Covered
  <2>6. Cardinality((k + 1)..Len(text)) = Len(text) - k
    <3>1. k + 1 \in Int /\ Len(text) \in Int
      BY <2>1
    <3>2. Cardinality((k + 1)..Len(text)) =
            IF k + 1 > Len(text) THEN 0 ELSE Len(text) - (k + 1) + 1
      BY <3>1, FS_Interval
    <3> QED BY <2>1, <3>2
  <2> QED BY <2>2, <2>5, <2>6 DEF CursorBehindInk, cursor, line
<1> QED BY <1>1, PageInvariance, PTL
-----------------------------------------------------------------------------
(***************************************************************************)
(* The reference layout, when a character is put behind the text.          *)
(***************************************************************************)
Newlines(s, i) == {j \in 1..(i - 1) : s[j] = "nl"}

OpenParagraph(s) == Paragraph(s, Len(s) + 1)

LEMMA CountNat ==
  ASSUME NEW k \in Nat, NEW T \in SUBSET (1..k)
  PROVE  IsFiniteSet(T) /\ Cardinality(T) \in Nat
<1>1. IsFiniteSet(1..k)
  BY FS_Interval
<1>2. T \subseteq 1..k
  OBVIOUS
<1>3. IsFiniteSet(T)
  BY <1>1, <1>2, FS_Subset
<1> QED BY <1>3, FS_CardinalityType

LEMMA ParagraphBefore ==
  ASSUME NEW s \in Seq(Char), NEW i \in 1..(Len(s) + 1)
  PROVE  Paragraph(s, i) \in Nat /\ Paragraph(s, i) <= OpenParagraph(s) /\ OpenParagraph(s) \in Nat
<1>1. Len(s) \in Nat /\ (Len(s) + 1) - 1 = Len(s)
  BY LenProperties
<1>2. /\ Paragraph(s, i) = Cardinality(Newlines(s, i))
      /\ OpenParagraph(s) = Cardinality(Newlines(s, Len(s) + 1))
  BY DEF Paragraph, OpenParagraph, Newlines
<1>3. Newlines(s, i) \subseteq Newlines(s, Len(s) + 1)
  BY <1>1 DEF Newlines
<1>4. Newlines(s, Len(s) + 1) \in SUBSET (1..Len(s))
  BY <1>1 DEF Newlines
<1> HIDE DEF Newlines
<1>5. IsFiniteSet(Newlines(s, Len(s) + 1)) /\ Cardinality(Newlines(s, Len(s) + 1)) \in Nat
  BY <1>1, <1>4, CountNat
<1>6. /\ IsFiniteSet(Newlines(s, i))
      /\ Cardinality(Newlines(s, i)) <= Cardinality(Newlines(s, Len(s) + 1))
  BY <1>3, <1>5, FS_Subset
<1>7. Cardinality(Newlines(s, i)) \in Nat
  BY <1>6, FS_CardinalityType
<1> QED BY <1>2, <1>5, <1>6, <1>7

LEMMA ParagraphAppend ==
  ASSUME NEW s \in Seq(Char), NEW ch \in Char
  PROVE  /\ \A i \in 1..(Len(s) + 1) : Paragraph(Append(s, ch), i) = Paragraph(s, i)
         /\ OpenParagraph(Append(s, ch)) = IF ch = "nl" THEN OpenParagraph(s) + 1 ELSE OpenParagraph(s)
<1> DEFINE t == Append(s, ch)
           n == Len(s)
<1>1. /\ n \in Nat /\ Len(t) = n + 1 /\ t[n + 1] = ch /\ \A i \in 1..n : t[i] = s[i]
  BY AppendProperties, LenProperties
<1> HIDE DEF t, n
<1>2. ASSUME NEW i \in 1..(n + 1) PROVE Newlines(t, i) = Newlines(s, i)
  <2>1. \A j \in 1..(i - 1) : j \in 1..n
    BY <1>1
  <2> QED BY <1>1, <2>1 DEF Newlines
<1>3. \A i \in 1..(n + 1) : Paragraph(t, i) = Paragraph(s, i)
  BY <1>2 DEF Paragraph, Newlines
<1>4. Newlines(t, (n + 1) + 1) = Newlines(s, n + 1) \cup (IF ch = "nl" THEN {n + 1} ELSE {})
  <2>1. \A j \in 1..(((n + 1) + 1) - 1) : j \in 1..n \/ j = n + 1
    BY <1>1
  <2>2. /\ \A j \in 1..((n + 1) - 1) : j \in 1..n /\ j \in 1..(((n + 1) + 1) - 1)
        /\ n + 1 \in 1..(((n + 1) + 1) - 1)
        /\ \A j \in 1..n : j \in 1..((n + 1) - 1)
    BY <1>1
  <2> QED BY <1>1, <2>1, <2>2 DEF Newlines
<1>5. IsFiniteSet(Newlines(s, n + 1)) /\ n + 1 \notin Newlines(s, n + 1)
  <2>1. Newlines(s, n + 1) \in SUBSET (1..n) /\ n + 1 \notin 1..n
    BY <1>1 DEF Newlines
  <2> QED BY <1>1, <2>1, CountNat
<1>6. /\ OpenParagraph(t) = Cardinality(Newlines(t, (n + 1) + 1))
      /\ OpenParagraph(s) = Cardinality(Newlines(s, n + 1))
  BY <1>1 DEF OpenParagraph, Paragraph, Newlines, n
<1>7. CASE ch = "nl"
  <2>1. Cardinality(Newlines(s, n + 1) \cup {n + 1}) = Cardinality(Newlines(s, n + 1)) + 1
    BY <1>5, FS_AddElement
  <2> QED BY <1>3, <1>4, <1>6, <1>7, <2>1 DEF t, n
<1>8. CASE ch # "nl"
  <2>1. Newlines(t, (n + 1) + 1) = Newlines(s, n + 1)
    BY <1>4, <1>8
  <2> QED BY <1>3, <1>6, <1>8, <2>1 DEF t, n
<1> QED BY <1>7, <1>8

LEMMA InkAppend ==
  ASSUME NEW s \in Seq(Char), NEW ch \in Char
  PROVE  /\ Inked(Append(s, ch))
              = Inked(s) \cup (IF ch \in {"nl", "mark"} THEN {} ELSE {Len(s) + 1})
         /\ \A p : InkOf(Append(s, ch), p)
              = InkOf(s, p) \cup (IF ch \notin {"nl", "mark"} /\ p = OpenParagraph(s)
                                  THEN {Len(s) + 1} ELSE {})
<1> DEFINE t == Append(s, ch)
           n == Len(s)
<1>1. /\ n \in Nat /\ Len(t) = n + 1 /\ t[n + 1] = ch /\ \A i \in 1..n : t[i] = s[i]
  BY AppendProperties, LenProperties
<1>2. \A i \in 1..(n + 1) : Paragraph(t, i) = Paragraph(s, i)
  BY ParagraphAppend
<1> HIDE DEF t, n
<1>3. \A i \in 1..(n + 1) : i \in 1..n \/ i = n + 1
  BY <1>1
<1>4. 1..n \subseteq 1..(n + 1) /\ n + 1 \in 1..(n + 1) /\ n + 1 \notin 1..n
  BY <1>1
<1>5. Inked(t) = Inked(s) \cup (IF ch \in {"nl", "mark"} THEN {} ELSE {n + 1})
  <2>1. Inked(t) = {i \in 1..(n + 1) : t[i] \notin {"nl", "mark"}}
    BY <1>1 DEF Inked
  <2>2. Inked(s) = {i \in 1..n : s[i] \notin {"nl", "mark"}}
    BY DEF Inked, n
  <2> QED BY <1>1, <1>3, <1>4, <2>1, <2>2
<1>6. Paragraph(s, n + 1) = OpenParagraph(s)
  BY DEF OpenParagraph, n
<1>7. Inked(s) \subseteq 1..n
  BY DEF Inked, n
<1>8. ASSUME NEW p
      PROVE  InkOf(t, p) = InkOf(s, p) \cup (IF ch \notin {"nl", "mark"} /\ p = OpenParagraph(s)
                                             THEN {n + 1} ELSE {})
  <2>1. /\ InkOf(t, p) = {i \in Inked(t) : Paragraph(t, i) = p}
        /\ InkOf(s, p) = {i \in Inked(s) : Paragraph(s, i) = p}
    BY DEF InkOf
  <2> QED BY <1>2, <1>4, <1>5, <1>6, <1>7, <2>1
<1> QED BY <1>5, <1>8 DEF t, n

LEMMA InkType ==
  ASSUME NEW s \in Seq(Char), NEW p
  PROVE  /\ Len(s) \in Nat /\ Inked(s) \in SUBSET (1..Len(s))
         /\ InkOf(s, p) \in SUBSET (1..Len(s))
         /\ IsFiniteSet(InkOf(s, p)) /\ Cardinality(InkOf(s, p)) \in Nat
         /\ Cardinality(InkOf(s, p)) = 0 <=> InkOf(s, p) = {}
<1>1. Len(s) \in Nat
  BY LenProperties
<1>2. Inked(s) \in SUBSET (1..Len(s)) /\ InkOf(s, p) \in SUBSET (1..Len(s))
  BY DEF Inked, InkOf
<1>3. IsFiniteSet(InkOf(s, p)) /\ Cardinality(InkOf(s, p)) \in Nat
  BY <1>1, <1>2, CountNat
<1>4. Cardinality(InkOf(s, p)) = 0 <=> InkOf(s, p) = {}
  BY <1>3, FS_EmptySet
<1> QED BY <1>1, <1>2, <1>3, <1>4

\* How many characters of its paragraph stand before one does not change.
LEMMA PositionAppend ==
  ASSUME NEW s \in Seq(Char), NEW ch \in Char
  PROVE  /\ \A i \in Inked(s) : Position(Append(s, ch), i) = Position(s, i)
         /\ ch \notin {"nl", "mark"} =>
              Position(Append(s, ch), Len(s) + 1) = Cardinality(InkOf(s, OpenParagraph(s)))
<1> DEFINE t == Append(s, ch)
           n == Len(s)
<1>1. n \in Nat /\ Inked(s) \in SUBSET (1..n) /\ \A p : InkOf(s, p) \in SUBSET (1..n)
  BY InkType
<1>2. \A i \in 1..(n + 1) : Paragraph(t, i) = Paragraph(s, i)
  BY ParagraphAppend
<1>3. \A p : InkOf(t, p) = InkOf(s, p) \cup (IF ch \notin {"nl", "mark"} /\ p = OpenParagraph(s)
                                             THEN {n + 1} ELSE {})
  BY InkAppend
<1>4. Paragraph(s, n + 1) = OpenParagraph(s)
  BY DEF OpenParagraph
<1> HIDE DEF t, n
<1>5. ASSUME NEW i \in Inked(s) PROVE Position(t, i) = Position(s, i)
  <2>1. i \in 1..n /\ i \in 1..(n + 1) /\ ~(n + 1 < i)
    BY <1>1
  <2>2. Paragraph(t, i) = Paragraph(s, i)
    BY <1>2, <2>1
  <2>3. {j \in InkOf(t, Paragraph(s, i)) : j < i} = {j \in InkOf(s, Paragraph(s, i)) : j < i}
    BY <1>3, <2>1
  <2> QED BY <2>2, <2>3 DEF Position
<1>6. ASSUME ch \notin {"nl", "mark"}
      PROVE  Position(t, n + 1) = Cardinality(InkOf(s, OpenParagraph(s)))
  <2>1. Paragraph(t, n + 1) = OpenParagraph(s)
    <3>1. n + 1 \in 1..(n + 1)
      BY <1>1
    <3> QED BY <1>2, <1>4, <3>1
  <2>2. InkOf(t, OpenParagraph(s)) = InkOf(s, OpenParagraph(s)) \cup {n + 1}
    BY <1>3, <1>6
  <2>3. \A j \in InkOf(s, OpenParagraph(s)) : j < n + 1
    <3>1. \A j \in 1..n : j < n + 1
      BY <1>1
    <3>2. InkOf(s, OpenParagraph(s)) \in SUBSET (1..n)
      BY <1>1, Zenon
    <3> QED BY <3>1, <3>2
  <2>4. ~(n + 1 < n + 1)
    BY <1>1
  <2>5. {j \in InkOf(t, OpenParagraph(s)) : j < n + 1} = InkOf(s, OpenParagraph(s))
    BY <2>2, <2>3, <2>4
  <2> QED BY <2>1, <2>5 DEF Position
<1> QED BY <1>5, <1>6 DEF t, n

\* The function in the definition of FirstRow.
Rows(f, s, k) == f = [q \in 0..k |-> IF q = 0 THEN 0 ELSE f[q - 1] + Height(s, q - 1)]

LEMMA RowsExist ==
  ASSUME NEW s, NEW k \in Nat
  PROVE  \E f : Rows(f, s, k)
<1> DEFINE S == {j \in Nat : \E f : Rows(f, s, j)}
<1>1. 0 \in S
  <2>1. Rows([q \in 0..0 |-> 0], s, 0)
    BY DEF Rows
  <2>2. \E f : Rows(f, s, 0)
    BY <2>1, Zenon
  <2> QED BY <2>2
<1>2. ASSUME NEW j \in Nat, j \in S PROVE j + 1 \in S
  <2>1. PICK f : Rows(f, s, j)
    BY <1>2
  <2> DEFINE g == [q \in 0..(j + 1) |-> IF q = 0 THEN 0 ELSE f[q - 1] + Height(s, q - 1)]
  <2>2. \A q \in 0..(j + 1) : q # 0 => q - 1 \in 0..j
    OBVIOUS
  <2>3. \A q \in 0..j : g[q] = f[q]
    BY <2>1 DEF Rows
  <2>4. Rows(g, s, j + 1)
    BY <2>2, <2>3 DEF Rows
  <2> HIDE DEF g
  <2>5. \E h : Rows(h, s, j + 1)
    BY <2>4, Zenon
  <2> QED BY <2>5
<1>3. k \in S
  <2> HIDE DEF S
  <2> QED BY <1>1, <1>2, Lengths
<1> QED BY <1>3

LEMMA FirstRowDef ==
  ASSUME NEW s, NEW k \in Nat
  PROVE  \E f : Rows(f, s, k) /\ FirstRow(s, k) = f[k]
<1>1. \E f : Rows(f, s, k)
  BY RowsExist, Zenon
<1>2. FirstRow(s, k) = (CHOOSE f : Rows(f, s, k))[k]
  BY DEF FirstRow, Rows
<1>3. Rows(CHOOSE f : Rows(f, s, k), s, k)
  BY <1>1, Zenon
<1> QED BY <1>2, <1>3, Zenon

LEMMA FirstRowStep ==
  ASSUME NEW s, NEW k \in Nat
  PROVE  FirstRow(s, 0) = 0 /\ FirstRow(s, k + 1) = FirstRow(s, k) + Height(s, k)
<1>1. FirstRow(s, 0) = 0
  <2>1. PICK f : Rows(f, s, 0) /\ FirstRow(s, 0) = f[0]
    <3>1. 0 \in Nat
      OBVIOUS
    <3> QED BY <3>1, FirstRowDef, Zenon
  <2> QED BY <2>1 DEF Rows
<1>2. PICK f : Rows(f, s, k) /\ FirstRow(s, k) = f[k]
  BY FirstRowDef, Zenon
<1>3. PICK g : Rows(g, s, k + 1) /\ FirstRow(s, k + 1) = g[k + 1]
  <2>1. k + 1 \in Nat
    OBVIOUS
  <2> QED BY <2>1, FirstRowDef, Zenon
<1> DEFINE S == {i \in 0..k : g[i] = f[i]}
<1>4. 0 \in S
  BY <1>2, <1>3 DEF Rows
<1>5. ASSUME NEW i \in 0..(k - 1), i \in S PROVE i + 1 \in S
  <2>1. /\ i + 1 \in 0..k /\ i + 1 \in 0..(k + 1) /\ i + 1 # 0 /\ (i + 1) - 1 = i
    OBVIOUS
  <2>2. f[i + 1] = f[i] + Height(s, i)
    BY <1>2, <2>1 DEF Rows
  <2>3. g[i + 1] = g[i] + Height(s, i)
    BY <1>3, <2>1 DEF Rows
  <2> QED BY <1>5, <2>1, <2>2, <2>3
<1>6. k \in S
  <2>1. k \in 0..k
    OBVIOUS
  <2> HIDE DEF S
  <2> QED BY <1>4, <1>5, <2>1, LengthsUpto
<1>7. g[k + 1] = g[k] + Height(s, k)
  <2>1. k + 1 \in 0..(k + 1) /\ k + 1 # 0 /\ (k + 1) - 1 = k
    OBVIOUS
  <2> QED BY <1>3, <2>1 DEF Rows
<1>8. g[k] = f[k]
  BY <1>6
<1> QED BY <1>1, <1>2, <1>3, <1>7, <1>8

LEMMA Quotient ==
  ASSUME NEW h \in Nat, NEW r \in Nat, r < columns
  PROVE  (h * columns + r) \div columns = h
<1> DEFINE x == h * columns + r
           q == x \div columns
<1>0. columns \in Nat /\ columns > 0
  BY ColumnsAssumption
<1>1. x \in Nat
  BY <1>0
<1> HIDE DEF x
<1>2. q \in Int /\ columns * q <= x /\ x < columns * (q + 1)
  BY <1>0, <1>1
<1> HIDE DEF q
<1>3. columns * q <= h * columns + r /\ h * columns + r < columns * (q + 1)
  BY <1>2 DEF x
<1>4. ~(q > h)
  BY <1>0, <1>2, <1>3
<1>5. ~(q < h)
  BY <1>0, <1>2, <1>3
<1>6. q = h
  BY <1>2, <1>4, <1>5
<1> QED BY <1>6 DEF q, x

LEMMA HeightNat ==
  ASSUME NEW s \in Seq(Char), NEW p
  PROVE  Height(s, p) \in Nat
<1> DEFINE k == Cardinality(InkOf(s, p))
<1>1. k \in Nat /\ columns \in Nat /\ columns > 0
  BY InkType, ColumnsAssumption
<1> HIDE DEF k
<1>2. k + columns - 1 \in Nat
  BY <1>1
<1>3. \A x \in Nat : x \div columns \in Nat
  BY <1>1
<1>4. (k + columns - 1) \div columns \in Nat
  BY <1>2, <1>3
<1> QED BY <1>4 DEF Height, k

LEMMA FirstRowNat ==
  ASSUME NEW s \in Seq(Char), NEW k \in Nat
  PROVE  FirstRow(s, k) \in Nat
<1> DEFINE S == {j \in Nat : FirstRow(s, j) \in Nat}
<1>1. 0 \in S
  BY FirstRowStep
<1>2. ASSUME NEW j \in Nat, j \in S PROVE j + 1 \in S
  <2>1. FirstRow(s, j) \in Nat /\ Height(s, j) \in Nat
    BY <1>2, HeightNat
  <2>2. FirstRow(s, j + 1) = FirstRow(s, j) + Height(s, j)
    BY FirstRowStep
  <2>3. FirstRow(s, j + 1) \in Nat
    BY <2>1, <2>2
  <2> QED BY <2>3
<1>3. k \in S
  <2> HIDE DEF S
  <2> QED BY <1>1, <1>2, Lengths
<1> QED BY <1>3

\* Paragraphs of the same heights start on the same rows.
LEMMA FirstRowSame ==
  ASSUME NEW s, NEW t, NEW k \in Nat, \A q \in 0..(k - 1) : Height(t, q) = Height(s, q)
  PROVE  FirstRow(t, k) = FirstRow(s, k)
<1> DEFINE S == {j \in 0..k : FirstRow(t, j) = FirstRow(s, j)}
<1>1. 0 \in S
  BY FirstRowStep
<1>2. ASSUME NEW j \in 0..(k - 1), j \in S PROVE j + 1 \in S
  <2>1. j \in Nat /\ j + 1 \in 0..k
    OBVIOUS
  <2>2. /\ FirstRow(t, j + 1) = FirstRow(t, j) + Height(t, j)
        /\ FirstRow(s, j + 1) = FirstRow(s, j) + Height(s, j)
    BY <2>1, FirstRowStep
  <2> QED BY <1>2, <2>1, <2>2
<1>3. k \in S
  <2>1. k \in 0..k
    OBVIOUS
  <2> HIDE DEF S
  <2> QED BY <1>1, <1>2, <2>1, LengthsUpto
<1> QED BY <1>3

\* A character behind the text moves no other: only the paragraph that is open
\* can become higher.
LEMMA HeightAppend ==
  ASSUME NEW s \in Seq(Char), NEW ch \in Char
  PROVE  /\ \A p : ch \in {"nl", "mark"} \/ p # OpenParagraph(s) =>
              Height(Append(s, ch), p) = Height(s, p)
         /\ ch \notin {"nl", "mark"} =>
              /\ InkOf(Append(s, ch), OpenParagraph(s)) # {}
              /\ Cardinality(InkOf(Append(s, ch), OpenParagraph(s)))
                   = Cardinality(InkOf(s, OpenParagraph(s))) + 1
<1> DEFINE t == Append(s, ch)
           n == Len(s)
<1>1. \A p : InkOf(t, p) = InkOf(s, p) \cup (IF ch \notin {"nl", "mark"} /\ p = OpenParagraph(s)
                                             THEN {n + 1} ELSE {})
  BY InkAppend
<1>2. /\ n \in Nat /\ InkOf(s, OpenParagraph(s)) \in SUBSET (1..n)
      /\ IsFiniteSet(InkOf(s, OpenParagraph(s)))
  BY InkType
<1> HIDE DEF t, n
<1>3. ASSUME NEW p, ch \in {"nl", "mark"} \/ p # OpenParagraph(s)
      PROVE  Height(t, p) = Height(s, p)
  <2>1. InkOf(t, p) = InkOf(s, p)
    BY <1>1, <1>3
  <2> QED BY <2>1 DEF Height
<1>4. ASSUME ch \notin {"nl", "mark"}
      PROVE  /\ InkOf(t, OpenParagraph(s)) # {}
             /\ Cardinality(InkOf(t, OpenParagraph(s)))
                  = Cardinality(InkOf(s, OpenParagraph(s))) + 1
  <2>1. InkOf(t, OpenParagraph(s)) = InkOf(s, OpenParagraph(s)) \cup {n + 1}
    BY <1>1, <1>4
  <2>2. n + 1 \notin InkOf(s, OpenParagraph(s))
    <3>1. n + 1 \notin 1..n
      BY <1>2
    <3> QED BY <1>2, <3>1
  <2>3. Cardinality(InkOf(s, OpenParagraph(s)) \cup {n + 1})
          = Cardinality(InkOf(s, OpenParagraph(s))) + 1
    BY <1>2, <2>2, FS_AddElement
  <2> QED BY <2>1, <2>3
<1> QED BY <1>3, <1>4 DEF t

LEMMA RowAppend ==
  ASSUME NEW s \in Seq(Char), NEW ch \in Char
  PROVE  /\ \A p \in 0..OpenParagraph(s) : FirstRow(Append(s, ch), p) = FirstRow(s, p)
         /\ \A i \in Inked(s) : Row(Append(s, ch), i) = Row(s, i)
         /\ ch \notin {"nl", "mark"} =>
              Row(Append(s, ch), Len(s) + 1)
                = FirstRow(s, OpenParagraph(s))
                    + Cardinality(InkOf(s, OpenParagraph(s))) \div columns
<1> DEFINE t == Append(s, ch)
           n == Len(s)
           open == OpenParagraph(s)
<1>1. n \in Nat /\ Inked(s) \in SUBSET (1..n) /\ n + 1 \in 1..(n + 1)
  BY InkType
<1>2. \A i \in 1..(n + 1) : Paragraph(s, i) \in Nat /\ Paragraph(s, i) <= open /\ open \in Nat
  BY ParagraphBefore
<1>3. \A i \in 1..(n + 1) : Paragraph(t, i) = Paragraph(s, i)
  BY ParagraphAppend
<1>4. Paragraph(s, n + 1) = open
  BY DEF OpenParagraph
<1>5. \A p : p # open => Height(t, p) = Height(s, p)
  BY HeightAppend
<1>6. /\ \A i \in Inked(s) : Position(t, i) = Position(s, i)
      /\ ch \notin {"nl", "mark"} => Position(t, n + 1) = Cardinality(InkOf(s, open))
  BY PositionAppend
<1> HIDE DEF t, n, open
<1>7. ASSUME NEW p \in 0..open PROVE FirstRow(t, p) = FirstRow(s, p)
  <2>1. p \in Nat /\ \A q \in 0..(p - 1) : q # open
    BY <1>1, <1>2
  <2> QED BY <1>5, <2>1, FirstRowSame
<1>8. ASSUME NEW i \in Inked(s) PROVE Row(t, i) = Row(s, i)
  <2>1. i \in 1..(n + 1)
    BY <1>1
  <2>2. Paragraph(s, i) \in 0..open /\ Paragraph(t, i) = Paragraph(s, i)
    BY <1>2, <1>3, <2>1
  <2> QED BY <1>6, <1>7, <2>2 DEF Row
<1>9. ch \notin {"nl", "mark"} =>
        Row(t, n + 1) = FirstRow(s, open) + Cardinality(InkOf(s, open)) \div columns
  <2>1. Paragraph(t, n + 1) = open /\ open \in 0..open
    BY <1>1, <1>2, <1>3, <1>4
  <2> QED BY <1>6, <1>7, <2>1 DEF Row
<1> QED BY <1>7, <1>8, <1>9 DEF t, n, open
-----------------------------------------------------------------------------
(***************************************************************************)
(* The characters a line covers, when a character is put behind the text.  *)
(***************************************************************************)
LEMMA OffsetOrder ==
  ASSUME NEW s \in Seq(Char)
  PROVE  \A i, j \in 0..Len(s) : /\ Offset(s, i) \in Nat
                                 /\ i < j => Offset(s, i) < Offset(s, j)
                                 /\ i <= j => Offset(s, i) <= Offset(s, j)
<1>1. "letter" \in Char /\ Len(s) \in Nat
  BY LenProperties DEF Char, encode_utf8
<1>2. \A i \in 0..Len(s) : Offset(s, i) \in Nat
  BY <1>1, OffsetFacts
<1> TAKE i, j \in 0..Len(s)
<1>3. i < j => Offset(s, i) < Offset(s, j)
  BY OffsetGrows
<1>4. i = j => Offset(s, i) = Offset(s, j)
  OBVIOUS
<1>5. Offset(s, i) \in Nat /\ Offset(s, j) \in Nat
  BY <1>2
<1> QED BY <1>1, <1>3, <1>4, <1>5

LEMMA CoveredNothing ==
  ASSUME NEW s \in Seq(Char), NEW span, span.start = Offset(s, Len(s))
  PROVE  Covered(s, span) = {}
<1>1. Len(s) \in Nat
  BY LenProperties
<1>2. ASSUME NEW i \in 1..Len(s) PROVE ~(Offset(s, i - 1) >= span.start)
  <2>1. i - 1 \in 0..Len(s) /\ Len(s) \in 0..Len(s) /\ i - 1 < Len(s)
    BY <1>1
  <2>2. /\ Offset(s, i - 1) \in Nat /\ Offset(s, Len(s)) \in Nat
        /\ Offset(s, i - 1) < Offset(s, Len(s))
    BY <2>1, OffsetOrder
  <2>3. ~(Offset(s, i - 1) >= Offset(s, Len(s)))
    BY <2>2
  <2> QED BY <2>3
<1> QED BY <1>2 DEF Covered

\* The offsets of a text and of the text with a character behind it.
LEMMA OffsetAppend ==
  ASSUME NEW s \in Seq(Char), NEW ch \in Char
  PROVE  LET t == Append(s, ch)
             b == Len(as_bytes(s))
             after == b + len_utf8(ch)
         IN  /\ t \in Seq(Char) /\ Len(s) \in Nat /\ Len(t) = Len(s) + 1
             /\ b \in Nat /\ after \in Nat /\ b < after
             /\ \A i \in 0..Len(s) : /\ Offset(t, i) = Offset(s, i) /\ Offset(s, i) \in Nat
                                     /\ Offset(s, i) <= b
                                     /\ i < Len(s) => Offset(s, i) < b
             /\ Offset(s, Len(s)) = b /\ Offset(t, Len(s)) = b
             /\ Offset(t, Len(s) + 1) = after
<1> DEFINE t == Append(s, ch)
           b == Len(as_bytes(s))
           after == b + len_utf8(ch)
<1>1. t \in Seq(Char) /\ Len(s) \in Nat /\ Len(t) = Len(s) + 1 /\ Len(s) \in 0..Len(s)
  BY AppendProperties, LenProperties
<1>2. b \in Nat /\ len_utf8(ch) \in Nat /\ len_utf8(ch) >= 1
  BY BytesType, LenUtf8
<1>3. /\ Offset(s, Len(s)) = b
      /\ \A i \in 0..Len(s) : Offset(t, i) = Offset(s, i) /\ Offset(s, i) \in Nat
      /\ Offset(t, Len(s) + 1) = after
  BY OffsetFacts
<1>4. b < after /\ after \in Nat
  BY <1>2
<1> HIDE DEF t, b, after
<1>5. ASSUME NEW i \in 0..Len(s)
      PROVE  Offset(s, i) <= b /\ (i < Len(s) => Offset(s, i) < b)
  <2>1. i <= Len(s)
    BY <1>1
  <2> QED BY <1>1, <1>3, <2>1, OffsetOrder
<1> QED BY <1>1, <1>2, <1>3, <1>4, <1>5 DEF t, b, after

LEMMA CoveredAppend ==
  ASSUME NEW s \in Seq(Char), NEW ch \in Char, NEW span \in Span,
         span.start <= span.end, span.end <= Len(as_bytes(s))
  PROVE  LET t == Append(s, ch)
             b == Len(as_bytes(s))
             after == b + len_utf8(ch)
         IN  /\ Covered(t, span) = Covered(s, span)
             /\ span.end = b => \A sep : Covered(t, [start |-> span.start, end |-> after,
                                              is_separator |-> sep])
                                  = Covered(s, span) \cup {Len(s) + 1}
             /\ \A sep : Covered(t, [start |-> b, end |-> after, is_separator |-> sep])
                  = {Len(s) + 1}
<1> DEFINE t == Append(s, ch)
           b == Len(as_bytes(s))
           after == b + len_utf8(ch)
           n == Len(s)
<1>1. /\ n \in Nat /\ Len(t) = n + 1
      /\ b \in Nat /\ after \in Nat /\ b < after
      /\ \A i \in 0..n : /\ Offset(t, i) = Offset(s, i) /\ Offset(s, i) \in Nat
                         /\ Offset(s, i) <= b
                         /\ i < n => Offset(s, i) < b
      /\ Offset(t, n) = b /\ Offset(t, n + 1) = after
  BY OffsetAppend
<1>2. span.start \in Nat /\ span.end \in Nat /\ span.start <= b
  BY <1>1 DEF Span
<1>3. span.end <= b
  OBVIOUS
<1> HIDE DEF t, b, after, n
<1>4. /\ \A i \in 1..(n + 1) : i \in 1..n \/ i = n + 1
      /\ \A i \in 1..n : i \in 1..(n + 1) /\ i \in 0..n /\ i - 1 \in 0..n /\ i - 1 < n
      /\ n + 1 \in 1..(n + 1) /\ n + 1 \notin 1..n /\ (n + 1) - 1 = n
  BY <1>1
<1>5. ASSUME NEW i \in 1..n
      PROVE  /\ Offset(t, i) = Offset(s, i) /\ Offset(t, i - 1) = Offset(s, i - 1)
             /\ Offset(s, i) <= b /\ Offset(s, i) <= after /\ ~(Offset(s, i - 1) >= b)
  <2>1. /\ Offset(t, i) = Offset(s, i) /\ Offset(t, i - 1) = Offset(s, i - 1)
        /\ Offset(s, i) <= b /\ Offset(s, i) \in Nat
        /\ Offset(s, i - 1) < b /\ Offset(s, i - 1) \in Nat
    BY <1>1, <1>4
  <2> QED BY <1>1, <2>1
<1>6. /\ ~(after <= span.end) /\ b >= span.start /\ after <= after /\ b >= b
  BY <1>1, <1>2, <1>3
<1>7. \A z : /\ Covered(t, z) = {i \in 1..(n + 1) : Offset(t, i - 1) >= z.start
                                                      /\ Offset(t, i) <= z.end}
             /\ Covered(s, z) = {i \in 1..n : Offset(s, i - 1) >= z.start
                                                      /\ Offset(s, i) <= z.end}
  BY <1>1 DEF Covered, n
<1>8. ASSUME NEW z
      PROVE  /\ Covered(t, z) \in SUBSET (1..(n + 1)) /\ Covered(s, z) \in SUBSET (1..n)
             /\ n + 1 \in Covered(t, z) <=> b >= z.start /\ after <= z.end
             /\ \A i \in 1..n :
                  /\ i \in Covered(t, z) <=> Offset(s, i - 1) >= z.start /\ Offset(s, i) <= z.end
                  /\ i \in Covered(s, z) <=> Offset(s, i - 1) >= z.start /\ Offset(s, i) <= z.end
  <2> DEFINE ct == Covered(t, z)
             cs == Covered(s, z)
  <2>1. /\ ct = {i \in 1..(n + 1) : Offset(t, i - 1) >= z.start /\ Offset(t, i) <= z.end}
        /\ cs = {i \in 1..n : Offset(s, i - 1) >= z.start /\ Offset(s, i) <= z.end}
    BY <1>7, Zenon
  <2> HIDE DEF ct, cs
  <2>2. ct \in SUBSET (1..(n + 1)) /\ cs \in SUBSET (1..n)
    BY <2>1
  <2>3. n + 1 \in ct <=> b >= z.start /\ after <= z.end
    <3>1. n + 1 \in ct <=> Offset(t, (n + 1) - 1) >= z.start /\ Offset(t, n + 1) <= z.end
      BY ONLY <1>4, <2>1
    <3> QED BY ONLY <1>1, <1>4, <3>1
  <2>4. ASSUME NEW i \in 1..n
        PROVE  /\ i \in ct <=> Offset(s, i - 1) >= z.start /\ Offset(s, i) <= z.end
               /\ i \in cs <=> Offset(s, i - 1) >= z.start /\ Offset(s, i) <= z.end
    <3>1. Offset(t, i) = Offset(s, i) /\ Offset(t, i - 1) = Offset(s, i - 1) /\ i \in 1..(n + 1)
      BY <1>4, <1>5
    <3> QED BY ONLY <2>1, <2>4, <3>1
  <2> QED BY <2>2, <2>3, <2>4 DEF ct, cs
<1>9. ASSUME NEW u \in SUBSET (1..(n + 1)), NEW v \in SUBSET (1..(n + 1)),
             n + 1 \in u <=> n + 1 \in v, \A i \in 1..n : i \in u <=> i \in v
      PROVE  u = v
  <2>1. \A i \in 1..(n + 1) : i \in u <=> i \in v
    BY ONLY <1>4, <1>9, Zenon
  <2>2. \A i : i \in u \/ i \in v => i \in 1..(n + 1)
    OBVIOUS
  <2>3. \A i : i \in u <=> i \in v
    BY ONLY <2>1, <2>2, Zenon
  <2> QED BY ONLY <2>3, Zenon
<1>10. Covered(t, span) = Covered(s, span)
  <2>1. n + 1 \notin Covered(t, span) /\ n + 1 \notin Covered(s, span)
    BY <1>4, <1>6, <1>8
  <2>2. \A i \in 1..n : i \in Covered(t, span) <=> i \in Covered(s, span)
    BY <1>8
  <2>3. Covered(t, span) \in SUBSET (1..(n + 1)) /\ Covered(s, span) \in SUBSET (1..(n + 1))
    BY <1>4, <1>8
  <2> QED BY <1>9, <2>1, <2>2, <2>3
<1>11. ASSUME span.end = b, NEW sep
       PROVE  Covered(t, [start |-> span.start, end |-> after, is_separator |-> sep])
                = Covered(s, span) \cup {n + 1}
  <2> DEFINE z == [start |-> span.start, end |-> after, is_separator |-> sep]
  <2>1. z.start = span.start /\ z.end = after
    OBVIOUS
  <2> HIDE DEF z
  <2>2. n + 1 \in Covered(t, z)
    BY <1>6, <1>8, <2>1
  <2>3. \A i \in 1..n : i \in Covered(t, z) <=> i \in Covered(s, span)
    BY <1>5, <1>8, <1>11, <2>1
  <2>4. Covered(t, z) \in SUBSET (1..(n + 1)) /\ Covered(s, span) \in SUBSET (1..n)
    BY <1>8
  <2>5. /\ Covered(s, span) \cup {n + 1} \in SUBSET (1..(n + 1))
        /\ \A i \in 1..n : i \in Covered(s, span) \cup {n + 1} <=> i \in Covered(s, span)
    BY <1>4, <2>4
  <2>6. Covered(t, z) = Covered(s, span) \cup {n + 1}
    BY <1>9, <2>2, <2>3, <2>4, <2>5
  <2> QED BY <2>6 DEF z
<1>12. ASSUME NEW sep
       PROVE  Covered(t, [start |-> b, end |-> after, is_separator |-> sep]) = {n + 1}
  <2> DEFINE z == [start |-> b, end |-> after, is_separator |-> sep]
  <2>1. z.start = b /\ z.end = after
    OBVIOUS
  <2> HIDE DEF z
  <2>2. n + 1 \in Covered(t, z)
    BY <1>6, <1>8, <2>1
  <2>3. \A i \in 1..n : i \notin Covered(t, z) /\ i \notin {n + 1}
    BY <1>4, <1>5, <1>8, <2>1
  <2>4. Covered(t, z) \in SUBSET (1..(n + 1)) /\ {n + 1} \in SUBSET (1..(n + 1))
    BY <1>4, <1>8
  <2>5. Covered(t, z) = {n + 1}
    BY <1>9, <2>2, <2>3, <2>4
  <2> QED BY <2>5 DEF z
<1> QED BY <1>10, <1>11, <1>12 DEF t, b, after, n
-----------------------------------------------------------------------------
(***************************************************************************)
(* append against the reference.  Matched is LinesMatchText for a text and *)
(* a layout, with what append carries from one character to the next: the  *)
(* rows of the paragraph that is open end where the layout ends, and all   *)
(* of them but the last are full.                                          *)
(***************************************************************************)
RowInk(s, row) == {i \in Inked(s) : Row(s, i) = row}

Marks(s) == {j \in 1..Len(s) : s[j] = "mark"}

MarkRows(s) == {FirstRow(s, Paragraph(s, i)) : i \in Marks(s)}

OpenInk(s) == Cardinality(InkOf(s, OpenParagraph(s)))

OpenRow(s) == FirstRow(s, OpenParagraph(s))

OpenHeight(s) == Height(s, OpenParagraph(s))

Numbers(s, l) ==
  /\ Len(l.lines) = OpenRow(s) + OpenHeight(s)
  /\ OpenHeight(s) >= 1
  /\ OpenInk(s) = (OpenHeight(s) - 1) * columns + l.current_columns
  /\ s = <<>> \/ s[Len(s)] = "nl" => OpenInk(s) = 0

Placed(s, l) ==
  /\ MarkRows(s) \subseteq 0..(Len(l.lines) - 1)
  /\ \A i \in Inked(s) : Row(s, i) \in 0..(Len(l.lines) - 1)

RowMatches(s, l, row) ==
  /\ Covered(s, l.lines[row + 1]) = RowInk(s, row)
  /\ l.lines[row + 1].is_separator <=> row \in MarkRows(s)

Matched(s, l) ==
  /\ Numbers(s, l) /\ Placed(s, l)
  /\ \A row \in 0..(Len(l.lines) - 1) : RowMatches(s, l, row)

LEMMA OpenTypes ==
  ASSUME NEW s \in Seq(Char)
  PROVE  /\ OpenInk(s) \in Nat /\ OpenRow(s) \in Nat /\ OpenHeight(s) \in Nat
         /\ OpenParagraph(s) \in Nat
<1>1. Len(s) + 1 \in 1..(Len(s) + 1)
  BY LenProperties
<1>2. OpenParagraph(s) \in Nat
  BY <1>1, ParagraphBefore
<1>3. OpenInk(s) \in Nat
  BY InkType DEF OpenInk
<1>4. OpenRow(s) \in Nat
  BY <1>2, FirstRowNat DEF OpenRow
<1>5. OpenHeight(s) \in Nat
  BY HeightNat DEF OpenHeight
<1> QED BY <1>2, <1>3, <1>4, <1>5

LEMMA RowInkAppend ==
  ASSUME NEW s \in Seq(Char), NEW ch \in Char, NEW row
  PROVE  RowInk(Append(s, ch), row)
           = RowInk(s, row) \cup (IF /\ ch \notin {"nl", "mark"}
                                     /\ row = OpenRow(s) + OpenInk(s) \div columns
                                  THEN {Len(s) + 1} ELSE {})
<1> DEFINE t == Append(s, ch)
           n == Len(s)
<1>1. n \in Nat /\ Inked(s) \in SUBSET (1..n) /\ n + 1 \notin 1..n
  BY InkType
<1>2. Inked(t) = Inked(s) \cup (IF ch \in {"nl", "mark"} THEN {} ELSE {n + 1})
  BY InkAppend
<1>3. /\ \A i \in Inked(s) : Row(t, i) = Row(s, i)
      /\ ch \notin {"nl", "mark"} => Row(t, n + 1) = OpenRow(s) + OpenInk(s) \div columns
  BY RowAppend DEF OpenRow, OpenInk
<1> HIDE DEF t, n
<1> DEFINE x == OpenRow(s) + OpenInk(s) \div columns
<1>4. ch \notin {"nl", "mark"} => Row(t, n + 1) = x
  BY <1>3
<1> HIDE DEF x
<1>5. RowInk(t, row) = RowInk(s, row) \cup (IF ch \notin {"nl", "mark"} /\ row = x
                                            THEN {n + 1} ELSE {})
  BY <1>2, <1>3, <1>4 DEF RowInk
<1> QED BY <1>5 DEF t, n, x

LEMMA MarkRowsAppend ==
  ASSUME NEW s \in Seq(Char), NEW ch \in Char
  PROVE  MarkRows(Append(s, ch))
           = MarkRows(s) \cup (IF ch = "mark" THEN {OpenRow(s)} ELSE {})
<1> DEFINE t == Append(s, ch)
           n == Len(s)
           open == OpenParagraph(s)
<1>1. /\ n \in Nat /\ Len(t) = n + 1 /\ t[n + 1] = ch /\ \A i \in 1..n : t[i] = s[i]
  BY AppendProperties, LenProperties
<1>2. \A i \in 1..(n + 1) : Paragraph(s, i) \in Nat /\ Paragraph(s, i) <= open /\ open \in Nat
  BY ParagraphBefore
<1>3. \A i \in 1..(n + 1) : Paragraph(t, i) = Paragraph(s, i)
  BY ParagraphAppend
<1>4. Paragraph(s, n + 1) = open /\ OpenRow(s) = FirstRow(s, open)
  BY DEF OpenParagraph, OpenRow
<1>5. \A p \in 0..open : FirstRow(t, p) = FirstRow(s, p)
  BY RowAppend
<1> HIDE DEF t, n, open
<1>6. /\ \A i \in 1..(n + 1) : i \in 1..n \/ i = n + 1
      /\ \A i \in 1..n : i \in 1..(n + 1)
      /\ n + 1 \in 1..(n + 1) /\ n + 1 \notin 1..n
  BY <1>1
<1>7. \A i \in 1..(n + 1) : FirstRow(t, Paragraph(t, i)) = FirstRow(s, Paragraph(s, i))
  <2> TAKE i \in 1..(n + 1)
  <2>1. Paragraph(s, i) \in 0..open
    BY <1>2
  <2> QED BY <1>3, <1>5, <2>1
<1>8. Marks(t) = Marks(s) \cup (IF ch = "mark" THEN {n + 1} ELSE {})
  <2>1. /\ Marks(t) = {j \in 1..(n + 1) : t[j] = "mark"}
        /\ Marks(s) = {j \in 1..n : s[j] = "mark"}
    BY <1>1 DEF Marks, n
  <2> QED BY <1>1, <1>6, <2>1
<1>9. Marks(s) \in SUBSET (1..n)
  BY DEF Marks, n
<1>10. FirstRow(t, Paragraph(t, n + 1)) = OpenRow(s)
  BY <1>4, <1>6, <1>7
<1>11. \A i \in Marks(s) : FirstRow(t, Paragraph(t, i)) = FirstRow(s, Paragraph(s, i))
  BY <1>6, <1>7, <1>9
<1>12. MarkRows(t) = MarkRows(s) \cup (IF ch = "mark" THEN {OpenRow(s)} ELSE {})
  BY <1>8, <1>10, <1>11 DEF MarkRows
<1> QED BY <1>12 DEF t

\* What the next character makes of the open paragraph.
LEMMA OpenAppend ==
  ASSUME NEW s \in Seq(Char), NEW ch \in Char
  PROVE  LET t == Append(s, ch)
         IN  /\ ch = "nl" => /\ OpenRow(t) = OpenRow(s) + OpenHeight(s)
                             /\ OpenInk(t) = 0 /\ OpenHeight(t) = 1
             /\ ch = "mark" => /\ OpenRow(t) = OpenRow(s)
                               /\ OpenInk(t) = OpenInk(s) /\ OpenHeight(t) = OpenHeight(s)
             /\ ch \notin {"nl", "mark"} =>
                  /\ OpenRow(t) = OpenRow(s)
                  /\ OpenInk(t) = OpenInk(s) + 1
                  /\ OpenHeight(t) = (OpenInk(s) + columns) \div columns
<1> DEFINE t == Append(s, ch)
           n == Len(s)
           p == OpenParagraph(s)
<1>1. /\ p \in Nat /\ p \in 0..p
      /\ OpenParagraph(t) = IF ch = "nl" THEN p + 1 ELSE p
  BY OpenTypes, ParagraphAppend
<1>2. FirstRow(t, p) = FirstRow(s, p)
  BY <1>1, RowAppend
<1>3. /\ \A q : ch \in {"nl", "mark"} \/ q # p => Height(t, q) = Height(s, q)
      /\ ch \notin {"nl", "mark"} =>
           InkOf(t, p) # {} /\ Cardinality(InkOf(t, p)) = Cardinality(InkOf(s, p)) + 1
  BY HeightAppend
<1>4. \A q : InkOf(t, q) = InkOf(s, q) \cup (IF ch \notin {"nl", "mark"} /\ q = p
                                             THEN {n + 1} ELSE {})
  BY InkAppend
<1>5. FirstRow(t, p + 1) = FirstRow(t, p) + Height(t, p)
  BY <1>1, FirstRowStep
<1>6. InkOf(s, p + 1) = {}
  <2>1. Inked(s) \in SUBSET (1..n) /\ n \in Nat
    BY InkType
  <2>2. ASSUME NEW i \in Inked(s) PROVE Paragraph(s, i) # p + 1
    <3>1. i \in 1..(n + 1)
      BY <2>1
    <3>2. Paragraph(s, i) \in Nat /\ Paragraph(s, i) <= p
      BY <3>1, ParagraphBefore
    <3> QED BY <1>1, <3>2
  <2> QED BY <2>2 DEF InkOf
<1>7. Cardinality(InkOf(s, p)) \in Nat /\ columns \in Nat /\ columns > 0
  BY InkType, ColumnsAssumption
<1>8. /\ OpenRow(s) = FirstRow(s, p) /\ OpenHeight(s) = Height(s, p)
      /\ OpenInk(s) = Cardinality(InkOf(s, p))
  BY DEF OpenRow, OpenHeight, OpenInk
<1> HIDE DEF t, p, n
<1>9. CASE ch = "nl"
  <2>1. OpenParagraph(t) = p + 1 /\ InkOf(t, p + 1) = {}
    BY <1>1, <1>4, <1>6, <1>9
  <2>2. OpenRow(t) = OpenRow(s) + OpenHeight(s)
    BY <1>2, <1>3, <1>5, <1>8, <1>9, <2>1 DEF OpenRow
  <2>3. OpenInk(t) = 0
    BY <2>1, FS_EmptySet DEF OpenInk
  <2>4. OpenHeight(t) = 1
    BY <2>1 DEF OpenHeight, Height
  <2> QED BY <1>9, <2>2, <2>3, <2>4 DEF t
<1>10. CASE ch = "mark"
  <2>1. OpenParagraph(t) = p /\ InkOf(t, p) = InkOf(s, p) /\ Height(t, p) = Height(s, p)
    BY <1>1, <1>3, <1>4, <1>10
  <2>2. OpenRow(t) = OpenRow(s) /\ OpenInk(t) = OpenInk(s) /\ OpenHeight(t) = OpenHeight(s)
    BY <1>2, <1>8, <2>1 DEF OpenRow, OpenInk, OpenHeight
  <2> QED BY <1>10, <2>2 DEF t
<1>11. CASE ch \notin {"nl", "mark"}
  <2>1. /\ OpenParagraph(t) = p /\ InkOf(t, p) # {}
        /\ Cardinality(InkOf(t, p)) = Cardinality(InkOf(s, p)) + 1
    BY <1>1, <1>3, <1>11
  <2>2. OpenRow(t) = OpenRow(s) /\ OpenInk(t) = OpenInk(s) + 1
    BY <1>2, <1>8, <2>1 DEF OpenRow, OpenInk
  <2>3. OpenHeight(t) = (Cardinality(InkOf(t, p)) + columns - 1) \div columns
    BY <2>1 DEF OpenHeight, Height
  <2>4. Cardinality(InkOf(t, p)) + columns - 1 = OpenInk(s) + columns
    BY <1>7, <1>8, <2>1
  <2> QED BY <1>11, <2>2, <2>3, <2>4 DEF t
<1> QED BY <1>9, <1>10, <1>11
LEMMA WholeSpan ==
  ASSUME NEW s \in Seq(Char), NEW l, Whole(s, l), NEW k \in 1..Len(l.lines)
  PROVE  /\ l.lines[k] \in Span /\ l.lines[k].start <= l.lines[k].end
         /\ l.lines[k].end <= Len(as_bytes(s))
<1>1. l.lines \in Seq(Span)
  BY LayoutParts DEF Whole
<1>2. l.lines[k] \in Span
  BY <1>1, ElementOfSeq
<1>3. PICK i \in 0..Len(s) : l.lines[k].end = Offset(s, i)
  BY DEF Whole
<1>4. "letter" \in Char
  BY DEF Char, encode_utf8
<1>5. Offset(s, i) <= Len(as_bytes(s))
  BY <1>4, OffsetAppend
<1> QED BY <1>2, <1>3, <1>5 DEF Whole

\* A line that append leaves alone.
LEMMA RowKept ==
  ASSUME NEW s \in Seq(Char), NEW ch \in Char, NEW l, NEW r, Whole(s, l),
         NEW row \in 0..(Len(l.lines) - 1), RowMatches(s, l, row),
         r.lines[row + 1] = l.lines[row + 1],
         RowInk(Append(s, ch), row) = RowInk(s, row),
         row \in MarkRows(Append(s, ch)) <=> row \in MarkRows(s)
  PROVE  RowMatches(Append(s, ch), r, row)
<1>1. Len(l.lines) \in Nat
  BY LayoutParts DEF Whole
<1>2. row + 1 \in 1..Len(l.lines)
  BY <1>1
<1>3. /\ l.lines[row + 1] \in Span /\ l.lines[row + 1].start <= l.lines[row + 1].end
      /\ l.lines[row + 1].end <= Len(as_bytes(s))
  BY <1>2, WholeSpan
<1>4. Covered(Append(s, ch), l.lines[row + 1]) = Covered(s, l.lines[row + 1])
  BY <1>3, CoveredAppend
<1> QED BY <1>4 DEF RowMatches

\* The rows of the ink and of the markers stay, so that they are still within
\* the lines.
LEMMA PlacedAppend ==
  ASSUME NEW s \in Seq(Char), NEW ch \in Char, NEW l, NEW r, Placed(s, l),
         Len(l.lines) \in Nat, Len(r.lines) \in Nat, Len(l.lines) <= Len(r.lines),
         ch = "mark" => OpenRow(s) \in 0..(Len(r.lines) - 1),
         ch \notin {"nl", "mark"} =>
           OpenRow(s) + OpenInk(s) \div columns \in 0..(Len(r.lines) - 1)
  PROVE  Placed(Append(s, ch), r)
<1> DEFINE t == Append(s, ch)
<1>1. 0..(Len(l.lines) - 1) \subseteq 0..(Len(r.lines) - 1)
  OBVIOUS
<1>2. MarkRows(t) = MarkRows(s) \cup (IF ch = "mark" THEN {OpenRow(s)} ELSE {})
  BY MarkRowsAppend
<1>3. Inked(t) = Inked(s) \cup (IF ch \in {"nl", "mark"} THEN {} ELSE {Len(s) + 1})
  BY InkAppend
<1>4. /\ \A i \in Inked(s) : Row(t, i) = Row(s, i)
      /\ ch \notin {"nl", "mark"} => Row(t, Len(s) + 1) = OpenRow(s) + OpenInk(s) \div columns
  BY RowAppend DEF OpenRow, OpenInk
<1> HIDE DEF t
<1>5. MarkRows(t) \subseteq 0..(Len(r.lines) - 1)
  BY <1>1, <1>2 DEF Placed
<1>6. ASSUME NEW i \in Inked(t) PROVE Row(t, i) \in 0..(Len(r.lines) - 1)
  <2>1. CASE i \in Inked(s)
    BY <1>1, <1>4, <2>1 DEF Placed
  <2>2. CASE i \notin Inked(s)
    <3>1. ch \notin {"nl", "mark"} /\ i = Len(s) + 1
      BY <1>3, <2>2
    <3> QED BY <1>4, <3>1
  <2> QED BY <2>1, <2>2
<1> QED BY <1>5, <1>6 DEF Placed, t

\* The facts every case of MatchedAppend starts from.
LEMMA MatchedStart ==
  ASSUME NEW s \in Seq(Char), NEW ch \in Char, NEW l, Whole(s, l), Matched(s, l)
  PROVE  LET r == append(l, Len(as_bytes(s)), ch)
         IN  /\ l \in Layouts /\ Len(l.lines) \in Nat /\ Len(l.lines) >= 1
             /\ Len(r.lines) \in Nat
             /\ columns \in Nat /\ columns >= 1 /\ l.current_columns \in 0..columns
             /\ OpenInk(s) \in Nat /\ OpenRow(s) \in Nat /\ OpenHeight(s) \in Nat
             /\ Appended(l, Len(as_bytes(s)), ch, r)
             /\ Append(s, ch) \in Seq(Char) /\ Append(s, ch) # <<>> /\ Len(s) \in Nat
             /\ Len(Append(s, ch)) = Len(s) + 1 /\ Append(s, ch)[Len(s) + 1] = ch
<1>1. /\ l \in Layouts /\ Len(l.lines) \in Nat /\ Len(l.lines) >= 1
      /\ l.current_columns \in 0..columns
  BY LayoutParts DEF Whole
<1>2. columns \in Nat /\ columns >= 1
  BY ColumnsAssumption
<1>3. Len(as_bytes(s)) \in Nat
  BY BytesType
<1>4. /\ append(l, Len(as_bytes(s)), ch) \in Layouts
      /\ Appended(l, Len(as_bytes(s)), ch, append(l, Len(as_bytes(s)), ch))
  BY <1>1, <1>3, AppendEffect
<1>5. Len(append(l, Len(as_bytes(s)), ch).lines) \in Nat
  BY <1>4, LayoutParts
<1>6. /\ Append(s, ch) \in Seq(Char) /\ Append(s, ch) # <<>> /\ Len(s) \in Nat
      /\ Len(Append(s, ch)) = Len(s) + 1 /\ Append(s, ch)[Len(s) + 1] = ch
  BY AppendProperties, LenProperties
<1> QED BY <1>1, <1>2, <1>4, <1>5, <1>6, OpenTypes

LEMMA MatchedNewline ==
  ASSUME NEW s \in Seq(Char), NEW l, Whole(s, l), Matched(s, l)
  PROVE  Matched(Append(s, "nl"), append(l, Len(as_bytes(s)), "nl"))
<1> DEFINE ch == "nl"
           t == Append(s, ch)
           b == Len(as_bytes(s))
           r == append(l, b, ch)
           n == Len(l.lines)
<1>0. ch \in Char /\ ch = "nl"
  BY DEF Char, encode_utf8
<1> HIDE DEF ch
<1>1. /\ n \in Nat /\ n >= 1 /\ Len(r.lines) \in Nat
      /\ OpenInk(s) \in Nat /\ OpenRow(s) \in Nat /\ OpenHeight(s) \in Nat /\ columns \in Nat
      /\ Appended(l, b, ch, r) /\ t \in Seq(Char) /\ Len(t) = Len(s) + 1
  BY <1>0, MatchedStart
<1>2. Offset(t, Len(t)) = b + len_utf8(ch)
  BY <1>0, <1>1, OffsetAppend
<1>3. OpenRow(t) = OpenRow(s) + OpenHeight(s) /\ OpenInk(t) = 0 /\ OpenHeight(t) = 1
  BY <1>0, OpenAppend
<1>4. MarkRows(t) = MarkRows(s) /\ \A row : RowInk(t, row) = RowInk(s, row)
  <2>1. MarkRows(t) = MarkRows(s)
    BY <1>0, MarkRowsAppend
  <2>2. ASSUME NEW row PROVE RowInk(t, row) = RowInk(s, row)
    <3> DEFINE x == OpenRow(s) + OpenInk(s) \div columns
    <3>1. RowInk(t, row) = RowInk(s, row) \cup (IF ch \notin {"nl", "mark"} /\ row = x
                                                THEN {Len(s) + 1} ELSE {})
      BY <1>0, RowInkAppend, Zenon
    <3> HIDE DEF x
    <3> QED BY <1>0, <3>1
  <2> QED BY <2>1, <2>2
<1> HIDE DEF t, b, r, n
<1>5. /\ Len(r.lines) = n + 1 /\ r.lines[n + 1] = LineSpan(b + len_utf8(ch), FALSE)
      /\ \A k \in 1..n : r.lines[k] = l.lines[k]
      /\ r.current_columns = 0
  BY <1>0, <1>1 DEF Appended, n
<1>6. Numbers(t, r)
  <2>1. Len(r.lines) = OpenRow(t) + OpenHeight(t) /\ OpenHeight(t) >= 1
    BY <1>1, <1>3, <1>5 DEF Matched, Numbers, n
  <2>2. (OpenHeight(t) - 1) * columns + r.current_columns = 0
    BY <1>1, <1>3, <1>5
  <2> QED BY <1>3, <2>1, <2>2 DEF Numbers
<1>7. Placed(t, r)
  <2>1. n <= Len(r.lines)
    BY <1>1, <1>5
  <2> QED BY <1>0, <1>1, <2>1, PlacedAppend DEF Matched, t, n
<1>8. ASSUME NEW row \in 0..(Len(r.lines) - 1) PROVE RowMatches(t, r, row)
  <2>1. CASE row \in 0..(n - 1)
    <3>1. row + 1 \in 1..n
      BY <1>1, <2>1
    <3>2. RowMatches(s, l, row)
      BY <2>1 DEF Matched, n
    <3> QED BY <1>0, <1>4, <1>5, <2>1, <3>1, <3>2, RowKept DEF t, n
  <2>2. CASE row = n
    <3>1. n \notin 0..(n - 1)
      BY <1>1
    <3>2. n \notin MarkRows(t) /\ RowInk(t, n) = {}
      BY <1>4, <3>1 DEF Matched, Placed, RowInk, n
    <3>3. LineSpan(b + len_utf8(ch), FALSE).start = Offset(t, Len(t))
          /\ LineSpan(b + len_utf8(ch), FALSE).is_separator = FALSE
      BY <1>2 DEF LineSpan
    <3>4. Covered(t, r.lines[n + 1]) = {}
      BY <1>1, <1>5, <3>3, CoveredNothing
    <3> QED BY <1>5, <2>2, <3>2, <3>3, <3>4 DEF RowMatches
  <2>3. row \in 0..(n - 1) \/ row = n
    BY <1>1, <1>5
  <2> QED BY <2>1, <2>2, <2>3
<1> QED BY <1>6, <1>7, <1>8 DEF Matched, t, r, b, ch

LEMMA MatchedMark ==
  ASSUME NEW s \in Seq(Char), NEW l, Whole(s, l), Counted(s, l), Matched(s, l),
         s = <<>> \/ s[Len(s)] = "nl"
  PROVE  Matched(Append(s, "mark"), append(l, Len(as_bytes(s)), "mark"))
<1> DEFINE ch == "mark"
           t == Append(s, ch)
           b == Len(as_bytes(s))
           r == append(l, b, ch)
           n == Len(l.lines)
<1>0. ch \in Char /\ ch = "mark"
  BY DEF Char, encode_utf8
<1> HIDE DEF ch
<1>1. /\ n \in Nat /\ n >= 1 /\ Len(r.lines) \in Nat
      /\ OpenInk(s) \in Nat /\ OpenRow(s) \in Nat /\ OpenHeight(s) \in Nat
      /\ columns \in Nat /\ columns >= 1
      /\ Appended(l, b, ch, r) /\ t \in Seq(Char)
      /\ t # <<>> /\ Len(s) \in Nat /\ Len(t) = Len(s) + 1 /\ t[Len(s) + 1] = ch
  BY <1>0, MatchedStart
<1>2. Offset(t, Len(t)) = b + len_utf8(ch)
  BY <1>0, <1>1, OffsetAppend
<1>3. OpenRow(t) = OpenRow(s) /\ OpenInk(t) = OpenInk(s) /\ OpenHeight(t) = OpenHeight(s)
  BY <1>0, OpenAppend
<1>4. MarkRows(t) = MarkRows(s) \cup {OpenRow(s)} /\ \A row : RowInk(t, row) = RowInk(s, row)
  <2>1. MarkRows(t) = MarkRows(s) \cup {OpenRow(s)}
    BY <1>0, MarkRowsAppend
  <2>2. ASSUME NEW row PROVE RowInk(t, row) = RowInk(s, row)
    <3> DEFINE x == OpenRow(s) + OpenInk(s) \div columns
    <3>1. RowInk(t, row) = RowInk(s, row) \cup (IF ch \notin {"nl", "mark"} /\ row = x
                                                THEN {Len(s) + 1} ELSE {})
      BY <1>0, RowInkAppend, Zenon
    <3> HIDE DEF x
    <3> QED BY <1>0, <3>1
  <2> QED BY <2>1, <2>2
<1> HIDE DEF t, b, r, n
<1>5. /\ Len(r.lines) = n /\ r.lines[n] = LineSpan(b + len_utf8(ch), TRUE)
      /\ \A k \in 1..n : k # n => r.lines[k] = l.lines[k]
      /\ r.current_columns = l.current_columns
  BY <1>0, <1>1 DEF Appended, n
<1>6. l.current_columns = 0 /\ OpenInk(s) = 0
  BY DEF Counted, Matched, Numbers
<1>7. OpenHeight(s) = 1 /\ OpenRow(s) = n - 1
  <2>1. /\ OpenHeight(s) >= 1 /\ n = OpenRow(s) + OpenHeight(s)
        /\ 0 = (OpenHeight(s) - 1) * columns + 0
    BY <1>6 DEF Matched, Numbers, n
  <2> DEFINE h == OpenHeight(s)
             c == columns
  <2>2. h \in Nat /\ c \in Nat /\ c >= 1 /\ h >= 1 /\ 0 = (h - 1) * c + 0
    BY <1>1, <2>1
  <2> HIDE DEF h, c
  <2>3. h = 1
    BY ONLY <2>2
  <2>4. OpenHeight(s) = 1
    BY <2>3 DEF h
  <2> QED BY <1>1, <2>1, <2>4
<1>8. Numbers(t, r)
  <2>1. t[Len(t)] # "nl" /\ t # <<>>
    BY <1>0, <1>1
  <2> QED BY <1>3, <1>5, <2>1 DEF Matched, Numbers, n
<1>9. Placed(t, r)
  <2>1. n <= Len(r.lines) /\ OpenRow(s) \in 0..(Len(r.lines) - 1)
    BY <1>1, <1>5, <1>7
  <2> QED BY <1>0, <1>1, <2>1, PlacedAppend DEF Matched, t, n
<1>10. ASSUME NEW row \in 0..(Len(r.lines) - 1) PROVE RowMatches(t, r, row)
  <2>1. row \in 0..(n - 1) /\ row + 1 \in 1..n /\ n - 1 \in 0..(n - 1) /\ (n - 1) + 1 = n
    BY <1>1, <1>5
  <2>2. RowMatches(s, l, row) /\ RowMatches(s, l, n - 1)
    BY <2>1 DEF Matched, n
  <2>3. CASE row # n - 1
    <3>1. row + 1 # n /\ row # OpenRow(s)
      BY <1>1, <1>7, <2>1, <2>3
    <3> QED BY <1>0, <1>4, <1>5, <2>1, <2>2, <3>1, RowKept DEF t, n
  <2>4. CASE row = n - 1
    <3>1. n - 1 \in MarkRows(t)
      BY <1>4, <1>7
    <3>2. RowInk(t, n - 1) = {}
      <4>1. PICK i \in 0..Len(s) : l.lines[n].start = Offset(s, i) /\ 0 = Len(s) - i
        BY <1>6 DEF Counted, n
      <4>2. i = Len(s)
        BY <1>1, <4>1
      <4>3. Covered(s, l.lines[n]) = {}
        BY <4>1, <4>2, CoveredNothing
      <4> QED BY <1>4, <2>1, <2>2, <4>3 DEF RowMatches
    <3>3. LineSpan(b + len_utf8(ch), TRUE).start = Offset(t, Len(t))
          /\ LineSpan(b + len_utf8(ch), TRUE).is_separator = TRUE
      BY <1>2 DEF LineSpan
    <3>4. Covered(t, r.lines[n]) = {}
      BY <1>1, <1>5, <3>3, CoveredNothing
    <3> QED BY <1>5, <2>1, <2>4, <3>1, <3>2, <3>3, <3>4 DEF RowMatches
  <2> QED BY <2>3, <2>4
<1> QED BY <1>8, <1>9, <1>10 DEF Matched, t, r, b, ch
\* A character with ink, on the open line or on a new one.
LEMMA MatchedInk ==
  ASSUME NEW s \in Seq(Char), NEW ch \in Char, NEW l, Whole(s, l), Matched(s, l),
         ch \notin {"nl", "mark"}
  PROVE  Matched(Append(s, ch), append(l, Len(as_bytes(s)), ch))
<1> DEFINE t == Append(s, ch)
           b == Len(as_bytes(s))
           r == append(l, b, ch)
           n == Len(l.lines)
           h == OpenHeight(s)
           x == OpenRow(s) + OpenInk(s) \div columns
           cc == l.current_columns
<1>1. /\ n \in Nat /\ n >= 1 /\ Len(r.lines) \in Nat
      /\ OpenInk(s) \in Nat /\ OpenRow(s) \in Nat /\ h \in Nat
      /\ columns \in Nat /\ columns >= 1 /\ cc \in 0..columns
      /\ Appended(l, b, ch, r) /\ t \in Seq(Char)
      /\ t # <<>> /\ Len(s) \in Nat /\ Len(t) = Len(s) + 1 /\ t[Len(s) + 1] = ch
  BY MatchedStart
<1>2. /\ OpenRow(t) = OpenRow(s) /\ OpenInk(t) = OpenInk(s) + 1
      /\ OpenHeight(t) = (OpenInk(s) + columns) \div columns
  BY OpenAppend
<1>3. MarkRows(t) = MarkRows(s)
  BY MarkRowsAppend
<1>4. ASSUME NEW row
      PROVE  RowInk(t, row) = RowInk(s, row) \cup (IF row = x THEN {Len(s) + 1} ELSE {})
  BY RowInkAppend
<1>5. /\ n = OpenRow(s) + h /\ h >= 1 /\ OpenInk(s) = (h - 1) * columns + cc
  BY DEF Matched, Numbers
<1>6. t[Len(t)] # "nl" /\ t # <<>>
  BY <1>1
<1>7. ASSUME NEW k \in 1..n
      PROVE  /\ l.lines[k] \in Span /\ l.lines[k].start <= l.lines[k].end
             /\ l.lines[k].end <= b
  BY WholeSpan
<1> HIDE DEF t, b, r, n, h, x, cc
<1>8. n \in 1..n /\ n - 1 \in 0..(n - 1) /\ (n - 1) + 1 = n /\ n \notin 0..(n - 1)
  BY <1>1
<1>9. CASE cc = columns
  <2>1. /\ Len(r.lines) = n + 1 /\ r.current_columns = 1
        /\ r.lines[n + 1] = [start |-> b, end |-> b + len_utf8(ch), is_separator |-> FALSE]
        /\ \A k \in 1..n : r.lines[k] = l.lines[k]
    <3>1. ~(cc < columns)
      BY <1>1, <1>9
    <3> QED BY <1>1, <1>9, <3>1 DEF Appended, n, cc
  <2>2. OpenInk(s) = h * columns
    <3> DEFINE c == columns
    <3>1. h \in Nat /\ c \in Nat /\ OpenInk(s) = (h - 1) * c + c
      BY <1>1, <1>5, <1>9
    <3> HIDE DEF c
    <3>2. (h - 1) * c + c = h * c
      BY ONLY <3>1
    <3> QED BY <3>1, <3>2 DEF c
  <2>3. x = n
    <3>1. (h * columns + 0) \div columns = h
      BY <1>1, Quotient
    <3>2. h * columns + 0 = h * columns
      BY <1>1
    <3> QED BY <1>5, <2>2, <3>1, <3>2 DEF x
  <2>4. OpenHeight(t) = h + 1
    <3>1. ((h + 1) * columns + 0) \div columns = h + 1
      BY <1>1, Quotient
    <3>2. (h + 1) * columns + 0 = h * columns + columns
      BY <1>1
    <3> QED BY <1>2, <2>2, <3>1, <3>2
  <2>5. Numbers(t, r)
    <3>1. Len(r.lines) = OpenRow(t) + OpenHeight(t) /\ OpenHeight(t) >= 1
      <4> DEFINE o == OpenRow(s)
      <4>1. o \in Nat /\ h \in Nat /\ n = o + h
        BY <1>1, <1>5
      <4>2. Len(r.lines) = n + 1 /\ OpenRow(t) = o /\ OpenHeight(t) = h + 1
        BY <1>2, <2>1, <2>4
      <4> HIDE DEF o
      <4>3. n + 1 = o + (h + 1) /\ h + 1 >= 1
        BY ONLY <4>1
      <4> QED BY <4>2, <4>3
    <3>2. OpenInk(t) = (OpenHeight(t) - 1) * columns + r.current_columns
      <4>1. (h + 1) - 1 = h
        BY <1>1
      <4> QED BY <1>2, <2>1, <2>2, <2>4, <4>1
    <3> QED BY <1>6, <3>1, <3>2 DEF Numbers
  <2>6. Placed(t, r)
    <3>1. n <= Len(r.lines) /\ x \in 0..(Len(r.lines) - 1)
      BY <1>1, <2>1, <2>3
    <3> QED BY <1>1, <3>1, PlacedAppend DEF Matched, t, n, x
  <2>7. ASSUME NEW row \in 0..(Len(r.lines) - 1) PROVE RowMatches(t, r, row)
    <3>1. CASE row \in 0..(n - 1)
      <4>1. row + 1 \in 1..n /\ row # x
        BY <1>1, <1>8, <2>3, <3>1
      <4>2. RowMatches(s, l, row) /\ r.lines[row + 1] = l.lines[row + 1]
        BY <2>1, <3>1, <4>1 DEF Matched, n
      <4>3. RowInk(t, row) = RowInk(s, row)
        BY <1>4, <4>1
      <4> QED BY <1>3, <3>1, <4>2, <4>3, RowKept DEF t, n
    <3>2. CASE row = n
      <4>1. n \notin MarkRows(t) /\ RowInk(s, n) = {}
        BY <1>3, <1>8 DEF Matched, Placed, RowInk, n
      <4>2. RowInk(t, n) = {Len(s) + 1}
        BY <1>4, <2>3, <4>1
      <4>3. Covered(t, [start |-> b, end |-> b + len_utf8(ch), is_separator |-> FALSE])
              = {Len(s) + 1}
        <5>1. /\ l.lines[n] \in Span /\ l.lines[n].start <= l.lines[n].end
              /\ l.lines[n].end <= b
          BY <1>7, <1>8
        <5>2. \A sep : Covered(t, [start |-> b, end |-> b + len_utf8(ch), is_separator |-> sep])
                         = {Len(s) + 1}
          BY <5>1, CoveredAppend DEF t, b
        <5> QED BY <5>2, Zenon
      <4>4. Covered(t, r.lines[n + 1]) = {Len(s) + 1} /\ ~r.lines[n + 1].is_separator
        <5> DEFINE z == [start |-> b, end |-> b + len_utf8(ch), is_separator |-> FALSE]
        <5>1. r.lines[n + 1] = z /\ Covered(t, z) = {Len(s) + 1}
          BY <2>1, <4>3
        <5>2. ~z.is_separator
          OBVIOUS
        <5> HIDE DEF z
        <5> QED BY <5>1, <5>2, Zenon
      <4> QED BY <3>2, <4>1, <4>2, <4>4 DEF RowMatches
    <3>3. row \in 0..(n - 1) \/ row = n
      BY <1>1, <2>1
    <3> QED BY <3>1, <3>2, <3>3
  <2> QED BY <2>5, <2>6, <2>7 DEF Matched, t, r, b
<1>10. CASE cc < columns
  <2>1. /\ Len(r.lines) = n /\ r.current_columns = cc + 1
        /\ r.lines[n] = [start |-> l.lines[n].start, end |-> b + len_utf8(ch),
                         is_separator |-> l.lines[n].is_separator]
        /\ \A k \in 1..n : k # n => r.lines[k] = l.lines[k]
    <3>1. cc # columns
      BY <1>1, <1>10
    <3> QED BY <1>1, <1>10, <3>1 DEF Appended, n, cc
  <2>2. h - 1 \in Nat /\ cc \in Nat
    BY <1>1, <1>5
  <2>3. x = n - 1
    <3>1. ((h - 1) * columns + cc) \div columns = h - 1
      BY <1>10, <2>2, Quotient
    <3>2. OpenRow(s) + (h - 1) = n - 1
      BY <1>1, <1>5
    <3> QED BY <1>5, <3>1, <3>2 DEF x
  <2>4. OpenHeight(t) = h
    <3>1. (h * columns + cc) \div columns = h
      BY <1>1, <1>10, <2>2, Quotient
    <3> DEFINE c == columns
    <3>2. h \in Nat /\ c \in Nat /\ cc \in Nat
      BY <1>1, <2>2
    <3> HIDE DEF c
    <3>3. ((h - 1) * c + cc) + c = h * c + cc
      BY ONLY <3>2
    <3>4. OpenInk(s) + columns = h * columns + cc
      BY <1>5, <3>3 DEF c
    <3> QED BY <1>2, <3>1, <3>4
  <2>5. Numbers(t, r)
    <3>1. Len(r.lines) = OpenRow(t) + OpenHeight(t) /\ OpenHeight(t) >= 1
      BY <1>2, <1>5, <2>1, <2>4
    <3>2. OpenInk(t) = (OpenHeight(t) - 1) * columns + r.current_columns
      <4> DEFINE y == (h - 1) * columns
      <4>1. y \in Nat
        BY <1>1, <2>2
      <4>2. OpenInk(t) = (y + cc) + 1 /\ r.current_columns = cc + 1
        BY <1>2, <1>5, <2>1
      <4> HIDE DEF y
      <4>3. OpenInk(t) = y + r.current_columns
        BY <2>2, <4>1, <4>2
      <4> QED BY <2>4, <4>3 DEF y
    <3> QED BY <1>6, <3>1, <3>2 DEF Numbers
  <2>6. Placed(t, r)
    <3>1. n <= Len(r.lines) /\ x \in 0..(Len(r.lines) - 1)
      BY <1>1, <1>8, <2>1, <2>3
    <3> QED BY <1>1, <3>1, PlacedAppend DEF Matched, t, n, x
  <2>7. ASSUME NEW row \in 0..(Len(r.lines) - 1) PROVE RowMatches(t, r, row)
    <3>1. row \in 0..(n - 1) /\ row + 1 \in 1..n
      BY <1>1, <2>1
    <3>2. RowMatches(s, l, row)
      BY <3>1 DEF Matched, n
    <3>3. CASE row # n - 1
      <4>1. row + 1 # n /\ row # x
        BY <1>1, <2>3, <3>1, <3>3
      <4>2. r.lines[row + 1] = l.lines[row + 1]
        BY <2>1, <3>1, <4>1
      <4>3. RowInk(t, row) = RowInk(s, row)
        BY <1>4, <4>1
      <4> QED BY <1>3, <3>1, <3>2, <4>2, <4>3, RowKept DEF t, n
    <3>4. CASE row = n - 1
      <4>1. RowInk(t, row) = RowInk(s, row) \cup {Len(s) + 1}
        BY <1>4, <2>3, <3>4
      <4>2. l.lines[n].end = b
        BY DEF Whole, n, b
      <4>3. \A sep : Covered(t, [start |-> l.lines[n].start, end |-> b + len_utf8(ch),
                                 is_separator |-> sep])
                       = Covered(s, l.lines[n]) \cup {Len(s) + 1}
        <5>1. /\ l.lines[n] \in Span /\ l.lines[n].start <= l.lines[n].end
              /\ l.lines[n].end <= b
          BY <1>7, <1>8
        <5> QED BY <4>2, <5>1, CoveredAppend DEF t, b
      <4>4. /\ Covered(t, r.lines[n]) = Covered(s, l.lines[n]) \cup {Len(s) + 1}
            /\ r.lines[n].is_separator = l.lines[n].is_separator
        BY <2>1, <4>3
      <4> QED BY <1>3, <1>8, <3>2, <3>4, <4>1, <4>4 DEF RowMatches
    <3> QED BY <3>3, <3>4
  <2> QED BY <2>1, <2>5, <2>6, <2>7 DEF Matched, t, r, b
<1>11. cc = columns \/ cc < columns
  BY <1>1
<1> QED BY <1>9, <1>10, <1>11

LEMMA MatchedEmpty == Matched(<<>>, new)
<1> DEFINE e == <<>>
<1>1. e \in Seq(Char) /\ Len(e) = 0 /\ e = <<>>
  BY EmptySeq
<1>2. new.lines = <<LineSpan(0, FALSE)>> /\ new.current_columns = 0
  BY DEF new
<1>3. /\ Len(new.lines) = 1 /\ new.lines[1] = LineSpan(0, FALSE)
      /\ LineSpan(0, FALSE).start = 0 /\ LineSpan(0, FALSE).is_separator = FALSE
  BY <1>2 DEF LineSpan
<1>4. 1..0 = {} /\ 0 + 1 = 1 /\ 1 - 1 = 0 /\ 0..0 = {0} /\ columns \in Nat
  BY ColumnsAssumption
<1> HIDE DEF e
<1>5. Inked(e) = {} /\ Marks(e) = {} /\ Newlines(e, 1) = {}
  BY <1>1, <1>4 DEF Inked, Marks, Newlines
<1>6. OpenParagraph(e) = 0
  <2>1. OpenParagraph(e) = Cardinality(Newlines(e, 1))
    BY <1>1, <1>4 DEF OpenParagraph, Paragraph, Newlines
  <2> QED BY <1>5, <2>1, FS_EmptySet
<1>7. InkOf(e, 0) = {}
  BY <1>5 DEF InkOf
<1>8. OpenInk(e) = 0 /\ OpenHeight(e) = 1
  BY <1>6, <1>7, FS_EmptySet DEF OpenInk, OpenHeight, Height
<1>9. OpenRow(e) = 0
  <2>1. 0 \in Nat
    OBVIOUS
  <2> QED BY <1>6, <2>1, FirstRowStep DEF OpenRow
<1>10. MarkRows(e) = {} /\ \A row : RowInk(e, row) = {}
  BY <1>5 DEF MarkRows, RowInk
<1>11. Covered(e, new.lines[1]) = {}
  BY <1>1, <1>4 DEF Covered
<1>12. Numbers(e, new)
  <2>1. (1 - 1) * columns + 0 = 0 /\ 0 + 1 = 1 /\ 1 >= 1
    BY <1>4
  <2> QED BY <1>2, <1>3, <1>8, <1>9, <2>1 DEF Numbers
<1>13. Placed(e, new)
  BY <1>5, <1>10 DEF Placed
<1>14. RowMatches(e, new, 0)
  BY <1>3, <1>4, <1>10, <1>11 DEF RowMatches
<1>15. Matched(e, new)
  BY <1>3, <1>4, <1>12, <1>13, <1>14 DEF Matched
<1> QED BY <1>15 DEF e
LEMMA MatchedText ==
  ASSUME NEW s \in Seq(Char), MarksLead(s)
  PROVE  Matched(s, from_text(s))
<1> DEFINE S == {t \in Seq(Char) : MarksLead(t) => Matched(t, from_text(t))}
<1>1. <<>> \in S
  <2>1. <<>> \in Seq(Char)
    BY EmptySeq
  <2> QED BY <2>1, FromTextEmpty, MatchedEmpty
<1>2. ASSUME NEW t \in Seq(Char), NEW ch \in Char, t \in S
      PROVE  Append(t, ch) \in S
  <2> DEFINE u == Append(t, ch)
  <2>1. /\ u \in Seq(Char) /\ Len(u) = Len(t) + 1 /\ Len(t) \in Nat
        /\ u[Len(t) + 1] = ch /\ \A i \in 1..Len(t) : u[i] = t[i]
    BY AppendProperties, LenProperties
  <2> SUFFICES ASSUME MarksLead(u) PROVE Matched(u, from_text(u))
    BY <2>1
  <2> HIDE DEF u
  <2>2. MarksLead(t)
    <3> SUFFICES ASSUME NEW i \in 2..Len(t), t[i] = "mark" PROVE t[i - 1] = "nl"
      BY DEF MarksLead
    <3>1. i \in 2..Len(u) /\ i \in 1..Len(t) /\ i - 1 \in 1..Len(t)
      BY <2>1
    <3> QED BY <2>1, <3>1 DEF MarksLead
  <2>3. Matched(t, from_text(t)) /\ Whole(t, from_text(t)) /\ Counted(t, from_text(t))
    BY <1>2, <2>2, WholeText, CountedText
  <2>4. ch = "mark" => t = <<>> \/ t[Len(t)] = "nl"
    <3> SUFFICES ASSUME ch = "mark", t # <<>> PROVE t[Len(t)] = "nl"
      OBVIOUS
    <3>1. Len(t) >= 1
      BY EmptySeq
    <3>2. Len(t) + 1 \in 2..Len(u) /\ (Len(t) + 1) - 1 = Len(t) /\ Len(t) \in 1..Len(t)
      BY <2>1, <3>1
    <3> QED BY <2>1, <3>2 DEF MarksLead
  <2>5. Matched(u, append(from_text(t), Len(as_bytes(t)), ch))
    <3>1. CASE ch = "nl"
      BY <2>3, <3>1, MatchedNewline DEF u
    <3>2. CASE ch = "mark"
      BY <2>3, <2>4, <3>2, MatchedMark DEF u
    <3>3. CASE ch \notin {"nl", "mark"}
      BY <2>3, <3>3, MatchedInk DEF u
    <3> QED BY <3>1, <3>2, <3>3
  <2> QED BY <2>5, FromTextAppend DEF u
<1>3. s \in S
  <2> HIDE DEF S
  <2> QED BY <1>1, <1>2, Sequences
<1> QED BY <1>3

(* The page is the reference's: append, which looks at one character and   *)
(* never back, puts every character on the row that counting newlines and  *)
(* columns gives, makes no line too many or too few, and flags the rows of *)
(* the separators and no others: those of earlier boots, found on the disk *)
(* or spliced in with the history, and that of this boot.                  *)
THEOREM LinesStayMatched == Spec => []LinesMatchText
<1>1. PageInv => LinesMatchText
  <2> SUFFICES ASSUME PageInv PROVE LinesMatchText
    OBVIOUS
  <2>1. text \in Seq(Char) /\ Matched(text, layout)
    BY MatchedText, TextLeads DEF PageInv, PaperInv
  <2>2. OpenParagraph(text) \in Nat
    BY <2>1, OpenTypes
  <2>3. FirstRow(text, OpenParagraph(text) + 1) = OpenRow(text) + OpenHeight(text)
    BY <2>2, FirstRowStep DEF OpenRow, OpenHeight
  <2>4. Len(layout.lines) = FirstRow(text, Paragraph(text, Len(text) + 1) + 1)
    BY <2>1, <2>3 DEF Matched, Numbers, OpenParagraph
  <2>5. \A row \in 0..(Len(layout.lines) - 1) :
          /\ Covered(text, layout.lines[row + 1]) = {i \in Inked(text) : Row(text, i) = row}
          /\ layout.lines[row + 1].is_separator <=> row \in MarkRows(text)
    BY <2>1 DEF Matched, RowMatches, RowInk
  <2>6. MarkRows(text) = {FirstRow(text, Paragraph(text, i)) :
                            i \in {j \in 1..Len(text) : text[j] = "mark"}}
    BY DEF MarkRows, Marks
  <2> QED BY <2>4, <2>5, <2>6 DEF LinesMatchText
<1> QED BY <1>1, PageInvariance, PTL
=============================================================================
